------------------------ MODULE PayoutRecordsProofs ------------------------
(***************************************************************************)
(* What the server's records guarantee for any number of plans, payments,  *)
(* requests, rows and months, however the requests interleave: each hash   *)
(* counts once, and only for a plan that its transaction pays.             *)
(*                                                                         *)
(* Neither fact is inductive.  A handler carries a transaction and a row   *)
(* across awaits, so the invariant also says what a handler knows at each  *)
(* place (Knows), and that this knowledge cannot go stale: a transaction   *)
(* that has landed stays landed, and a row never changes its plan (Lasts). *)
(*                                                                         *)
(* What the races cannot exceed is counted: a table gains a row only when  *)
(* a request under way gives its turn up (Trade).                          *)
(*                                                                         *)
(* The rules of the lifecycle hold only if requests come one at a time:    *)
(* then what a handler has tested still holds when it writes.              *)
(***************************************************************************)
EXTENDS PayoutRecords, FiniteSetTheorems, TLAPS

Used(i) == payout[i] # NoRow

\* A text that names a release is the hash the server computed from it.
OwnHash(h) == Named[h] \in Payments \/ h \in Releases

\* What the handler of request r may rely on, wherever it stands.
Knows(r) ==
    /\ job[r].at # "idle" => job[r].plan \in Plans
    /\ job[r].at = "setStatus" => job[r].next \in PlanStatus
    /\ job[r].at \notin {"idle", "firstPayout", "setStatus"} => job[r].tx \in Hashes
    /\ job[r].at \in {"submit", "poll", "recorded"} =>
           job[r].tx \in Releases /\ job[r].plan \in Covers[job[r].tx]
    /\ job[r].at = "recorded" => chain[job[r].tx] = "landed"
    /\ job[r].at \in {"ensure", "find", "insert", "send"} =>
           Verified(job[r].tx, job[r].plan) /\ OwnHash(job[r].tx)
    /\ job[r].at \in {"find", "insert"} => job[r].seen \in Periods /\ job[r].seen <= period
    /\ job[r].at = "send" =>
           /\ job[r].row \in Rows
           /\ Used(job[r].row)
           /\ payout[job[r].row].plan = job[r].plan

\* What no step takes back.
Lasts ==
    /\ \A t \in Txs : chain[t] = "landed" => chain'[t] = "landed"
    /\ \A i \in Rows : Used(i) => Used(i)' /\ payout'[i].plan = payout[i].plan

UniqueTx ==
    \A i, j \in Rows :
        Used(i) /\ Used(j) /\ payout[i].tx \in Hashes /\ payout[i].tx = payout[j].tx
            => i = j

SentHasTx == \A i \in Rows : Sent(i) => payout[i].tx \in Hashes /\ OwnHash(payout[i].tx)

\* Records are of months that have come.
Dated == \A i \in Rows : Used(i) => payout[i].period <= period

IInv ==
    /\ TypeOK
    /\ \A r \in Requests : Knows(r)
    /\ UniqueTx
    /\ SentHasTx
    /\ SentMeansPaid
    /\ Dated

USE HashesAssumption, EscrowedAssumption, CoversAssumption, PeriodAssumption, NoTxAssumption,
    NoPlanAssumption, NoRowAssumption

-----------------------------------------------------------------------------
\* Every record the server inserts is a payout record of that plan and month.
LEMMA InsertType ==
    ASSUME TypeOK, NEW p \in Plans, NEW m \in Periods, Insert(p, m)
    PROVE  payout' \in [Rows -> Payout \cup {NoRow}]
BY DEF TypeOK, Insert, Payout

\* The handler's locals keep their types when it starts, goes on and stops.
LEMMA EnterType ==
    ASSUME TypeOK, NEW r \in Requests, NEW place \in Places, NEW p \in Plans,
           NEW t \in Hashes \cup {NoTx}, NEW s \in PlanStatus \cup {NoPlan},
           Enter(r, place, p, t, s)
    PROVE  job' \in [Requests -> Job]
<1> DEFINE new == [at |-> place, plan |-> p, tx |-> t, next |-> s, seen |-> 0, row |-> 0]
<1>1. new \in Job
    BY DEF Job
<1> QED
    BY <1>1 DEF TypeOK, Enter

LEMMA GotoType ==
    ASSUME TypeOK, NEW r \in Requests, NEW place \in Places, Goto(r, place)
    PROVE  job' \in [Requests -> Job]
BY DEF TypeOK, Goto, Job

LEMMA FoundType ==
    ASSUME TypeOK, NEW r \in Requests, NEW i \in Rows, Found(r, i)
    PROVE  job' \in [Requests -> Job]
<1> DEFINE found == [job[r] EXCEPT !.at = "send", !.row = i]
<1>1. /\ job[r] \in Job
      /\ "send" \in Places
      /\ i \in 0 .. MaxRows
    BY DEF TypeOK, Places, Rows
<1>2. found \in Job
    BY <1>1 DEF Job
<1>3. job' = [job EXCEPT ![r] = found]
    BY DEF Found
<1> HIDE DEF found
<1> QED
    BY <1>2, <1>3 DEF TypeOK

LEMMA ReturnType ==
    ASSUME TypeOK, NEW r \in Requests, Return(r)
    PROVE  job' \in [Requests -> Job]
BY DEF TypeOK, Return, Idle, Job, Places

\* No step takes the clock back.
LEMMA MonthsPass ==
    ASSUME TypeOK, [Next]_vars
    PROVE  period \in Int /\ period' \in Int /\ period <= period'
<1>1. period \in Int
    BY DEF TypeOK, Periods
<1>2. NextPeriod \/ UNCHANGED period
    BY DEF Next, Handler, vars, InsertAllowance, ChangeStatus, SetStatus, RecordPayment,
       RecordRelease, CheckDuplicate, VerifyAllowancePayment, PollTransaction,
       ReturnRecorded, ReadPeriod, FindScheduled, Abort, SendTransaction, Resend,
       SubmitPayment, Settle, InsertFirstPayout, InsertScheduled, MarkSent
<1> QED
    BY <1>1, <1>2 DEF NextPeriod

LEMMA InitIInv == Init => IInv
<1> SUFFICES ASSUME Init PROVE IInv
    OBVIOUS
<1>1. TypeOK
    BY DEF Init, TypeOK, Idle, Job, Places, Periods, Rows
<1>2. \A r \in Requests : Knows(r)
    BY DEF Init, Knows, Idle
<1>3. UniqueTx /\ SentHasTx /\ SentMeansPaid /\ Dated
    BY DEF Init, UniqueTx, SentHasTx, SentMeansPaid, Dated, Sent, Used
<1> QED
    BY <1>1, <1>2, <1>3 DEF IInv

-----------------------------------------------------------------------------
\* The type invariant needs what the handlers know: the plan, transaction, month
\* and row that a later statement writes were read at an earlier one.
LEMMA TypeStep == IInv /\ [Next]_vars => TypeOK'
<1> SUFFICES ASSUME IInv, [Next]_vars PROVE TypeOK'
    OBVIOUS
<1> USE DEF TypeOK, Txs
<1>0. TypeOK /\ \A r \in Requests : Knows(r)
    BY DEF IInv
<1>1. ASSUME NEW r \in Requests, NEW p \in Plans, InsertAllowance(r, p)
      PROVE  TypeOK'
  <2>1. job' \in [Requests -> Job]
      BY <1>0, <1>1, EnterType DEF InsertAllowance, Places
  <2> QED
      BY <1>0, <1>1, <2>1 DEF InsertAllowance, PlanStatus
<1>2. ASSUME NEW r \in Requests, NEW p \in Plans, ChangeStatus(r, p)
      PROVE  TypeOK'
  <2>1. PICK t \in ALLOWANCE_TRANSITIONS : Enter(r, "setStatus", p, NoTx, t[3])
      BY <1>2 DEF ChangeStatus
  <2>2. t[3] \in PlanStatus
      BY DEF ALLOWANCE_TRANSITIONS, PlanStatus
  <2>3. job' \in [Requests -> Job]
      BY <1>0, <2>1, <2>2, EnterType DEF Places
  <2> QED
      BY <1>0, <1>2, <2>3 DEF ChangeStatus
<1>3. ASSUME NEW r \in Requests, NEW p \in Plans, NEW t \in Hashes,
             RecordPayment(r, p, t) \/ RecordRelease(r, p, t)
      PROVE  TypeOK'
  <2>1. job' \in [Requests -> Job]
      BY <1>0, <1>3, EnterType DEF RecordPayment, RecordRelease, Places
  <2> QED
      BY <1>0, <1>3, <2>1 DEF RecordPayment, RecordRelease
<1>4. ASSUME NEW r \in Requests, InsertFirstPayout(r)
      PROVE  TypeOK'
  <2>1. job[r].plan \in Plans /\ CurrentPeriod \in Periods
      BY <1>0, <1>4 DEF InsertFirstPayout, At, Knows, CurrentPeriod
  <2>2. payout' \in [Rows -> Payout \cup {NoRow}]
      BY <1>0, <1>4, <2>1, InsertType DEF InsertFirstPayout
  <2> QED
      BY <1>0, <1>4, <2>2, ReturnType DEF InsertFirstPayout
<1>5. ASSUME NEW r \in Requests, SetStatus(r)
      PROVE  TypeOK'
    BY <1>0, <1>5, ReturnType DEF SetStatus, At, Knows
<1>6. ASSUME NEW r \in Requests,
             CheckDuplicate(r) \/ VerifyAllowancePayment(r) \/ SendTransaction(r)
             \/ PollTransaction(r) \/ Resend(r) \/ ReturnRecorded(r) \/ Abort(r)
      PROVE  TypeOK'
  <2>1. job' \in [Requests -> Job]
      BY <1>0, <1>6, GotoType, ReturnType DEF CheckDuplicate, VerifyAllowancePayment,
         SendTransaction, PollTransaction, Resend, ReturnRecorded, Abort, Places
  <2>2. chain' \in [Txs -> {"unsent", "pending", "landed", "failed"}]
      BY <1>0, <1>6 DEF CheckDuplicate, VerifyAllowancePayment, SendTransaction,
         PollTransaction, Resend, ReturnRecorded, Abort
  <2> QED
      BY <1>0, <1>6, <2>1, <2>2 DEF CheckDuplicate, VerifyAllowancePayment,
         SendTransaction, PollTransaction, Resend, ReturnRecorded, Abort
<1>7. ASSUME NEW r \in Requests, ReadPeriod(r) \/ FindScheduled(r)
      PROVE  TypeOK'
  <2>1. CASE ReadPeriod(r)
    <3> DEFINE moved == [job EXCEPT ![r].at = "find"]
    <3>1. moved \in [Requests -> Job]
        BY <1>0 DEF Job, Places
    <3>2. job' = [moved EXCEPT ![r].seen = period]
        BY <2>1 DEF ReadPeriod, CurrentPeriod
    <3> HIDE DEF moved
    <3>3. period \in 0 .. MaxPeriod
        BY <1>0 DEF Periods
    <3>4. job' \in [Requests -> Job]
        BY <3>1, <3>2, <3>3 DEF Job
    <3> QED
        BY <1>0, <2>1, <3>4 DEF ReadPeriod
  <2>2. CASE FindScheduled(r)
    <3>1. job' \in [Requests -> Job]
        BY <1>0, <2>2, FoundType, GotoType DEF FindScheduled, Places
    <3> QED
        BY <1>0, <2>2, <3>1 DEF FindScheduled
  <2> QED
      BY <1>7, <2>1, <2>2
<1>8. ASSUME NEW r \in Requests, InsertScheduled(r)
      PROVE  TypeOK'
  <2>1. job[r].plan \in Plans /\ job[r].seen \in Periods
      BY <1>0, <1>8 DEF InsertScheduled, At, Knows
  <2>2. payout' \in [Rows -> Payout \cup {NoRow}]
      BY <1>0, <1>8, <2>1, InsertType DEF InsertScheduled
  <2> QED
      BY <1>0, <1>8, <2>2, FoundType DEF InsertScheduled
<1>9. ASSUME NEW r \in Requests, MarkSent(r)
      PROVE  TypeOK'
  <2>1. /\ job[r].row \in Rows
        /\ job[r].tx \in Hashes
        /\ payout[job[r].row] \in Payout
      BY <1>0, <1>9 DEF MarkSent, At, Knows, Used
  <2>2. payout' \in [Rows -> Payout \cup {NoRow}]
      BY <1>0, <1>9, <2>1 DEF MarkSent, Payout
  <2> QED
      BY <1>0, <1>9, <2>2, ReturnType DEF MarkSent
<1>10. ASSUME NEW t \in Txs, SubmitPayment(t) \/ Settle(t)
       PROVE  TypeOK'
    BY <1>0, <1>10 DEF SubmitPayment, Settle
<1>11. CASE NextPeriod
    BY <1>0, <1>11 DEF NextPeriod, Periods
<1>12. CASE UNCHANGED vars
    BY <1>0, <1>12 DEF vars
<1> QED
    BY <1>1, <1>2, <1>3, <1>4, <1>5, <1>6, <1>7, <1>8, <1>9, <1>10, <1>11, <1>12
    DEF Next, Handler

\* A transaction that has landed stays landed; a row keeps its plan for good.
LEMMA StepLasts == IInv /\ [Next]_vars => Lasts
<1> SUFFICES ASSUME IInv, [Next]_vars PROVE Lasts
    OBVIOUS
<1> USE DEF Lasts, Used
<1>0. TypeOK /\ \A r \in Requests : Knows(r)
    BY DEF IInv
<1>1. ASSUME NEW p, NEW m, Insert(p, m), UNCHANGED chain
      PROVE  Lasts
    BY <1>0, <1>1 DEF Insert, TypeOK
<1>2. ASSUME NEW r \in Requests, MarkSent(r)
      PROVE  Lasts
  <2>1. /\ job[r].row \in Rows
        /\ job[r].tx \in Hashes
        /\ payout[job[r].row] \in Payout
      BY <1>0, <1>2 DEF MarkSent, At, Knows, Used, TypeOK
  <2>2. UNCHANGED chain
      BY <1>2 DEF MarkSent
  <2>3. CASE UNCHANGED payout
      BY <2>2, <2>3
  <2>4. CASE payout' = [payout EXCEPT ![job[r].row].status = "sent",
                                      ![job[r].row].tx = job[r].tx]
    <3>1. payout'[job[r].row] \in Payout
        BY <1>0, <2>1, <2>4 DEF TypeOK, Payout
    <3> QED
        BY <1>0, <2>1, <2>2, <2>4, <3>1 DEF TypeOK, Payout
  <2> QED
      BY <1>2, <2>3, <2>4 DEF MarkSent
<1>3. ASSUME NEW r \in Requests, SendTransaction(r) \/ Resend(r)
      PROVE  Lasts
    BY <1>0, <1>3 DEF SendTransaction, Resend, TypeOK
<1>4. ASSUME NEW t \in Txs, SubmitPayment(t) \/ Settle(t)
      PROVE  Lasts
    BY <1>0, <1>4 DEF SubmitPayment, Settle, TypeOK
<1>5. CASE UNCHANGED <<payout, chain>>
    BY <1>5
<1>6. CASE \E r \in Requests : InsertFirstPayout(r) \/ InsertScheduled(r)
    BY <1>1, <1>6 DEF InsertFirstPayout, InsertScheduled
<1>7. [Next]_vars => \/ \E r \in Requests : InsertFirstPayout(r) \/ InsertScheduled(r)
                     \/ \E r \in Requests : MarkSent(r) \/ SendTransaction(r) \/ Resend(r)
                     \/ \E t \in Txs : SubmitPayment(t) \/ Settle(t)
                     \/ UNCHANGED <<payout, chain>>
    BY DEF Next, Handler, vars, InsertAllowance, ChangeStatus, SetStatus, RecordPayment,
       RecordRelease, CheckDuplicate, VerifyAllowancePayment, PollTransaction,
       ReturnRecorded, ReadPeriod, FindScheduled, Abort, NextPeriod
<1> QED
    BY <1>2, <1>3, <1>4, <1>5, <1>6, <1>7

-----------------------------------------------------------------------------
\* A handler that does not move keeps what it knows, whatever the others do.
LEMMA KnowsLasts ==
    ASSUME IInv, Lasts, period \in Int, period' \in Int, period <= period',
           NEW r \in Requests, job'[r] = job[r]
    PROVE  Knows(r)'
<1>1. Knows(r)
    BY DEF IInv
<1>2. ASSUME job[r].seen \in Periods, job[r].seen <= period
      PROVE  job[r].seen <= period'
    BY <1>2 DEF Periods
<1>3. ASSUME job[r].tx \in Hashes, Verified(job[r].tx, job[r].plan)
      PROVE  chain'[Named[job[r].tx]] = "landed"
    BY <1>3 DEF Lasts, Verified
<1>4. ASSUME job[r].tx \in Releases, chain[job[r].tx] = "landed"
      PROVE  chain'[job[r].tx] = "landed"
    BY <1>4 DEF Lasts, Txs
<1>5. ASSUME job[r].row \in Rows, Used(job[r].row)
      PROVE  Used(job[r].row)' /\ payout'[job[r].row].plan = payout[job[r].row].plan
    BY <1>5 DEF Lasts, Used
<1> QED
    BY <1>1, <1>2, <1>3, <1>4, <1>5 DEF Knows, Verified, OwnHash, Used

\* A handler that only moves on keeps its locals.
LEMMA GotoLocals ==
    ASSUME TypeOK, NEW r \in Requests, NEW place, Goto(r, place)
    PROVE  /\ job'[r].at = place
           /\ job'[r].plan = job[r].plan
           /\ job'[r].tx = job[r].tx
           /\ job'[r].next = job[r].next
           /\ job'[r].seen = job[r].seen
           /\ \A o \in Requests \ {r} : job'[o] = job[o]
BY DEF TypeOK, Goto, Job

LEMMA FoundLocals ==
    ASSUME TypeOK, NEW r \in Requests, NEW i, Found(r, i)
    PROVE  /\ job'[r].at = "send"
           /\ job'[r].row = i
           /\ job'[r].plan = job[r].plan
           /\ job'[r].tx = job[r].tx
           /\ \A o \in Requests \ {r} : job'[o] = job[o]
<1> DEFINE moved == [job EXCEPT ![r].at = "send"]
<1>1. /\ moved \in [Requests -> [at : {"send"} \cup Places, plan : Plans \cup {NoPlan},
                     tx : Hashes \cup {NoTx}, next : PlanStatus \cup {NoPlan},
                     seen : 0 .. MaxPeriod, row : 0 .. MaxRows]]
      /\ moved[r].at = "send" /\ moved[r].plan = job[r].plan /\ moved[r].tx = job[r].tx
      /\ \A o \in Requests \ {r} : moved[o] = job[o]
    BY DEF TypeOK, Job
<1>2. job' = [moved EXCEPT ![r].row = i]
    BY DEF Found
<1> HIDE DEF moved
<1> QED
    BY <1>1, <1>2

LEMMA ReturnLocals ==
    ASSUME TypeOK, NEW r \in Requests, Return(r)
    PROVE  /\ job'[r].at = "idle"
           /\ \A o \in Requests \ {r} : job'[o] = job[o]
BY DEF TypeOK, Return, Idle

\* What the moving handler knows where it arrives.  Each place hands its
\* knowledge to the next one; the tests on the way add what they tested.
LEMMA KnowsStep == IInv /\ [Next]_vars => \A r \in Requests : Knows(r)'
<1> SUFFICES ASSUME IInv, [Next]_vars PROVE \A r \in Requests : Knows(r)'
    OBVIOUS
<1>0. TypeOK /\ TypeOK' /\ Lasts /\ \A r \in Requests : Knows(r)
    BY TypeStep, StepLasts DEF IInv
<1>m. period \in Int /\ period' \in Int /\ period <= period'
    BY MonthsPass DEF IInv
<1>a. \A r \in Requests : job'[r] = job[r] => Knows(r)'
    BY <1>0, <1>m, KnowsLasts
<1>b. ASSUME NEW r \in Requests, Return(r)
      PROVE  \A o \in Requests : Knows(o)'
    BY <1>0, <1>a, <1>b, ReturnLocals DEF Knows
<1>1. ASSUME NEW r \in Requests, NEW p \in Plans, NEW t \in Hashes \cup {NoTx},
             NEW s \in PlanStatus \cup {NoPlan}, NEW place \in Places,
             Enter(r, place, p, t, s),
             place \in {"firstPayout", "setStatus", "duplicate", "submit"},
             place = "setStatus" => s \in PlanStatus,
             place \in {"duplicate", "submit"} => t \in Hashes,
             place = "submit" => t \in Releases /\ p \in Covers[t]
      PROVE  \A o \in Requests : Knows(o)'
  <2>1. /\ job'[r] = [at |-> place, plan |-> p, tx |-> t, next |-> s,
                      seen |-> 0, row |-> 0]
        /\ \A o \in Requests \ {r} : job'[o] = job[o]
      BY <1>0, <1>1 DEF Enter, TypeOK
  <2>2. Knows(r)'
      BY <1>1, <2>1 DEF Knows
  <2> QED
      BY <1>a, <2>1, <2>2
<1>2. ASSUME NEW r \in Requests, NEW p \in Plans, InsertAllowance(r, p)
      PROVE  \A o \in Requests : Knows(o)'
    BY <1>1, <1>2 DEF InsertAllowance, Places
<1>3. ASSUME NEW r \in Requests, NEW p \in Plans, ChangeStatus(r, p)
      PROVE  \A o \in Requests : Knows(o)'
  <2>1. PICK t \in ALLOWANCE_TRANSITIONS : Enter(r, "setStatus", p, NoTx, t[3])
      BY <1>3 DEF ChangeStatus
  <2>2. t[3] \in PlanStatus
      BY DEF ALLOWANCE_TRANSITIONS, PlanStatus
  <2> QED
      BY <1>1, <2>1, <2>2 DEF Places
<1>4. ASSUME NEW r \in Requests, NEW p \in Plans, NEW t \in Hashes,
             RecordPayment(r, p, t)
      PROVE  \A o \in Requests : Knows(o)'
    BY <1>1, <1>4 DEF RecordPayment, Places
<1>5. ASSUME NEW r \in Requests, NEW p \in Plans, NEW t \in Releases,
             RecordRelease(r, p, t)
      PROVE  \A o \in Requests : Knows(o)'
    BY <1>1, <1>5 DEF RecordRelease, ReleasesScheduleOf, Places, Txs
<1>6. ASSUME NEW r \in Requests, CheckDuplicate(r)
      PROVE  \A o \in Requests : Knows(o)'
  <2>1. CASE Goto(r, "verify")
      BY <1>0, <1>a, <1>6, <2>1, GotoLocals DEF CheckDuplicate, At, Knows
  <2> QED
      BY <1>6, <1>b, <2>1 DEF CheckDuplicate
<1>7. ASSUME NEW r \in Requests, VerifyAllowancePayment(r)
      PROVE  \A o \in Requests : Knows(o)'
  <2>1. CASE /\ Named[job[r].tx] \in Payments /\ Verified(job[r].tx, job[r].plan)
             /\ Goto(r, "ensure")
      BY <1>0, <1>a, <1>7, <2>1, GotoLocals
      DEF VerifyAllowancePayment, At, Knows, Verified, OwnHash
  <2> QED
      BY <1>7, <1>b, <2>1 DEF VerifyAllowancePayment
<1>8. ASSUME NEW r \in Requests, SendTransaction(r)
      PROVE  \A o \in Requests : Knows(o)'
  <2>1. CASE Goto(r, "poll")
      BY <1>0, <1>a, <1>8, <2>1, GotoLocals DEF SendTransaction, At, Knows
  <2> QED
      BY <1>8, <1>b, <2>1 DEF SendTransaction
<1>9. ASSUME NEW r \in Requests, PollTransaction(r)
      PROVE  \A o \in Requests : Knows(o)'
  <2>1. CASE chain[job[r].tx] = "landed" /\ Goto(r, "recorded")
      BY <1>0, <1>a, <1>9, <2>1, GotoLocals DEF PollTransaction, At, Knows
  <2> QED
      BY <1>9, <1>b, <2>1 DEF PollTransaction
<1>10. ASSUME NEW r \in Requests, ReturnRecorded(r)
       PROVE  \A o \in Requests : Knows(o)'
  <2>1. CASE Goto(r, "ensure")
    <3>1. /\ job[r].at = "recorded" /\ UNCHANGED chain
          /\ Named[job[r].tx] = job[r].tx /\ job[r].tx \in Releases
        BY <1>0, <1>10 DEF ReturnRecorded, At, Knows, Txs
    <3> QED
        BY <1>0, <1>a, <2>1, <3>1, GotoLocals DEF Knows, Verified, OwnHash
  <2> QED
      BY <1>10, <1>b, <2>1 DEF ReturnRecorded
<1>11. ASSUME NEW r \in Requests, ReadPeriod(r)
       PROVE  \A o \in Requests : Knows(o)'
  <2> DEFINE moved == [job EXCEPT ![r].at = "find"]
  <2>0. job \in [Requests -> Job]
      BY <1>0 DEF TypeOK
  <2>1. /\ moved \in [Requests -> Job]
        /\ moved[r].at = "find" /\ moved[r].plan = job[r].plan
        /\ moved[r].tx = job[r].tx
        /\ \A o \in Requests \ {r} : moved[o] = job[o]
      BY <2>0 DEF Job, Places
  <2>2. job' = [moved EXCEPT ![r].seen = period]
      BY <1>11 DEF ReadPeriod, CurrentPeriod
  <2> HIDE DEF moved
  <2>3. /\ job'[r].at = "find" /\ job'[r].plan = job[r].plan
        /\ job'[r].tx = job[r].tx /\ job'[r].seen = period
        /\ \A o \in Requests \ {r} : job'[o] = job[o]
      BY <2>1, <2>2 DEF Job
  <2>4. period \in Periods /\ period <= period'
      BY <1>0, <1>m DEF TypeOK
  <2>5. job[r].at = "ensure"
      BY <1>11 DEF ReadPeriod, At
  <2>6. Knows(r)'
      BY <1>0, <2>3, <2>4, <2>5 DEF Knows, Verified, OwnHash, Lasts
  <2> QED
      BY <1>a, <2>3, <2>6
<1>12. ASSUME NEW r \in Requests, FindScheduled(r)
       PROVE  \A o \in Requests : Knows(o)'
  <2>1. CASE Goto(r, "insert")
    <3>1. UNCHANGED <<period, chain>> /\ job[r].at = "find"
        BY <1>12 DEF FindScheduled, At
    <3>2. /\ job'[r].at = "insert" /\ job'[r].plan = job[r].plan /\ job'[r].tx = job[r].tx
          /\ job'[r].seen = job[r].seen /\ \A o \in Requests \ {r} : job'[o] = job[o]
        BY <1>0, <2>1, GotoLocals
    <3>3. Knows(r)'
        BY <1>0, <3>1, <3>2 DEF Knows, Verified, OwnHash
    <3> QED
        BY <1>a, <3>2, <3>3
  <2>2. ASSUME NEW i \in Rows, IsScheduled(i, job[r].plan, job[r].seen), Found(r, i)
        PROVE  \A o \in Requests : Knows(o)'
      BY <1>0, <1>a, <1>12, <2>2, FoundLocals
      DEF FindScheduled, IsScheduled, At, Knows, Verified, OwnHash, Used
  <2> QED
      BY <1>12, <2>1, <2>2 DEF FindScheduled
<1>13. ASSUME NEW r \in Requests, InsertScheduled(r)
       PROVE  \A o \in Requests : Knows(o)'
  <2>1. PICK i \in Rows : payout[i] # payout'[i] /\ Found(r, i)
      BY <1>13 DEF InsertScheduled
  <2>2. Used(i)' /\ payout'[i].plan = job[r].plan
    <3>1. /\ job[r].plan \in Plans
          /\ job[r].seen \in Periods
        BY <1>0, <1>13 DEF InsertScheduled, At, Knows
    <3>2. PICK k \in Rows : payout' = [payout EXCEPT ![k] =
              [plan |-> job[r].plan, period |-> job[r].seen,
               status |-> "scheduled", tx |-> NoTx]]
        BY <1>13 DEF InsertScheduled, Insert
    <3>3. k = i
        BY <1>0, <2>1, <3>2 DEF TypeOK
    <3>4. payout'[i] = [plan |-> job[r].plan, period |-> job[r].seen,
                        status |-> "scheduled", tx |-> NoTx]
        BY <1>0, <3>2, <3>3 DEF TypeOK
    <3>5. payout'[i] \in Payout
        BY <3>1, <3>4 DEF Payout
    <3> QED
        BY <3>4, <3>5 DEF Used
  <2> QED
      BY <1>0, <1>a, <1>13, <2>1, <2>2, FoundLocals
      DEF InsertScheduled, At, Knows, Verified, OwnHash
<1>14. ASSUME NEW r \in Requests,
              InsertFirstPayout(r) \/ SetStatus(r) \/ MarkSent(r) \/ Abort(r)
       PROVE  \A o \in Requests : Knows(o)'
    BY <1>14, <1>b DEF InsertFirstPayout, SetStatus, MarkSent, Abort
<1>15. CASE UNCHANGED job
    BY <1>a, <1>15
<1>16. [Next]_vars =>
          \/ \E r \in Requests, p \in Plans : InsertAllowance(r, p) \/ ChangeStatus(r, p)
          \/ \E r \in Requests, p \in Plans, h \in Hashes : RecordPayment(r, p, h)
          \/ \E r \in Requests, p \in Plans, t \in Releases : RecordRelease(r, p, t)
          \/ \E r \in Requests : Handler(r) \/ Abort(r)
          \/ UNCHANGED job
    BY DEF Next, vars, SubmitPayment, Settle, NextPeriod
<1>17. \A r \in Requests : Resend(r) => UNCHANGED job
    BY DEF Resend
<1> QED
    BY <1>2, <1>3, <1>4, <1>5, <1>6, <1>7, <1>8, <1>9, <1>10, <1>11, <1>12, <1>13,
       <1>14, <1>15, <1>16, <1>17 DEF Handler

-----------------------------------------------------------------------------
\* The row that MarkSent writes, when the database accepts the update.
LEMMA MarkedRow ==
    ASSUME IInv, NEW r \in Requests, MarkSent(r), payout' # payout
    PROVE  /\ job[r].row \in Rows /\ Used(job[r].row)
           /\ job[r].tx \in Hashes /\ OwnHash(job[r].tx)
           /\ Verified(job[r].tx, payout[job[r].row].plan)
           /\ TxHashFree(job[r].row, job[r].tx)
           /\ payout'[job[r].row].tx = job[r].tx
           /\ payout'[job[r].row].plan = payout[job[r].row].plan
           /\ payout'[job[r].row].period = payout[job[r].row].period
           /\ \A i \in Rows \ {job[r].row} : payout'[i] = payout[i]
<1>1. /\ Knows(r) /\ job[r].at = "send" /\ TypeOK
    BY DEF IInv, MarkSent, At
<1>2. /\ job[r].row \in Rows /\ Used(job[r].row)
      /\ job[r].tx \in Hashes /\ OwnHash(job[r].tx)
      /\ Verified(job[r].tx, payout[job[r].row].plan)
    BY <1>1 DEF Knows
<1>3. /\ TxHashFree(job[r].row, job[r].tx)
      /\ payout' = [payout EXCEPT ![job[r].row].status = "sent",
                                  ![job[r].row].tx = job[r].tx]
    BY DEF MarkSent
<1>4. payout[job[r].row] \in Payout
    BY <1>1, <1>2 DEF TypeOK, Used
<1> DEFINE marked == [payout EXCEPT ![job[r].row].status = "sent"]
<1>5. /\ marked \in [Rows -> Payout \cup {NoRow}]
      /\ marked[job[r].row] \in Payout
      /\ marked[job[r].row].plan = payout[job[r].row].plan
      /\ marked[job[r].row].period = payout[job[r].row].period
      /\ \A i \in Rows \ {job[r].row} : marked[i] = payout[i]
    BY <1>1, <1>2, <1>4 DEF TypeOK, Payout
<1>6. payout' = [marked EXCEPT ![job[r].row].tx = job[r].tx]
    BY <1>3
<1> HIDE DEF marked
<1>7. /\ payout'[job[r].row].tx = job[r].tx
      /\ payout'[job[r].row].plan = payout[job[r].row].plan
      /\ payout'[job[r].row].period = payout[job[r].row].period
      /\ \A i \in Rows \ {job[r].row} : payout'[i] = payout[i]
    BY <1>2, <1>5, <1>6 DEF Payout
<1> QED
    BY <1>2, <1>3, <1>7

\* A new row is scheduled and has no transaction; the others stay.
LEMMA InsertedRow ==
    ASSUME TypeOK, NEW p, NEW m, Insert(p, m)
    PROVE  \E i \in Rows :
              /\ payout[i] = NoRow
              /\ payout'[i].tx = NoTx /\ payout'[i].status = "scheduled"
              /\ \A j \in Rows \ {i} : payout'[j] = payout[j]
BY DEF TypeOK, Insert

\* Only these write the table.
LEMMA Writers ==
    ASSUME [Next]_vars
    PROVE  \/ \E r \in Requests : MarkSent(r)
           \/ \E p, m : Insert(p, m)
           \/ UNCHANGED payout
BY DEF Next, Handler, vars, InsertAllowance, ChangeStatus, SetStatus, RecordPayment,
   RecordRelease, CheckDuplicate, VerifyAllowancePayment, PollTransaction,
   ReturnRecorded, ReadPeriod, FindScheduled, Abort, NextPeriod, SendTransaction,
   Resend, SubmitPayment, Settle, InsertFirstPayout, InsertScheduled

\* The unique constraint guards every write of a transaction.
LEMMA UniqueStep == IInv /\ [Next]_vars => UniqueTx'
<1> SUFFICES ASSUME IInv, [Next]_vars PROVE UniqueTx'
    OBVIOUS
<1>0. TypeOK /\ UniqueTx
    BY DEF IInv
<1>1. CASE \E r \in Requests : MarkSent(r) /\ payout' # payout
  <2>1. PICK r \in Requests : MarkSent(r) /\ payout' # payout
      BY <1>1
  <2> QED
      BY <1>0, <2>1, MarkedRow DEF UniqueTx, Used, TxHashFree
<1>2. CASE \E p, m : Insert(p, m)
  <2>1. PICK i \in Rows :
            /\ payout'[i].tx = NoTx
            /\ \A j \in Rows \ {i} : payout'[j] = payout[j]
      BY <1>0, <1>2, InsertedRow
  <2> QED
      BY <1>0, <2>1 DEF UniqueTx, Used
<1>3. CASE UNCHANGED payout
    BY <1>0, <1>3 DEF UniqueTx, Used
<1> QED
    BY <1>1, <1>2, <1>3, Writers

\* A row that becomes sent, or is sent again, has a transaction that landed and
\* pays the row's plan; a row that was sent keeps one.
LEMMA PaidStep == IInv /\ [Next]_vars => SentHasTx' /\ SentMeansPaid'
<1> SUFFICES ASSUME IInv, [Next]_vars, NEW i \in Rows, Sent(i)'
             PROVE  /\ payout'[i].tx \in Hashes /\ OwnHash(payout'[i].tx)
                    /\ Verified(payout[i].tx, payout[i].plan)'
    BY DEF SentHasTx, SentMeansPaid, OwnHash
<1>0. TypeOK /\ SentHasTx /\ SentMeansPaid /\ Lasts
    BY StepLasts DEF IInv
<1>1. ASSUME payout'[i] = payout[i]
      PROVE  /\ payout'[i].tx \in Hashes /\ OwnHash(payout'[i].tx)
             /\ Verified(payout[i].tx, payout[i].plan)'
    BY <1>0, <1>1 DEF SentHasTx, SentMeansPaid, Sent, Verified, Lasts
<1>2. CASE \E r \in Requests : MarkSent(r) /\ payout' # payout
  <2>1. PICK r \in Requests : MarkSent(r) /\ payout' # payout
      BY <1>2
  <2>2. CASE i = job[r].row
      BY <1>0, <2>1, <2>2, MarkedRow DEF Verified, Lasts
  <2>3. CASE i # job[r].row
      BY <1>1, <2>1, <2>3, MarkedRow
  <2> QED
      BY <2>2, <2>3
<1>3. CASE \E p, m : Insert(p, m)
  <2>1. PICK k \in Rows :
            /\ payout'[k].status = "scheduled"
            /\ \A j \in Rows \ {k} : payout'[j] = payout[j]
      BY <1>0, <1>3, InsertedRow
  <2> QED
      BY <1>1, <2>1 DEF Sent
<1>4. CASE UNCHANGED payout
    BY <1>1, <1>4
<1> QED
    BY <1>2, <1>3, <1>4, Writers

\* A record is inserted for the month of the clock, or for one read off it before.
LEMMA DatedStep == IInv /\ [Next]_vars => Dated'
<1> SUFFICES ASSUME IInv, [Next]_vars PROVE Dated'
    OBVIOUS
<1>0. /\ TypeOK /\ Dated /\ \A r \in Requests : Knows(r)
      /\ period \in Int /\ period' \in Int /\ period <= period'
    BY MonthsPass DEF IInv
<1>1. ASSUME NEW i \in Rows, Used(i), payout'[i].period = payout[i].period
      PROVE  payout'[i].period <= period'
  <2>1. payout[i].period \in Int /\ payout[i].period <= period
      BY <1>0, <1>1 DEF Dated, TypeOK, Used, Payout, Periods
  <2> QED
      BY <1>0, <1>1, <2>1
<1>2. ASSUME NEW p \in Plans, NEW m \in Periods, Insert(p, m), m <= period'
      PROVE  Dated'
  <2>1. PICK k \in Rows : payout' = [payout EXCEPT ![k] =
            [plan |-> p, period |-> m, status |-> "scheduled", tx |-> NoTx]]
      BY <1>2 DEF Insert
  <2>2. payout'[k].period = m /\ \A j \in Rows \ {k} : payout'[j] = payout[j]
      BY <1>0, <2>1 DEF TypeOK
  <2> QED
      BY <1>1, <1>2, <2>2 DEF Dated, Used
<1>3. CASE \E r \in Requests : MarkSent(r) /\ payout' # payout
    BY <1>1, <1>3, MarkedRow DEF Dated, Used
<1>4. CASE \E r \in Requests : InsertFirstPayout(r)
  <2>1. PICK r \in Requests : InsertFirstPayout(r)
      BY <1>4
  <2>2. job[r].plan \in Plans /\ period \in Periods /\ Insert(job[r].plan, period)
      BY <1>0, <2>1 DEF InsertFirstPayout, CurrentPeriod, At, Knows, TypeOK
  <2> QED
      BY <1>0, <1>2, <2>2
<1>5. CASE \E r \in Requests : InsertScheduled(r)
  <2>1. PICK r \in Requests : InsertScheduled(r)
      BY <1>5
  <2>2. /\ job[r].plan \in Plans /\ job[r].seen \in Periods /\ job[r].seen <= period
        /\ Insert(job[r].plan, job[r].seen) /\ UNCHANGED period
      BY <1>0, <2>1 DEF InsertScheduled, At, Knows
  <2> QED
      BY <1>2, <2>2
<1>6. CASE UNCHANGED payout
    BY <1>1, <1>6 DEF Dated, Used
<1> QED
    BY <1>3, <1>4, <1>5, <1>6 DEF Next, Handler, vars, InsertAllowance, ChangeStatus,
       SetStatus, RecordPayment, RecordRelease, CheckDuplicate, VerifyAllowancePayment,
       PollTransaction, ReturnRecorded, ReadPeriod, FindScheduled, Abort, NextPeriod,
       SendTransaction, Resend, SubmitPayment, Settle

-----------------------------------------------------------------------------
THEOREM Invariance == Spec => []IInv
<1>1. IInv /\ [Next]_vars => IInv'
    BY TypeStep, KnowsStep, UniqueStep, PaidStep, DatedStep DEF IInv
<1> QED
    BY InitIInv, <1>1, PTL DEF Spec

\* The records keep their types (TypeOK).
THEOREM RecordsTypeCorrect == Spec => []TypeOK
BY Invariance, PTL DEF IInv

\* No release is counted as two payments, and no payment twice under one text,
\* whatever requests run at the same time (recordPayment, recordRelease,
\* payouts.tx_hash).
THEOREM HashesCountOnce == Spec => []OneRecordPerSpelling
<1>1. IInv => OneRecordPerSpelling
  <2> SUFFICES ASSUME IInv, NEW i \in Rows, NEW j \in Rows, Sent(i), Sent(j), i # j,
                      Named[payout[i].tx] = Named[payout[j].tx]
               PROVE  payout[i].tx # payout[j].tx /\ Named[payout[i].tx] \in Payments
      BY DEF OneRecordPerSpelling
  <2>1. /\ payout[i].tx \in Hashes /\ OwnHash(payout[i].tx)
        /\ payout[j].tx \in Hashes /\ OwnHash(payout[j].tx)
      BY DEF IInv, SentHasTx
  <2>2. payout[i].tx # payout[j].tx
      BY <2>1 DEF IInv, UniqueTx, Sent, Used
  <2> QED
      BY <2>1, <2>2 DEF OwnHash, Txs
<1> QED
    BY <1>1, Invariance, PTL

\* A payout marked sent carries a successful transaction that pays its own plan
\* (recordPayment, recordRelease).
THEOREM SentRecordsArePaid == Spec => []SentMeansPaid
BY Invariance, PTL DEF IInv
-----------------------------------------------------------------------------
(* One request at a time: what a handler has tested still holds when it    *)
(* writes.                                                                 *)

\* What a handler that runs alone may rely on besides.
Undisturbed(r) ==
    /\ job[r].at = "setStatus" => plan[job[r].plan] \in {"active", "paused"}
    /\ job[r].at \notin {"idle", "firstPayout", "setStatus"} =>
           plan[job[r].plan] = "active"
    /\ job[r].at = "send" => Open(job[r].row)

SingleInv == \A r \in Requests : Undisturbed(r)

LEMMA InitSingle == Init => SingleInv
BY DEF Init, SingleInv, Undisturbed, Idle

\* A handler starts on what it has just read.
LEMMA EnterKeepsSingle ==
    ASSUME IInv, \A q, r \in Requests : q = r, UNCHANGED payout,
           NEW r \in Requests, NEW place, NEW p \in Plans, NEW t, NEW s,
           Enter(r, place, p, t, s),
           \/ place = "firstPayout"
           \/ place = "setStatus" /\ plan[p] \in {"active", "paused"} /\ UNCHANGED plan
           \/ place \in {"duplicate", "submit"} /\ plan[p] = "active" /\ UNCHANGED plan
    PROVE  SingleInv'
<1>1. job'[r].at = place /\ job'[r].plan = p
    BY DEF Enter, IInv, TypeOK
<1>2. Undisturbed(r)'
    BY <1>1 DEF Undisturbed
<1> QED
    BY <1>2 DEF SingleInv

\* A handler goes on to another place, with the tables as they were.
LEMMA GotoKeepsSingle ==
    ASSUME IInv, SingleInv, \A q, r \in Requests : q = r, UNCHANGED <<plan, payout>>,
           NEW r \in Requests, job'[r].plan = job[r].plan,
           job[r].at \notin {"idle", "firstPayout", "setStatus"},
           job'[r].at \notin {"idle", "firstPayout", "setStatus"},
           job'[r].at = "send" => Open(job'[r].row)
    PROVE  SingleInv'
<1>1. Undisturbed(r)'
    BY DEF SingleInv, Undisturbed, Open
<1> QED
    BY <1>1 DEF SingleInv

\* A handler ends.
LEMMA ReturnKeepsSingle ==
    ASSUME IInv, \A q, r \in Requests : q = r,
           NEW r \in Requests, Return(r)
    PROVE  SingleInv'
<1>1. job'[r].at = "idle"
    BY ReturnLocals DEF IInv
<1>2. Undisturbed(r)'
    BY <1>1 DEF Undisturbed
<1> QED
    BY <1>2 DEF SingleInv

LEMMA MarkedStatus ==
    ASSUME IInv, NEW r \in Requests, MarkSent(r), payout' # payout
    PROVE  payout'[job[r].row].status = "sent"
<1>1. /\ Knows(r) /\ job[r].at = "send" /\ TypeOK
    BY DEF IInv, MarkSent, At
<1>2. payout[job[r].row] \in Payout /\ job[r].row \in Rows
    BY <1>1 DEF Knows, TypeOK, Used
<1> DEFINE marked == [payout EXCEPT ![job[r].row].status = "sent"]
<1>3. marked[job[r].row] \in Payout /\ marked[job[r].row].status = "sent"
      /\ marked \in [Rows -> Payout \cup {NoRow}]
    BY <1>1, <1>2 DEF TypeOK, Payout
<1>4. payout' = [marked EXCEPT ![job[r].row].tx = job[r].tx]
    BY DEF MarkSent
<1> HIDE DEF marked
<1> QED
    BY <1>2, <1>3, <1>4 DEF Payout

LEMMA HandlerKeepsSingle ==
    ASSUME IInv, SingleInv, \A q, r \in Requests : q = r,
           NEW r \in Requests, Handler(r)
    PROVE  SingleInv'
<1>0. TypeOK /\ Knows(r) /\ Undisturbed(r)
    BY DEF IInv, SingleInv
<1>1. ASSUME Return(r) PROVE SingleInv'
    BY <1>1, ReturnKeepsSingle
<1>2. ASSUME NEW place, Goto(r, place), UNCHANGED <<plan, payout>>,
             job[r].at \notin {"idle", "firstPayout", "setStatus"},
             place \in {"verify", "ensure", "poll", "recorded"}
      PROVE  SingleInv'
  <2>1. job'[r].at = place /\ job'[r].plan = job[r].plan
      BY <1>0, <1>2, GotoLocals
  <2> QED
      BY <1>2, <2>1, GotoKeepsSingle
<1>3. CASE CheckDuplicate(r) \/ VerifyAllowancePayment(r) \/ SendTransaction(r)
            \/ PollTransaction(r) \/ ReturnRecorded(r)
  <2>1. UNCHANGED <<plan, payout>> /\ job[r].at \notin {"idle", "firstPayout", "setStatus"}
      BY <1>3 DEF CheckDuplicate, VerifyAllowancePayment, SendTransaction,
                  PollTransaction, ReturnRecorded, At
  <2>2. \/ Return(r)
        \/ \E place \in {"verify", "ensure", "poll", "recorded"} : Goto(r, place)
      BY <1>3 DEF CheckDuplicate, VerifyAllowancePayment, SendTransaction,
                  PollTransaction, ReturnRecorded
  <2> QED
      BY <1>1, <1>2, <2>1, <2>2
<1>4. CASE ReadPeriod(r)
  <2>1. job'[r].at = "find" /\ job'[r].plan = job[r].plan
      BY <1>0, <1>4 DEF ReadPeriod, TypeOK, Job
  <2> QED
      BY <1>4, <2>1, GotoKeepsSingle DEF ReadPeriod, At
<1>5. CASE Resend(r)
    BY <1>0, <1>5 DEF Resend, Undisturbed, SingleInv, Open
<1>6. CASE FindScheduled(r)
  <2>1. job[r].at = "find" /\ UNCHANGED <<plan, payout>>
      BY <1>6 DEF FindScheduled, At
  <2>2. ASSUME NEW i \in Rows, IsScheduled(i, job[r].plan, job[r].seen), Found(r, i)
        PROVE  SingleInv'
    <3>1. job'[r].at = "send" /\ job'[r].plan = job[r].plan /\ job'[r].row = i
        BY <1>0, <2>2, FoundLocals
    <3>2. Open(i)
        BY <2>2 DEF IsScheduled, Open
    <3> QED
        BY <2>1, <3>1, <3>2, GotoKeepsSingle
  <2>3. CASE /\ \A i \in Rows : ~IsScheduled(i, job[r].plan, job[r].seen)
             /\ Goto(r, "insert")
    <3>1. job'[r].at = "insert" /\ job'[r].plan = job[r].plan /\ job'[r].seen = job[r].seen
        BY <1>0, <2>3, GotoLocals
    <3> QED
        BY <2>1, <2>3, <3>1, GotoKeepsSingle
  <2> QED
      BY <1>6, <2>2, <2>3 DEF FindScheduled
<1>7. CASE InsertFirstPayout(r) \/ SetStatus(r) \/ MarkSent(r)
    BY <1>1, <1>7 DEF InsertFirstPayout, SetStatus, MarkSent
<1>8. CASE InsertScheduled(r)
  <2>1. /\ job[r].at = "insert" /\ job[r].plan \in Plans /\ UNCHANGED plan
        /\ Insert(job[r].plan, job[r].seen) /\ plan[job[r].plan] = "active"
      BY <1>0, <1>8 DEF InsertScheduled, At, Knows, Undisturbed
  <2>2. PICK i \in Rows : payout[i] # payout'[i] /\ Found(r, i)
      BY <1>8 DEF InsertScheduled
  <2>3. job'[r].at = "send" /\ job'[r].plan = job[r].plan /\ job'[r].row = i
      BY <1>0, <2>2, FoundLocals
  <2>4. Open(i)'
    <3>1. PICK k \in Rows : /\ payout[k] = NoRow
                            /\ payout'[k].tx = NoTx /\ payout'[k].status = "scheduled"
                            /\ \A j \in Rows \ {k} : payout'[j] = payout[j]
        BY <1>0, <2>1, InsertedRow
    <3>2. k = i /\ payout'[i] # NoRow
        BY <2>2, <3>1
    <3> QED
        BY <3>1, <3>2 DEF Open
  <2>5. Undisturbed(r)'
      BY <2>1, <2>3, <2>4 DEF Undisturbed, Open
  <2> QED
      BY <2>5 DEF SingleInv
<1> QED
    BY <1>3, <1>4, <1>5, <1>6, <1>7, <1>8 DEF Handler

LEMMA SingleStep ==
    ASSUME \A q, r \in Requests : q = r
    PROVE  IInv /\ SingleInv /\ [Next]_vars => SingleInv'
<1> SUFFICES ASSUME IInv, SingleInv, [Next]_vars PROVE SingleInv'
    OBVIOUS
<1>1. ASSUME NEW r \in Requests, NEW p \in Plans, InsertAllowance(r, p) PROVE SingleInv'
  <2>1. /\ UNCHANGED payout /\ Enter(r, "firstPayout", p, NoTx, NoPlan)
      BY <1>1 DEF InsertAllowance
  <2> QED
      BY <2>1, EnterKeepsSingle
<1>2. ASSUME NEW r \in Requests, NEW p \in Plans, ChangeStatus(r, p) PROVE SingleInv'
  <2>1. PICK t \in ALLOWANCE_TRANSITIONS :
            plan[p] = t[1] /\ Enter(r, "setStatus", p, NoTx, t[3])
      BY <1>2 DEF ChangeStatus
  <2>2. plan[p] \in {"active", "paused"} /\ UNCHANGED <<plan, payout>>
      BY <1>2, <2>1 DEF ALLOWANCE_TRANSITIONS, ChangeStatus
  <2> QED
      BY <2>1, <2>2, EnterKeepsSingle
<1>3. ASSUME NEW r \in Requests, NEW p \in Plans, NEW t,
             RecordPayment(r, p, t) \/ RecordRelease(r, p, t)
      PROVE  SingleInv'
  <2>1. PICK place \in {"duplicate", "submit"} : Enter(r, place, p, t, NoPlan)
      BY <1>3 DEF RecordPayment, RecordRelease
  <2>2. plan[p] = "active" /\ UNCHANGED <<plan, payout>>
      BY <1>3 DEF RecordPayment, RecordRelease, CanSend
  <2> QED
      BY <2>1, <2>2, EnterKeepsSingle
<1>4. ASSUME NEW r \in Requests, Abort(r) PROVE SingleInv'
    BY <1>4, ReturnKeepsSingle DEF Abort
<1>5. CASE UNCHANGED <<plan, payout, job>>
    BY <1>5 DEF Undisturbed, SingleInv, Open
<1>6. CASE (\E t \in Txs : SubmitPayment(t) \/ Settle(t)) \/ NextPeriod \/ UNCHANGED vars
    BY <1>5, <1>6 DEF SubmitPayment, Settle, NextPeriod, vars
<1> QED
    BY <1>1, <1>2, <1>3, <1>4, <1>6, HandlerKeepsSingle DEF Next

LEMMA SingleInvariance ==
    ASSUME \A q, r \in Requests : q = r
    PROVE  Spec => [](IInv /\ SingleInv)
<1>1. Init => SingleInv
    BY InitSingle
<1>2. IInv /\ SingleInv /\ [Next]_vars => SingleInv'
    BY SingleStep
<1> QED
    BY <1>1, <1>2, Invariance, PTL DEF Spec

\* Only SetStatus writes a status that was there, and it has been tested.
LEMMA StatusWriters ==
    ASSUME [Next]_vars
    PROVE  \/ \E r \in Requests, p \in Plans : InsertAllowance(r, p)
           \/ \E r \in Requests : SetStatus(r)
           \/ UNCHANGED plan
BY DEF Next, Handler, vars, ChangeStatus, RecordPayment, RecordRelease, CheckDuplicate,
   VerifyAllowancePayment, PollTransaction, ReturnRecorded, ReadPeriod, FindScheduled,
   Abort, NextPeriod, SendTransaction, Resend, SubmitPayment, Settle, InsertFirstPayout,
   InsertScheduled, MarkSent

\* One request at a time leaves an ended plan ended (changeStatus,
\* nextAllowanceStatus).
THEOREM EndedStaysEnded ==
    ASSUME \A q, r \in Requests : q = r
    PROVE  Spec => EndedIsFinal
<1>1. IInv /\ SingleInv /\ [Next]_vars
        => [\A p \in Plans : plan[p] = "ended" => plan'[p] = "ended"]_vars
  <2> SUFFICES ASSUME IInv, SingleInv, [Next]_vars, NEW p \in Plans, plan[p] = "ended"
               PROVE  plan'[p] = "ended"
      OBVIOUS
  <2>1. TypeOK
      BY DEF IInv
  <2>2. ASSUME NEW r \in Requests, NEW o \in Plans, InsertAllowance(r, o)
        PROVE  plan'[p] = "ended"
      BY <2>1, <2>2 DEF InsertAllowance, TypeOK
  <2>3. ASSUME NEW r \in Requests, SetStatus(r)
        PROVE  plan'[p] = "ended"
    <3>1. job[r].plan # p
        BY <2>3 DEF SetStatus, At, SingleInv, Undisturbed
    <3> QED
        BY <2>1, <2>3, <3>1 DEF SetStatus, TypeOK
  <2> QED
      BY <2>2, <2>3, StatusWriters
<1> QED
    BY <1>1, SingleInvariance, PTL DEF Spec, EndedIsFinal

\* One request at a time never gives a recorded payment up for another one
\* (nextPayoutStatus, payoutRepo.update).
THEOREM SentStaysSent ==
    ASSUME \A q, r \in Requests : q = r
    PROVE  Spec => SentIsKept
<1>1. IInv /\ SingleInv /\ [Next]_vars
        => [\A i \in Rows : Sent(i) => payout'[i] = payout[i]]_vars
  <2> SUFFICES ASSUME IInv, SingleInv, [Next]_vars, NEW i \in Rows, Sent(i)
               PROVE  payout'[i] = payout[i]
      OBVIOUS
  <2>1. ASSUME NEW r \in Requests, MarkSent(r), payout' # payout
        PROVE  payout'[i] = payout[i]
    <3>1. Open(job[r].row)
        BY <2>1 DEF MarkSent, At, SingleInv, Undisturbed
    <3>2. i # job[r].row
        BY <3>1 DEF Open, Sent
    <3> QED
        BY <2>1, <3>2, MarkedRow
  <2>2. ASSUME NEW p, NEW m, Insert(p, m)
        PROVE  payout'[i] = payout[i]
      BY <2>2, InsertedRow DEF Sent, IInv
  <2> QED
      BY <2>1, <2>2, Writers
<1> QED
    BY <1>1, SingleInvariance, PTL DEF Spec, SentIsKept
-----------------------------------------------------------------------------
(* How many records: what the table gains, the requests under way give up. *)

LEMMA Trade ==
    ASSUME NEW A, IsFiniteSet(A), NEW B, IsFiniteSet(B), NEW A2, NEW B2,
           \/ A2 \subseteq A /\ B2 \subseteq B
           \/ \E x, y : A2 \subseteq A \cup {x} /\ y \in B /\ B2 \subseteq B \ {y}
    PROVE  Cardinality(A2) + Cardinality(B2) <= Cardinality(A) + Cardinality(B)
<1>1. CASE A2 \subseteq A /\ B2 \subseteq B
  <2>1. IsFiniteSet(A2) /\ Cardinality(A2) <= Cardinality(A)
      BY <1>1, FS_Subset
  <2>2. IsFiniteSet(B2) /\ Cardinality(B2) <= Cardinality(B)
      BY <1>1, FS_Subset
  <2>3. /\ Cardinality(A) \in Nat /\ Cardinality(A2) \in Nat
        /\ Cardinality(B) \in Nat /\ Cardinality(B2) \in Nat
      BY <2>1, <2>2, FS_CardinalityType
  <2> QED
      BY <2>1, <2>2, <2>3
<1>2. ASSUME NEW x, NEW y \in B, A2 \subseteq A \cup {x}, B2 \subseteq B \ {y}
      PROVE  Cardinality(A2) + Cardinality(B2) <= Cardinality(A) + Cardinality(B)
  <2>1. /\ IsFiniteSet(A \cup {x})
        /\ Cardinality(A \cup {x}) = IF x \in A THEN Cardinality(A) ELSE Cardinality(A) + 1
      BY FS_AddElement
  <2>2. IsFiniteSet(B \ {y}) /\ Cardinality(B \ {y}) = Cardinality(B) - 1
      BY FS_RemoveElement
  <2>3. IsFiniteSet(A2) /\ Cardinality(A2) <= Cardinality(A \cup {x})
      BY <1>2, <2>1, FS_Subset
  <2>4. IsFiniteSet(B2) /\ Cardinality(B2) <= Cardinality(B \ {y})
      BY <1>2, <2>2, FS_Subset
  <2>5. /\ Cardinality(A) \in Nat /\ Cardinality(A2) \in Nat
        /\ Cardinality(B) \in Nat /\ Cardinality(B2) \in Nat
      BY <2>3, <2>4, FS_CardinalityType
  <2> QED
      BY <2>1, <2>2, <2>3, <2>4, <2>5
<1> QED
    BY <1>1, <1>2

LEMMA FiniteTables ==
    ASSUME NEW A \in SUBSET Rows, NEW B \in SUBSET Requests
    PROVE  /\ IsFiniteSet(A) /\ IsFiniteSet(B)
           /\ Cardinality(B) <= Cardinality(Requests)
<1>1. IsFiniteSet(Rows)
    BY FS_Interval DEF Rows
<1> QED
    BY <1>1, FS_Subset, RequestsAssumption

\* A request that has the test of the plan's status behind it and may still record.
Paying(r) == job[r].at \notin {"idle", "firstPayout", "setStatus"}

Goes(r) ==
    /\ Paying(r) /\ Paying(r)'
    /\ job'[r].plan = job[r].plan
    /\ job'[r].at = "insert" =>
           job'[r].seen = job[r].seen /\ OpenRecords(job[r].plan, job[r].seen)' = {}

\* What a step does to the handler of request r.
Moves(r) ==
    \/ job'[r] = job[r]
    \/ job'[r].at = "idle"
    \/ \E p \in Plans : InsertAllowance(r, p)
    \/ job'[r].at = "setStatus" /\ plan[job'[r].plan] # "absent"
    \/ job'[r].at \in {"duplicate", "submit"} /\ plan[job'[r].plan] = "active"
    \/ Goes(r)

LEMMA HandlerMoves ==
    ASSUME IInv, NEW o \in Requests, Handler(o)
    PROVE  \A r \in Requests : Moves(r)
<1>0. TypeOK /\ Knows(o)
    BY DEF IInv
<1>1. ASSUME Return(o) PROVE \A r \in Requests : Moves(r)
    BY <1>0, <1>1, ReturnLocals DEF Moves
<1>2. ASSUME NEW place, Goto(o, place), Paying(o),
             place \in {"verify", "ensure", "poll", "recorded"}
      PROVE  \A r \in Requests : Moves(r)
    BY <1>0, <1>2, GotoLocals DEF Moves, Goes, Paying
<1>3. CASE CheckDuplicate(o) \/ VerifyAllowancePayment(o) \/ SendTransaction(o)
            \/ PollTransaction(o) \/ ReturnRecorded(o)
  <2>1. Paying(o)
      BY <1>3 DEF CheckDuplicate, VerifyAllowancePayment, SendTransaction,
                  PollTransaction, ReturnRecorded, At, Paying
  <2>2. \/ Return(o)
        \/ \E place \in {"verify", "ensure", "poll", "recorded"} : Goto(o, place)
      BY <1>3 DEF CheckDuplicate, VerifyAllowancePayment, SendTransaction,
                  PollTransaction, ReturnRecorded
  <2> QED
      BY <1>1, <1>2, <2>1, <2>2
<1>4. CASE ReadPeriod(o)
  <2>0. job \in [Requests -> Job] /\ job[o].at = "ensure"
      BY <1>0, <1>4 DEF TypeOK, ReadPeriod, At
  <2>1. /\ job'[o].at = "find" /\ job'[o].plan = job[o].plan
        /\ \A r \in Requests \ {o} : job'[r] = job[r]
      BY <1>4, <2>0 DEF ReadPeriod, Job
  <2> QED
      BY <2>0, <2>1 DEF Moves, Goes, Paying
<1>5. CASE Resend(o)
    BY <1>5 DEF Resend, Moves
<1>6. CASE FindScheduled(o)
  <2>1. job[o].at = "find" /\ UNCHANGED payout
      BY <1>6 DEF FindScheduled, At
  <2>2. ASSUME NEW i \in Rows, Found(o, i)
        PROVE  \A r \in Requests : Moves(r)
      BY <1>0, <2>1, <2>2, FoundLocals DEF Moves, Goes, Paying
  <2>3. CASE /\ \A i \in Rows : ~IsScheduled(i, job[o].plan, job[o].seen)
             /\ Goto(o, "insert")
    <3>1. OpenRecords(job[o].plan, job[o].seen)' = {}
        BY <2>1, <2>3, GotoLocals, <1>0 DEF OpenRecords, Open, IsScheduled
    <3> QED
        BY <1>0, <2>1, <2>3, <3>1, GotoLocals DEF Moves, Goes, Paying
  <2> QED
      BY <1>6, <2>2, <2>3 DEF FindScheduled
<1>7. CASE InsertFirstPayout(o) \/ SetStatus(o) \/ MarkSent(o)
    BY <1>1, <1>7 DEF InsertFirstPayout, SetStatus, MarkSent
<1>8. CASE InsertScheduled(o)
  <2>1. job[o].at = "insert"
      BY <1>8 DEF InsertScheduled, At
  <2>2. PICK i \in Rows : Found(o, i)
      BY <1>8 DEF InsertScheduled
  <2> QED
      BY <1>0, <2>1, <2>2, FoundLocals DEF Moves, Goes, Paying
<1> QED
    BY <1>3, <1>4, <1>5, <1>6, <1>7, <1>8 DEF Handler

LEMMA EnterMoves ==
    ASSUME IInv, NEW o \in Requests, NEW place, NEW p, NEW t, NEW s, Enter(o, place, p, t, s),
           \/ InsertAllowance(o, p) /\ p \in Plans
           \/ place = "setStatus" /\ plan[p] # "absent"
           \/ place \in {"duplicate", "submit"} /\ plan[p] = "active"
    PROVE  \A r \in Requests : Moves(r)
<1>1. /\ job'[o].at = place /\ job'[o].plan = p
      /\ \A r \in Requests \ {o} : job'[r] = job[r]
    BY DEF Enter, IInv, TypeOK
<1> QED
    BY <1>1 DEF Moves

LEMMA StepMoves == IInv /\ [Next]_vars => \A r \in Requests : Moves(r)
<1> SUFFICES ASSUME IInv, [Next]_vars PROVE \A r \in Requests : Moves(r)
    OBVIOUS
<1>1. ASSUME NEW o \in Requests, NEW p \in Plans, InsertAllowance(o, p)
      PROVE  \A r \in Requests : Moves(r)
  <2>1. Enter(o, "firstPayout", p, NoTx, NoPlan)
      BY <1>1 DEF InsertAllowance
  <2> QED
      BY <1>1, <2>1, EnterMoves
<1>2. ASSUME NEW o \in Requests, NEW p \in Plans, ChangeStatus(o, p)
      PROVE  \A r \in Requests : Moves(r)
  <2>1. PICK t \in ALLOWANCE_TRANSITIONS :
            plan[p] = t[1] /\ Enter(o, "setStatus", p, NoTx, t[3])
      BY <1>2 DEF ChangeStatus
  <2>2. plan[p] # "absent"
      BY <2>1 DEF ALLOWANCE_TRANSITIONS
  <2> QED
      BY <2>1, <2>2, EnterMoves
<1>3. ASSUME NEW o \in Requests, NEW p \in Plans, NEW t,
             RecordPayment(o, p, t) \/ RecordRelease(o, p, t)
      PROVE  \A r \in Requests : Moves(r)
  <2>1. PICK place \in {"duplicate", "submit"} : Enter(o, place, p, t, NoPlan)
      BY <1>3 DEF RecordPayment, RecordRelease
  <2>2. plan[p] = "active"
      BY <1>3 DEF RecordPayment, RecordRelease, CanSend
  <2> QED
      BY <2>1, <2>2, EnterMoves
<1>4. ASSUME NEW o \in Requests, Abort(o) PROVE \A r \in Requests : Moves(r)
    BY <1>4, ReturnLocals DEF Abort, Moves, IInv
<1>5. CASE UNCHANGED job
    BY <1>5 DEF Moves
<1>6. CASE (\E t \in Txs : SubmitPayment(t) \/ Settle(t)) \/ NextPeriod \/ UNCHANGED vars
    BY <1>5, <1>6 DEF SubmitPayment, Settle, NextPeriod, vars
<1> QED
    BY <1>1, <1>2, <1>3, <1>4, <1>6, HandlerMoves DEF Next

\* Nobody starts to record for a plan that is not active.
LEMMA RecordingShrinks ==
    ASSUME IInv, [Next]_vars, NEW p \in Plans, plan[p] # "active"
    PROVE  Recording(p)' \subseteq Recording(p)
<1> SUFFICES ASSUME NEW r \in Requests, job'[r].plan = p, Paying(r)'
             PROVE  job[r].plan = p /\ Paying(r)
    BY DEF Recording, Paying
<1>1. Moves(r)
    BY StepMoves
<1>2. ASSUME NEW q \in Plans, InsertAllowance(r, q) PROVE FALSE
  <2>1. job'[r].at = "firstPayout"
      BY <1>2 DEF InsertAllowance, Enter, IInv, TypeOK
  <2> QED
      BY <2>1 DEF Paying
<1> QED
    BY <1>1, <1>2 DEF Moves, Goes, Paying

\* A plan that has been paused or ended takes no more payments than were under way
\* (recordPayment, recordRelease).
THEOREM StopsAreKept == Spec => StopsTakeEffect
<1>1. ASSUME IInv, [Next]_vars, NEW p \in Plans, plan[p] # "active"
      PROVE  Cardinality(SentRecords(p)') + Cardinality(Recording(p)')
                 <= Cardinality(SentRecords(p)) + Cardinality(Recording(p))
  <2>0. IsFiniteSet(SentRecords(p)) /\ IsFiniteSet(Recording(p))
      BY FiniteTables DEF SentRecords, Recording
  <2>1. Recording(p)' \subseteq Recording(p)
      BY <1>1, RecordingShrinks
  <2>2. ASSUME SentRecords(p)' \subseteq SentRecords(p)
        PROVE  Cardinality(SentRecords(p)') + Cardinality(Recording(p)')
                   <= Cardinality(SentRecords(p)) + Cardinality(Recording(p))
      BY <2>0, <2>1, <2>2, Trade
  <2>3. ASSUME NEW r \in Requests, MarkSent(r), payout' # payout
        PROVE  Cardinality(SentRecords(p)') + Cardinality(Recording(p)')
                   <= Cardinality(SentRecords(p)) + Cardinality(Recording(p))
    <3>1. /\ job[r].at = "send" /\ Knows(r) /\ TypeOK /\ Return(r)
        BY <1>1, <2>3 DEF IInv, MarkSent, At
    <3>2. job'[r].at = "idle"
        BY <3>1, ReturnLocals
    <3>3. SentRecords(p)' \subseteq SentRecords(p) \cup {job[r].row}
        BY <1>1, <2>3, MarkedRow DEF SentRecords, Sent
    <3>4. CASE job[r].plan = p
      <4>1. r \in Recording(p) /\ r \notin Recording(p)'
          BY <3>1, <3>2, <3>4 DEF Recording
      <4>2. Recording(p)' \subseteq Recording(p) \ {r}
          BY <2>1, <4>1
      <4> QED
          BY <2>0, <3>3, <4>1, <4>2, Trade
    <3>5. CASE job[r].plan # p
      <4>1. job[r].row \notin SentRecords(p)'
          BY <1>1, <2>3, <3>1, <3>5, MarkedRow DEF SentRecords, Knows
      <4> QED
          BY <2>2, <3>3, <4>1
    <3> QED
        BY <3>4, <3>5
  <2>4. CASE \E q, m : Insert(q, m)
    <3>1. SentRecords(p)' \subseteq SentRecords(p)
        BY <1>1, <2>4, InsertedRow DEF SentRecords, Sent, IInv
    <3> QED
        BY <2>2, <3>1
  <2>5. CASE UNCHANGED payout
    <3>1. SentRecords(p)' \subseteq SentRecords(p)
        BY <2>5 DEF SentRecords, Sent
    <3> QED
        BY <2>2, <3>1
  <2> QED
      BY <1>1, <2>3, <2>4, <2>5, Writers
<1>2. IInv /\ [Next]_vars
        => [\A p \in Plans : plan[p] # "active" =>
               Cardinality(SentRecords(p)') + Cardinality(Recording(p)')
                   <= Cardinality(SentRecords(p)) + Cardinality(Recording(p))]_vars
    BY <1>1
<1> QED
    BY <1>2, Invariance, PTL DEF Spec, StopsTakeEffect
-----------------------------------------------------------------------------
(* How many open records a month can have.                                 *)

\* The requests on the way to insert a record of the plan and month.
Racing(p, m) ==
    {r \in Requests : /\ job[r].plan = p
                      /\ \/ job[r].at = "firstPayout"
                         \/ job[r].at = "insert" /\ job[r].seen = m}

\* Rows and handlers are of plans that are there.
PlansExist ==
    /\ \A i \in Rows : Used(i) => plan[payout[i].plan] # "absent"
    /\ \A r \in Requests : job[r].at # "idle" => plan[job[r].plan] # "absent"

FewOrRacing ==
    \A p \in Plans, m \in Periods :
        Cardinality(OpenRecords(p, m)) + Cardinality(Racing(p, m)) <= Cardinality(Requests)

\* The two inserts, and the months for which they insert.
Inserting(r, m) ==
    \/ InsertFirstPayout(r) /\ m = period
    \/ InsertScheduled(r) /\ m = job[r].seen

LEMMA Inserters ==
    ASSUME [Next]_vars
    PROVE  \/ \E r \in Requests : MarkSent(r)
           \/ \E r \in Requests : \E m : Inserting(r, m)
           \/ UNCHANGED payout
BY DEF Next, Handler, vars, InsertAllowance, ChangeStatus, SetStatus, RecordPayment,
   RecordRelease, CheckDuplicate, VerifyAllowancePayment, PollTransaction,
   ReturnRecorded, ReadPeriod, FindScheduled, Abort, NextPeriod, SendTransaction,
   Resend, SubmitPayment, Settle, Inserting

LEMMA Inserted ==
    ASSUME IInv, NEW r \in Requests, NEW m, Inserting(r, m)
    PROVE  /\ \E i \in Rows :
                 /\ payout[i] = NoRow
                 /\ payout'[i].plan = job[r].plan /\ payout'[i].period = m
                 /\ \A j \in Rows \ {i} : payout'[j] = payout[j]
           /\ \/ job[r].at = "firstPayout"
              \/ job[r].at = "insert" /\ job[r].seen = m
           /\ job'[r].at \in {"idle", "send"}
<1>0. TypeOK
    BY DEF IInv
<1>1. Insert(job[r].plan, m)
    BY DEF Inserting, InsertFirstPayout, InsertScheduled, CurrentPeriod
<1>2. PICK i \in Rows :
          /\ payout[i] = NoRow
          /\ payout' = [payout EXCEPT ![i] = [plan |-> job[r].plan, period |-> m,
                                              status |-> "scheduled", tx |-> NoTx]]
    BY <1>1 DEF Insert
<1>3. /\ payout'[i].plan = job[r].plan /\ payout'[i].period = m
      /\ \A j \in Rows \ {i} : payout'[j] = payout[j]
    BY <1>0, <1>2 DEF TypeOK
<1>4. CASE InsertFirstPayout(r)
    BY <1>0, <1>2, <1>3, <1>4, ReturnLocals DEF InsertFirstPayout, At
<1>5. CASE InsertScheduled(r) /\ m = job[r].seen
  <2>1. PICK k \in Rows : Found(r, k)
      BY <1>5 DEF InsertScheduled
  <2> QED
      BY <1>0, <1>2, <1>3, <1>5, <2>1, FoundLocals DEF InsertScheduled, At
<1> QED
    BY <1>4, <1>5 DEF Inserting

\* No plan goes away.
LEMMA PlansLast ==
    ASSUME IInv, [Next]_vars, NEW p \in Plans, plan[p] # "absent"
    PROVE  plan'[p] # "absent"
<1>0. TypeOK /\ \A r \in Requests : Knows(r)
    BY DEF IInv
<1>1. ASSUME NEW r \in Requests, NEW q \in Plans, InsertAllowance(r, q)
      PROVE  plan'[p] # "absent"
    BY <1>0, <1>1 DEF InsertAllowance, TypeOK
<1>2. ASSUME NEW r \in Requests, SetStatus(r)
      PROVE  plan'[p] # "absent"
  <2>1. job[r].next # "absent"
      BY <1>0, <1>2 DEF SetStatus, At, Knows, PlanStatus
  <2> QED
      BY <1>0, <1>2, <2>1 DEF SetStatus, TypeOK
<1> QED
    BY <1>1, <1>2, StatusWriters

LEMMA PlansExistStep == IInv /\ PlansExist /\ [Next]_vars => PlansExist'
<1> SUFFICES ASSUME IInv, PlansExist, [Next]_vars PROVE PlansExist'
    OBVIOUS
<1>0. TypeOK /\ Lasts /\ TypeOK' /\ (\A r \in Requests : Knows(r)) /\ \A r \in Requests : Knows(r)'
    BY StepLasts, KnowsStep, TypeStep DEF IInv
<1>1. ASSUME NEW i \in Rows, Used(i)'
      PROVE  plan'[payout'[i].plan] # "absent"
  <2>1. CASE Used(i)
    <3>1. payout[i].plan \in Plans
        BY <1>0, <2>1 DEF TypeOK, Used, Payout
    <3> QED
        BY <1>0, <2>1, <3>1, PlansLast DEF PlansExist, Lasts
  <2>2. CASE ~Used(i)
    <3>0. PICK r \in Requests : \E m : Inserting(r, m)
        BY <1>1, <2>2, Inserters, MarkedRow DEF Used
    <3>1. PICK m : Inserting(r, m)
        BY <3>0
    <3>2. payout'[i].plan = job[r].plan /\ job[r].at # "idle"
        BY <1>1, <2>2, <3>1, Inserted DEF Used
    <3> QED
        BY <1>0, <3>2, PlansLast DEF PlansExist, Knows
  <2> QED
      BY <2>1, <2>2
<1>2. ASSUME NEW r \in Requests, job'[r].at # "idle"
      PROVE  plan'[job'[r].plan] # "absent"
  <2>0. job'[r].plan \in Plans
      BY <1>0, <1>2 DEF Knows
  <2>1. Moves(r)
      BY StepMoves
  <2>2. ASSUME NEW p \in Plans, InsertAllowance(r, p)
        PROVE  plan'[job'[r].plan] # "absent"
    <3>1. job'[r].plan = p
        BY <1>0, <2>2 DEF InsertAllowance, Enter, TypeOK
    <3> QED
        BY <1>0, <2>2, <3>1 DEF InsertAllowance, TypeOK
  <2>3. CASE plan[job'[r].plan] # "absent"
      BY <2>0, <2>3, PlansLast
  <2> QED
      BY <1>2, <2>1, <2>2, <2>3 DEF Moves, Goes, Paying, PlansExist
<1> QED
    BY <1>1, <1>2 DEF PlansExist

\* A request joins the race only when the month has no open record.
LEMMA RacersFindNone ==
    ASSUME IInv, PlansExist, [Next]_vars, NEW p \in Plans, NEW m \in Periods
    PROVE  Racing(p, m)' \subseteq Racing(p, m) \/ OpenRecords(p, m)' = {}
<1> SUFFICES ASSUME NEW r \in Requests, r \in Racing(p, m)', r \notin Racing(p, m)
             PROVE  OpenRecords(p, m)' = {}
    BY DEF Racing
<1>1. /\ job'[r].plan = p
      /\ \/ job'[r].at = "firstPayout"
         \/ job'[r].at = "insert" /\ job'[r].seen = m
    BY DEF Racing
<1>2. Moves(r) /\ job'[r] # job[r]
    BY StepMoves DEF Racing
<1>3. ASSUME NEW q \in Plans, InsertAllowance(r, q) PROVE OpenRecords(p, m)' = {}
  <2>1. q = p /\ plan[p] = "absent" /\ UNCHANGED payout
      BY <1>1, <1>3 DEF InsertAllowance, Enter, IInv, TypeOK
  <2> QED
      BY <2>1 DEF PlansExist, OpenRecords, Open, Used
<1>4. CASE Goes(r)
    BY <1>1, <1>4 DEF Goes, Paying
<1> QED
    BY <1>1, <1>2, <1>3, <1>4 DEF Moves

LEMMA FewStep == IInv /\ PlansExist /\ FewOrRacing /\ [Next]_vars => FewOrRacing'
<1> SUFFICES ASSUME IInv, PlansExist, FewOrRacing, [Next]_vars,
                    NEW p \in Plans, NEW m \in Periods
             PROVE  Cardinality(OpenRecords(p, m)') + Cardinality(Racing(p, m)')
                        <= Cardinality(Requests)
    BY DEF FewOrRacing
<1>0. /\ OpenRecords(p, m) \subseteq Rows /\ OpenRecords(p, m)' \subseteq Rows
      /\ Racing(p, m) \subseteq Requests /\ Racing(p, m)' \subseteq Requests
    BY DEF OpenRecords, Racing
<1>1. /\ IsFiniteSet(OpenRecords(p, m)) /\ IsFiniteSet(Racing(p, m))
      /\ IsFiniteSet(OpenRecords(p, m)') /\ IsFiniteSet(Racing(p, m)')
      /\ Cardinality(Racing(p, m)') <= Cardinality(Requests)
    BY <1>0, FiniteTables
<1>2. /\ Cardinality(OpenRecords(p, m)) \in Nat /\ Cardinality(Racing(p, m)) \in Nat
      /\ Cardinality(OpenRecords(p, m)') \in Nat /\ Cardinality(Racing(p, m)') \in Nat
      /\ Cardinality(Requests) \in Nat
    BY <1>1, FS_CardinalityType, RequestsAssumption
<1>3. Cardinality(OpenRecords(p, m)) + Cardinality(Racing(p, m)) <= Cardinality(Requests)
    BY DEF FewOrRacing
<1>4. CASE OpenRecords(p, m)' = {}
  <2>1. Cardinality(OpenRecords(p, m)') = 0
      BY <1>4, FS_EmptySet
  <2> QED
      BY <1>1, <1>2, <2>1
<1>5. CASE Racing(p, m)' \subseteq Racing(p, m)
  <2>1. ASSUME OpenRecords(p, m)' \subseteq OpenRecords(p, m)
        PROVE  Cardinality(OpenRecords(p, m)') + Cardinality(Racing(p, m)')
                   <= Cardinality(OpenRecords(p, m)) + Cardinality(Racing(p, m))
      BY <1>1, <1>5, <2>1, Trade
  <2>2. ASSUME NEW r \in Requests, NEW k, Inserting(r, k)
        PROVE  Cardinality(OpenRecords(p, m)') + Cardinality(Racing(p, m)')
                   <= Cardinality(OpenRecords(p, m)) + Cardinality(Racing(p, m))
    <3>1. PICK i \in Rows :
              /\ payout[i] = NoRow
              /\ payout'[i].plan = job[r].plan /\ payout'[i].period = k
              /\ \A j \in Rows \ {i} : payout'[j] = payout[j]
        BY <2>2, Inserted
    <3>2. OpenRecords(p, m)' \subseteq OpenRecords(p, m) \cup {i}
        BY <3>1 DEF OpenRecords, Open
    <3>3. CASE job[r].plan = p /\ k = m
      <4>1. r \in Racing(p, m)
          BY <2>2, <3>3, Inserted DEF Racing
      <4>2. r \notin Racing(p, m)'
          BY <2>2, Inserted DEF Racing
      <4>3. Racing(p, m)' \subseteq Racing(p, m) \ {r}
          BY <1>5, <4>2
      <4> QED
          BY <1>1, <3>2, <4>1, <4>3, Trade
    <3>4. CASE ~(job[r].plan = p /\ k = m)
      <4>1. i \notin OpenRecords(p, m)'
          BY <3>1, <3>4 DEF OpenRecords
      <4> QED
          BY <2>1, <3>2, <4>1
    <3> QED
        BY <3>3, <3>4
  <2>3. ASSUME NEW r \in Requests, MarkSent(r), payout' # payout
        PROVE  OpenRecords(p, m)' \subseteq OpenRecords(p, m)
    <3>1. payout'[job[r].row].status = "sent"
        BY <2>3, MarkedStatus
    <3>2. \A i \in Rows \ {job[r].row} : payout'[i] = payout[i]
        BY <2>3, MarkedRow
    <3> QED
        BY <3>1, <3>2 DEF OpenRecords, Open
  <2>4. CASE UNCHANGED payout
    <3>1. OpenRecords(p, m)' \subseteq OpenRecords(p, m)
        BY <2>4 DEF OpenRecords, Open
    <3> QED
        BY <1>2, <1>3, <2>1, <3>1
  <2> QED
      BY <1>2, <1>3, <2>1, <2>2, <2>3, <2>4, Inserters
<1> QED
    BY <1>4, <1>5, RacersFindNone

\* A month never has more open records of a plan than there are requests at once
\* (ensureScheduled, insertAllowanceWithFirstPayout).
THEOREM OpenRecordsStayFew == Spec => []OpenRecordsAreFew
<1>1. Init => PlansExist /\ FewOrRacing
  <2> SUFFICES ASSUME Init PROVE PlansExist /\ FewOrRacing
      OBVIOUS
  <2>1. PlansExist
      BY DEF Init, PlansExist, Used, Idle
  <2>2. ASSUME NEW p, NEW m
        PROVE  OpenRecords(p, m) = {} /\ Racing(p, m) = {}
      BY DEF Init, OpenRecords, Open, Racing, Idle
  <2>3. Cardinality({}) = 0 /\ Cardinality(Requests) \in Nat
      BY FS_EmptySet, FS_CardinalityType, RequestsAssumption
  <2> QED
      BY <2>1, <2>2, <2>3 DEF FewOrRacing
<1>2. IInv /\ PlansExist /\ FewOrRacing /\ [Next]_vars => PlansExist' /\ FewOrRacing'
    BY PlansExistStep, FewStep
<1>3. FewOrRacing => OpenRecordsAreFew
  <2> SUFFICES ASSUME FewOrRacing, NEW p \in Plans, NEW m \in Periods
               PROVE  Cardinality(OpenRecords(p, m)) <= Cardinality(Requests)
      BY DEF OpenRecordsAreFew
  <2>1. IsFiniteSet(OpenRecords(p, m)) /\ IsFiniteSet(Racing(p, m))
      BY FiniteTables DEF OpenRecords, Racing
  <2>2. /\ Cardinality(OpenRecords(p, m)) \in Nat /\ Cardinality(Racing(p, m)) \in Nat
        /\ Cardinality(Requests) \in Nat
      BY <2>1, FS_CardinalityType, RequestsAssumption
  <2>3. Cardinality(OpenRecords(p, m)) + Cardinality(Racing(p, m)) <= Cardinality(Requests)
      BY DEF FewOrRacing
  <2> QED
      BY <2>2, <2>3
<1> QED
    BY <1>1, <1>2, <1>3, Invariance, PTL DEF Spec

-----------------------------------------------------------------------------
(* The book of payments.                                                   *)

\* A line of the book is of a sent row.
LEMMA LineOf ==
    ASSUME NEW line
    PROVE  line \in Lines <=> \E i \in Rows : Sent(i) /\ line = Line(i)
BY DEF Lines

\* The book is as it was if no row is sent that was not, and those that were are
\* as they were.
LEMMA SameLines ==
    ASSUME \A i \in Rows : Sent(i)' <=> Sent(i),
           \A i \in Rows : Sent(i) => payout'[i] = payout[i]
    PROVE  Lines' = Lines
<1>1. \A i \in Rows : Sent(i) => Line(i)' = Line(i)
    BY DEF Line
<1> QED
    BY <1>1 DEF Lines

\* A row that is inserted is not in the book yet.
LEMMA InsertKeepsLines ==
    ASSUME IInv, NEW p, NEW m, Insert(p, m)
    PROVE  Lines' = Lines
<1>1. PICK i \in Rows :
          /\ payout[i] = NoRow
          /\ payout'[i].status = "scheduled"
          /\ \A j \in Rows \ {i} : payout'[j] = payout[j]
    BY InsertedRow DEF IInv
<1>2. ~Sent(i) /\ ~Sent(i)'
    BY <1>1 DEF Sent
<1>3. \A j \in Rows \ {i} : Sent(j)' <=> Sent(j)
    BY <1>1 DEF Sent
<1> QED
    BY <1>1, <1>2, <1>3, SameLines

\* What the network has applied grows by what it settles, and by nothing else.
LEMMA SettleIsApply ==
    ASSUME IInv, NEW t \in Txs, Settle(t)
    PROVE  Book!Apply(t) \/ UNCHANGED Book!vars
<1>1. chain \in [Txs -> {"unsent", "pending", "landed", "failed"}] /\ chain[t] = "pending"
    BY DEF IInv, TypeOK, Settle
<1>2. UNCHANGED <<period, plan, payout>>
    BY DEF Settle
<1>3. Lines' = Lines
    BY <1>2, SameLines DEF Sent
<1>4. PICK outcome \in {"landed", "failed", "unsent"} :
          chain' = [chain EXCEPT ![t] = outcome]
    BY DEF Settle
<1>5. t \notin Applied
    BY <1>1 DEF Applied
<1>6. CASE outcome = "landed"
  <2>1. Applied' = Applied \cup {t}
      BY <1>1, <1>4, <1>6 DEF Applied
  <2> QED
      BY <1>2, <1>3, <1>5, <2>1 DEF Book!Apply
<1>7. CASE outcome # "landed"
  <2>1. Applied' = Applied
      BY <1>1, <1>4, <1>7 DEF Applied
  <2> QED
      BY <1>2, <1>3, <2>1 DEF Book!vars
<1> QED
    BY <1>6, <1>7

\* The status that changeStatus writes is a step of the plan, or the one it has.
LEMMA SetStatusIsMove ==
    ASSUME IInv, SingleInv, NEW r \in Requests, SetStatus(r)
    PROVE  (\E p \in Plans : Book!Pause(p) \/ Book!Resume(p) \/ Book!End(p))
              \/ UNCHANGED Book!vars
<1> DEFINE p == job[r].plan
           s == job[r].next
<1>1. /\ p \in Plans /\ s \in PlanStatus
      /\ plan[p] \in {"active", "paused"}
      /\ plan' = [plan EXCEPT ![p] = s]
      /\ UNCHANGED <<period, payout, chain>>
      /\ plan \in [Plans -> PlanStatus \cup {"absent"}]
    BY DEF SetStatus, At, IInv, Knows, TypeOK, SingleInv, Undisturbed
<1>2. Lines' = Lines /\ Applied' = Applied
    BY <1>1, SameLines DEF Sent, Applied
<1> HIDE DEF p, s
<1>3. CASE s = plan[p]
    BY <1>1, <1>2, <1>3 DEF Book!vars
<1>4. CASE s # plan[p]
  <2>1. \/ plan[p] = "active" /\ s = "paused"
        \/ plan[p] = "paused" /\ s = "active"
        \/ plan[p] \in {"active", "paused"} /\ s = "ended"
      BY <1>1, <1>4 DEF PlanStatus
  <2>2. Book!Move(p, plan[p], s)
      BY <1>1, <1>2 DEF Book!Move
  <2> QED
      BY <1>1, <2>1, <2>2 DEF Book!Pause, Book!Resume, Book!End
<1> QED
    BY <1>3, <1>4

\* The statement that marks a row sent writes a line, unless the database refuses.
LEMMA LineWritten ==
    ASSUME IInv, SingleInv, NEW r \in Requests, MarkSent(r), payout' # payout,
           NEW i, i = job[r].row, NEW t, t = job[r].tx, NEW p, p = job[r].plan
    PROVE  p \in Plans /\ t \in Hashes /\ Book!WriteLine(p, t)
<1>1. UNCHANGED <<period, plan, chain>> /\ job[r].at = "send" /\ [Next]_vars
    BY DEF MarkSent, At, Next, Handler
<1>2. Applied' = Applied
    BY <1>1 DEF Applied
<1>3. /\ i \in Rows /\ Used(i) /\ t \in Hashes /\ OwnHash(t) /\ TxHashFree(i, t)
      /\ Verified(t, payout[i].plan)
      /\ payout'[i].tx = t
      /\ payout'[i].plan = payout[i].plan /\ payout'[i].period = payout[i].period
      /\ \A j \in Rows \ {i} : payout'[j] = payout[j]
    BY MarkedRow
<1>4. payout'[i].status = "sent"
    BY MarkedStatus
<1>5. p \in Plans /\ payout[i].plan = p /\ plan[p] = "active" /\ Open(i)
    BY <1>1 DEF IInv, Knows, SingleInv, Undisturbed
<1>6. payout[i].period \in 1 .. period
    BY <1>3 DEF IInv, TypeOK, Dated, Used, Payout, Periods
<1>7. Named[t] \in Applied /\ p \in Covers[Named[t]]
    BY <1>3, <1>5 DEF Verified, Applied
<1>8. ~Sent(i) /\ Used(i)'
    BY <1>1, <1>3, <1>5, StepLasts DEF Open, Sent, Lasts
<1>9. \A j \in Rows \ {i} : (Sent(j)' <=> Sent(j)) /\ Line(j)' = Line(j)
    BY <1>3 DEF Sent, Line
<1>10. Sent(i)' /\ Line(i)' = [plan |-> p, period |-> payout[i].period, tx |-> t]
    BY <1>3, <1>4, <1>5, <1>8 DEF Sent, Line, Used
<1>11. Lines' = Lines \cup {Line(i)'}
  <2>1. ASSUME NEW line
        PROVE  line \in Lines' <=> line \in Lines \/ line = Line(i)'
    <3>1. line \in Lines' <=> \E j \in Rows : Sent(j)' /\ line = Line(j)'
        BY DEF Lines
    <3> QED
        BY <1>3, <1>8, <1>9, <1>10, <3>1, LineOf
  <2> QED
      BY <2>1
<1>12. \A line \in Lines : line.tx # t
  <2>1. \A j \in Rows : Sent(j) => j # i /\ payout[j].tx # t
      BY <1>3, <1>8 DEF TxHashFree, Sent
  <2> QED
      BY <2>1, LineOf DEF Line
<1>13. ASSUME NEW line \in Lines, Named[t] \notin Payments
       PROVE  Named[line.tx] # Named[t]
  <2>1. PICK j \in Rows : Sent(j) /\ line.tx = payout[j].tx
      BY <1>13, LineOf DEF Line
  <2>2. payout[j].tx \in Hashes /\ OwnHash(payout[j].tx) /\ payout[j].tx # t
      BY <1>12, <1>13, <2>1 DEF IInv, SentHasTx
  <2> QED
      BY <1>3, <1>13, <2>1, <2>2 DEF OwnHash, Txs
<1> QED
    BY <1>1, <1>2, <1>3, <1>5, <1>6, <1>7, <1>10, <1>11, <1>12, <1>13 DEF Book!WriteLine

LEMMA MarkSentIsWriteLine ==
    ASSUME IInv, SingleInv, NEW r \in Requests, MarkSent(r)
    PROVE  (\E t \in Hashes, p \in Plans : Book!WriteLine(p, t)) \/ UNCHANGED Book!vars
<1>1. CASE UNCHANGED payout
    BY <1>1, SameLines DEF MarkSent, Sent, Applied, Book!vars
<1> QED
    BY <1>1, LineWritten

\* Every step of one request at a time is one of the book, or none.
LEMMA BookStep ==
    ASSUME IInv, SingleInv, [Next]_vars
    PROVE  [Book!Next]_(Book!vars)
<1>0. TypeOK
    BY DEF IInv
<1>1. ASSUME NEW r \in Requests, NEW p \in Plans, InsertAllowance(r, p)
      PROVE  Book!OpenPlan(p)
  <2>1. /\ plan[p] = "absent" /\ plan' = [plan EXCEPT ![p] = "active"]
        /\ UNCHANGED <<period, payout, chain>>
      BY <1>1 DEF InsertAllowance
  <2>2. Lines' = Lines /\ Applied' = Applied
      BY <2>1, SameLines DEF Sent, Applied
  <2> QED
      BY <2>1, <2>2 DEF Book!OpenPlan, Book!Move
<1>2. CASE NextPeriod
  <2>1. Lines' = Lines /\ Applied' = Applied
      BY <1>2, SameLines DEF NextPeriod, Sent, Applied
  <2> QED
      BY <1>2, <2>1 DEF NextPeriod, Book!NextMonth, Book!Next
<1>3. ASSUME UNCHANGED <<period, plan, chain>>,
             UNCHANGED payout \/ \E p, m : Insert(p, m)
      PROVE  UNCHANGED Book!vars
  <2>1. Lines' = Lines
      BY <1>3, SameLines, InsertKeepsLines DEF Sent
  <2> QED
      BY <1>3, <2>1 DEF Book!vars, Applied
<1>4. ASSUME UNCHANGED <<period, plan, payout>>, NEW t \in Txs,
             chain[t] \in {"unsent", "pending"}, chain' = [chain EXCEPT ![t] = "pending"]
      PROVE  UNCHANGED Book!vars
  <2>1. Applied' = Applied
      BY <1>0, <1>4 DEF Applied, TypeOK
  <2>2. Lines' = Lines
      BY <1>4, SameLines DEF Sent
  <2> QED
      BY <1>4, <2>1, <2>2 DEF Book!vars
<1>5. ASSUME NEW r \in Requests, SendTransaction(r) \/ Resend(r)
      PROVE  UNCHANGED Book!vars
  <2>1. job[r].tx \in Txs /\ UNCHANGED <<period, plan, payout>>
      BY <1>5 DEF SendTransaction, Resend, At, IInv, Knows, Txs
  <2>2. CASE UNCHANGED chain
      BY <1>3, <2>1, <2>2
  <2>3. CASE chain[job[r].tx] \in {"unsent", "pending"}
                /\ chain' = [chain EXCEPT ![job[r].tx] = "pending"]
      BY <1>4, <2>1, <2>3
  <2> QED
      BY <1>5, <2>2, <2>3 DEF SendTransaction, Resend
<1>6. ASSUME NEW t \in Txs, SubmitPayment(t)
      PROVE  UNCHANGED Book!vars
    BY <1>4, <1>6 DEF SubmitPayment
<1>7. \/ \E r \in Requests, p \in Plans : InsertAllowance(r, p)
      \/ \E r \in Requests : SetStatus(r) \/ MarkSent(r) \/ SendTransaction(r) \/ Resend(r)
      \/ \E t \in Txs : SubmitPayment(t) \/ Settle(t)
      \/ NextPeriod
      \/ /\ UNCHANGED <<period, plan, chain>>
         /\ UNCHANGED payout \/ \E p, m : Insert(p, m)
    BY DEF Next, Handler, vars, ChangeStatus, RecordPayment, RecordRelease,
       CheckDuplicate, VerifyAllowancePayment, PollTransaction, ReturnRecorded,
       ReadPeriod, FindScheduled, Abort, InsertFirstPayout, InsertScheduled
<1>8. CASE \E r \in Requests : SetStatus(r)
    BY <1>8, SetStatusIsMove DEF Book!Next
<1>9. CASE \E r \in Requests : MarkSent(r)
    BY <1>9, MarkSentIsWriteLine DEF Book!Next
<1>10. CASE \E t \in Txs : Settle(t)
    BY <1>10, SettleIsApply DEF Book!Next, Book!Txs, Txs
<1>11. CASE \E r \in Requests, p \in Plans : InsertAllowance(r, p)
    BY <1>1, <1>11 DEF Book!Next
<1> QED
    BY <1>2, <1>3, <1>5, <1>6, <1>7, <1>8, <1>9, <1>10, <1>11

\* One request at a time keeps a book of payments: its statements, answers and
\* failures halfway add up to the steps of PaymentBook (allowance.service.ts,
\* payout.service.ts, and the repositories under them).
THEOREM RecordsKeepTheBook ==
    ASSUME \A q, r \in Requests : q = r
    PROVE  Spec => KeepsTheBook
<1>1. Init => Book!Init
  <2> SUFFICES ASSUME Init PROVE Book!Init
      OBVIOUS
  <2>1. Applied = {}
      BY DEF Init, Applied
  <2>2. Lines = {}
      BY LineOf DEF Init, Sent
  <2> QED
      BY <2>1, <2>2 DEF Init, Book!Init
<1>2. IInv /\ SingleInv /\ [Next]_vars => [Book!Next]_(Book!vars)
    BY BookStep
<1> QED
    BY <1>1, <1>2, SingleInvariance, PTL DEF Spec, KeepsTheBook, Book!Spec
=============================================================================
