--------------------------- MODULE PayoutRecords ---------------------------
(***************************************************************************)
(* The plan and payout records of the server: allowance.service.ts,        *)
(* payout.service.ts and the repositories under them, with requests that   *)
(* interleave at every await.                                              *)
(*                                                                         *)
(* A request runs one handler.  Each action below is what the handler does *)
(* from one await to the next: one statement of the database, one answer   *)
(* of the network.  There are no transactions and no locks around them.    *)
(* A handler that throws, loses its connection or is cut off by the        *)
(* platform just ends (Abort), leaving what it wrote.                      *)
(*                                                                         *)
(* External: the database's unique constraint on payouts.tx_hash, Horizon, *)
(* the Soroban RPC and the wallet that signs and submits payments.         *)
(*                                                                         *)
(* Left out, because nothing is written: list, getOwned, buildEscrow,      *)
(* buildRelease, and markCollected, which always answers with an error.    *)
(* Requests for somebody else's plan end in NOT_FOUND and change nothing,  *)
(* so every request here comes from the owner.                             *)
(***************************************************************************)
EXTENDS Integers, FiniteSets

CONSTANTS
    Plans,       \* allowance ids
    Escrowed,    \* the plans that have a scheduleId
    Payments,    \* classic transactions, signed by the wallet
    Releases,    \* signed release invocations
    Hashes,      \* texts given as txHash: the hash of each, and other spellings
    Named,       \* the transaction that Horizon finds under a text
    Covers,      \* the plans whose sender, recipient, asset and amount a
                 \* payment matches; the plan whose schedule a release names
    Requests,    \* requests in flight
    NoPlan,      \* no plan, or no status
    NoTx,        \* a payout without tx_hash
    NoRow,       \* an unused payout id
    MaxRows,     \* bound: payout rows
    MaxPeriod    \* bound: months

Txs == Payments \cup Releases
Rows == 1 .. MaxRows
Periods == 1 .. MaxPeriod
PlanStatus == {"active", "paused", "ended"}

ASSUME EscrowedAssumption == Escrowed \subseteq Plans
ASSUME CoversAssumption == Covers \in [Txs -> SUBSET Plans]
ASSUME PeriodAssumption == MaxPeriod \in Nat \ {0} /\ MaxRows \in Nat
ASSUME HashesAssumption ==
    /\ Txs \subseteq Hashes
    /\ Named \in [Hashes -> Txs] /\ \A t \in Txs : Named[t] = t
ASSUME RequestsAssumption == IsFiniteSet(Requests)
ASSUME NoTxAssumption == NoTx \notin Hashes
ASSUME NoPlanAssumption == NoPlan \notin Plans \cup PlanStatus

Payout ==
    [plan : Plans, period : Periods, status : {"scheduled", "sent"},
     tx : Hashes \cup {NoTx}]

ASSUME NoRowAssumption == NoRow \notin Payout

VARIABLES
    period,   \* the calendar month
    plan,     \* allowances.status, or "absent"
    payout,   \* the payouts table
    chain,    \* what the network did with each transaction
    job       \* the handler each request is running

vars == <<period, plan, payout, chain, job>>

\* The locals of a handler: where it is, its allowance id, the transaction hash
\* it was given, the status changeStatus is about to write, the period
\* ensureScheduled read off the clock and the payout it returned.
Places ==
    {"idle", "firstPayout", "setStatus", "duplicate", "verify", "submit", "poll",
     "recorded", "ensure", "find", "insert", "send"}
Job ==
    [at : Places, plan : Plans \cup {NoPlan}, tx : Hashes \cup {NoTx},
     next : PlanStatus \cup {NoPlan}, seen : 0 .. MaxPeriod, row : 0 .. MaxRows]

Idle == [at |-> "idle", plan |-> NoPlan, tx |-> NoTx, next |-> NoPlan,
         seen |-> 0, row |-> 0]

Init ==
    /\ period = 1
    /\ plan = [p \in Plans |-> "absent"]
    /\ payout = [i \in Rows |-> NoRow]
    /\ chain = [t \in Txs |-> "unsent"]
    /\ job = [r \in Requests |-> Idle]

At(r, place) == job[r].at = place
Goto(r, place) == job' = [job EXCEPT ![r].at = place]
Return(r) == job' = [job EXCEPT ![r] = Idle]

\* A handler starts and stops at its first await.
Enter(r, place, p, t, s) ==
    /\ At(r, "idle")
    /\ job' = [job EXCEPT ![r] = [at |-> place, plan |-> p, tx |-> t, next |-> s,
                                  seen |-> 0, row |-> 0]]

-----------------------------------------------------------------------------
\* The clock's month.  The mutant forgets that JavaScript counts months from 0.
CurrentPeriodZeroBased == period - 1
CurrentPeriod == period

\* payoutRepo.insert: a new row (ids are fresh).
Insert(p, m) ==
    \E i \in Rows :
        /\ payout[i] = NoRow
        /\ \A j \in 1 .. i - 1 : payout[j] # NoRow
        /\ payout' = [payout EXCEPT ![i] =
               [plan |-> p, period |-> m, status |-> "scheduled", tx |-> NoTx]]

\* insertAllowanceWithFirstPayout, the first insert: status defaults to active.
\* (For an escrowed plan createEscrowed has confirmed the escrow before.)
InsertAllowance(r, p) ==
    /\ plan[p] = "absent"
    /\ Enter(r, "firstPayout", p, NoTx, NoPlan)
    /\ plan' = [plan EXCEPT ![p] = "active"]
    /\ UNCHANGED <<period, payout, chain>>

\* insertAllowanceWithFirstPayout, the second insert.
InsertFirstPayout(r) ==
    /\ At(r, "firstPayout")
    /\ Insert(job[r].plan, CurrentPeriod)
    /\ Return(r)
    /\ UNCHANGED <<period, plan, chain>>

\* nextAllowanceStatus: the transitions <<from, action, to>>; any other throws.
\* In the mutant an ended plan can be resumed.
ALLOWANCE_TRANSITIONS_Reopening ==
    {<<"active", "pause", "paused">>, <<"paused", "resume", "active">>,
     <<"ended", "resume", "active">>, <<"active", "end", "ended">>}
ALLOWANCE_TRANSITIONS ==
    {<<"active", "pause", "paused">>, <<"paused", "resume", "active">>,
     <<"active", "end", "ended">>, <<"paused", "end", "ended">>}

\* changeStatus, up to the await of setStatus: findOwned, nextAllowanceStatus.
ChangeStatus(r, p) ==
    /\ \E t \in ALLOWANCE_TRANSITIONS :
        plan[p] = t[1] /\ Enter(r, "setStatus", p, NoTx, t[3])
    /\ UNCHANGED <<period, plan, payout, chain>>

\* allowanceRepo.setStatus: by id alone, whatever the status is by now.
SetStatus(r) ==
    /\ At(r, "setStatus")
    /\ plan' = [plan EXCEPT ![job[r].plan] = job[r].next]
    /\ Return(r)
    /\ UNCHANGED <<period, payout, chain>>

-----------------------------------------------------------------------------
\* assertAllowanceCanSend.  The mutant has lost its second test.
CanSendUnlessPaused(status) == status \notin {"absent", "paused"}
CanSend(status) == status = "active"

\* recordPayment, up to the await of findByTxHash.  The hash is any text: it is
\* neither parsed nor normalised before it is looked up, here and at Horizon.
RecordPayment(r, p, h) ==
    /\ CanSend(plan[p])
    /\ Enter(r, "duplicate", p, h, NoPlan)
    /\ UNCHANGED <<period, plan, payout, chain>>

\* findByTxHash finds a row: one with the very text.
IsRecorded(h) == \E i \in Rows : payout[i] # NoRow /\ payout[i].tx = h

\* ALREADY_EXISTS, or on to Horizon.
CheckDuplicate(r) ==
    /\ At(r, "duplicate")
    /\ IF IsRecorded(job[r].tx) THEN Return(r) ELSE Goto(r, "verify")
    /\ UNCHANGED <<period, plan, payout, chain>>

\* The text names a successful transaction that pays the plan.
Verified(h, p) == chain[Named[h]] = "landed" /\ p \in Covers[Named[h]]

\* verifyAllowancePayment accepts a payment operation with the plan's sender,
\* recipient, asset and amount; a release has no such operation.
VerifyAllowancePayment(r) ==
    /\ At(r, "verify")
    /\ IF Named[job[r].tx] \in Payments /\ Verified(job[r].tx, job[r].plan)
       THEN Goto(r, "ensure") ELSE Return(r)
    /\ UNCHANGED <<period, plan, payout, chain>>

\* What validateSignedRelease accepts: one signed invocation, the release of the
\* plan's own schedule.
ReleasesScheduleOf(t, p) == p \in Covers[t]

\* recordRelease, up to the submission: the plan is active and escrowed.  The hash
\* it records is computed from the transaction.
RecordRelease(r, p, t) ==
    /\ CanSend(plan[p])
    /\ p \in Escrowed
    /\ ReleasesScheduleOf(t, p)
    /\ Enter(r, "submit", p, t, NoPlan)
    /\ UNCHANGED <<period, plan, payout, chain>>

\* sendTransaction: a transaction already applied is an ERROR (its sequence
\* number is used up), hence TX_RETRY; one still queued is accepted again.
SendTransaction(r) ==
    /\ At(r, "submit")
    /\ IF chain[job[r].tx] \in {"unsent", "pending"}
       THEN /\ chain' = [chain EXCEPT ![job[r].tx] = "pending"]
            /\ Goto(r, "poll")
       ELSE Return(r) /\ UNCHANGED chain
    /\ UNCHANGED <<period, plan, payout>>

\* getTransaction: SUCCESS or FAILED ends the polling, anything else goes on.
PollTransaction(r) ==
    /\ At(r, "poll")
    /\ \/ chain[job[r].tx] = "landed" /\ Goto(r, "recorded")
       \/ chain[job[r].tx] = "failed" /\ Return(r)
    /\ UNCHANGED <<period, plan, payout, chain>>

\* Every third poll sends the transaction again.
Resend(r) ==
    /\ At(r, "poll")
    /\ chain[job[r].tx] = "unsent"
    /\ chain' = [chain EXCEPT ![job[r].tx] = "pending"]
    /\ UNCHANGED <<period, plan, payout, job>>

\* A release that is already recorded is returned as it is.
ReturnRecorded(r) ==
    /\ At(r, "recorded")
    /\ IF IsRecorded(job[r].tx) THEN Return(r) ELSE Goto(r, "ensure")
    /\ UNCHANGED <<period, plan, payout, chain>>

\* ensureScheduled, up to the await of findScheduledForPeriod: it reads the
\* plan again, without looking at its status, and then the clock.
ReadPeriod(r) ==
    /\ At(r, "ensure")
    /\ job' = [job EXCEPT ![r].at = "find", ![r].seen = CurrentPeriod]
    /\ UNCHANGED <<period, plan, payout, chain>>

\* findScheduledForPeriod: a row of the plan and month still scheduled.  The
\* mutant's query has no condition on the plan.
IsScheduledAnyPlan(i, p, m) ==
    payout[i] # NoRow /\ payout[i].period = m /\ payout[i].status = "scheduled"
IsScheduled(i, p, m) ==
    /\ payout[i] # NoRow
    /\ payout[i].plan = p
    /\ payout[i].period = m
    /\ payout[i].status = "scheduled"

Found(r, i) == job' = [job EXCEPT ![r].at = "send", ![r].row = i]

\* Mutants: the record of the month is taken over whatever its status; a new
\* one is inserted without looking.
FindScheduledUpsert(r) ==
    /\ At(r, "find")
    /\ \/ \E i \in Rows : /\ payout[i] # NoRow
                          /\ payout[i].plan = job[r].plan
                          /\ payout[i].period = job[r].seen
                          /\ Found(r, i)
       \/ /\ \A i \in Rows : ~IsScheduled(i, job[r].plan, job[r].seen)
          /\ Goto(r, "insert")
    /\ UNCHANGED <<period, plan, payout, chain>>
FindScheduledNever(r) ==
    At(r, "find") /\ Goto(r, "insert") /\ UNCHANGED <<period, plan, payout, chain>>

\* ensureScheduled, up to the await of insert: the first such row, or none.
\* nextPayoutStatus judges that row here, so it never throws.
FindScheduled(r) ==
    /\ At(r, "find")
    /\ \/ \E i \in Rows : IsScheduled(i, job[r].plan, job[r].seen) /\ Found(r, i)
       \/ /\ \A i \in Rows : ~IsScheduled(i, job[r].plan, job[r].seen)
          /\ Goto(r, "insert")
    /\ UNCHANGED <<period, plan, payout, chain>>

\* ensureScheduled: the insert, for the month read before.
InsertScheduled(r) ==
    /\ At(r, "insert")
    /\ Insert(job[r].plan, job[r].seen)
    /\ \E i \in Rows : payout[i] # payout'[i] /\ Found(r, i)
    /\ UNCHANGED <<period, plan, chain>>

\* payouts.tx_hash is unique: the database refuses a second row with the same
\* text.  The mutant has no such constraint and relies on the duplicate check.
TxHashUnconstrained(i, h) == TRUE
TxHashFree(i, h) == \A j \in Rows \ {i} : payout[j] # NoRow => payout[j].tx # h

\* The last statement of recordPayment and recordRelease: an update by id
\* alone, whatever the row has become.
MarkSent(r) ==
    /\ At(r, "send")
    /\ IF TxHashFree(job[r].row, job[r].tx)
       THEN payout' = [payout EXCEPT ![job[r].row].status = "sent",
                                     ![job[r].row].tx = job[r].tx]
       ELSE UNCHANGED payout
    /\ Return(r)
    /\ UNCHANGED <<period, plan, chain>>

\* The handler throws, times out or dies between two awaits.
Abort(r) ==
    /\ ~At(r, "idle")
    /\ Return(r)
    /\ UNCHANGED <<period, plan, payout, chain>>

-----------------------------------------------------------------------------
\* The browser submits a signed payment to the network.
SubmitPayment(t) ==
    /\ t \in Payments
    /\ chain[t] = "unsent"
    /\ chain' = [chain EXCEPT ![t] = "pending"]
    /\ UNCHANGED <<period, plan, payout, job>>

\* The network applies a queued transaction, fails it, or drops it.
Settle(t) ==
    /\ chain[t] = "pending"
    /\ \E outcome \in {"landed", "failed", "unsent"} :
        chain' = [chain EXCEPT ![t] = outcome]
    /\ UNCHANGED <<period, plan, payout, job>>

NextPeriod ==
    /\ period < MaxPeriod                                        \* bound
    /\ period' = period + 1
    /\ UNCHANGED <<plan, payout, chain, job>>

Handler(r) ==
    \/ InsertFirstPayout(r) \/ SetStatus(r)
    \/ CheckDuplicate(r) \/ VerifyAllowancePayment(r)
    \/ SendTransaction(r) \/ PollTransaction(r) \/ Resend(r) \/ ReturnRecorded(r)
    \/ ReadPeriod(r) \/ FindScheduled(r) \/ InsertScheduled(r) \/ MarkSent(r)

Next ==
    \/ \E r \in Requests, p \in Plans : InsertAllowance(r, p) \/ ChangeStatus(r, p)
    \/ \E r \in Requests, p \in Plans, h \in Hashes : RecordPayment(r, p, h)
    \/ \E r \in Requests, p \in Plans, t \in Releases : RecordRelease(r, p, t)
    \/ \E r \in Requests : Handler(r) \/ Abort(r)
    \/ \E t \in Txs : SubmitPayment(t) \/ Settle(t)
    \/ NextPeriod

Spec == Init /\ [][Next]_vars

-----------------------------------------------------------------------------
TypeOK ==
    /\ period \in Periods
    /\ plan \in [Plans -> PlanStatus \cup {"absent"}]
    /\ payout \in [Rows -> Payout \cup {NoRow}]
    /\ chain \in [Txs -> {"unsent", "pending", "landed", "failed"}]
    /\ job \in [Requests -> Job]

Sent(i) == payout[i] # NoRow /\ payout[i].status = "sent"

\* No release is ever counted as two payments, and no payment twice under the same
\* text, though the duplicate check and the update are separate statements and a
\* payment may match two plans.  Another spelling of its hash is another text: it
\* passes the check and the constraint (recordPayment, recordRelease, the unique
\* tx_hash).
OneRecordPerSpelling ==
    \A i, j \in Rows :
        /\ Sent(i) /\ Sent(j) /\ i # j
        /\ Named[payout[i].tx] = Named[payout[j].tx]
        => payout[i].tx # payout[j].tx /\ Named[payout[i].tx] \in Payments

\* A payout is marked sent only with a transaction that succeeded on the chain
\* and pays that very plan: however requests interleave on the rows, no plan is
\* credited with another's transaction (verifyAllowancePayment,
\* validateSignedRelease, submitSorobanSigned).
SentMeansPaid == \A i \in Rows : Sent(i) => Verified(payout[i].tx, payout[i].plan)

\* A plan that has ended stays ended (nextAllowanceStatus, changeStatus).
EndedIsFinal == [][\A p \in Plans : plan[p] = "ended" => plan'[p] = "ended"]_vars

\* What has been recorded as sent keeps its transaction: no later request puts
\* another one in its place (nextPayoutStatus, payoutRepo.update).
SentIsKept == [][\A i \in Rows : Sent(i) => payout'[i] = payout[i]]_vars

\* Requests that race for the record of a month (ensureScheduled looks before it
\* inserts, and a new plan's first record comes after the plan) leave several open
\* ones, but never more than there were requests at it at once: a record that is
\* open is found and used, however many requests come and die.
Open(i) == payout[i] # NoRow /\ payout[i].status = "scheduled"
OpenRecords(p, m) == {i \in Rows : Open(i) /\ payout[i].plan = p /\ payout[i].period = m}
OpenRecordsAreFew ==
    \A p \in Plans, m \in Periods :
        Cardinality(OpenRecords(p, m)) <= Cardinality(Requests)

\* A plan that has been paused or ended takes no more payments than were under way:
\* each handler that had passed assertAllowanceCanSend by then may still record one,
\* and no other does (recordPayment and recordRelease read the status only once).
SentRecords(p) == {i \in Rows : Sent(i) /\ payout[i].plan = p}
Recording(p) ==
    {r \in Requests : job[r].plan = p /\ job[r].at \notin {"idle", "firstPayout", "setStatus"}}
StopsTakeEffect ==
    [][\A p \in Plans : plan[p] # "active" =>
           Cardinality(SentRecords(p)') + Cardinality(Recording(p)')
               <= Cardinality(SentRecords(p)) + Cardinality(Recording(p))]_vars

\* The two tables are a book of payments: statements of the database, answers of
\* the network and handlers that end halfway add up to one line per release and
\* one per text that names a payment, written while the plan is active, for a month
\* that has come, and never written over (allowance.service.ts, payout.service.ts).
Applied == {t \in Txs : chain[t] = "landed"}
Line(i) == [plan |-> payout[i].plan, period |-> payout[i].period, tx |-> payout[i].tx]
Lines == {Line(i) : i \in {j \in Rows : Sent(j)}}
Book == INSTANCE PaymentBook WITH
    Pays <- Covers, month <- period, status <- plan, applied <- Applied, book <- Lines
KeepsTheBook == Book!Spec
=============================================================================
