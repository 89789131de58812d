----------------------------- MODULE EscrowFlow -----------------------------
(***************************************************************************)
(* How a Soroban call gets from the browser into the contract and into the *)
(* server's records: stellar/contract.ts, with createEscrowed and          *)
(* recordRelease around it, over the contract of BaktiEscrow.              *)
(*                                                                         *)
(* The browser asks a server for an unsigned call (buildEscrow,            *)
(* buildRelease), has the wallet sign it and posts it back, as often as it *)
(* likes.  The server validates it, sends it to the network, polls, and    *)
(* writes its record when the call has succeeded.                          *)
(*                                                                         *)
(* One sender, Owner: sequence numbers and locks are per account.  A       *)
(* server's lock (accountLocks) is in that process's memory, so it is lost *)
(* with it and unknown to the others.                                      *)
(*                                                                         *)
(* Not here: the status of a plan and the rows of payouts, whose own races *)
(* are the subject of PayoutRecords; recording a payment is one step here. *)
(* Whether a simulation succeeds is left open.  A plan of the classic path *)
(* has no schedule and does not appear.                                    *)
(***************************************************************************)
EXTENDS BaktiEscrow, Sequences, FiniteSets

CONSTANTS
    Owner,        \* the account whose plans these are
    Servers,      \* server processes
    Requests,     \* requests in flight
    Creates,      \* create_schedule transactions that may be built
    Releases,     \* release transactions that may be built
    NoTx,         \* no transaction, no server
    NoInput,      \* not the input of a plan; no plan
    PlanRows,     \* bound: ids of plans
    MaxPolls,     \* polls before submitSorobanSigned gives up (28)
    ResendEvery,  \* polls between two submissions (3)
    MaxSeq        \* bound: payments Owner makes besides

Txs == Creates \cup Releases

ASSUME OwnerAssumption == Owner \in Accounts
ASSUME TxAssumption == Creates \cap Releases = {} /\ NoTx \notin Txs \cup Servers
ASSUME PollAssumption == MaxPolls \in Nat \ {0} /\ ResendEvery \in Nat \ {0}
ASSUME RowsAssumption == PlanRows \subseteq Nat \ {0} /\ MaxSeq \in Nat

\* AllowanceInput, as far as the escrow is concerned, and a plan made from it.
Input == [recipient : Accounts, amount : Amounts, months : MonthCounts]
Plan == [input : Input, id : Ids]

ASSUME NoInputAssumption == NoInput \notin Input \cup Plan
ASSUME DuesAssumption == 0 .. MaxLedger \subseteq FirstDues

NoId == MaxSchedules

\* A transaction as everybody knows it: what it calls (input and due, or id),
\* the sequence number it carries, and what became of it.
Tx == [status : {"unbuilt", "draft", "built", "pending", "landed", "failed", "expired"},
       seq : Nat, input : Input \cup {NoInput}, due : 0 .. MaxLedger,
       id : Ids \cup {NoId}]

\* A handler's place and the locals it carries across its awaits.
Job == [at : {"idle", "load", "simulate", "send", "poll", "insert", "record"},
        server : Servers \cup {NoTx}, tx : Txs \cup {NoTx},
        input : Input \cup {NoInput}, row : PlanRows \cup {0}, polls : 0 .. MaxPolls]

VARIABLES
    seq,       \* the sequence number of Owner's account
    tx,        \* the transactions built so far, and what became of them
    lock,      \* accountLocks of each server: the requests in line, in order
    plan,      \* allowances with a schedule_id
    recorded,  \* the plan a release is recorded for, as a payout with its hash
    job        \* the handler each request is running

contract == <<ledger, balance, open, admin, nextId, schedules, terms>>
flow == <<seq, tx, lock, plan, recorded, job>>
fvars == <<ledger, balance, open, admin, nextId, schedules, terms,
           seq, tx, lock, plan, recorded, job>>

Unbuilt == [status |-> "unbuilt", seq |-> 0, input |-> NoInput, due |-> 0, id |-> NoId]

Idle == [at |-> "idle", server |-> NoTx, tx |-> NoTx, input |-> NoInput,
         row |-> 0, polls |-> 0]

FInit ==
    /\ Init
    /\ seq = 0
    /\ tx = [t \in Txs |-> Unbuilt]
    /\ lock = [s \in Servers |-> <<>>]
    /\ plan = [i \in PlanRows |-> NoInput]
    /\ recorded = [t \in Releases |-> 0]
    /\ job = [r \in Requests |-> Idle]

-----------------------------------------------------------------------------
At(r, place) == job[r].at = place
Goto(r, place) == job' = [job EXCEPT ![r].at = place]
Return(r) == job' = [job EXCEPT ![r] = Idle]

Mark(t, status) == tx' = [tx EXCEPT ![t].status = status]

\* withAccountLock: a request lines up behind the others of its process; its
\* turn comes when those before it have ended, well or badly.
\* (mutant) no lock at all.
NoTurn(r) == TRUE
Turn(r) == Head(lock[job[r].server]) = r

Start(r, s, place, t, i, k) ==
    /\ At(r, "idle")
    /\ job' = [job EXCEPT ![r] =
           [at |-> place, server |-> s, tx |-> t, input |-> i, row |-> k, polls |-> 0]]
    /\ lock' = [lock EXCEPT ![s] = Append(@, r)]

Left(r) == [lock EXCEPT ![job[r].server] = Tail(@)]

\* The line after the turn of r has ended in an exception.
\* (mutant) prev.then(fn), without the handler of a rejection.
LeftOnSuccessOnly(r) == lock
LeftOnError(r) == Left(r)

Throw(r) == Return(r) /\ lock' = LeftOnError(r)

\* assertAllowanceInput (MonthCounts stands for at most 12 months).
ValidInput(i) == i.recipient \in Accounts /\ i.amount > 0 /\ i.months >= 1

\* buildEscrow and buildCreateScheduleXdr, up to the lock: the first period is
\* due in the latest ledger.
BuildEscrow(r, s, i, t) ==
    /\ ValidInput(i)
    /\ tx[t] = Unbuilt
    /\ tx' = [tx EXCEPT ![t] =
           [status |-> "draft", seq |-> 0, input |-> i, due |-> ledger, id |-> NoId]]
    /\ Start(r, s, "load", t, NoInput, 0)
    /\ UNCHANGED <<contract, seq, plan, recorded>>

\* buildRelease and buildReleaseXdr, up to the lock.
BuildRelease(r, s, k, t) ==
    /\ plan[k] # NoInput
    /\ tx[t] = Unbuilt
    /\ tx' = [tx EXCEPT ![t] = [status |-> "draft", seq |-> 0, input |-> NoInput,
                                due |-> 0, id |-> plan[k].id]]
    /\ Start(r, s, "load", t, NoInput, 0)
    /\ UNCHANGED <<contract, seq, plan, recorded>>

\* assembleForSigning: getAccount; the transaction takes the next number.
LoadAccount(r) ==
    /\ At(r, "load") /\ Turn(r)
    /\ tx' = [tx EXCEPT ![job[r].tx].seq = seq + 1]
    /\ Goto(r, "simulate")
    /\ UNCHANGED <<contract, seq, lock, plan, recorded>>

\* assembleForSigning: simulate, and hand the transaction out; or throw.
Simulate(r) ==
    /\ At(r, "simulate") /\ Turn(r)
    /\ \/ /\ Mark(job[r].tx, "built")
          /\ Return(r)
          /\ lock' = Left(r)
       \/ Throw(r) /\ UNCHANGED tx
    /\ UNCHANGED <<contract, seq, plan, recorded>>

HandedOut(t) == tx[t].status \notin {"unbuilt", "draft"}

\* validateSignedCreateSchedule: the arguments must be those of the input.
\* (mutant) any create_schedule passes.
AcceptsAnyCreate(t, i) == HandedOut(t)
AcceptsCreate(t, i) == HandedOut(t) /\ tx[t].input = i

\* validateSignedRelease: the release of the plan's schedule.
AcceptsRelease(t, k) == HandedOut(t) /\ tx[t].id = plan[k].id

\* The browser posts a signed escrow: createEscrowed, up to the lock.
CreateEscrowed(r, s, i, t) ==
    /\ ValidInput(i)
    /\ AcceptsCreate(t, i)
    /\ Start(r, s, "send", t, i, 0)
    /\ UNCHANGED <<contract, seq, tx, plan, recorded>>

\* The browser posts a signed release: recordRelease, up to the lock.
RecordRelease(r, s, k, t) ==
    /\ plan[k] # NoInput
    /\ AcceptsRelease(t, k)
    /\ Start(r, s, "send", t, NoInput, k)
    /\ UNCHANGED <<contract, seq, tx, plan, recorded>>

\* The network takes a transaction, again or for the first time, that carries
\* the account's next number and has not expired.
Sendable(t) == tx[t].status \in {"built", "pending"} /\ tx[t].seq = seq + 1

\* submitSorobanSigned: PENDING or DUPLICATE; or TRY_AGAIN_LATER, or ERROR (of
\* which txBadSeq and txTooLate are what the network says of the others).
Send(r) ==
    /\ At(r, "send") /\ Turn(r)
    /\ \/ /\ Sendable(job[r].tx)
          /\ Mark(job[r].tx, "pending")
          /\ Goto(r, "poll")
          /\ UNCHANGED lock
       \/ Throw(r) /\ UNCHANGED tx
    /\ UNCHANGED <<contract, seq, plan, recorded>>

\* What getTransaction reports as SUCCESS.
\* (mutant) a transaction that was only accepted counts.
SucceededOrPending(t) == tx[t].status \in {"landed", "pending"}
Succeeded(t) == tx[t].status = "landed"

\* submitSorobanSigned: SUCCESS ends the turn and goes on to the record; FAILED
\* throws.
PollDecided(r) ==
    /\ At(r, "poll") /\ Turn(r)
    /\ \/ /\ Succeeded(job[r].tx)
          /\ Goto(r, IF job[r].tx \in Creates THEN "insert" ELSE "record")
          /\ lock' = Left(r)
       \/ tx[job[r].tx].status = "failed" /\ Throw(r)
    /\ UNCHANGED <<contract, seq, tx, plan, recorded>>

\* The loop of submitSorobanSigned is at its last round.
\* (mutant) it polls until there is an answer.
PollsForEver(r) == FALSE
LastPoll(r) == job[r].polls + 1 >= MaxPolls

\* submitSorobanSigned: not found yet; now and then it is sent again (an error
\* of which is ignored), and after the last poll the server gives up.
PollAgain(r) ==
    /\ At(r, "poll") /\ Turn(r)
    /\ tx[job[r].tx].status \notin {"landed", "failed"}
    /\ IF job[r].polls > 0 /\ job[r].polls % ResendEvery = 0 /\ Sendable(job[r].tx)
       THEN Mark(job[r].tx, "pending") ELSE UNCHANGED tx
    /\ \/ LastPoll(r) /\ Throw(r)
       \/ ~LastPoll(r) /\ job' = [job EXCEPT ![r].polls = @ + 1] /\ UNCHANGED lock
    /\ UNCHANGED <<contract, seq, plan, recorded>>

\* createEscrowed: the plan is inserted, with the id that the call returned; or
\* the database fails.
InsertPlan(r) ==
    /\ At(r, "insert")
    /\ \/ \E k \in PlanRows :
            /\ plan[k] = NoInput
            /\ \A j \in PlanRows : j < k => plan[j] # NoInput
            /\ plan' = [plan EXCEPT ![k] =
                   [input |-> job[r].input, id |-> tx[job[r].tx].id]]
       \/ UNCHANGED plan
    /\ Return(r)
    /\ UNCHANGED <<contract, seq, tx, lock, recorded>>

\* recordRelease, after the submission: unless its hash is recorded already.
RecordSent(r) ==
    /\ At(r, "record")
    /\ \/ /\ recorded[job[r].tx] = 0
          /\ recorded' = [recorded EXCEPT ![job[r].tx] = job[r].row]
       \/ UNCHANGED recorded
    /\ Return(r)
    /\ UNCHANGED <<contract, seq, tx, lock, plan>>

\* A process is killed with all its handlers.
Crash(s) ==
    /\ \E r \in Requests : job[r].server = s
    /\ job' = [r \in Requests |-> IF job[r].server = s THEN Idle ELSE job[r]]
    /\ lock' = [lock EXCEPT ![s] = <<>>]
    /\ UNCHANGED <<contract, seq, tx, plan, recorded>>

-----------------------------------------------------------------------------
\* The network applies a transaction: the contract's own actions.
ApplyCreate(t) ==
    /\ tx[t].status = "pending" /\ tx[t].seq = seq + 1
    /\ CreateSchedule(Owner, tx[t].input.recipient, tx[t].input.amount,
                      tx[t].input.months, tx[t].due)
    /\ tx' = [tx EXCEPT ![t] = [@ EXCEPT !.status = "landed", !.id = nextId]]
    /\ seq' = seq + 1
    /\ UNCHANGED <<lock, plan, recorded, job>>

ApplyRelease(t) ==
    /\ tx[t].status = "pending" /\ tx[t].seq = seq + 1
    /\ tx[t].id \in Ids                                          \* ScheduleNotFound
    /\ Release(tx[t].id, Owner)
    /\ Mark(t, "landed")
    /\ seq' = seq + 1
    /\ UNCHANGED <<lock, plan, recorded, job>>

\* It is included but fails, which uses up its number.
Fail(t) ==
    /\ tx[t].status = "pending" /\ tx[t].seq = seq + 1
    /\ Mark(t, "failed")
    /\ seq' = seq + 1
    /\ UNCHANGED <<contract, lock, plan, recorded, job>>

\* It falls out of the queue, or its time bound (180 seconds) has passed.
Drop(t) ==
    /\ \/ tx[t].status = "pending" /\ Mark(t, "built")
       \/ /\ tx[t].status \in {"built", "pending"}
          /\ Mark(t, "expired")
    /\ UNCHANGED <<contract, seq, lock, plan, recorded, job>>

\* Owner pays somebody directly, from the wallet.
OwnPayment ==
    /\ seq < MaxSeq                                              \* bound
    /\ \E p \in Parties, amt \in Amounts : TransferToken(Owner, p, amt)
    /\ seq' = seq + 1
    /\ UNCHANGED <<tx, lock, plan, recorded, job>>

\* Everything that happens around Owner.
Others ==
    /\ \/ \E a \in Accounts : Initialize(a)
       \/ \E s \in Accounts \ {Owner}, p \in Parties, amt \in Amounts,
             m \in MonthCounts, d \in FirstDues : CreateSchedule(s, p, amt, m, d)
       \/ \E id \in Ids, c \in Accounts \ {Owner} : Release(id, c)
       \/ CloseLedger
       \/ \E a \in Accounts : OpenAccount(a)
       \/ \E a \in Accounts \ {Owner}, p \in Parties, amt \in Amounts :
             TransferToken(a, p, amt)
    /\ UNCHANGED flow

Step(r) ==
    \/ LoadAccount(r) \/ Simulate(r) \/ Send(r)
    \/ PollDecided(r) \/ PollAgain(r) \/ InsertPlan(r) \/ RecordSent(r)

Browser(r, s) ==
    \/ \E i \in Input, t \in Creates : BuildEscrow(r, s, i, t) \/ CreateEscrowed(r, s, i, t)
    \/ \E k \in PlanRows, t \in Releases : BuildRelease(r, s, k, t) \/ RecordRelease(r, s, k, t)

FNext ==
    \/ \E r \in Requests, s \in Servers : Browser(r, s)
    \/ \E r \in Requests : Step(r)
    \/ \E s \in Servers : Crash(s)
    \/ \E t \in Creates : ApplyCreate(t)
    \/ \E t \in Releases : ApplyRelease(t)
    \/ \E t \in Txs : Fail(t) \/ Drop(t)
    \/ OwnPayment
    \/ Others

FSpec == FInit /\ [][FNext]_fvars

\* A handler that can go on does: promises settle, the network answers queries.
FairFlow == FSpec /\ \A r \in Requests : WF_fvars(Step(r))

\* Besides, a browser that holds a signed escrow posts it again and again.
RetryingFlow ==
    /\ FairFlow
    /\ \A t \in Creates : SF_fvars(\E r \in Requests, s \in Servers, i \in Input :
                                       CreateEscrowed(r, s, i, t))

-----------------------------------------------------------------------------
FTypeOK ==
    /\ TypeOK
    /\ seq \in Nat
    /\ tx \in [Txs -> Tx]
    /\ lock \in [Servers -> Seq(Requests)]
    /\ plan \in [PlanRows -> Plan \cup {NoInput}]
    /\ recorded \in [Releases -> PlanRows \cup {0}]
    /\ job \in [Requests -> Job]

\* A schedule of Owner's that the contract holds is the one an input asks for.
Backs(id, i) ==
    /\ id \in Ids
    /\ Created(id)
    /\ schedules[id].sender = Owner
    /\ schedules[id].recipient = i.recipient
    /\ schedules[id].monthly_amount = i.amount
    /\ schedules[id].months = i.months

\* A plan the user sees as escrowed is backed by a schedule that the contract
\* holds, from this sender and with the recipient, amount and months of the
\* plan: what was built, signed, posted, validated, applied, polled and
\* inserted in different places is one and the same order (createEscrowed,
\* validateSignedCreateSchedule, submitCreateSchedule).
PlanIsBacked ==
    \A k \in PlanRows : plan[k] # NoInput => Backs(plan[k].id, plan[k].input)

\* The server never records more payments against a schedule than the contract
\* has released from it, however often a release is posted, resent or given up
\* on (recordRelease, submitSorobanSigned).
RecordedAreReleased ==
    \A id \in Ids :
        LET rs == {t \in Releases : recorded[t] # 0 /\ plan[recorded[t]].id = id} IN
        rs # {} => Cardinality(rs) <= schedules[id].periods_released

\* With a single process, an escrow posted twice makes one plan: the second
\* request waits for the first and then finds the number used up
\* (withAccountLock, submitSorobanSigned).
OnePlanPerSchedule ==
    \A j, k \in PlanRows :
        plan[j] # NoInput /\ plan[k] # NoInput /\ plan[j].id = plan[k].id => j = k

\* Every request is answered: no failure of one before it leaves a request
\* waiting for its turn for ever (withAccountLock).
EveryRequestAnswered == \A r \in Requests : job[r].at # "idle" ~> job[r].at = "idle"

\* "Submit the sender-signed escrow, then persist the allowance backed by the
\* on-chain schedule id" (createEscrowed): what was escrowed for an input that
\* was posted becomes a plan.
EscrowBecomesPlan ==
    \A t \in Creates :
        tx[t].status = "landed" ~> \E k \in PlanRows : plan[k] # NoInput /\ plan[k].id = tx[t].id
=============================================================================
