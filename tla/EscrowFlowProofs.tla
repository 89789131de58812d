-------------------------- MODULE EscrowFlowProofs --------------------------
(***************************************************************************)
(* Proofs about EscrowFlow: the requests, the crashes and the network      *)
(* around the contract only ever do what the contract allows, a plan is    *)
(* backed by its schedule, no more releases are recorded than were made,   *)
(* and in one process an escrow makes one plan.                            *)
(***************************************************************************)
EXTENDS EscrowFlow, BaktiEscrowProofs, FiniteSetTheorems

USE DEF Parties, Ids, U32

\* A transaction that has been built is a complete call; an escrow that landed
\* is the schedule it asked for.
Known(t) ==
    /\ t \in Creates /\ tx[t].status # "unbuilt" => tx[t].input \in Input
    /\ t \in Releases /\ tx[t].status # "unbuilt" => tx[t].id \in Ids
    /\ t \in Creates /\ tx[t].status = "landed" => Backs(tx[t].id, tx[t].input)

Building(r) == job[r].at \in {"load", "simulate"}
Submitting(r) == job[r].at \in {"send", "poll", "insert", "record"}

\* What a handler relies on after an await.
Relies(r) ==
    /\ Building(r) => job[r].tx \in Txs /\ tx[job[r].tx].status = "draft"
    /\ Submitting(r) => job[r].tx \in Txs /\ HandedOut(job[r].tx)
    /\ Submitting(r) /\ job[r].tx \in Creates => job[r].input = tx[job[r].tx].input
    /\ job[r].at = "insert" => job[r].tx \in Creates /\ tx[job[r].tx].status = "landed"

\* No two handlers build the same transaction.
OneBuilder ==
    \A q, r \in Requests : Building(q) /\ Building(r) /\ job[q].tx = job[r].tx => q = r

FlowTypes ==
    /\ seq \in Nat
    /\ tx \in [Txs -> Tx]
    /\ plan \in [PlanRows -> Plan \cup {NoInput}]
    /\ job \in [Requests -> Job]

FlowInv ==
    /\ FlowTypes
    /\ \A t \in Txs : Known(t)
    /\ \A r \in Requests : Relies(r)
    /\ OneBuilder
    /\ PlanIsBacked

-----------------------------------------------------------------------------
(* What the helpers of the handlers change.                                *)

LEMMA MarkFields ==
    ASSUME FlowTypes, NEW t \in Txs, NEW st, Mark(t, st),
           st \in {"built", "pending", "landed", "failed", "expired"}
    PROVE  /\ tx' \in [Txs -> Tx]
           /\ \A u \in Txs : /\ tx'[u].input = tx[u].input
                             /\ tx'[u].due = tx[u].due
                             /\ tx'[u].id = tx[u].id
                             /\ tx'[u].status = IF u = t THEN st ELSE tx[u].status
  <1>1. tx[t] \in Tx
    BY DEF FlowTypes
  <1> DEFINE x == [tx[t] EXCEPT !.status = st]
  <1>2. /\ x \in Tx /\ x.input = tx[t].input /\ x.due = tx[t].due /\ x.id = tx[t].id
        /\ x.status = st
    BY <1>1 DEF Tx
  <1>3. tx' = [tx EXCEPT ![t] = x]
    BY DEF Mark
  <1> HIDE DEF x
  <1> QED
    BY <1>2, <1>3 DEF FlowTypes

LEMMA GotoFields ==
    ASSUME FlowTypes, NEW r \in Requests, NEW place, Goto(r, place),
           place \in {"simulate", "poll", "insert", "record"}
    PROVE  /\ job' \in [Requests -> Job]
           /\ \A q \in Requests : /\ job'[q].tx = job[q].tx
                                  /\ job'[q].input = job[q].input
                                  /\ job'[q].at = IF q = r THEN place ELSE job[q].at
  <1>1. job[r] \in Job
    BY DEF FlowTypes
  <1> DEFINE x == [job[r] EXCEPT !.at = place]
  <1>2. x \in Job /\ x.tx = job[r].tx /\ x.input = job[r].input /\ x.at = place
    BY <1>1 DEF Job
  <1>3. job' = [job EXCEPT ![r] = x]
    BY DEF Goto
  <1> HIDE DEF x
  <1> QED
    BY <1>2, <1>3 DEF FlowTypes

LEMMA ReturnFields ==
    ASSUME FlowTypes, NEW r \in Requests, Return(r)
    PROVE  /\ job' \in [Requests -> Job]
           /\ job'[r].at = "idle"
           /\ \A q \in Requests \ {r} : job'[q] = job[q]
BY PollAssumption DEF Return, FlowTypes, Idle, Job

LEMMA StartFields ==
    ASSUME FlowTypes, NEW r \in Requests, NEW s \in Servers, NEW place, NEW t \in Txs,
           NEW i \in Input \cup {NoInput}, NEW k \in PlanRows \cup {0},
           place \in {"load", "send"}, Start(r, s, place, t, i, k)
    PROVE  /\ job' \in [Requests -> Job]
           /\ job'[r].at = place /\ job'[r].tx = t /\ job'[r].input = i
           /\ \A q \in Requests \ {r} : job'[q] = job[q]
BY PollAssumption DEF Start, FlowTypes, Job

-----------------------------------------------------------------------------
(* The contract takes the flow's steps as its own.                         *)

LEMMA InitFlow == FInit => Init /\ FlowInv
  <1> SUFFICES ASSUME FInit PROVE Init /\ FlowInv
    OBVIOUS
  <1>1. Unbuilt \in Tx /\ Unbuilt.status = "unbuilt"
    BY BoundAssumption, WidthAssumption DEF Unbuilt, Tx, NoId
  <1>2. Idle \in Job /\ Idle.at = "idle"
    BY PollAssumption DEF Idle, Job
  <1>3. FlowTypes
    BY <1>1, <1>2 DEF FInit, FlowTypes
  <1>4. \A t \in Txs : Known(t)
    BY <1>1 DEF FInit, Known
  <1>5. (\A r \in Requests : Relies(r)) /\ OneBuilder
    BY <1>2 DEF FInit, Relies, OneBuilder, Building, Submitting
  <1>6. PlanIsBacked
    BY DEF FInit, PlanIsBacked
  <1> QED
    BY <1>3, <1>4, <1>5, <1>6 DEF FInit, FlowInv

LEMMA FlowStepsAside ==
    ASSUME \/ \E r \in Requests, s \in Servers : Browser(r, s)
           \/ \E r \in Requests : Step(r)
           \/ \E s \in Servers : Crash(s)
           \/ \E t \in Txs : Fail(t) \/ Drop(t)
    PROVE  UNCHANGED vars
BY DEF Browser, Step, Crash, Fail, Drop, BuildEscrow, CreateEscrowed, BuildRelease,
       RecordRelease, LoadAccount, Simulate, Send, PollDecided, PollAgain,
       InsertPlan, RecordSent, contract, vars

LEMMA ApplyCreateIsCreate ==
    ASSUME IInv, FlowInv, NEW t \in Creates, ApplyCreate(t)
    PROVE  /\ \E s \in Accounts, r \in Parties, amt \in Amounts, m \in MonthCounts,
                 d \in FirstDues : CreateSchedule(s, r, amt, m, d)
           /\ tx[t].input \in Input
  <1>1. t \in Txs
    BY DEF Txs
  <1>2. tx[t].input \in Input /\ tx[t].due \in 0 .. MaxLedger
    BY <1>1 DEF ApplyCreate, FlowInv, FlowTypes, Known, Tx
  <1>3. /\ tx[t].input.recipient \in Parties /\ tx[t].input.amount \in Amounts
        /\ tx[t].input.months \in MonthCounts /\ tx[t].due \in FirstDues
    BY <1>2, DuesAssumption DEF Input
  <1>4. CreateSchedule(Owner, tx[t].input.recipient, tx[t].input.amount,
                       tx[t].input.months, tx[t].due)
    BY DEF ApplyCreate
  <1> QED
    BY <1>2, <1>3, <1>4, OwnerAssumption, Zenon

LEMMA FlowIsContract == IInv /\ FlowInv /\ [FNext]_fvars => [Next]_vars
  <1> SUFFICES ASSUME IInv, FlowInv, [FNext]_fvars PROVE [Next]_vars
    OBVIOUS
  <1>1. CASE UNCHANGED fvars
    BY <1>1 DEF fvars, vars
  <1>2. CASE \/ \E r \in Requests, s \in Servers : Browser(r, s)
             \/ \E r \in Requests : Step(r)
             \/ \E s \in Servers : Crash(s)
             \/ \E t \in Txs : Fail(t) \/ Drop(t)
    BY <1>2, FlowStepsAside
  <1>3. CASE \E t \in Creates : ApplyCreate(t)
    BY <1>3, ApplyCreateIsCreate DEF Next
  <1>4. CASE \E t \in Releases : ApplyRelease(t)
    <2>1. PICK t \in Releases : ApplyRelease(t)
      BY <1>4
    <2>2. tx[t].id \in Ids
      BY <2>1 DEF ApplyRelease, FlowInv, Known, Txs
    <2> QED
      BY <2>1, <2>2, OwnerAssumption DEF ApplyRelease, Next
  <1>5. CASE OwnPayment
    BY <1>5, OwnerAssumption DEF OwnPayment, Next
  <1>6. CASE Others
    BY <1>6 DEF Others, Next
  <1> QED
    BY <1>1, <1>2, <1>3, <1>4, <1>5, <1>6 DEF FNext

-----------------------------------------------------------------------------
(* What has been established lasts.                                        *)

\* No later call overwrites or alters the schedule behind an escrow.
LEMMA BackingLasts ==
    ASSUME IInv, [Next]_vars
    PROVE  \A id, i : Backs(id, i) => Backs(id, i)'
  <1> SUFFICES ASSUME NEW id, NEW i, Backs(id, i) PROVE Backs(id, i)'
    OBVIOUS
  <1>1. /\ schedules \in [Ids -> Schedule \cup {NoSchedule}] /\ id \in Ids
        /\ schedules[id] \in Schedule /\ id # nextId
    BY BoundAssumption DEF IInv, TypeOK, TermsKept, Backs, Created
  <1>2. CASE \E s \in Accounts, r \in Parties, amt \in Amounts, m \in MonthCounts,
                d \in FirstDues : CreateSchedule(s, r, amt, m, d)
    <2>1. schedules'[id] = schedules[id]
      BY <1>1, <1>2 DEF CreateSchedule
    <2> QED
      BY <2>1 DEF Backs, Created
  <1>3. ASSUME NEW j \in Ids, NEW c \in Accounts, Release(j, c)
        PROVE  Backs(id, i)'
    <2>1. CASE j = id
      <3>1. schedules'[id] = AfterRelease(schedules[id])
        BY <1>1, <1>3, <2>1 DEF Release
      <3>2. /\ AfterRelease(schedules[id]) \in Schedule
            /\ AfterRelease(schedules[id]).sender = schedules[id].sender
            /\ AfterRelease(schedules[id]).recipient = schedules[id].recipient
            /\ AfterRelease(schedules[id]).monthly_amount = schedules[id].monthly_amount
            /\ AfterRelease(schedules[id]).months = schedules[id].months
        BY <1>1, <1>3, <2>1, AfterReleaseFields DEF Release
      <3> QED
        BY <1>1, <3>1, <3>2, NoScheduleAssumption DEF Backs, Created
    <2>2. CASE j # id
      <3>1. schedules'[id] = schedules[id]
        BY <1>1, <1>3, <2>2 DEF Release
      <3> QED
        BY <3>1 DEF Backs, Created
    <2> QED
      BY <2>1, <2>2
  <1>4. CASE UNCHANGED schedules
    BY <1>4 DEF Backs, Created
  <1> QED
    BY <1>2, <1>3, <1>4 DEF Next, vars, Initialize, CloseLedger, OpenAccount, TransferToken

\* What is known of a transaction stays true while it neither changes nor lands.
LEMMA KnownLasts ==
    ASSUME IInv, FlowInv, [Next]_vars, NEW t \in Txs,
           tx'[t].input = tx[t].input, tx'[t].id = tx[t].id,
           tx'[t].status # "unbuilt" => tx[t].status # "unbuilt",
           tx'[t].status = "landed" => tx[t].status = "landed"
    PROVE  Known(t)'
  <1>1. Known(t)
    BY DEF FlowInv
  <1>2. \A id, i : Backs(id, i) => Backs(id, i)'
    BY BackingLasts
  <1> QED
    BY <1>1, <1>2 DEF Known, Backs, Created

\* So do the plans, as long as none is written.
LEMMA PlansLast ==
    ASSUME IInv, FlowInv, [Next]_vars, UNCHANGED plan
    PROVE  PlanIsBacked'
  <1>1. \A id, i : Backs(id, i) => Backs(id, i)'
    BY BackingLasts
  <1>2. \A k \in PlanRows : plan[k] # NoInput => Backs(plan[k].id, plan[k].input)
    BY DEF FlowInv, PlanIsBacked
  <1> DEFINE Kept(id, i) ==
                 /\ id \in Ids /\ schedules'[id] # NoSchedule
                 /\ schedules'[id].sender = Owner
                 /\ schedules'[id].recipient = i.recipient
                 /\ schedules'[id].monthly_amount = i.amount
                 /\ schedules'[id].months = i.months
  <1>3. \A id, i : Backs(id, i) => Kept(id, i)
    BY <1>1 DEF Backs, Created
  <1>4. \A k \in PlanRows : plan[k] # NoInput => Kept(plan[k].id, plan[k].input)
    <2> HIDE DEF Kept
    <2> QED
      BY <1>2, <1>3
  <1> QED
    BY <1>4 DEF PlanIsBacked, Backs, Created

\* What a handler relies on stays true while its transaction is at most handed
\* out, sent and decided, and none that it builds is handed out by another.
LEMMA RelianceLasts ==
    ASSUME FlowInv, NEW r \in Requests,
           job'[r].at = job[r].at, job'[r].tx = job[r].tx, job'[r].input = job[r].input,
           job[r].tx \in Txs => /\ tx'[job[r].tx].input = tx[job[r].tx].input
                                /\ HandedOut(job[r].tx) => HandedOut(job[r].tx)'
                                /\ tx[job[r].tx].status = "landed"
                                     => tx'[job[r].tx].status = "landed"
                                /\ Building(r) => tx'[job[r].tx].status = "draft"
    PROVE  Relies(r)'
  <1>1. Relies(r)
    BY DEF FlowInv
  <1>2. (Building(r)' <=> Building(r)) /\ (Submitting(r)' <=> Submitting(r))
    BY DEF Building, Submitting
  <1>3. CASE Building(r)
    BY <1>1, <1>2, <1>3 DEF Relies, Building, Submitting
  <1>4. CASE Submitting(r)
    BY <1>1, <1>2, <1>4 DEF Relies, Building, Submitting, HandedOut
  <1> QED
    BY <1>2, <1>3, <1>4 DEF Relies, Submitting

\* A step that touches neither a transaction nor a plan.
LEMMA NothingWritten ==
    ASSUME IInv, FlowInv, [Next]_vars, UNCHANGED <<tx, plan>>
    PROVE  /\ \A t \in Txs : Known(t)'
           /\ \A q \in Requests : job'[q] = job[q] => Relies(q)'
           /\ PlanIsBacked'
  <1>1. \A t \in Txs : Known(t)'
    BY KnownLasts
  <1>2. \A q \in Requests : job'[q] = job[q] => Relies(q)'
    <2> SUFFICES ASSUME NEW q \in Requests, job'[q] = job[q] PROVE Relies(q)'
      OBVIOUS
    <2>1. Building(q) => tx[job[q].tx].status = "draft"
      BY DEF FlowInv, Relies
    <2>2. HandedOut(job[q].tx) => HandedOut(job[q].tx)'
      BY DEF HandedOut
    <2> QED
      BY <2>1, <2>2, RelianceLasts
  <1> QED
    BY <1>1, <1>2, PlansLast

\* A transaction that did not land yet is marked, and does not land.
LEMMA MarkKeeps ==
    ASSUME IInv, FlowInv, [Next]_vars, UNCHANGED plan, NEW t \in Txs, NEW st,
           st \in {"built", "pending", "failed", "expired"}, Mark(t, st),
           tx[t].status \in {"draft", "built", "pending"}
    PROVE  /\ tx' \in [Txs -> Tx]
           /\ \A u \in Txs : Known(u)'
           /\ \A q \in Requests :
                  /\ job'[q].at = job[q].at /\ job'[q].tx = job[q].tx
                  /\ job'[q].input = job[q].input
                  /\ ~(Building(q) /\ job[q].tx = t)
                  => Relies(q)'
           /\ PlanIsBacked'
  <1>1. /\ tx' \in [Txs -> Tx]
        /\ \A u \in Txs : /\ tx'[u].input = tx[u].input
                          /\ tx'[u].id = tx[u].id
                          /\ tx'[u].status = IF u = t THEN st ELSE tx[u].status
    BY MarkFields DEF FlowInv
  <1>2. \A u \in Txs : Known(u)'
    BY <1>1, KnownLasts
  <1>3. ASSUME NEW q \in Requests, job'[q].at = job[q].at, job'[q].tx = job[q].tx,
               job'[q].input = job[q].input, ~(Building(q) /\ job[q].tx = t)
        PROVE  Relies(q)'
    <2>1. Building(q) => tx[job[q].tx].status = "draft"
      BY DEF FlowInv, Relies
    <2>2. job[q].tx \in Txs => /\ HandedOut(job[q].tx) => HandedOut(job[q].tx)'
                               /\ tx[job[q].tx].status = "landed"
                                    => tx'[job[q].tx].status = "landed"
      BY <1>1, <1>3 DEF HandedOut
    <2>3. job[q].tx \in Txs /\ Building(q) => tx'[job[q].tx].status = "draft"
      BY <1>1, <1>3, <2>1
    <2> QED
      BY <1>1, <1>3, <2>2, <2>3, RelianceLasts
  <1> QED
    BY <1>1, <1>2, <1>3, PlansLast

LEMMA IdleReliesOnNothing ==
    ASSUME NEW q \in Requests, job'[q].at = "idle"
    PROVE  Relies(q)'
BY DEF Relies, Building, Submitting

\* A handler that returns leaves the others as they were.
LEMMA ReturnKeeps ==
    ASSUME FlowInv, NEW r \in Requests, Return(r), seq' \in Nat, tx' \in [Txs -> Tx],
           plan' \in [PlanRows -> Plan \cup {NoInput}], PlanIsBacked',
           \A t \in Txs : Known(t)',
           \A q \in Requests \ {r} : job'[q] = job[q] => Relies(q)'
    PROVE  FlowInv'
  <1>1. /\ job' \in [Requests -> Job] /\ job'[r].at = "idle"
        /\ \A q \in Requests \ {r} : job'[q] = job[q]
    BY ReturnFields DEF FlowInv
  <1>2. \A q \in Requests : Relies(q)'
    BY <1>1, IdleReliesOnNothing
  <1>3. OneBuilder'
    BY <1>1 DEF FlowInv, OneBuilder, Building
  <1>4. FlowTypes'
    BY <1>1 DEF FlowTypes
  <1> QED
    BY <1>2, <1>3, <1>4 DEF FlowInv

-----------------------------------------------------------------------------
(* The steps of the browser.                                               *)

LEMMA BuildKeeps ==
    ASSUME IInv, FlowInv, [Next]_vars, UNCHANGED <<seq, plan>>,
           NEW r \in Requests, NEW s \in Servers, NEW t \in Txs, NEW x \in Tx,
           tx[t] = Unbuilt, tx' = [tx EXCEPT ![t] = x], x.status = "draft",
           t \in Creates => x.input \in Input, t \in Releases => x.id \in Ids,
           Start(r, s, "load", t, NoInput, 0)
    PROVE  FlowInv'
  <1>1. /\ job' \in [Requests -> Job] /\ job'[r].at = "load" /\ job'[r].tx = t
        /\ \A q \in Requests \ {r} : job'[q] = job[q]
    BY StartFields DEF FlowInv
  <1>2. /\ tx' \in [Txs -> Tx] /\ tx'[t] = x
        /\ \A u \in Txs \ {t} : tx'[u] = tx[u]
    BY DEF FlowInv, FlowTypes
  <1>3. \A u \in Txs : Known(u)'
    <2>1. Known(t)'
      BY <1>2 DEF Known
    <2>2. \A u \in Txs \ {t} : Known(u)'
      BY <1>2, KnownLasts
    <2> QED
      BY <2>1, <2>2
  <1>4. \A q \in Requests \ {r} : (Building(q) \/ Submitting(q)) => job[q].tx # t
    BY DEF FlowInv, Relies, HandedOut, Unbuilt
  <1>5. \A q \in Requests : Relies(q)'
    <2>1. Relies(r)'
      BY <1>1, <1>2 DEF Relies, Building, Submitting
    <2>2. ASSUME NEW q \in Requests \ {r} PROVE Relies(q)'
      <3>1. Relies(q) /\ job'[q] = job[q]
        BY <1>1 DEF FlowInv
      <3> QED
        BY <1>2, <1>4, <3>1 DEF Relies, Building, Submitting, HandedOut
    <2> QED
      BY <2>1, <2>2
  <1>6. OneBuilder'
    BY <1>1, <1>4 DEF FlowInv, OneBuilder, Building
  <1>7. FlowTypes'
    BY <1>1, <1>2 DEF FlowInv, FlowTypes
  <1> QED
    BY <1>3, <1>5, <1>6, <1>7, PlansLast DEF FlowInv

LEMMA PostKeeps ==
    ASSUME IInv, FlowInv, [Next]_vars, UNCHANGED <<seq, tx, plan>>,
           NEW r \in Requests, NEW s \in Servers, NEW t \in Txs,
           NEW i \in Input \cup {NoInput}, NEW k \in PlanRows \cup {0},
           HandedOut(t), t \in Creates => tx[t].input = i,
           Start(r, s, "send", t, i, k)
    PROVE  FlowInv'
  <1>1. /\ job' \in [Requests -> Job] /\ job'[r].at = "send" /\ job'[r].tx = t
        /\ job'[r].input = i
        /\ \A q \in Requests \ {r} : job'[q] = job[q]
    <2>1. FlowTypes
      BY DEF FlowInv
    <2> DEFINE place == "send"
    <2>2. place \in {"load", "send"} /\ Start(r, s, place, t, i, k)
      OBVIOUS
    <2> HIDE DEF place
    <2>3. /\ job' \in [Requests -> Job] /\ job'[r].at = place /\ job'[r].tx = t
          /\ job'[r].input = i
          /\ \A q \in Requests \ {r} : job'[q] = job[q]
      BY <2>1, <2>2, StartFields
    <2> QED
      BY <2>3 DEF place
  <1>2. Relies(r)'
    BY <1>1 DEF Relies, Building, Submitting, HandedOut
  <1>3. /\ \A u \in Txs : Known(u)'
        /\ \A q \in Requests : Relies(q)'
        /\ PlanIsBacked'
    BY <1>1, <1>2, NothingWritten
  <1>4. OneBuilder'
    BY <1>1 DEF FlowInv, OneBuilder, Building
  <1>5. FlowTypes'
    BY <1>1 DEF FlowInv, FlowTypes
  <1> QED
    BY <1>3, <1>4, <1>5 DEF FlowInv

LEMMA BrowserKeeps ==
    ASSUME IInv, FlowInv, [Next]_vars, NEW r \in Requests, NEW s \in Servers, Browser(r, s)
    PROVE  FlowInv'
  <1>1. ASSUME NEW i \in Input, NEW t \in Creates, BuildEscrow(r, s, i, t)
        PROVE  FlowInv'
    <2> DEFINE x == [status |-> "draft", seq |-> 0, input |-> i, due |-> ledger, id |-> NoId]
    <2>1. x \in Tx /\ x.status = "draft" /\ x.input \in Input
      BY DEF Tx, NoId, IInv, TypeOK
    <2>2. t \in Txs /\ t \notin Releases
      BY TxAssumption DEF Txs
    <2>3. /\ tx[t] = Unbuilt /\ tx' = [tx EXCEPT ![t] = x]
          /\ Start(r, s, "load", t, NoInput, 0) /\ UNCHANGED <<seq, plan>>
      BY <1>1 DEF BuildEscrow
    <2> HIDE DEF x
    <2> QED
      BY <2>1, <2>2, <2>3, BuildKeeps
  <1>2. ASSUME NEW k \in PlanRows, NEW t \in Releases, BuildRelease(r, s, k, t)
        PROVE  FlowInv'
    <2> DEFINE x == [status |-> "draft", seq |-> 0, input |-> NoInput, due |-> 0,
                     id |-> plan[k].id]
    <2>1. plan[k].id \in Ids
      BY <1>2 DEF BuildRelease, FlowInv, FlowTypes, Plan
    <2>2. x \in Tx /\ x.status = "draft" /\ x.id \in Ids
      BY <2>1, BoundAssumption, WidthAssumption DEF Tx
    <2>3. t \in Txs /\ t \notin Creates
      BY TxAssumption DEF Txs
    <2>4. /\ tx[t] = Unbuilt /\ tx' = [tx EXCEPT ![t] = x]
          /\ Start(r, s, "load", t, NoInput, 0) /\ UNCHANGED <<seq, plan>>
      BY <1>2 DEF BuildRelease
    <2> HIDE DEF x
    <2> QED
      BY <2>2, <2>3, <2>4, BuildKeeps
  <1>3. ASSUME NEW i \in Input, NEW t \in Creates, CreateEscrowed(r, s, i, t)
        PROVE  FlowInv'
    <2>1. /\ HandedOut(t) /\ tx[t].input = i /\ t \in Txs
          /\ Start(r, s, "send", t, i, 0) /\ UNCHANGED <<seq, tx, plan>>
      BY <1>3 DEF CreateEscrowed, AcceptsCreate, Txs
    <2> QED
      BY <2>1, PostKeeps
  <1>4. ASSUME NEW k \in PlanRows, NEW t \in Releases, RecordRelease(r, s, k, t)
        PROVE  FlowInv'
    <2>1. /\ HandedOut(t) /\ t \in Txs /\ t \notin Creates
          /\ Start(r, s, "send", t, NoInput, k) /\ UNCHANGED <<seq, tx, plan>>
      BY <1>4, TxAssumption DEF RecordRelease, AcceptsRelease, Txs
    <2> QED
      BY <2>1, PostKeeps
  <1> QED
    BY <1>1, <1>2, <1>3, <1>4 DEF Browser

-----------------------------------------------------------------------------
(* The steps of a handler.                                                 *)

\* A handler that goes from one await to the next.
LEMMA GotoKeeps ==
    ASSUME FlowInv, NEW r \in Requests, NEW place, Goto(r, place),
           place \in {"simulate", "poll", "insert", "record"},
           place = "simulate" => Building(r),
           seq' \in Nat, tx' \in [Txs -> Tx], UNCHANGED plan, PlanIsBacked',
           \A t \in Txs : Known(t)',
           Relies(r)',
           \A q \in Requests \ {r} :
               /\ job'[q].at = job[q].at /\ job'[q].tx = job[q].tx
               /\ job'[q].input = job[q].input
               => Relies(q)'
    PROVE  FlowInv'
  <1>1. /\ job' \in [Requests -> Job]
        /\ \A q \in Requests : /\ job'[q].tx = job[q].tx
                               /\ job'[q].input = job[q].input
                               /\ job'[q].at = IF q = r THEN place ELSE job[q].at
    BY GotoFields DEF FlowInv
  <1>2. \A q \in Requests : Relies(q)'
    BY <1>1
  <1>3. OneBuilder'
    BY <1>1 DEF FlowInv, OneBuilder, Building
  <1>4. FlowTypes'
    BY <1>1 DEF FlowInv, FlowTypes
  <1> QED
    BY <1>2, <1>3, <1>4 DEF FlowInv

\* A handler that throws.
LEMMA ThrowKeeps ==
    ASSUME IInv, FlowInv, [Next]_vars, NEW r \in Requests, Throw(r),
           UNCHANGED <<seq, tx, plan>>
    PROVE  FlowInv'
BY NothingWritten, ReturnKeeps DEF Throw, FlowInv, FlowTypes

LEMMA LoadAccountKeeps ==
    ASSUME IInv, FlowInv, [Next]_vars, NEW r \in Requests, LoadAccount(r)
    PROVE  FlowInv'
  <1> DEFINE t == job[r].tx
  <1> DEFINE x == [tx[t] EXCEPT !.seq = seq + 1]
  <1>1. Building(r) /\ t \in Txs /\ tx[t] \in Tx /\ seq + 1 \in Nat
        /\ tx[t].status = "draft"
    BY DEF LoadAccount, At, Building, FlowInv, FlowTypes, Relies
  <1>2. /\ x \in Tx /\ x.status = tx[t].status /\ x.input = tx[t].input
        /\ x.id = tx[t].id
    BY <1>1 DEF Tx
  <1>3. tx' = [tx EXCEPT ![t] = x] /\ Goto(r, "simulate") /\ UNCHANGED <<seq, plan>>
    BY DEF LoadAccount
  <1> HIDE DEF t, x
  <1>4. /\ tx' \in [Txs -> Tx]
        /\ \A u \in Txs : /\ tx'[u].input = tx[u].input /\ tx'[u].id = tx[u].id
                          /\ tx'[u].status = tx[u].status
    BY <1>1, <1>2, <1>3 DEF FlowInv, FlowTypes
  <1>5. \A u \in Txs : Known(u)'
    BY <1>4, KnownLasts
  <1>6. ASSUME NEW q \in Requests \ {r}, job'[q].at = job[q].at, job'[q].tx = job[q].tx,
               job'[q].input = job[q].input
        PROVE  Relies(q)'
    <2>1. Building(q) => tx[job[q].tx].status = "draft"
      BY DEF FlowInv, Relies
    <2>2. job[q].tx \in Txs => (HandedOut(job[q].tx) => HandedOut(job[q].tx)')
      BY <1>4, <1>6 DEF HandedOut
    <2> QED
      BY <1>4, <1>6, <2>1, <2>2, RelianceLasts
  <1>7. Relies(r)'
    <2>1. job'[r].at = "simulate" /\ job'[r].tx = t
      BY <1>3, GotoFields DEF FlowInv, t
    <2> QED
      BY <1>1, <1>4, <2>1 DEF Relies, Building, Submitting
  <1> QED
    BY <1>1, <1>3, <1>4, <1>5, <1>6, <1>7, PlansLast, GotoKeeps DEF FlowInv, FlowTypes

LEMMA SimulateKeeps ==
    ASSUME IInv, FlowInv, [Next]_vars, NEW r \in Requests, Simulate(r)
    PROVE  FlowInv'
  <1>1. CASE Throw(r) /\ UNCHANGED tx
    BY <1>1, ThrowKeeps DEF Simulate
  <1>2. CASE Mark(job[r].tx, "built") /\ Return(r)
    <2>1. Building(r) /\ job[r].tx \in Txs /\ tx[job[r].tx].status = "draft"
      BY DEF Simulate, At, Building, FlowInv, Relies
    <2>2. UNCHANGED <<seq, plan>>
      BY DEF Simulate
    <2>3. /\ tx' \in [Txs -> Tx] /\ PlanIsBacked'
          /\ \A u \in Txs : Known(u)'
          /\ \A q \in Requests :
                /\ job'[q].at = job[q].at /\ job'[q].tx = job[q].tx
                /\ job'[q].input = job[q].input
                /\ ~(Building(q) /\ job[q].tx = job[r].tx)
                => Relies(q)'
      BY <1>2, <2>1, <2>2, MarkKeeps
    <2>4. \A q \in Requests \ {r} : ~(Building(q) /\ job[q].tx = job[r].tx)
      BY <2>1 DEF FlowInv, OneBuilder
    <2> QED
      BY <1>2, <2>2, <2>3, <2>4, ReturnKeeps DEF FlowInv, FlowTypes
  <1> QED
    BY <1>1, <1>2 DEF Simulate

LEMMA SendKeeps ==
    ASSUME IInv, FlowInv, [Next]_vars, NEW r \in Requests, Send(r)
    PROVE  FlowInv'
  <1>1. CASE Throw(r) /\ UNCHANGED tx
    BY <1>1, ThrowKeeps DEF Send
  <1>2. CASE /\ Sendable(job[r].tx) /\ Mark(job[r].tx, "pending") /\ Goto(r, "poll")
    <2>1. Submitting(r) /\ job[r].tx \in Txs /\ Relies(r)
      BY DEF Send, At, Submitting, FlowInv, Relies
    <2>2. UNCHANGED <<seq, plan>>
      BY DEF Send
    <2>3. tx[job[r].tx].status \in {"draft", "built", "pending"} /\ ~Building(r)
      BY <1>2, <2>1 DEF Sendable, Submitting, Building
    <2>4. /\ tx' \in [Txs -> Tx] /\ PlanIsBacked'
          /\ \A u \in Txs : Known(u)'
          /\ \A q \in Requests :
                /\ job'[q].at = job[q].at /\ job'[q].tx = job[q].tx
                /\ job'[q].input = job[q].input
                /\ ~(Building(q) /\ job[q].tx = job[r].tx)
                => Relies(q)'
      BY <1>2, <2>1, <2>2, <2>3, MarkKeeps
    <2>5. \A q \in Requests : ~(Building(q) /\ job[q].tx = job[r].tx)
      BY <1>2 DEF Sendable, FlowInv, Relies
    <2>6. /\ job'[r].at = "poll" /\ job'[r].tx = job[r].tx /\ job'[r].input = job[r].input
      BY <1>2, GotoFields DEF FlowInv
    <2>7. /\ tx'[job[r].tx].input = tx[job[r].tx].input
          /\ tx'[job[r].tx].status = "pending"
      BY <1>2, <2>1, MarkFields DEF FlowInv
    <2>8. Relies(r)'
      BY <2>1, <2>6, <2>7 DEF Relies, Building, Submitting, HandedOut
    <2> QED
      BY <1>2, <2>2, <2>4, <2>5, <2>8, GotoKeeps DEF FlowInv, FlowTypes
  <1> QED
    BY <1>1, <1>2 DEF Send

LEMMA PollDecidedKeeps ==
    ASSUME IInv, FlowInv, [Next]_vars, NEW r \in Requests, PollDecided(r)
    PROVE  FlowInv'
  <1>1. CASE Throw(r)
    BY <1>1, ThrowKeeps DEF PollDecided
  <1>2. CASE /\ Succeeded(job[r].tx)
             /\ Goto(r, IF job[r].tx \in Creates THEN "insert" ELSE "record")
    <2> DEFINE place == IF job[r].tx \in Creates THEN "insert" ELSE "record"
    <2>1. Goto(r, place) /\ place \in {"simulate", "poll", "insert", "record"}
          /\ place # "simulate" /\ (place = "insert" => job[r].tx \in Creates)
          /\ place \in {"insert", "record"}
      BY <1>2
    <2> HIDE DEF place
    <2>2. UNCHANGED <<seq, tx, plan>>
      BY DEF PollDecided
    <2>3. Submitting(r) /\ Relies(r)
      BY DEF PollDecided, At, Submitting, FlowInv
    <2>4. /\ PlanIsBacked'
          /\ \A u \in Txs : Known(u)'
      BY <2>2, NothingWritten
    <2>5. /\ job' \in [Requests -> Job]
          /\ \A q \in Requests : /\ job'[q].tx = job[q].tx
                                 /\ job'[q].input = job[q].input
                                 /\ job'[q].at = IF q = r THEN place ELSE job[q].at
      BY <2>1, GotoFields DEF FlowInv
    <2>6. Relies(r)'
      BY <1>2, <2>1, <2>2, <2>3, <2>5
         DEF Relies, Building, Submitting, HandedOut, Succeeded
    <2>7. ASSUME NEW q \in Requests \ {r} PROVE Relies(q)'
      <3>1. Relies(q) /\ job'[q].at = job[q].at
        BY <2>5 DEF FlowInv
      <3> QED
        BY <2>2, <2>5, <3>1 DEF Relies, Building, Submitting, HandedOut
    <2> QED
      BY <2>1, <2>2, <2>4, <2>6, <2>7, GotoKeeps DEF FlowInv, FlowTypes
  <1> QED
    BY <1>1, <1>2 DEF PollDecided

LEMMA PollAgainKeeps ==
    ASSUME IInv, FlowInv, [Next]_vars, NEW r \in Requests, PollAgain(r)
    PROVE  FlowInv'
  <1>1. /\ UNCHANGED <<seq, plan>> /\ At(r, "poll")
        /\ (Mark(job[r].tx, "pending") /\ Sendable(job[r].tx)) \/ UNCHANGED tx
        /\ \/ LastPoll(r) /\ Throw(r)
           \/ ~LastPoll(r) /\ job' = [job EXCEPT ![r].polls = @ + 1]
    BY DEF PollAgain
  <1>2. Submitting(r) /\ ~Building(r) /\ job[r].tx \in Txs /\ job[r] \in Job
    BY <1>1 DEF At, Submitting, Building, FlowInv, FlowTypes, Relies
  <1>3. /\ tx' \in [Txs -> Tx] /\ PlanIsBacked'
        /\ \A u \in Txs : Known(u)'
        /\ \A q \in Requests :
              /\ job'[q].at = job[q].at /\ job'[q].tx = job[q].tx
              /\ job'[q].input = job[q].input
              => Relies(q)'
    <2>1. CASE UNCHANGED tx
      <3>1. ASSUME NEW q \in Requests, job'[q].at = job[q].at, job'[q].tx = job[q].tx,
                   job'[q].input = job[q].input
            PROVE  Relies(q)'
        <4>1. Relies(q)
          BY DEF FlowInv
        <4> QED
          BY <2>1, <3>1, <4>1 DEF Relies, Building, Submitting, HandedOut
      <3> QED
        BY <1>1, <2>1, <3>1, NothingWritten DEF FlowInv, FlowTypes
    <2>2. CASE Mark(job[r].tx, "pending") /\ Sendable(job[r].tx)
      <3>1. \A q \in Requests : ~(Building(q) /\ job[q].tx = job[r].tx)
        BY <2>2 DEF Sendable, FlowInv, Relies
      <3>2. tx[job[r].tx].status \in {"draft", "built", "pending"}
        BY <2>2 DEF Sendable
      <3> QED
        BY <1>1, <1>2, <2>2, <3>1, <3>2, MarkKeeps
    <2> QED
      BY <1>1, <2>1, <2>2
  <1>4. CASE Return(r)
    BY <1>1, <1>3, <1>4, ReturnKeeps DEF FlowInv, FlowTypes
  <1>5. CASE ~LastPoll(r) /\ job' = [job EXCEPT ![r].polls = @ + 1]
    <2> DEFINE x == [job[r] EXCEPT !.polls = @ + 1]
    <2>1. job[r].polls + 1 \in 0 .. MaxPolls
      BY <1>2, <1>5, PollAssumption DEF LastPoll, Job
    <2>2. /\ x \in Job /\ x.at = job[r].at /\ x.tx = job[r].tx /\ x.input = job[r].input
      BY <1>2, <2>1 DEF Job
    <2>3. job' = [job EXCEPT ![r] = x]
      BY <1>5
    <2> HIDE DEF x
    <2>4. /\ job' \in [Requests -> Job]
          /\ \A q \in Requests : /\ job'[q].at = job[q].at /\ job'[q].tx = job[q].tx
                                 /\ job'[q].input = job[q].input
      BY <2>2, <2>3 DEF FlowInv, FlowTypes
    <2>5. OneBuilder'
      BY <2>4 DEF FlowInv, OneBuilder, Building
    <2> QED
      BY <1>1, <1>3, <2>4, <2>5 DEF FlowInv, FlowTypes
  <1> QED
    BY <1>1, <1>4, <1>5 DEF Throw

LEMMA InsertPlanKeeps ==
    ASSUME IInv, FlowInv, [Next]_vars, NEW r \in Requests, InsertPlan(r)
    PROVE  FlowInv'
  <1> DEFINE t == job[r].tx
  <1> DEFINE p == [input |-> job[r].input, id |-> tx[t].id]
  <1>1. UNCHANGED <<seq, tx>> /\ Return(r) /\ At(r, "insert")
    BY DEF InsertPlan
  <1>2. /\ t \in Creates /\ t \in Txs /\ tx[t].status = "landed"
        /\ job[r].input = tx[t].input
    BY <1>1 DEF At, FlowInv, Relies, Submitting
  <1>3. Backs(tx[t].id, tx[t].input) /\ tx[t].input \in Input /\ tx[t].id \in Ids
    BY <1>2 DEF FlowInv, Known, Backs
  <1>4. Backs(p.id, p.input) /\ p \in Plan
    BY <1>2, <1>3 DEF Plan
  <1>5. \A j \in PlanRows : plan'[j] = plan[j] \/ plan'[j] = p
    <2>1. plan' = plan \/ \E k \in PlanRows : plan' = [plan EXCEPT ![k] = p]
      BY DEF InsertPlan
    <2> QED
      BY <2>1 DEF FlowInv, FlowTypes
  <1>6. plan' \in [PlanRows -> Plan \cup {NoInput}]
    <2>1. plan' = plan \/ \E k \in PlanRows : plan' = [plan EXCEPT ![k] = p]
      BY DEF InsertPlan
    <2> HIDE DEF p
    <2> QED
      BY <1>4, <2>1 DEF FlowInv, FlowTypes
  <1> HIDE DEF p
  <1>7. \A j \in PlanRows : plan'[j] # NoInput => Backs(plan'[j].id, plan'[j].input)
    BY <1>4, <1>5 DEF FlowInv, PlanIsBacked
  <1>8. UNCHANGED schedules
    BY DEF InsertPlan, contract
  <1>9. PlanIsBacked'
    BY <1>7, <1>8 DEF PlanIsBacked, Backs, Created
  <1>10. /\ \A u \in Txs : Known(u)'
         /\ \A q \in Requests : job'[q] = job[q] => Relies(q)'
    <2>1. \A u \in Txs : Known(u)'
      BY <1>1, KnownLasts
    <2>2. ASSUME NEW q \in Requests, job'[q] = job[q] PROVE Relies(q)'
      <3>1. Relies(q)
        BY DEF FlowInv
      <3> QED
        BY <1>1, <2>2, <3>1 DEF Relies, Building, Submitting, HandedOut
    <2> QED
      BY <2>1, <2>2
  <1> QED
    BY <1>1, <1>6, <1>9, <1>10, ReturnKeeps DEF FlowInv, FlowTypes

LEMMA RecordSentKeeps ==
    ASSUME IInv, FlowInv, [Next]_vars, NEW r \in Requests, RecordSent(r)
    PROVE  FlowInv'
BY NothingWritten, ReturnKeeps DEF RecordSent, FlowInv, FlowTypes

LEMMA StepKeeps ==
    ASSUME IInv, FlowInv, [Next]_vars, NEW r \in Requests, Step(r)
    PROVE  FlowInv'
BY LoadAccountKeeps, SimulateKeeps, SendKeeps, PollDecidedKeeps, PollAgainKeeps,
   InsertPlanKeeps, RecordSentKeeps DEF Step

-----------------------------------------------------------------------------
(* Crashes, the network, and everybody else.                               *)

LEMMA CrashKeeps ==
    ASSUME IInv, FlowInv, [Next]_vars, NEW s \in Servers, Crash(s)
    PROVE  FlowInv'
  <1>1. UNCHANGED <<seq, tx, plan>>
        /\ \A r \in Requests : job'[r] = job[r] \/ job'[r].at = "idle"
    BY DEF Crash, Idle
  <1>2. job' \in [Requests -> Job]
    <2>1. Idle \in Job
      BY PollAssumption DEF Idle, Job
    <2> QED
      BY <2>1 DEF Crash, FlowInv, FlowTypes
  <1>3. \A r \in Requests : Relies(r)'
    BY <1>1, NothingWritten, IdleReliesOnNothing
  <1>4. OneBuilder'
    BY <1>1 DEF FlowInv, OneBuilder, Building
  <1> QED
    BY <1>1, <1>2, <1>3, <1>4, NothingWritten DEF FlowInv, FlowTypes

\* A transaction in the network is decided or lost; no handler is involved.
LEMMA NetworkKeeps ==
    ASSUME IInv, FlowInv, [Next]_vars, NEW t \in Txs, Fail(t) \/ Drop(t)
    PROVE  FlowInv'
  <1>1. PICK st \in {"built", "failed", "expired"} : Mark(t, st)
    BY DEF Fail, Drop
  <1>2. /\ UNCHANGED <<plan, job>> /\ seq' \in Nat
        /\ tx[t].status \in {"draft", "built", "pending"} /\ tx[t].status # "draft"
    BY DEF Fail, Drop, FlowInv, FlowTypes
  <1>3. \A q \in Requests : ~(Building(q) /\ job[q].tx = t)
    BY <1>2 DEF FlowInv, Relies
  <1>4. /\ tx' \in [Txs -> Tx] /\ PlanIsBacked'
        /\ \A u \in Txs : Known(u)'
        /\ \A q \in Requests : Relies(q)'
    BY <1>1, <1>2, <1>3, MarkKeeps
  <1>5. OneBuilder'
    BY <1>2 DEF FlowInv, OneBuilder, Building
  <1> QED
    BY <1>2, <1>4, <1>5 DEF FlowInv, FlowTypes

\* The escrow that a create_schedule asked for is the one it made.
LEMMA ApplyCreateKeeps ==
    ASSUME IInv, FlowInv, [Next]_vars, NEW t \in Creates, ApplyCreate(t)
    PROVE  FlowInv'
  <1> DEFINE x == [tx[t] EXCEPT !.status = "landed", !.id = nextId]
  <1>1. t \in Txs /\ tx[t] \in Tx /\ tx[t].input \in Input /\ t \notin Releases
    BY ApplyCreateIsCreate, TxAssumption DEF Txs, FlowInv, FlowTypes
  <1>2. nextId \in Ids /\ nextId < MaxSchedules
    BY BoundAssumption DEF ApplyCreate, CreateSchedule, IInv, TypeOK
  <1>3. /\ x \in Tx /\ x.status = "landed" /\ x.id = nextId /\ x.input = tx[t].input
    BY <1>1, <1>2 DEF Tx
  <1>4. tx' = [tx EXCEPT ![t] = x] /\ UNCHANGED <<plan, job>> /\ seq' \in Nat
        /\ tx[t].status = "pending"
    BY DEF ApplyCreate, FlowInv, FlowTypes
  <1> HIDE DEF x
  <1>5. /\ tx' \in [Txs -> Tx] /\ tx'[t] = x
        /\ \A u \in Txs \ {t} : tx'[u] = tx[u]
    BY <1>1, <1>3, <1>4 DEF FlowInv, FlowTypes
  <1>6. schedules' = [schedules EXCEPT ![nextId] =
             [sender |-> Owner, recipient |-> tx[t].input.recipient,
              monthly_amount |-> tx[t].input.amount, months |-> tx[t].input.months,
              periods_released |-> 0, next_due_ledger |-> tx[t].due]]
    BY DEF ApplyCreate, CreateSchedule
  <1>7. /\ schedules'[nextId].sender = Owner
        /\ schedules'[nextId].recipient = tx[t].input.recipient
        /\ schedules'[nextId].monthly_amount = tx[t].input.amount
        /\ schedules'[nextId].months = tx[t].input.months
    BY <1>2, <1>6 DEF IInv, TypeOK
  <1>8. nextId < nextId' /\ nextId' \in Int
    BY <1>2, BoundAssumption DEF ApplyCreate, CreateSchedule
  <1>9. schedules'[nextId] # NoSchedule
    BY <1>2, <1>8, InvStep DEF IInv, TermsKept, Created
  <1>10. Known(t)'
    BY <1>1, <1>2, <1>3, <1>5, <1>7, <1>9 DEF Known, Backs, Created
  <1>11. \A u \in Txs : Known(u)'
    BY <1>5, <1>10, KnownLasts
  <1>12. \A q \in Requests : Relies(q)'
    <2> SUFFICES ASSUME NEW q \in Requests PROVE Relies(q)'
      OBVIOUS
    <2>1. Relies(q) /\ job'[q] = job[q]
      BY <1>4 DEF FlowInv
    <2> QED
      BY <1>3, <1>4, <1>5, <2>1 DEF Relies, Building, Submitting, HandedOut
  <1>13. OneBuilder'
    BY <1>4 DEF FlowInv, OneBuilder, Building
  <1> QED
    BY <1>4, <1>5, <1>11, <1>12, <1>13, PlansLast DEF FlowInv, FlowTypes

LEMMA ApplyReleaseKeeps ==
    ASSUME IInv, FlowInv, [Next]_vars, NEW t \in Releases, ApplyRelease(t)
    PROVE  FlowInv'
  <1>1. /\ t \in Txs /\ t \notin Creates /\ Mark(t, "landed") /\ UNCHANGED <<plan, job>>
        /\ seq' \in Nat /\ tx[t].status = "pending"
    BY TxAssumption DEF ApplyRelease, Txs, FlowInv, FlowTypes
  <1>2. /\ tx' \in [Txs -> Tx]
        /\ \A u \in Txs : /\ tx'[u].input = tx[u].input
                          /\ tx'[u].id = tx[u].id
                          /\ tx'[u].status = IF u = t THEN "landed" ELSE tx[u].status
    BY <1>1, MarkFields DEF FlowInv
  <1>3. Known(t)'
    BY <1>1, <1>2 DEF FlowInv, Known
  <1>4. \A u \in Txs : Known(u)'
    BY <1>2, <1>3, KnownLasts
  <1>5. \A q \in Requests : Relies(q)'
    <2> SUFFICES ASSUME NEW q \in Requests PROVE Relies(q)'
      OBVIOUS
    <2>1. Relies(q) /\ job'[q] = job[q]
      BY <1>1 DEF FlowInv
    <2> QED
      BY <1>1, <1>2, <2>1 DEF Relies, Building, Submitting, HandedOut
  <1>6. OneBuilder'
    BY <1>1 DEF FlowInv, OneBuilder, Building
  <1> QED
    BY <1>1, <1>2, <1>4, <1>5, <1>6, PlansLast DEF FlowInv, FlowTypes

LEMMA OthersKeep ==
    ASSUME IInv, FlowInv, [Next]_vars, OwnPayment \/ Others \/ UNCHANGED fvars
    PROVE  FlowInv'
  <1>1. UNCHANGED <<tx, plan, job>> /\ seq' \in Nat
    BY DEF OwnPayment, Others, fvars, flow, FlowInv, FlowTypes
  <1>2. OneBuilder'
    BY <1>1 DEF FlowInv, OneBuilder, Building
  <1> QED
    BY <1>1, <1>2, NothingWritten DEF FlowInv, FlowTypes

-----------------------------------------------------------------------------

LEMMA FlowInvStep == IInv /\ FlowInv /\ [FNext]_fvars => (IInv /\ FlowInv)'
  <1> SUFFICES ASSUME IInv, FlowInv, [FNext]_fvars PROVE (IInv /\ FlowInv)'
    OBVIOUS
  <1>1. [Next]_vars
    BY FlowIsContract
  <1>2. IInv'
    BY <1>1, InvStep
  <1>3. FlowInv'
    <2>1. ASSUME NEW r \in Requests, NEW s \in Servers, Browser(r, s) PROVE FlowInv'
      BY <1>1, <2>1, BrowserKeeps
    <2>2. ASSUME NEW r \in Requests, Step(r) PROVE FlowInv'
      BY <1>1, <2>2, StepKeeps
    <2>3. ASSUME NEW s \in Servers, Crash(s) PROVE FlowInv'
      BY <1>1, <2>3, CrashKeeps
    <2>4. ASSUME NEW t \in Txs, Fail(t) \/ Drop(t) PROVE FlowInv'
      BY <1>1, <2>4, NetworkKeeps
    <2>5. ASSUME NEW t \in Creates, ApplyCreate(t) PROVE FlowInv'
      BY <1>1, <2>5, ApplyCreateKeeps
    <2>6. ASSUME NEW t \in Releases, ApplyRelease(t) PROVE FlowInv'
      BY <1>1, <2>6, ApplyReleaseKeeps
    <2>7. CASE OwnPayment \/ Others \/ UNCHANGED fvars
      BY <1>1, <2>7, OthersKeep
    <2> QED
      BY <2>1, <2>2, <2>3, <2>4, <2>5, <2>6, <2>7 DEF FNext
  <1> QED
    BY <1>2, <1>3

\* What every server, request, crash and network step keeps (all of contract.ts
\* and its callers, over the contract).
THEOREM FlowInvariance == FSpec => [](IInv /\ FlowInv)
  <1>1. FInit => IInv /\ FlowInv
    BY InitFlow, InvInit
  <1> QED
    BY <1>1, FlowInvStep, PTL DEF FSpec

\* The servers and the browsers, however they interleave, crash and retry, drive
\* the contract only through its entry points: whatever holds of the contract
\* holds of it in this system (buildCreateScheduleXdr, submitSorobanSigned).
THEOREM FlowRunsTheContract == FSpec => Spec
  <1>1. FInit => Init
    BY InitFlow
  <1>2. IInv /\ FlowInv /\ [FNext]_fvars => [Next]_vars
    BY FlowIsContract
  <1> QED
    BY <1>1, <1>2, FlowInvariance, PTL DEF FSpec, Spec

\* Every plan shown as escrowed is backed by a schedule with its very terms
\* (createEscrowed).
THEOREM PlansAreBacked == FSpec => []PlanIsBacked
  BY FlowInvariance, PTL DEF FlowInv
-----------------------------------------------------------------------------
(* Recorded releases: what is recorded has landed, and what has landed is  *)
(* counted by the contract.                                                *)

\* The releases of a schedule that have landed are finitely many, and the
\* contract has counted each of them.
Landed(id) == {t \in Releases : tx[t].status = "landed" /\ tx[t].id = id}

Counted(id) ==
    /\ IsFiniteSet(Landed(id))
    /\ IF Created(id) THEN Cardinality(Landed(id)) <= schedules[id].periods_released
       ELSE Landed(id) = {}

\* t releases the schedule of plan k.
Releasing(t, k) == k \in PlanRows /\ plan[k] # NoInput /\ plan[k].id = tx[t].id

\* What a handler carries to its record.
Carries(r) ==
    /\ Submitting(r) /\ job[r].tx \in Releases => Releasing(job[r].tx, job[r].row)
    /\ job[r].at = "record" => job[r].tx \in Releases /\ tx[job[r].tx].status = "landed"

\* A record is of a landed release of its plan.
Earned(t) == recorded[t] # 0 => tx[t].status = "landed" /\ Releasing(t, recorded[t])

RecordInv ==
    /\ recorded \in [Releases -> PlanRows \cup {0}]
    /\ \A id \in Ids : Counted(id)
    /\ \A r \in Requests : Carries(r)
    /\ \A t \in Releases : Earned(t)

LEMMA InitRecords == FInit => RecordInv
  <1> SUFFICES ASSUME FInit PROVE RecordInv
    OBVIOUS
  <1>1. \A t \in Releases : tx[t].status = "unbuilt" /\ recorded[t] = 0
    BY DEF FInit, Unbuilt, Txs
  <1>2. ASSUME NEW id \in Ids PROVE Counted(id)
    <2>1. Landed(id) = {}
      BY <1>1 DEF Landed
    <2>2. ~Created(id)
      BY DEF FInit, Init, Created
    <2> QED
      BY <2>1, <2>2, FS_EmptySet DEF Counted
  <1>3. \A r \in Requests : Carries(r)
    BY DEF FInit, Idle, Carries, Submitting
  <1>4. \A t \in Releases : Earned(t)
    BY <1>1 DEF Earned
  <1> QED
    BY <1>2, <1>3, <1>4 DEF RecordInv, FInit

\* What a step does to a release: its call is fixed once it is built, and it
\* lands once, by being applied.
Settles(t) ==
    /\ tx[t].status # "unbuilt" => tx'[t].id = tx[t].id
    /\ tx[t].status = "landed" => tx'[t].status = "landed"
    /\ tx'[t].status = "landed" => tx[t].status = "landed" \/ ApplyRelease(t)

LEMMA MarkSettles ==
    ASSUME FlowInv, NEW u \in Txs, NEW st, Mark(u, st),
           st \in {"built", "pending", "failed", "expired"}, tx[u].status # "landed"
    PROVE  \A t \in Releases : Settles(t)
  <1>1. \A t \in Txs : /\ tx'[t].id = tx[t].id
                       /\ tx'[t].status = IF t = u THEN st ELSE tx[t].status
    BY MarkFields DEF FlowInv
  <1> QED
    BY <1>1 DEF Settles, Txs

LEMMA BuildSettles ==
    ASSUME FlowInv, NEW u \in Txs, NEW x, tx[u] = Unbuilt, tx' = [tx EXCEPT ![u] = x],
           x.status = "draft"
    PROVE  \A t \in Releases : Settles(t)
  <1>1. \A t \in Txs : IF t = u THEN tx'[t] = x ELSE tx'[t] = tx[t]
    BY DEF FlowInv, FlowTypes
  <1> QED
    BY <1>1 DEF Settles, Txs, Unbuilt

LEMMA HandlersSettle ==
    ASSUME FlowInv, NEW r \in Requests, Step(r)
    PROVE  \A t \in Releases : Settles(t)
  <1>1. CASE UNCHANGED tx
    BY <1>1 DEF Settles
  <1>2. CASE LoadAccount(r)
    <2>1. /\ job[r].tx \in Txs
          /\ tx' = [tx EXCEPT ![job[r].tx].seq = seq + 1]
          /\ tx \in [Txs -> Tx]
      BY <1>2 DEF LoadAccount, At, Building, FlowInv, FlowTypes, Relies
    <2>2. \A t \in Txs : tx'[t].id = tx[t].id /\ tx'[t].status = tx[t].status
      BY <2>1 DEF Tx
    <2> QED
      BY <2>2 DEF Settles, Txs
  <1>3. ASSUME NEW st \in {"built", "pending"}, Mark(job[r].tx, st),
               Simulate(r) \/ Sendable(job[r].tx), ~At(r, "idle")
        PROVE  \A t \in Releases : Settles(t)
    <2>1. job[r].tx \in Txs /\ tx[job[r].tx].status # "landed"
      BY <1>3 DEF Simulate, At, Sendable, Building, Submitting, FlowInv, FlowTypes, Relies,
                  Job
    <2> QED
      BY <1>3, <2>1, MarkSettles
  <1>4. \/ UNCHANGED tx \/ LoadAccount(r)
        \/ \E st \in {"built", "pending"} :
               Mark(job[r].tx, st) /\ (Simulate(r) \/ Sendable(job[r].tx)) /\ ~At(r, "idle")
    BY DEF Step, Simulate, Send, PollDecided, PollAgain, InsertPlan, RecordSent, At
  <1> QED
    BY <1>1, <1>2, <1>3, <1>4

LEMMA ReleasesSettle ==
    ASSUME IInv, FlowInv, [FNext]_fvars
    PROVE  \A t \in Releases : Settles(t)
  <1>1. CASE UNCHANGED tx
    BY <1>1 DEF Settles
  <1>2. ASSUME NEW r \in Requests, NEW s \in Servers, Browser(r, s)
        PROVE  \A t \in Releases : Settles(t)
    <2>1. ASSUME NEW i \in Input, NEW u \in Creates, BuildEscrow(r, s, i, u)
          PROVE  \A t \in Releases : Settles(t)
      <3> DEFINE x == [status |-> "draft", seq |-> 0, input |-> i, due |-> ledger,
                       id |-> NoId]
      <3>1. tx[u] = Unbuilt /\ tx' = [tx EXCEPT ![u] = x] /\ x.status = "draft"
        BY <2>1 DEF BuildEscrow
      <3> HIDE DEF x
      <3> QED
        BY <3>1, BuildSettles DEF Txs
    <2>2. ASSUME NEW k \in PlanRows, NEW u \in Releases, BuildRelease(r, s, k, u)
          PROVE  \A t \in Releases : Settles(t)
      <3> DEFINE x == [status |-> "draft", seq |-> 0, input |-> NoInput, due |-> 0,
                       id |-> plan[k].id]
      <3>1. tx[u] = Unbuilt /\ tx' = [tx EXCEPT ![u] = x] /\ x.status = "draft"
        BY <2>2 DEF BuildRelease
      <3> HIDE DEF x
      <3> QED
        BY <3>1, BuildSettles DEF Txs
    <2> QED
      BY <1>1, <1>2, <2>1, <2>2 DEF Browser, CreateEscrowed, RecordRelease
  <1>3. ASSUME NEW r \in Requests, Step(r) PROVE \A t \in Releases : Settles(t)
    BY <1>3, HandlersSettle
  <1>4. ASSUME NEW u \in Txs, Fail(u) \/ Drop(u) PROVE \A t \in Releases : Settles(t)
    <2>1. /\ tx[u].status # "landed"
          /\ \E st \in {"built", "failed", "expired"} : Mark(u, st)
      BY <1>4 DEF Fail, Drop
    <2> QED
      BY <2>1, MarkSettles
  <1>5. ASSUME NEW u \in Creates, ApplyCreate(u) PROVE \A t \in Releases : Settles(t)
    <2>1. PICK x : tx' = [tx EXCEPT ![u] = x]
      BY <1>5 DEF ApplyCreate
    <2>2. \A t \in Releases : tx'[t] = tx[t]
      BY <2>1, TxAssumption DEF FlowInv, FlowTypes, Txs
    <2> QED
      BY <2>2 DEF Settles
  <1>6. ASSUME NEW u \in Releases, ApplyRelease(u) PROVE \A t \in Releases : Settles(t)
    <2>1. u \in Txs /\ Mark(u, "landed")
      BY <1>6 DEF ApplyRelease, Txs
    <2>2. \A t \in Txs : /\ tx'[t].id = tx[t].id
                         /\ tx'[t].status = IF t = u THEN "landed" ELSE tx[t].status
      BY <2>1, MarkFields DEF FlowInv
    <2> QED
      BY <1>6, <2>2 DEF Settles, Txs
  <1>7. CASE (\E s \in Servers : Crash(s)) \/ OwnPayment \/ Others \/ UNCHANGED fvars
    BY <1>1, <1>7 DEF Crash, OwnPayment, Others, flow, fvars
  <1> QED
    BY <1>1, <1>2, <1>3, <1>4, <1>5, <1>6, <1>7 DEF FNext

\* A plan is never written twice.
LEMMA PlansStay ==
    ASSUME FlowInv, [FNext]_fvars, NEW k \in PlanRows, plan[k] # NoInput
    PROVE  plan'[k] = plan[k]
  <1>1. CASE UNCHANGED plan
    BY <1>1
  <1>2. CASE \E r \in Requests : InsertPlan(r)
    <2>1. PICK r \in Requests : InsertPlan(r)
      BY <1>2
    <2> DEFINE p == [input |-> job[r].input, id |-> tx[job[r].tx].id]
    <2>2. \/ UNCHANGED plan
          \/ \E j \in PlanRows : plan[j] = NoInput /\ plan' = [plan EXCEPT ![j] = p]
      BY <2>1 DEF InsertPlan
    <2> HIDE DEF p
    <2> QED
      BY <2>2 DEF FlowInv, FlowTypes
  <1>3. CASE \/ \E r \in Requests, s \in Servers : Browser(r, s)
             \/ \E s \in Servers : Crash(s)
    BY <1>1, <1>3 DEF Browser, BuildEscrow, CreateEscrowed, BuildRelease, RecordRelease,
                      Crash
  <1>4. CASE \E r \in Requests : Step(r)
    BY <1>1, <1>2, <1>4 DEF Step, LoadAccount, Simulate, Send, PollDecided, PollAgain,
                            RecordSent
  <1>5. CASE \/ \E t \in Creates : ApplyCreate(t)
             \/ \E t \in Releases : ApplyRelease(t)
             \/ \E t \in Txs : Fail(t) \/ Drop(t)
             \/ OwnPayment \/ Others \/ UNCHANGED fvars
    BY <1>1, <1>5 DEF ApplyCreate, ApplyRelease, Fail, Drop, OwnPayment, Others, flow,
                      fvars
  <1> QED
    BY <1>3, <1>4, <1>5 DEF FNext

\* The contract never takes a release back.
LEMMA CountsGrow ==
    ASSUME IInv, [Next]_vars, NEW id \in Ids, Created(id)
    PROVE  /\ Created(id)'
           /\ schedules[id].periods_released \in Nat
           /\ schedules'[id].periods_released \in Nat
           /\ schedules'[id].periods_released >= schedules[id].periods_released
  <1>1. /\ schedules \in [Ids -> Schedule \cup {NoSchedule}]
        /\ schedules[id] \in Schedule /\ id # nextId
    BY BoundAssumption DEF IInv, TypeOK, TermsKept, Created
  <1>2. schedules[id].periods_released \in Nat
    BY <1>1, WidthAssumption DEF Schedule
  <1>3. CASE \E s \in Accounts, r \in Parties, amt \in Amounts, m \in MonthCounts,
                d \in FirstDues : CreateSchedule(s, r, amt, m, d)
    <2>1. schedules'[id] = schedules[id]
      BY <1>1, <1>3 DEF CreateSchedule
    <2> QED
      BY <1>2, <2>1 DEF Created
  <1>4. ASSUME NEW j \in Ids, NEW c \in Accounts, Release(j, c)
        PROVE  /\ schedules'[id] # NoSchedule
               /\ schedules'[id].periods_released \in Nat
               /\ schedules'[id].periods_released >= schedules[id].periods_released
    <2>1. CASE j = id
      <3>1. schedules'[id] = AfterRelease(schedules[id])
        BY <1>1, <1>4, <2>1 DEF Release
      <3>2. /\ AfterRelease(schedules[id]) \in Schedule
            /\ AfterRelease(schedules[id]).periods_released
                 = schedules[id].periods_released + 1
        BY <1>1, <1>4, <2>1, AfterReleaseFields DEF Release
      <3> QED
        BY <1>2, <3>1, <3>2, NoScheduleAssumption
    <2>2. CASE j # id
      <3>1. schedules'[id] = schedules[id]
        BY <1>1, <1>4, <2>2 DEF Release
      <3> QED
        BY <1>2, <3>1 DEF Created
    <2> QED
      BY <2>1, <2>2
  <1>5. CASE UNCHANGED schedules
    BY <1>2, <1>5 DEF Created
  <1> QED
    BY <1>2, <1>3, <1>4, <1>5
       DEF Next, vars, Created, Initialize, CloseLedger, OpenAccount, TransferToken

\* A release that is applied counts one more period of its own schedule.
LEMMA AppliedIsCounted ==
    ASSUME IInv, FlowInv, NEW t \in Releases, ApplyRelease(t)
    PROVE  /\ tx[t].id \in Ids /\ Created(tx[t].id)
           /\ schedules'[tx[t].id].periods_released
                = schedules[tx[t].id].periods_released + 1
  <1> DEFINE id == tx[t].id
  <1>1. id \in Ids /\ Release(id, Owner)
    BY DEF ApplyRelease
  <1> HIDE DEF id
  <1>2. schedules[id] \in Schedule /\ Created(id)
    BY <1>1 DEF Release, IInv, TypeOK, Created
  <1>3. schedules'[id] = AfterRelease(schedules[id])
    BY <1>1 DEF Release, IInv, TypeOK
  <1>4. AfterRelease(schedules[id]).periods_released = schedules[id].periods_released + 1
    BY <1>1, <1>2, AfterReleaseFields DEF Release
  <1> QED
    BY <1>1, <1>2, <1>3, <1>4 DEF id
LEMMA CountedLasts ==
    ASSUME IInv, FlowInv, [FNext]_fvars, \A id \in Ids : Counted(id)
    PROVE  \A id \in Ids : Counted(id)'
  <1> SUFFICES ASSUME NEW id \in Ids PROVE Counted(id)'
    OBVIOUS
  <1>1. [Next]_vars /\ Counted(id) /\ \A t \in Releases : Settles(t)
    BY FlowIsContract, ReleasesSettle
  <1>2. Created(id) => /\ Created(id)'
                       /\ schedules[id].periods_released \in Nat
                       /\ schedules'[id].periods_released \in Nat
                       /\ schedules'[id].periods_released >= schedules[id].periods_released
    BY <1>1, CountsGrow
  <1>3. \A t \in Landed(id) : t \in Landed(id)'
    BY <1>1 DEF Landed, Settles
  <1>4. ASSUME \A t \in Landed(id)' : t \in Landed(id)
        PROVE  Counted(id)'
    <2>1. Landed(id)' = Landed(id)
      BY <1>3, <1>4 DEF Landed
    <2>2. Cardinality(Landed(id)) \in Nat
      BY <1>1, FS_CardinalityType DEF Counted
    <2>3. Created(id)' /\ ~Created(id) => schedules'[id].periods_released \in Nat
      <3>1. IInv'
        BY <1>1, InvStep
      <3> QED
        BY <3>1, WidthAssumption DEF IInv, TypeOK, Created, Schedule
    <2>4. CASE Created(id)
      BY <1>1, <1>2, <2>1, <2>2, <2>4 DEF Counted
    <2>5. CASE ~Created(id)
      <3>1. Landed(id)' = {} /\ Cardinality({}) = 0
        BY <1>1, <2>1, <2>5, FS_EmptySet DEF Counted
      <3> QED
        BY <2>3, <2>5, <3>1, FS_EmptySet DEF Counted
    <2> QED
      BY <2>4, <2>5
  <1>5. ASSUME NEW t \in Landed(id)', t \notin Landed(id)
        PROVE  Counted(id)'
    <2>1. /\ t \in Releases /\ tx'[t].status = "landed" /\ tx'[t].id = id
          /\ ~(tx[t].status = "landed" /\ tx[t].id = id)
      BY <1>5 DEF Landed
    <2>2. ApplyRelease(t) /\ tx[t].id = id
      BY <1>1, <2>1 DEF Settles, ApplyRelease
    <2>3. /\ Created(id)
          /\ schedules'[id].periods_released = schedules[id].periods_released + 1
      BY <2>1, <2>2, AppliedIsCounted
    <2>4. \A u \in Landed(id)' : u \in Landed(id) \/ u = t
      <3>1. \A u \in Txs \ {t} : tx'[u] = tx[u]
        BY <2>2 DEF ApplyRelease, Mark, FlowInv, FlowTypes
      <3> QED
        BY <3>1 DEF Landed, Txs
    <2>5. Landed(id)' = Landed(id) \cup {t}
      BY <1>3, <1>5, <2>4
    <2>6. /\ IsFiniteSet(Landed(id)) /\ Cardinality(Landed(id)) \in Nat
          /\ Cardinality(Landed(id)) <= schedules[id].periods_released
      BY <1>1, <2>3, FS_CardinalityType DEF Counted
    <2>7. /\ IsFiniteSet(Landed(id) \cup {t})
          /\ Cardinality(Landed(id) \cup {t}) = Cardinality(Landed(id)) + 1
      BY <1>5, <2>6, FS_AddElement
    <2>8. Cardinality(Landed(id)') <= schedules'[id].periods_released
      BY <1>2, <2>3, <2>5, <2>6, <2>7
    <2> QED
      BY <1>2, <2>3, <2>5, <2>7, <2>8 DEF Counted
  <1> QED
    BY <1>4, <1>5

\* The plan that a transaction was handed out for stays its plan.
LEMMA ReleasingLasts ==
    ASSUME IInv, FlowInv, [FNext]_fvars, NEW t \in Releases, NEW k,
           tx[t].status # "unbuilt", Releasing(t, k)
    PROVE  Releasing(t, k)'
  <1>1. k \in PlanRows /\ plan[k] # NoInput /\ plan'[k] = plan[k]
    BY PlansStay DEF Releasing
  <1>2. tx'[t].id = tx[t].id
    BY ReleasesSettle DEF Settles
  <1> QED
    BY <1>1, <1>2 DEF Releasing

\* A handler at a place that it was in before, or has nothing new to carry at.
LEMMA CarriesLasts ==
    ASSUME IInv, FlowInv, [FNext]_fvars, NEW r \in Requests, Carries(r),
           job'[r].tx = job[r].tx, job'[r].row = job[r].row,
           Submitting(r)' => Submitting(r),
           job'[r].at = "record" => job[r].tx \in Releases /\ tx[job[r].tx].status = "landed"
    PROVE  Carries(r)'
  <1>1. Submitting(r) => HandedOut(job[r].tx)
    BY DEF FlowInv, Relies
  <1>2. \A t \in Releases, k \in PlanRows :
            tx[t].status # "unbuilt" /\ Releasing(t, k) => Releasing(t, k)'
    BY ReleasingLasts
  <1>3. (Submitting(r) /\ job[r].tx \in Releases => Releasing(job[r].tx, job[r].row))'
    <2>1. SUFFICES ASSUME Submitting(r)', job[r].tx \in Releases
                   PROVE  Releasing(job[r].tx, job[r].row)'
      OBVIOUS
    <2> DEFINE t == job[r].tx
               k == job[r].row
    <2>2. tx[t].status # "unbuilt" /\ Releasing(t, k)
      BY <1>1, <2>1 DEF HandedOut, Carries
    <2>3. k \in PlanRows /\ plan'[k] # NoInput /\ plan'[k].id = tx'[t].id
      BY <1>2, <2>1, <2>2 DEF Releasing
    <2> QED
      BY <2>3 DEF Releasing
  <1>4. \A t \in Releases : tx[t].status = "landed" => tx'[t].status = "landed"
    BY ReleasesSettle DEF Settles
  <1>5. job'[r].at = "record" =>
            job'[r].tx \in Releases /\ tx'[job'[r].tx].status = "landed"
    BY <1>4
  <1> QED
    BY <1>3, <1>5 DEF Carries

LEMMA SameJobCarries ==
    ASSUME IInv, FlowInv, [FNext]_fvars, NEW r \in Requests, Carries(r), job'[r] = job[r]
    PROVE  Carries(r)'
  <1>1. Submitting(r)' => Submitting(r)
    BY DEF Submitting
  <1>2. job'[r].at = "record" => job[r].tx \in Releases /\ tx[job[r].tx].status = "landed"
    BY DEF Carries
  <1> QED
    BY <1>1, <1>2, CarriesLasts

LEMMA IdleCarriesNothing ==
    ASSUME NEW r \in Requests, job'[r].at \in {"idle", "load", "simulate"}
    PROVE  Carries(r)'
BY DEF Carries, Submitting
LEMMA HandlersCarry ==
    ASSUME IInv, FlowInv, [FNext]_fvars, NEW r \in Requests, Step(r), Carries(r)
    PROVE  Carries(r)'
  <1>1. Relies(r) /\ job \in [Requests -> Job]
    BY DEF FlowInv, FlowTypes
  <1>2. CASE Return(r)
    <2>1. job'[r].at = "idle"
      BY <1>2, ReturnFields DEF FlowInv
    <2> QED
      BY <2>1, IdleCarriesNothing
  <1>3. ASSUME NEW place, Goto(r, place)
        PROVE  /\ job'[r].tx = job[r].tx /\ job'[r].row = job[r].row
               /\ job'[r].at = place
    BY <1>1, <1>3 DEF Goto, Job
  <1>4. CASE LoadAccount(r)
    BY <1>3, <1>4, IdleCarriesNothing DEF LoadAccount
  <1>5. CASE Send(r) /\ Goto(r, "poll")
    <2>1. Submitting(r) /\ job'[r].at = "poll"
      BY <1>3, <1>5 DEF Send, At, Submitting
    <2> QED
      BY <1>3, <1>5, <2>1, CarriesLasts
  <1>6. CASE /\ PollDecided(r) /\ Succeeded(job[r].tx)
             /\ Goto(r, IF job[r].tx \in Creates THEN "insert" ELSE "record")
    <2> DEFINE place == IF job[r].tx \in Creates THEN "insert" ELSE "record"
    <2>1. Submitting(r) /\ job[r].tx \in Txs /\ tx[job[r].tx].status = "landed"
      BY <1>1, <1>6 DEF PollDecided, At, Submitting, Relies, Succeeded
    <2>2. Goto(r, place) /\ (place = "record" => job[r].tx \in Releases)
      BY <1>6, <2>1 DEF Txs
    <2> HIDE DEF place
    <2>3. job'[r].tx = job[r].tx /\ job'[r].row = job[r].row /\ job'[r].at = place
      BY <1>3, <2>2
    <2> QED
      BY <2>1, <2>2, <2>3, CarriesLasts
  <1>7. CASE PollAgain(r) /\ job' = [job EXCEPT ![r].polls = @ + 1]
    <2>1. /\ job'[r].tx = job[r].tx /\ job'[r].row = job[r].row /\ job'[r].at = "poll"
          /\ job[r].at = "poll"
      BY <1>1, <1>7 DEF PollAgain, At, Job
    <2> QED
      BY <2>1, CarriesLasts DEF Submitting
  <1> QED
    BY <1>2, <1>4, <1>5, <1>6, <1>7
       DEF Step, Simulate, Send, PollDecided, PollAgain, InsertPlan, RecordSent, Throw

\* A call that is posted is validated against its plan.
LEMMA PostedCarries ==
    ASSUME IInv, FlowInv, [FNext]_fvars, NEW r \in Requests, NEW s \in Servers,
           Browser(r, s)
    PROVE  Carries(r)'
  <1>1. ASSUME NEW place, NEW t \in Txs, NEW i \in Input \cup {NoInput},
               NEW k \in PlanRows \cup {0}, Start(r, s, place, t, i, k)
        PROVE  job'[r].at = place /\ job'[r].tx = t /\ job'[r].row = k
    BY <1>1 DEF Start, FlowInv, FlowTypes
  <1>2. CASE \/ \E i \in Input, t \in Creates : BuildEscrow(r, s, i, t)
             \/ \E k \in PlanRows, t \in Releases : BuildRelease(r, s, k, t)
    <2>1. job'[r].at = "load"
      BY <1>1, <1>2 DEF BuildEscrow, BuildRelease, Txs
    <2> QED
      BY <2>1, IdleCarriesNothing
  <1>3. ASSUME NEW i \in Input, NEW t \in Creates, CreateEscrowed(r, s, i, t)
        PROVE  Carries(r)'
    <2>1. job'[r].at = "send" /\ job'[r].tx = t /\ t \notin Releases
      BY <1>1, <1>3, TxAssumption DEF CreateEscrowed, Txs
    <2> QED
      BY <2>1 DEF Carries
  <1>4. ASSUME NEW k \in PlanRows, NEW t \in Releases, RecordRelease(r, s, k, t)
        PROVE  Carries(r)'
    <2>1. job'[r].at = "send" /\ job'[r].tx = t /\ job'[r].row = k
      BY <1>1, <1>4 DEF RecordRelease, Txs
    <2>2. plan'[k] # NoInput /\ plan'[k].id = tx'[t].id
      BY <1>4 DEF RecordRelease, AcceptsRelease
    <2> QED
      BY <2>1, <2>2 DEF Carries, Releasing
  <1> QED
    BY <1>2, <1>3, <1>4 DEF Browser

LEMMA AllCarry ==
    ASSUME IInv, FlowInv, [FNext]_fvars, \A r \in Requests : Carries(r)
    PROVE  \A r \in Requests : Carries(r)'
  <1> SUFFICES ASSUME NEW r \in Requests PROVE Carries(r)'
    OBVIOUS
  <1>1. CASE job'[r] = job[r]
    BY <1>1, SameJobCarries
  <1>2. ASSUME NEW q \in Requests, NEW s \in Servers, Browser(q, s)
        PROVE  Carries(r)'
    <2>1. CASE q = r
      BY <1>2, <2>1, PostedCarries
    <2>2. CASE q # r
      <3>1. job'[r] = job[r]
        BY <1>2, <2>2
           DEF Browser, BuildEscrow, BuildRelease, CreateEscrowed, RecordRelease, Start,
               FlowInv, FlowTypes
      <3> QED
        BY <3>1, <1>1
    <2> QED
      BY <2>1, <2>2
  <1>3. ASSUME NEW q \in Requests, Step(q)
        PROVE  Carries(r)'
    <2>1. CASE q = r
      BY <1>3, <2>1, HandlersCarry
    <2>2. CASE q # r
      <3>1. job'[r] = job[r]
        BY <1>3, <2>2
           DEF Step, LoadAccount, Simulate, Send, PollDecided, PollAgain, InsertPlan,
               RecordSent, Throw, Return, Goto, FlowInv, FlowTypes
      <3> QED
        BY <3>1, <1>1
    <2> QED
      BY <2>1, <2>2
  <1>4. ASSUME NEW s \in Servers, Crash(s)
        PROVE  Carries(r)'
    <2>1. job'[r] = job[r] \/ job'[r].at = "idle"
      BY <1>4 DEF Crash, Idle
    <2> QED
      BY <1>1, <2>1, IdleCarriesNothing
  <1>5. CASE \/ \E t \in Creates : ApplyCreate(t)
             \/ \E t \in Releases : ApplyRelease(t)
             \/ \E t \in Txs : Fail(t) \/ Drop(t)
             \/ OwnPayment \/ Others \/ UNCHANGED fvars
    <2>1. UNCHANGED job
      BY <1>5 DEF ApplyCreate, ApplyRelease, Fail, Drop, OwnPayment, Others, flow, fvars
    <2> QED
      BY <1>1, <2>1
  <1> QED
    BY <1>2, <1>3, <1>4, <1>5 DEF FNext
\* A record, once made, stays as good as it was.
LEMMA EarnedLasts ==
    ASSUME IInv, FlowInv, [FNext]_fvars, NEW t \in Releases, Earned(t),
           recorded'[t] = recorded[t]
    PROVE  Earned(t)'
  <1>1. CASE recorded[t] = 0
    BY <1>1 DEF Earned
  <1>2. CASE recorded[t] # 0
    <2>1. tx[t].status = "landed" /\ Releasing(t, recorded[t])
      BY <1>2 DEF Earned
    <2>2. tx'[t].status = "landed"
      BY <2>1, ReleasesSettle DEF Settles
    <2> DEFINE k == recorded[t]
    <2>3. k \in PlanRows /\ plan'[k] # NoInput /\ plan'[k].id = tx'[t].id
      <3>1. Releasing(t, k)'
        BY <2>1, ReleasingLasts
      <3> QED
        BY <3>1 DEF Releasing
    <2> QED
      BY <2>2, <2>3 DEF Earned, Releasing
  <1> QED
    BY <1>1, <1>2

LEMMA RecordsStep == IInv /\ FlowInv /\ RecordInv /\ [FNext]_fvars => RecordInv'
  <1> SUFFICES ASSUME IInv, FlowInv, RecordInv, [FNext]_fvars PROVE RecordInv'
    OBVIOUS
  <1>1. (\A id \in Ids : Counted(id)') /\ (\A r \in Requests : Carries(r)')
    BY CountedLasts, AllCarry DEF RecordInv
  <1>2. CASE UNCHANGED recorded
    <2>1. \A t \in Releases : Earned(t)'
      BY <1>2, EarnedLasts DEF RecordInv
    <2> QED
      BY <1>1, <1>2, <2>1 DEF RecordInv
  <1>3. ASSUME NEW r \in Requests, RecordSent(r), ~UNCHANGED recorded
        PROVE  RecordInv'
    <2>0. PICK u, k : u = job[r].tx /\ k = job[r].row
      OBVIOUS
    <2>1. /\ recorded' = [recorded EXCEPT ![u] = k] /\ At(r, "record")
          /\ UNCHANGED <<tx, plan>>
      BY <1>3, <2>0 DEF RecordSent
    <2>2. /\ u \in Releases /\ tx[u].status = "landed" /\ Releasing(u, k)
          /\ k \in PlanRows
      BY <2>0, <2>1 DEF At, Submitting, RecordInv, Carries, Releasing
    <2>3. /\ recorded' \in [Releases -> PlanRows \cup {0}] /\ recorded'[u] = k
          /\ \A t \in Releases \ {u} : recorded'[t] = recorded[t]
      BY <2>1, <2>2 DEF RecordInv
    <2>4. Earned(u)'
      BY <2>1, <2>2, <2>3 DEF Earned, Releasing
    <2>5. \A t \in Releases \ {u} : Earned(t)'
      BY <2>3, EarnedLasts DEF RecordInv
    <2> QED
      BY <1>1, <2>3, <2>4, <2>5 DEF RecordInv
  <1>4. CASE \/ \E r \in Requests, s \in Servers : Browser(r, s)
             \/ \E s \in Servers : Crash(s)
    BY <1>2, <1>4 DEF Browser, BuildEscrow, CreateEscrowed, BuildRelease, RecordRelease,
                      Crash
  <1>5. CASE \E r \in Requests : Step(r)
    BY <1>2, <1>3, <1>5 DEF Step, LoadAccount, Simulate, Send, PollDecided, PollAgain,
                            InsertPlan
  <1>6. CASE \/ \E t \in Creates : ApplyCreate(t)
             \/ \E t \in Releases : ApplyRelease(t)
             \/ \E t \in Txs : Fail(t) \/ Drop(t)
             \/ OwnPayment \/ Others \/ UNCHANGED fvars
    BY <1>2, <1>6 DEF ApplyCreate, ApplyRelease, Fail, Drop, OwnPayment, Others, flow,
                      fvars
  <1> QED
    BY <1>4, <1>5, <1>6 DEF FNext

\* A schedule's records are among its landed releases, which the contract counts.
LEMMA RecordsAreCounted == IInv /\ RecordInv => RecordedAreReleased
  <1> SUFFICES ASSUME IInv, RecordInv, NEW id \in Ids
               PROVE  LET rs == {t \in Releases : recorded[t] # 0
                                                    /\ plan[recorded[t]].id = id} IN
                      rs # {} => Cardinality(rs) <= schedules[id].periods_released
    BY DEF RecordedAreReleased
  <1> DEFINE rs == {t \in Releases : recorded[t] # 0 /\ plan[recorded[t]].id = id}
  <1>1. rs \subseteq Landed(id) /\ Counted(id)
    BY DEF RecordInv, Earned, Releasing, Landed
  <1>2. IsFiniteSet(Landed(id)) /\ Cardinality(Landed(id)) \in Nat
    BY <1>1, FS_CardinalityType DEF Counted
  <1>3. IsFiniteSet(rs) /\ Cardinality(rs) <= Cardinality(Landed(id))
        /\ Cardinality(rs) \in Nat
    BY <1>1, <1>2, FS_Subset, FS_CardinalityType
  <1>4. ASSUME rs # {} PROVE Cardinality(rs) <= schedules[id].periods_released
    <2>1. /\ Created(id)
          /\ Cardinality(Landed(id)) <= schedules[id].periods_released
      BY <1>1, <1>4 DEF Counted
    <2>2. schedules[id].periods_released \in Nat
      BY <2>1, WidthAssumption DEF IInv, TypeOK, Created, Schedule
    <2> HIDE DEF rs
    <2> QED
      BY <1>2, <1>3, <2>1, <2>2
  <1> QED
    BY <1>4

\* The server never records more payments against a schedule than the contract has
\* released from it, however many processes, retries and crashes there are
\* (recordRelease, submitSorobanSigned).
THEOREM RecordsNeverOutrunReleases == FSpec => []RecordedAreReleased
  <1>1. FInit => RecordInv
    BY InitRecords
  <1>2. IInv /\ FlowInv /\ RecordInv /\ [FNext]_fvars => RecordInv'
    BY RecordsStep
  <1>3. IInv /\ RecordInv => RecordedAreReleased
    BY RecordsAreCounted
  <1> QED
    BY <1>1, <1>2, <1>3, FlowInvariance, PTL DEF FSpec
-----------------------------------------------------------------------------
(* The line of an account: who is in it, and whose turn it is.             *)

\* The handlers that are inside withAccountLock, and those of them whose turn
\* it is.
Waits(r) == job[r].at \in {"load", "simulate", "send", "poll"}
Works(r) == job[r].at \in {"simulate", "poll"}

InLine(r) ==
    /\ Waits(r) => /\ job[r].server \in Servers
                   /\ \E n \in 1 .. Len(lock[job[r].server]) : lock[job[r].server][n] = r
    /\ Works(r) => Turn(r)

LineInv ==
    /\ lock \in [Servers -> Seq(Requests)]
    /\ \A r \in Requests : InLine(r)

\* A line without its first loses nobody else.
LEMMA TailKeepsTheOthers ==
    ASSUME NEW l \in Seq(Requests), NEW n \in 1 .. Len(l), l[n] # Head(l)
    PROVE  /\ Tail(l) \in Seq(Requests)
           /\ \E m \in 1 .. Len(Tail(l)) : Tail(l)[m] = l[n]
  <1>1. Len(l) \in Nat /\ Len(l) >= n /\ Head(l) = l[1] /\ l # <<>>
    OBVIOUS
  <1>2. n # 1
    BY <1>1
  <1>3. /\ Tail(l) \in Seq(Requests) /\ Len(Tail(l)) = Len(l) - 1
        /\ \A i \in 1 .. Len(Tail(l)) : Tail(l)[i] = l[i + 1]
    BY <1>1
  <1>4. n - 1 \in 1 .. Len(Tail(l)) /\ Tail(l)[n - 1] = l[n]
    BY <1>1, <1>2, <1>3
  <1> QED
    BY <1>3, <1>4

\* A line with one more at its end loses nobody, and keeps its first.
LEMMA AppendKeepsTheOthers ==
    ASSUME NEW l \in Seq(Requests), NEW r \in Requests
    PROVE  /\ Append(l, r) \in Seq(Requests)
           /\ \E m \in 1 .. Len(Append(l, r)) : Append(l, r)[m] = r
           /\ \A n \in 1 .. Len(l) :
                  /\ n \in 1 .. Len(Append(l, r)) /\ Append(l, r)[n] = l[n]
                  /\ Head(Append(l, r)) = Head(l)
  <1>1. /\ Append(l, r) \in Seq(Requests) /\ Len(l) \in Nat
        /\ Len(Append(l, r)) = Len(l) + 1
        /\ \A i \in 1 .. Len(l) : Append(l, r)[i] = l[i]
        /\ Append(l, r)[Len(l) + 1] = r
    OBVIOUS
  <1>2. ASSUME NEW n \in 1 .. Len(l)
        PROVE  /\ n \in 1 .. Len(Append(l, r))
               /\ Head(Append(l, r)) = Head(l)
    <2>1. Len(l) >= 1 /\ Append(l, r)[1] = l[1]
      BY <1>1
    <2>2. l # <<>> /\ Append(l, r) # <<>>
      BY <1>1, <2>1
    <2> QED
      BY <1>1, <2>1, <2>2
  <1> QED
    BY <1>1, <1>2

LEMMA InitLines == FInit => LineInv
BY DEF FInit, LineInv, InLine, Waits, Works, Idle

\* A request lines up.
LEMMA StartKeepsLines ==
    ASSUME FlowTypes, LineInv, NEW r \in Requests, NEW s \in Servers, NEW place, NEW t,
           NEW i, NEW k, place \in {"load", "send"}, Start(r, s, place, t, i, k)
    PROVE  LineInv'
  <1>1. /\ job'[r].at = place /\ job'[r].server = s
        /\ \A q \in Requests \ {r} : job'[q] = job[q]
    BY DEF Start, FlowTypes
  <1>2. /\ lock \in [Servers -> Seq(Requests)]
        /\ lock' = [lock EXCEPT ![s] = Append(lock[s], r)]
    BY DEF Start, LineInv
  <1>3. lock' \in [Servers -> Seq(Requests)]
    BY <1>2
  <1>4. /\ \E m \in 1 .. Len(lock'[s]) : lock'[s][m] = r
        /\ \A n \in 1 .. Len(lock[s]) :
               /\ n \in 1 .. Len(lock'[s]) /\ lock'[s][n] = lock[s][n]
               /\ Head(lock'[s]) = Head(lock[s])
    <2>1. lock[s] \in Seq(Requests) /\ lock'[s] = Append(lock[s], r)
      BY <1>2
    <2> QED
      BY <2>1, AppendKeepsTheOthers
  <1>5. InLine(r)'
    BY <1>1, <1>4 DEF InLine, Waits, Works
  <1>6. ASSUME NEW q \in Requests \ {r} PROVE InLine(q)'
    <2>1. InLine(q) /\ job'[q] = job[q]
      BY <1>1 DEF LineInv
    <2>2. CASE Waits(q) /\ job[q].server = s
      BY <1>4, <2>1, <2>2 DEF InLine, Waits, Works, Turn
    <2>3. CASE Waits(q) /\ job[q].server # s
      <3>1. lock'[job[q].server] = lock[job[q].server]
        BY <1>2, <2>1, <2>3 DEF InLine
      <3> QED
        BY <2>1, <2>3, <3>1 DEF InLine, Waits, Works, Turn
    <2>4. CASE ~Waits(q)
      BY <2>1, <2>4 DEF InLine, Waits, Works
    <2> QED
      BY <2>2, <2>3, <2>4
  <1> QED
    BY <1>3, <1>5, <1>6 DEF LineInv

\* The turn of a request ends.
LEMMA LeavingKeepsLines ==
    ASSUME LineInv, NEW r \in Requests, Waits(r), Turn(r), lock' = Left(r),
           ~Waits(r)', \A q \in Requests \ {r} : job'[q] = job[q]
    PROVE  LineInv'
  <1> DEFINE s == job[r].server
  <1>1. /\ s \in Servers /\ lock \in [Servers -> Seq(Requests)] /\ lock[s] \in Seq(Requests)
        /\ lock' = [lock EXCEPT ![s] = Tail(lock[s])] /\ Head(lock[s]) = r
        /\ \E n \in 1 .. Len(lock[s]) : lock[s][n] = r
    BY DEF LineInv, InLine, Left, Turn
  <1> HIDE DEF s
  <1>2. lock' \in [Servers -> Seq(Requests)]
    <2>1. Tail(lock[s]) \in Seq(Requests)
      BY <1>1
    <2> QED
      BY <1>1, <2>1
  <1>3. InLine(r)'
    BY DEF InLine, Waits, Works
  <1>4. ASSUME NEW q \in Requests \ {r} PROVE InLine(q)'
    <2>1. InLine(q) /\ job'[q] = job[q]
      BY <1>1 DEF LineInv
    <2>2. CASE Waits(q) /\ job[q].server = s
      <3>1. PICK n \in 1 .. Len(lock[s]) : lock[s][n] = q
        BY <2>1, <2>2 DEF InLine
      <3>2. \E m \in 1 .. Len(lock'[s]) : lock'[s][m] = q
        <4>1. \E m \in 1 .. Len(Tail(lock[s])) : Tail(lock[s])[m] = lock[s][n]
          BY <1>1, <3>1, TailKeepsTheOthers
        <4> QED
          BY <1>1, <3>1, <4>1
      <3>3. ~Works(q)
        BY <1>1, <2>1, <2>2 DEF InLine, Turn
      <3> QED
        BY <1>1, <2>1, <2>2, <3>2, <3>3 DEF InLine, Waits, Works
    <2>3. CASE Waits(q) /\ job[q].server # s
      <3>1. lock'[job[q].server] = lock[job[q].server]
        BY <1>1, <2>1, <2>3 DEF InLine
      <3> QED
        BY <2>1, <2>3, <3>1 DEF InLine, Waits, Works, Turn
    <2>4. CASE ~Waits(q)
      BY <2>1, <2>4 DEF InLine, Waits, Works
    <2> QED
      BY <2>2, <2>3, <2>4
  <1> QED
    BY <1>2, <1>3, <1>4 DEF LineInv

\* A step within a turn, or outside of the line.
LEMMA StayingKeepsLines ==
    ASSUME LineInv, UNCHANGED lock,
           \A q \in Requests :
               /\ Waits(q)' => Waits(q) /\ job'[q].server = job[q].server
               /\ Works(q)' => Turn(q)
    PROVE  LineInv'
  <1> SUFFICES ASSUME NEW q \in Requests PROVE InLine(q)'
    BY DEF LineInv
  <1>1. InLine(q)
    BY DEF LineInv
  <1>2. CASE Waits(q)'
    BY <1>1, <1>2 DEF InLine, Turn
  <1>3. CASE ~Waits(q)'
    BY <1>3 DEF InLine, Waits, Works
  <1> QED
    BY <1>2, <1>3

\* A process dies with its lines.
LEMMA CrashKeepsLines ==
    ASSUME FlowTypes, LineInv, NEW s \in Servers, Crash(s)
    PROVE  LineInv'
  <1>1. /\ lock \in [Servers -> Seq(Requests)] /\ lock' = [lock EXCEPT ![s] = <<>>]
        /\ \A q \in Requests : job'[q] = IF job[q].server = s THEN Idle ELSE job[q]
    BY DEF Crash, LineInv
  <1>2. lock' \in [Servers -> Seq(Requests)]
    BY <1>1
  <1>3. ASSUME NEW q \in Requests PROVE InLine(q)'
    <2>1. CASE job[q].server = s
      BY <1>1, <2>1 DEF InLine, Waits, Works, Idle
    <2>2. CASE Waits(q) /\ job[q].server # s
      <3>1. InLine(q) /\ job'[q] = job[q] /\ lock'[job[q].server] = lock[job[q].server]
        BY <1>1, <2>2 DEF LineInv, InLine
      <3> QED
        BY <2>2, <3>1 DEF InLine, Waits, Works, Turn
    <2>3. CASE ~Waits(q) /\ job[q].server # s
      BY <1>1, <2>3 DEF InLine, Waits, Works
    <2> QED
      BY <2>1, <2>2, <2>3
  <1> QED
    BY <1>2, <1>3 DEF LineInv

\* A handler at work, or one that works no more.
LEMMA StepKeepsLines ==
    ASSUME FlowTypes, LineInv, NEW r \in Requests, Step(r)
    PROVE  LineInv'
  <1>1. \A q \in Requests : Works(q) => Turn(q)
    BY DEF LineInv, InLine
  <1>2. ASSUME Waits(r), Turn(r), Return(r), lock' = Left(r)
        PROVE  LineInv'
    <2>1. job'[r].at = "idle" /\ \A q \in Requests \ {r} : job'[q] = job[q]
      BY <1>2 DEF Return, FlowTypes, Idle
    <2> QED
      BY <1>2, <2>1, LeavingKeepsLines DEF Waits
  <1>3. ASSUME NEW place, Goto(r, place), UNCHANGED lock, Turn(r),
               Waits(r), place \in {"simulate", "poll"}
        PROVE  LineInv'
    <2>1. /\ job'[r].server = job[r].server
          /\ \A q \in Requests \ {r} : job'[q] = job[q]
      BY <1>3 DEF Goto, FlowTypes, Job
    <2>2. \A q \in Requests : /\ Waits(q)' => Waits(q) /\ job'[q].server = job[q].server
                              /\ Works(q)' => Turn(q)
      BY <1>1, <1>3, <2>1 DEF Waits, Works
    <2> QED
      BY <1>3, <2>2, StayingKeepsLines
  <1>4. CASE LoadAccount(r)
    BY <1>3, <1>4 DEF LoadAccount, At, Waits
  <1>5. CASE Simulate(r)
    BY <1>2, <1>5 DEF Simulate, Throw, LeftOnError, At, Waits
  <1>6. CASE Send(r)
    BY <1>2, <1>3, <1>6 DEF Send, Throw, LeftOnError, At, Waits
  <1>7. CASE PollDecided(r)
    <2>1. Waits(r) /\ Turn(r)
      BY <1>7 DEF PollDecided, At, Waits
    <2>2. CASE Throw(r)
      BY <1>2, <2>1, <2>2 DEF Throw, LeftOnError
    <2>3. ASSUME NEW place \in {"insert", "record"}, Goto(r, place), lock' = Left(r)
          PROVE  LineInv'
      <3>1. job'[r].at = place /\ \A q \in Requests \ {r} : job'[q] = job[q]
        BY <2>3 DEF Goto, FlowTypes, Job
      <3> QED
        BY <2>1, <2>3, <3>1, LeavingKeepsLines DEF Waits
    <2> QED
      BY <1>7, <2>2, <2>3 DEF PollDecided
  <1>8. CASE PollAgain(r)
    <2>1. Waits(r) /\ Turn(r)
      BY <1>8 DEF PollAgain, At, Waits
    <2>2. CASE Throw(r)
      BY <1>2, <2>1, <2>2 DEF Throw, LeftOnError
    <2>3. CASE job' = [job EXCEPT ![r].polls = @ + 1] /\ UNCHANGED lock
      <3>1. /\ job'[r].at = job[r].at /\ job'[r].server = job[r].server
            /\ \A q \in Requests \ {r} : job'[q] = job[q]
        BY <2>3 DEF FlowTypes, Job
      <3>2. \A q \in Requests : /\ Waits(q)' => Waits(q) /\ job'[q].server = job[q].server
                                /\ Works(q)' => Turn(q)
        BY <1>1, <3>1 DEF Waits, Works
      <3> QED
        BY <2>3, <3>2, StayingKeepsLines
    <2> QED
      BY <1>8, <2>2, <2>3 DEF PollAgain
  <1>9. CASE InsertPlan(r) \/ RecordSent(r)
    <2>1. job'[r].at = "idle" /\ \A q \in Requests \ {r} : job'[q] = job[q]
      BY <1>9 DEF InsertPlan, RecordSent, Return, FlowTypes, Idle
    <2>2. \A q \in Requests : /\ Waits(q)' => Waits(q) /\ job'[q].server = job[q].server
                              /\ Works(q)' => Turn(q)
      BY <1>1, <2>1 DEF Waits, Works
    <2>3. UNCHANGED lock
      BY <1>9 DEF InsertPlan, RecordSent
    <2> QED
      BY <2>2, <2>3, StayingKeepsLines
  <1> QED
    BY <1>4, <1>5, <1>6, <1>7, <1>8, <1>9 DEF Step

LEMMA LinesStep == FlowInv /\ LineInv /\ [FNext]_fvars => LineInv'
  <1> SUFFICES ASSUME FlowTypes, LineInv, [FNext]_fvars PROVE LineInv'
    BY DEF FlowInv
  <1>1. ASSUME NEW r \in Requests, NEW s \in Servers, Browser(r, s) PROVE LineInv'
    <2>1. PICK place \in {"load", "send"} : \E t, i, k : Start(r, s, place, t, i, k)
      BY <1>1 DEF Browser, BuildEscrow, BuildRelease, CreateEscrowed, RecordRelease
    <2> QED
      BY <2>1, StartKeepsLines
  <1>2. CASE \E r \in Requests : Step(r)
    BY <1>2, StepKeepsLines
  <1>3. CASE \E s \in Servers : Crash(s)
    BY <1>3, CrashKeepsLines
  <1>4. CASE UNCHANGED <<lock, job>>
    <2>1. \A q \in Requests : /\ Waits(q)' => Waits(q) /\ job'[q].server = job[q].server
                              /\ Works(q)' => Turn(q)
      BY <1>4 DEF LineInv, InLine, Waits, Works
    <2> QED
      BY <1>4, <2>1, StayingKeepsLines
  <1>5. CASE \/ \E t \in Creates : ApplyCreate(t)
             \/ \E t \in Releases : ApplyRelease(t)
             \/ \E t \in Txs : Fail(t) \/ Drop(t)
             \/ OwnPayment \/ Others \/ UNCHANGED fvars
    BY <1>4, <1>5 DEF ApplyCreate, ApplyRelease, Fail, Drop, OwnPayment, Others, flow, fvars
  <1> QED
    BY <1>1, <1>2, <1>3, <1>5 DEF FNext

\* Every variable of the flow keeps its type; a handler counts no more polls
\* than it makes.
THEOREM FlowTypeCorrect == FSpec => []FTypeOK
  <1>1. FInit => LineInv /\ RecordInv
    BY InitLines, InitRecords
  <1>2. IInv /\ FlowInv /\ RecordInv /\ LineInv /\ [FNext]_fvars => (LineInv /\ RecordInv)'
    BY LinesStep, RecordsStep
  <1>3. IInv /\ FlowInv /\ RecordInv /\ LineInv => FTypeOK
    BY DEF IInv, FlowInv, FlowTypes, RecordInv, LineInv, FTypeOK
  <1> QED
    BY <1>1, <1>2, <1>3, FlowInvariance, PTL DEF FSpec

-----------------------------------------------------------------------------
(* One plan per schedule, in one process.                                  *)

\* Between an escrow's submission and the insert of its plan.
Awaits(r) == job[r].at \in {"poll", "insert"} /\ job[r].tx \in Creates

OnceInv ==
    /\ \A t \in Creates : tx[t].status # "landed" => tx[t].id = NoId
    /\ \A t, u \in Creates :
           tx[t].status = "landed" /\ tx[u].status = "landed" /\ tx[t].id = tx[u].id => t = u
    /\ \A q, r \in Requests : Awaits(q) /\ Awaits(r) /\ job[q].tx = job[r].tx => q = r
    /\ \A r \in Requests : Awaits(r) =>
           \A k \in PlanRows : plan[k] # NoInput => plan[k].id # tx[job[r].tx].id
    /\ OnePlanPerSchedule

LEMMA InitOnce == FInit => OnceInv
BY DEF FInit, OnceInv, OnePlanPerSchedule, Awaits, Idle, Unbuilt, Txs

\* A create_schedule gets its id where it lands.
Undecided(t) ==
    /\ tx'[t].id = tx[t].id
    /\ tx'[t].status = "landed" <=> tx[t].status = "landed"

LEMMA MarkLeavesUndecided ==
    ASSUME FlowTypes, NEW t \in Txs, NEW st \in {"built", "pending", "failed", "expired"},
           Mark(t, st), tx[t].status # "landed"
    PROVE  \A u \in Creates : Undecided(u)
  <1>1. \A u \in Txs : /\ tx'[u].id = tx[u].id
                       /\ tx'[u].status = IF u = t THEN st ELSE tx[u].status
    BY MarkFields
  <1> QED
    BY <1>1 DEF Undecided, Txs

LEMMA HandlersLeaveUndecided ==
    ASSUME FlowInv, NEW r \in Requests, Step(r)
    PROVE  \A u \in Creates : Undecided(u)
  <1>1. ASSUME UNCHANGED tx PROVE \A u \in Creates : Undecided(u)
    BY <1>1 DEF Undecided
  <1>2. Relies(r) /\ FlowTypes
    BY DEF FlowInv
  <1>3. CASE LoadAccount(r)
    <2>1. job[r].tx \in Txs /\ tx[job[r].tx] \in Tx
      BY <1>2, <1>3 DEF LoadAccount, At, Relies, Building, FlowTypes
    <2>2. tx' = [tx EXCEPT ![job[r].tx] = [tx[job[r].tx] EXCEPT !.seq = seq + 1]]
      BY <1>3 DEF LoadAccount
    <2> QED
      BY <1>2, <2>1, <2>2 DEF Undecided, FlowTypes, Tx, Txs
  <1>4. CASE Simulate(r)
    <2>1. job[r].tx \in Txs /\ tx[job[r].tx].status = "draft"
      BY <1>2, <1>4 DEF Simulate, At, Relies, Building
    <2> QED
      BY <1>1, <1>2, <1>4, <2>1, MarkLeavesUndecided DEF Simulate
  <1>5. CASE Send(r)
    <2>1. job[r].tx \in Txs
      BY <1>2, <1>5 DEF Send, At, Relies, Submitting
    <2> QED
      BY <1>1, <1>2, <1>5, <2>1, MarkLeavesUndecided DEF Send, Sendable
  <1>6. CASE PollAgain(r)
    <2>1. job[r].tx \in Txs
      BY <1>2, <1>6 DEF PollAgain, At, Relies, Submitting
    <2>2. UNCHANGED tx \/ (Sendable(job[r].tx) /\ Mark(job[r].tx, "pending"))
      BY <1>6 DEF PollAgain
    <2> QED
      BY <1>1, <1>2, <2>1, <2>2, MarkLeavesUndecided DEF Sendable
  <1>7. CASE PollDecided(r) \/ InsertPlan(r) \/ RecordSent(r)
    BY <1>1, <1>7 DEF PollDecided, InsertPlan, RecordSent
  <1> QED
    BY <1>3, <1>4, <1>5, <1>6, <1>7 DEF Step

LEMMA OthersLeaveUndecided ==
    ASSUME FlowInv, OnceInv, [FNext]_fvars, ~ \E t \in Creates : ApplyCreate(t)
    PROVE  \A u \in Creates : Undecided(u)
  <1>1. FlowTypes /\ (\A u \in Txs : tx[u] \in Tx) /\ Creates \subseteq Txs
    BY DEF FlowInv, FlowTypes, Txs
  <1>2. ASSUME NEW i \in Input, NEW t \in Creates, NEW r \in Requests, NEW s \in Servers,
               BuildEscrow(r, s, i, t)
        PROVE  \A u \in Creates : Undecided(u)
    <2> DEFINE x == [status |-> "draft", seq |-> 0, input |-> i, due |-> ledger, id |-> NoId]
    <2>1. x.status = "draft" /\ x.id = NoId
      OBVIOUS
    <2>2. /\ tx' = [tx EXCEPT ![t] = x]
          /\ tx[t].status = "unbuilt" /\ tx[t].id = NoId
      BY <1>2 DEF BuildEscrow, Unbuilt
    <2> HIDE DEF x
    <2> QED
      BY <1>1, <2>1, <2>2 DEF Undecided, FlowTypes
  <1>3. ASSUME NEW k \in PlanRows, NEW t \in Releases, NEW r \in Requests, NEW s \in Servers,
               BuildRelease(r, s, k, t)
        PROVE  \A u \in Creates : Undecided(u)
    <2>1. \A u \in Creates : tx'[u] = tx[u]
      BY <1>1, <1>3, TxAssumption DEF BuildRelease, FlowTypes
    <2> QED
      BY <2>1 DEF Undecided
  <1>4. ASSUME NEW r \in Requests, NEW s \in Servers, Browser(r, s)
        PROVE  \A u \in Creates : Undecided(u)
    BY <1>2, <1>3, <1>4 DEF Browser, CreateEscrowed, RecordRelease, Undecided
  <1>5. CASE \E r \in Requests : Step(r)
    BY <1>5, HandlersLeaveUndecided
  <1>6. ASSUME NEW t \in Releases, ApplyRelease(t)
        PROVE  \A u \in Creates : Undecided(u)
    <2>1. \A u \in Creates : tx'[u] = tx[u]
      BY <1>1, <1>6, TxAssumption DEF ApplyRelease, Mark, FlowTypes
    <2> QED
      BY <2>1 DEF Undecided
  <1>7. ASSUME NEW t \in Txs, Fail(t) \/ Drop(t)
        PROVE  \A u \in Creates : Undecided(u)
    <2>1. PICK st \in {"built", "failed", "expired"} : Mark(t, st)
      BY <1>7 DEF Fail, Drop
    <2> QED
      BY <1>1, <1>7, <2>1, MarkLeavesUndecided DEF Fail, Drop
  <1>8. CASE (\E s \in Servers : Crash(s)) \/ OwnPayment \/ Others \/ UNCHANGED fvars
    BY <1>8 DEF Crash, OwnPayment, Others, flow, fvars, Undecided
  <1> QED
    BY <1>4, <1>5, <1>6, <1>7, <1>8 DEF FNext

\* A step that neither lands an escrow, nor takes one up, nor inserts a plan.
LEMMA NothingNewOnce ==
    ASSUME OnceInv, UNCHANGED plan, \A u \in Creates : Undecided(u),
           \A q \in Requests : Awaits(q)' => Awaits(q) /\ job'[q].tx = job[q].tx
    PROVE  OnceInv'
  <1>1. \A t \in Creates : tx'[t].status # "landed" => tx'[t].id = NoId
    BY DEF OnceInv, Undecided
  <1>2. \A t, u \in Creates :
            tx'[t].status = "landed" /\ tx'[u].status = "landed" /\ tx'[t].id = tx'[u].id
              => t = u
    BY DEF OnceInv, Undecided
  <1>3. \A q, r \in Requests : Awaits(q)' /\ Awaits(r)' /\ job'[q].tx = job'[r].tx => q = r
    BY DEF OnceInv
  <1>4. ASSUME NEW r \in Requests, Awaits(r)', NEW k \in PlanRows, plan'[k] # NoInput
        PROVE  plan'[k].id # tx'[job'[r].tx].id
    <2>1. Awaits(r) /\ job'[r].tx = job[r].tx /\ job[r].tx \in Creates
      BY <1>4 DEF Awaits
    <2> QED
      BY <1>4, <2>1 DEF OnceInv, Undecided
  <1>5. OnePlanPerSchedule'
    BY DEF OnceInv, OnePlanPerSchedule
  <1> QED
    BY <1>1, <1>2, <1>3, <1>4, <1>5 DEF OnceInv

\* An escrow lands under an id that no other escrow and no plan has.
LEMMA LandingKeepsOnce ==
    ASSUME IInv, FlowInv, OnceInv, NEW t \in Creates, ApplyCreate(t)
    PROVE  OnceInv'
  <1>1. UNCHANGED <<plan, job>> /\ nextId \in Int
    BY BoundAssumption DEF ApplyCreate, IInv, TypeOK
  <1>2. /\ tx'[t].status = "landed" /\ tx'[t].id = nextId /\ tx[t].status # "landed"
        /\ \A u \in Creates \ {t} : tx'[u] = tx[u]
    <2> DEFINE x == [tx[t] EXCEPT !.status = "landed", !.id = nextId]
    <2>1. tx[t] \in Tx
      BY DEF FlowInv, FlowTypes, Txs
    <2>2. x.status = "landed" /\ x.id = nextId /\ tx' = [tx EXCEPT ![t] = x]
      BY <2>1 DEF Tx, ApplyCreate
    <2>3. tx[t].status # "landed"
      BY DEF ApplyCreate
    <2> HIDE DEF x
    <2> QED
      BY <2>2, <2>3 DEF FlowInv, FlowTypes, Txs
  <1>3. \A id, i : Backs(id, i) => id # nextId
    BY BoundAssumption DEF Backs, IInv, TypeOK, TermsKept
  <1>4. \A u \in Creates : tx[u].status = "landed" => tx[u].id # nextId
    BY <1>3 DEF FlowInv, Known, Txs
  <1>5. \A k \in PlanRows : plan[k] # NoInput => plan[k].id # nextId
    BY <1>3 DEF FlowInv, PlanIsBacked
  <1>6. \A u \in Creates : tx'[u].status # "landed" => tx'[u].id = NoId
    BY <1>2 DEF OnceInv
  <1>7. \A u, v \in Creates :
            tx'[u].status = "landed" /\ tx'[v].status = "landed" /\ tx'[u].id = tx'[v].id
              => u = v
    BY <1>2, <1>4 DEF OnceInv
  <1>8. \A q \in Requests : Awaits(q)' <=> Awaits(q)
    BY <1>1 DEF Awaits
  <1>9. ASSUME NEW r \in Requests, Awaits(r)', NEW k \in PlanRows, plan'[k] # NoInput
        PROVE  plan'[k].id # tx'[job'[r].tx].id
    <2>1. Awaits(r) /\ job[r].tx \in Creates /\ plan'[k] = plan[k] /\ job'[r].tx = job[r].tx
      BY <1>1, <1>8, <1>9 DEF Awaits
    <2>2. CASE job[r].tx = t
      BY <1>2, <1>5, <1>9, <2>1, <2>2
    <2>3. CASE job[r].tx # t
      BY <1>2, <1>9, <2>1, <2>3 DEF OnceInv
    <2> QED
      BY <2>2, <2>3
  <1>10. OnePlanPerSchedule'
    BY <1>1 DEF OnceInv, OnePlanPerSchedule
  <1> QED
    BY <1>1, <1>6, <1>7, <1>8, <1>9, <1>10 DEF OnceInv

LEMMA NoIdIsNone == NoId \notin Ids
BY BoundAssumption DEF NoId

\* In one process, only one request at a time submits an escrow, and none that
\* has landed.
LEMMA SendingKeepsOnce ==
    ASSUME FlowInv, LineInv, OnceInv, NEW r \in Requests, Send(r),
           \A a, b \in Servers : a = b
    PROVE  OnceInv'
  <1>1. \A u \in Creates : Undecided(u)
    BY HandlersLeaveUndecided DEF Step
  <1>2. UNCHANGED plan
    BY DEF Send
  <1>3. CASE Throw(r)
    <2>1. \A q \in Requests : Awaits(q)' => Awaits(q) /\ job'[q].tx = job[q].tx
      BY <1>3 DEF Throw, Return, Awaits, FlowInv, FlowTypes, Idle
    <2> QED
      BY <1>1, <1>2, <2>1, NothingNewOnce
  <1>4. CASE Goto(r, "poll") /\ Sendable(job[r].tx)
    <2>1. \A q \in Requests : /\ job'[q].tx = job[q].tx
                              /\ job'[q].at = IF q = r THEN "poll" ELSE job[q].at
      BY <1>4, GotoFields DEF FlowInv
    <2>2. tx[job[r].tx].status # "landed"
      BY <1>4 DEF Sendable
    <2>3. ASSUME NEW q \in Requests, q # r, Awaits(q), job[q].tx = job[r].tx PROVE FALSE
      <3>1. job[q].at = "poll"
        BY <2>2, <2>3 DEF Awaits, FlowInv, Relies
      <3>2. Turn(q) /\ Turn(r) /\ job[q].server \in Servers /\ job[r].server \in Servers
        BY <3>1 DEF LineInv, InLine, Waits, Works, Send, At
      <3>3. job[q].server = job[r].server
        BY <3>2
      <3> QED
        BY <2>3, <3>2, <3>3 DEF Turn
    <2>4. \A q \in Requests : Awaits(q)' => q = r \/ Awaits(q)
      BY <2>1 DEF Awaits
    <2>5. \A t \in Creates : tx'[t].status # "landed" => tx'[t].id = NoId
      BY <1>1 DEF OnceInv, Undecided
    <2>6. \A t, u \in Creates :
              tx'[t].status = "landed" /\ tx'[u].status = "landed" /\ tx'[t].id = tx'[u].id
                => t = u
      BY <1>1 DEF OnceInv, Undecided
    <2>7. \A p, q \in Requests : Awaits(p)' /\ Awaits(q)' /\ job'[p].tx = job'[q].tx => p = q
      BY <2>1, <2>3, <2>4 DEF OnceInv
    <2>8. ASSUME NEW q \in Requests, Awaits(q)', NEW k \in PlanRows, plan'[k] # NoInput
          PROVE  plan'[k].id # tx'[job'[q].tx].id
      <3>1. job[q].tx \in Creates /\ job'[q].tx = job[q].tx /\ plan'[k] = plan[k]
        BY <1>2, <2>1, <2>8 DEF Awaits
      <3>2. CASE q = r
        <4>1. tx'[job[r].tx].id = NoId
          BY <1>1, <2>2, <3>1, <3>2 DEF OnceInv, Undecided
        <4>2. plan[k].id \in Ids /\ NoId \notin Ids
          <5>1. plan[k] \in Plan
            BY <2>8, <3>1 DEF FlowInv, FlowTypes
          <5> QED
            BY <5>1, NoIdIsNone DEF Plan
        <4> QED
          BY <3>1, <3>2, <4>1, <4>2
      <3>3. CASE q # r
        BY <1>1, <2>4, <2>8, <3>1, <3>3 DEF OnceInv, Undecided
      <3> QED
        BY <3>2, <3>3
    <2>9. OnePlanPerSchedule'
      BY <1>2 DEF OnceInv, OnePlanPerSchedule
    <2> QED
      BY <2>5, <2>6, <2>7, <2>8, <2>9 DEF OnceInv
  <1> QED
    BY <1>3, <1>4 DEF Send

\* A plan is inserted by the only request that awaited its escrow.
LEMMA InsertKeepsOnce ==
    ASSUME FlowInv, OnceInv, NEW r \in Requests, InsertPlan(r)
    PROVE  OnceInv'
  <1> DEFINE id == tx[job[r].tx].id
  <1> DEFINE p == [input |-> job[r].input, id |-> id]
  <1>1. /\ UNCHANGED tx /\ job' = [job EXCEPT ![r] = Idle] /\ job[r].at = "insert"
        /\ \/ UNCHANGED plan
           \/ \E k \in PlanRows : plan[k] = NoInput /\ plan' = [plan EXCEPT ![k] = p]
    BY DEF InsertPlan, Return, At
  <1>2. /\ \A q \in Requests \ {r} : job'[q] = job[q]
        /\ \A q \in Requests : Awaits(q)' => q # r /\ Awaits(q) /\ job'[q].tx = job[q].tx
    BY <1>1 DEF Awaits, FlowInv, FlowTypes, Idle
  <1>3. \A u \in Creates : Undecided(u)
    BY <1>1 DEF Undecided
  <1>4. CASE UNCHANGED plan
    BY <1>2, <1>3, <1>4, NothingNewOnce
  <1>5. ASSUME NEW k \in PlanRows, plan[k] = NoInput, plan' = [plan EXCEPT ![k] = p]
        PROVE  OnceInv'
    <2>1. job[r].tx \in Creates /\ tx[job[r].tx].status = "landed" /\ Awaits(r)
      BY <1>1 DEF FlowInv, Relies, Awaits
    <2>2. id \in Ids /\ id # NoId
      <3>1. Backs(id, tx[job[r].tx].input)
        BY <2>1 DEF FlowInv, Known, Txs
      <3> QED
        BY <3>1, NoIdIsNone DEF Backs
    <2>3. \A j \in PlanRows : plan[j] # NoInput => plan[j].id # id
      BY <2>1 DEF OnceInv
    <2>4. /\ p.id = id
          /\ plan' = [plan EXCEPT ![k] = p] /\ plan \in [PlanRows -> Plan \cup {NoInput}]
      BY <1>5 DEF FlowInv, FlowTypes
    <2> HIDE DEF p, id
    <2>5. \A j \in PlanRows : plan'[j] # NoInput =>
              \/ plan'[j].id = id /\ j = k
              \/ plan'[j] = plan[j] /\ plan[j] # NoInput
      BY <2>4
    <2>6. OnePlanPerSchedule'
      BY <1>5, <2>3, <2>5 DEF OnceInv, OnePlanPerSchedule
    <2>7. ASSUME NEW q \in Requests, Awaits(q)', NEW j \in PlanRows, plan'[j] # NoInput
          PROVE  plan'[j].id # tx'[job'[q].tx].id
      <3>1. q # r /\ Awaits(q) /\ job'[q].tx = job[q].tx /\ job[q].tx \in Creates
        BY <1>2, <2>7 DEF Awaits
      <3>2. job[q].tx # job[r].tx
        BY <2>1, <3>1 DEF OnceInv
      <3>3. tx[job[q].tx].id # id
        BY <2>1, <2>2, <3>1, <3>2 DEF OnceInv, id
      <3> QED
        BY <1>1, <2>5, <2>7, <3>1, <3>3 DEF OnceInv
    <2>8. \A q, s \in Requests : Awaits(q)' /\ Awaits(s)' /\ job'[q].tx = job'[s].tx => q = s
      BY <1>2 DEF OnceInv
    <2> QED
      BY <1>1, <2>6, <2>7, <2>8 DEF OnceInv
  <1> QED
    BY <1>1, <1>4, <1>5

LEMMA OnceStep ==
    ASSUME \A a, b \in Servers : a = b
    PROVE  IInv /\ FlowInv /\ LineInv /\ OnceInv /\ [FNext]_fvars => OnceInv'
  <1> SUFFICES ASSUME IInv, FlowInv, LineInv, OnceInv, [FNext]_fvars PROVE OnceInv'
    OBVIOUS
  <1>1. CASE \E t \in Creates : ApplyCreate(t)
    BY <1>1, LandingKeepsOnce
  <1>2. CASE \E r \in Requests : Send(r)
    BY <1>2, SendingKeepsOnce
  <1>3. CASE \E r \in Requests : InsertPlan(r)
    BY <1>3, InsertKeepsOnce
  <1>4. ASSUME UNCHANGED plan, ~ \E t \in Creates : ApplyCreate(t),
               \A q \in Requests : Awaits(q)' => Awaits(q) /\ job'[q].tx = job[q].tx
        PROVE  OnceInv'
    BY <1>4, OthersLeaveUndecided, NothingNewOnce
  <1>5. CASE UNCHANGED <<plan, job>> /\ ~ \E t \in Creates : ApplyCreate(t)
    BY <1>4, <1>5 DEF Awaits
  <1>6. ASSUME NEW r \in Requests, NEW s \in Servers, Browser(r, s),
               ~ \E t \in Creates : ApplyCreate(t)
        PROVE  OnceInv'
    <2>1. PICK place \in {"load", "send"} : \E t, i, k : Start(r, s, place, t, i, k)
      BY <1>6 DEF Browser, BuildEscrow, BuildRelease, CreateEscrowed, RecordRelease
    <2>2. UNCHANGED plan
      BY <1>6 DEF Browser, BuildEscrow, BuildRelease, CreateEscrowed, RecordRelease
    <2>3. job'[r].at = place /\ \A q \in Requests \ {r} : job'[q] = job[q]
      BY <2>1 DEF Start, FlowInv, FlowTypes
    <2> QED
      BY <1>4, <1>6, <2>2, <2>3 DEF Awaits
  <1>7. ASSUME NEW r \in Requests, ~ \E t \in Creates : ApplyCreate(t),
               LoadAccount(r) \/ Simulate(r) \/ PollDecided(r) \/ PollAgain(r) \/ RecordSent(r)
        PROVE  OnceInv'
    <2>1. /\ UNCHANGED plan /\ job \in [Requests -> Job]
          /\ \A place : At(r, place) <=> job[r].at = place
      BY <1>7 DEF LoadAccount, Simulate, PollDecided, PollAgain, RecordSent, FlowInv,
                  FlowTypes, At
    <2>2. CASE Return(r)
      <3>1. job'[r].at = "idle" /\ \A q \in Requests \ {r} : job'[q] = job[q]
        BY <2>1, <2>2 DEF Return, Idle
      <3> QED
        BY <1>4, <1>7, <2>1, <3>1 DEF Awaits
    <2>3. ASSUME NEW place \in {"simulate", "insert", "record"}, Goto(r, place),
                 place = "insert" => job[r].at = "poll"
          PROVE  OnceInv'
      <3>1. /\ job'[r].at = place /\ job'[r].tx = job[r].tx
            /\ \A q \in Requests \ {r} : job'[q] = job[q]
        BY <2>1, <2>3 DEF Goto, Job
      <3> QED
        BY <1>4, <1>7, <2>1, <2>3, <3>1 DEF Awaits
    <2>4. CASE job' = [job EXCEPT ![r].polls = @ + 1]
      <3>1. /\ job'[r].at = job[r].at /\ job'[r].tx = job[r].tx
            /\ \A q \in Requests \ {r} : job'[q] = job[q]
        BY <2>1, <2>4 DEF Job
      <3> QED
        BY <1>4, <1>7, <2>1, <3>1 DEF Awaits
    <2> QED
      BY <1>7, <2>1, <2>2, <2>3, <2>4
         DEF LoadAccount, Simulate, PollDecided, PollAgain, RecordSent, Throw
  <1>8. CASE (\E s \in Servers : Crash(s)) /\ ~ \E t \in Creates : ApplyCreate(t)
    <2>1. UNCHANGED plan /\ \A q \in Requests : job'[q] = Idle \/ job'[q] = job[q]
      BY <1>8 DEF Crash
    <2> QED
      BY <1>4, <1>8, <2>1 DEF Awaits, Idle
  <1>9. CASE /\ ~ \E t \in Creates : ApplyCreate(t)
             /\ \/ \E t \in Releases : ApplyRelease(t)
                \/ \E t \in Txs : Fail(t) \/ Drop(t)
                \/ OwnPayment \/ Others \/ UNCHANGED fvars
    BY <1>5, <1>9 DEF ApplyRelease, Fail, Drop, OwnPayment, Others, flow, fvars
  <1> QED
    BY <1>1, <1>2, <1>3, <1>6, <1>7, <1>8, <1>9 DEF FNext, Step

\* In one process an escrow, however often it is posted, makes one plan: the
\* line lets one request at a time submit it, and none once its number is used
\* (withAccountLock, submitSorobanSigned).
THEOREM OneProcessOnePlan ==
    ASSUME \A a, b \in Servers : a = b
    PROVE  FSpec => []OnePlanPerSchedule
  <1>1. FInit => LineInv /\ OnceInv
    BY InitLines, InitOnce
  <1>2. IInv /\ FlowInv /\ LineInv /\ OnceInv /\ [FNext]_fvars => (LineInv /\ OnceInv)'
    BY LinesStep, OnceStep
  <1>3. OnceInv => OnePlanPerSchedule
    BY DEF OnceInv
  <1> QED
    BY <1>1, <1>2, <1>3, FlowInvariance, PTL DEF FSpec
-----------------------------------------------------------------------------
(***************************************************************************)
(* The whole system.  Since it runs the contract, what is proved of the    *)
(* contract alone holds of it too, and joins what is proved of the plans   *)
(* and the records that the server keeps outside the contract.             *)
(***************************************************************************)

\* What is left to pay of a plan is in the contract, next to what is left to pay
\* of all other schedules.
PlansAreFunded ==
    /\ Liability <= balance[Escrow]
    /\ \A k \in PlanRows : plan[k] # NoInput =>
           LET left == plan[k].input.months - schedules[plan[k].id].periods_released IN
           /\ left \in Nat
           /\ Owed(plan[k].id) = plan[k].input.amount * left
           /\ Owed(plan[k].id) <= Liability

\* As many payments as are recorded for a schedule had fallen due.
RecordsKeepTheCalendar ==
    \A id \in Ids :
        LET rs == {t \in Releases : recorded[t] # 0 /\ plan[recorded[t]].id = id} IN
        rs # {} => ledger >= DueLedger(id, Cardinality(rs))

\* Whatever the servers and the browsers do, nobody is paid before the due ledger,
\* the contract can always pay what it owes, and it behaves like one pot per
\* schedule (the whole of contract.ts over the whole of lib.rs).
THEOREM FlowKeepsThePromise ==
    FSpec => []NeverPaidEarly /\ []Solvent /\ []NextMonthCovered /\ KeepsThePromise
  BY FlowRunsTheContract, NoEarlyPayment, EscrowIsSolvent, MonthsAreCovered,
     ContractKeepsThePromise, PTL

\* A plan shown as escrowed is worth what it says: all its unpaid months are in
\* the contract's balance, whatever the other schedules are owed (createEscrowed,
\* create_schedule, release).
THEOREM PlansAreWorthTheirMonths == FSpec => []PlansAreFunded
  <1>1. SInv /\ FlowInv => PlansAreFunded
    <2> SUFFICES ASSUME SInv, FlowInv PROVE PlansAreFunded
      OBVIOUS
    <2>1. Liability <= balance[Escrow]
      BY LiabilityCovers DEF SInv, IInv, TypeOK, Solvent
    <2>2. ASSUME NEW k \in PlanRows, plan[k] # NoInput
          PROVE  LET left == plan[k].input.months - schedules[plan[k].id].periods_released IN
                 /\ left \in Nat
                 /\ Owed(plan[k].id) = plan[k].input.amount * left
                 /\ Owed(plan[k].id) <= Liability
      <3> DEFINE id == plan[k].id
      <3>1. Backs(id, plan[k].input)
        BY <2>2 DEF FlowInv, PlanIsBacked
      <3>2. id \in Ids /\ Created(id)
        BY <3>1 DEF Backs
      <3>3. schedules[id].monthly_amount = plan[k].input.amount
            /\ schedules[id].months = plan[k].input.months
        BY <3>1 DEF Backs
      <3>4. Owed(id) <= Liability
        BY <3>2, LiabilityCovers DEF SInv
      <3>5. /\ schedules[id].periods_released \in Nat /\ schedules[id].months \in Nat
            /\ schedules[id].periods_released <= schedules[id].months
        BY <3>2, TermsAreNatural DEF SInv, IInv, DueDatesNeverDrift
      <3> QED
        BY <3>2, <3>3, <3>4, <3>5 DEF Owed
    <2> QED
      BY <2>1, <2>2 DEF PlansAreFunded
  <1>2. FSpec => []SInv
    BY FlowRunsTheContract, Solvency, PTL
  <1> QED
    BY <1>1, <1>2, FlowInvariance, PTL

\* However many requests, retries and crashes there are, the server never records
\* the k-th payment of a schedule before the k-th due ledger of the agreed
\* calendar (recordRelease, release).
THEOREM RecordsNeverOutrunTheCalendar == FSpec => []RecordsKeepTheCalendar
  <1>1. IInv /\ RecordInv => RecordsKeepTheCalendar
    <2> SUFFICES ASSUME IInv, RecordInv, NEW id \in Ids
                 PROVE  LET rs == {t \in Releases : recorded[t] # 0
                                                      /\ plan[recorded[t]].id = id} IN
                        rs # {} => ledger >= DueLedger(id, Cardinality(rs))
      BY DEF RecordsKeepTheCalendar
    <2> DEFINE rs == {t \in Releases : recorded[t] # 0 /\ plan[recorded[t]].id = id}
    <2>1. SUFFICES ASSUME rs # {} PROVE ledger >= DueLedger(id, Cardinality(rs))
      OBVIOUS
    <2>2. rs \subseteq Landed(id) /\ Counted(id)
      BY DEF RecordInv, Earned, Releasing, Landed
    <2>3. IsFiniteSet(rs) /\ Cardinality(rs) \in Nat
      BY <2>2, FS_Subset, FS_CardinalityType DEF Counted
    <2>4. Cardinality(rs) # 0
      BY <2>1, <2>3, FS_EmptySet
    <2>5. Cardinality(rs) <= schedules[id].periods_released
      BY <2>1, RecordsAreCounted DEF RecordedAreReleased
    <2>6. Created(id)
      BY <2>1, <2>2 DEF Counted
    <2> DEFINE n == Cardinality(rs)
               k == schedules[id].periods_released
    <2> HIDE DEF rs, n, k
    <2>7. k \in Nat /\ n \in Nat /\ n <= k /\ k > 0
      BY <2>3, <2>4, <2>5, <2>6, TermsAreNatural DEF n, k, IInv
    <2>8. ledger >= DueLedger(id, k) /\ ledger \in Nat
      BY <2>6, <2>7 DEF IInv, NeverPaidEarly, k, TypeOK
    <2>9. terms[id].first_due_ledger \in Nat /\ LedgersPerPeriod \in Nat
      BY <2>6, TermsAreNatural, WidthAssumption DEF IInv
    <2>10. DueLedger(id, n) <= DueLedger(id, k)
      <3>1. (n - 1) * LedgersPerPeriod <= (k - 1) * LedgersPerPeriod
        BY <2>7, <2>9
      <3> QED
        BY <2>7, <2>9, <3>1 DEF DueLedger
    <2>11. DueLedger(id, n) \in Int /\ DueLedger(id, k) \in Int
      BY <2>7, <2>9 DEF DueLedger
    <2> QED
      BY <2>8, <2>10, <2>11 DEF n
  <1>2. FInit => RecordInv
    BY InitRecords
  <1>3. IInv /\ FlowInv /\ RecordInv /\ [FNext]_fvars => RecordInv'
    BY RecordsStep
  <1> QED
    BY <1>1, <1>2, <1>3, FlowInvariance, PTL DEF FSpec
=============================================================================
