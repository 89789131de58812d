------------------------------ MODULE PlanPage ------------------------------
(***************************************************************************)
(* The page of one support plan, allowances/[id]/page.tsx, in one tab:     *)
(* what it shows, what its buttons do, and what they leave behind on the   *)
(* server and on the chain.  stellarClient.ts builds, signs and submits    *)
(* the direct payments.                                                    *)
(*                                                                         *)
(* The page holds a copy of the plan.  It is fetched when the wallet       *)
(* connects and after each action, and it stays when a later fetch fails.  *)
(* A handler (op) captures the copy and the key it was started with, and   *)
(* goes on when the tab disconnects.                                       *)
(*                                                                         *)
(* The server's side of each request is one step here; how requests        *)
(* interleave in it is the subject of PayoutRecords and EscrowFlow.  Other *)
(* tabs change the plan and the cookie.  External: Horizon, and Freighter, *)
(* which need never answer.                                                *)
(***************************************************************************)
EXTENDS WalletSession

CONSTANTS
    Owner,        \* whose plan it is
    Txs, NoTx,    \* transactions
    NoCopy        \* null

ASSUME OwnerAssumption == Owner \in Keys
ASSUME NoTxAssumption == NoTx \notin Txs
ASSUME NoCopyAssumption == NoCopy \notin {"active", "paused", "ended"}

VARIABLES
    plan,       \* the row's status, on the server
    escrowed,   \* whether it has a scheduleId
    copy,       \* allowance, of which the status is all that changes
    loading,    \* loading
    busy,       \* busy
    load,       \* the fetch the effect has in progress (bound: one)
    op,         \* the button's handler in progress
    chain,      \* the transactions: unsigned, or signed and then on the chain, on
                \* its way there, or off it
    recorded,   \* those with a payment record
    reported    \* history: those whose handler ended in an error message, or
                \* was cut off by leaving the page

page == <<copy, loading, busy, load, op>>
world == <<plan, escrowed, chain, recorded, reported>>
pvars == <<wvars, page, world>>

PlanStatus == {"active", "paused", "ended"}

\* key: who is asked to sign op's transaction, or has signed it.
NoLoad == [at |-> "off", got |-> NoCopy]
NoOp == [at |-> "idle", tx |-> NoTx, key |-> NoKey, owner |-> FALSE, got |-> NoCopy]

Init ==
    /\ WInit
    /\ plan \in PlanStatus /\ escrowed \in BOOLEAN
    /\ copy = NoCopy /\ loading = TRUE /\ busy = FALSE
    /\ load = NoLoad
    /\ op = NoOp
    /\ chain = [t \in Txs |-> "unsigned"]
    /\ recorded = {} /\ reported = {}

-----------------------------------------------------------------------------
\* A request carries the cookie of its moment.
AsOwner == cookie = Owner

\* refresh: getAllowance answers its owner with the plan as it is when asked, or
\* with an error; the answer is under way.
Answer == {NoCopy} \cup (IF AsOwner THEN {plan} ELSE {})

\* setAllowance, or a message; setLoading(false) in either case.
Applied(got) ==
    /\ copy' = IF got = NoCopy THEN copy ELSE got
    /\ loading' = FALSE

Loaded ==
    /\ load # NoLoad
    /\ Applied(load.got)
    /\ load' = NoLoad
    /\ UNCHANGED <<wvars, busy, op, world>>

\* The effect on the wallet's status, after each step of the provider.
Effect ==
    \/ /\ status # "connected" /\ status' = "connected"
       /\ load = NoLoad
       /\ \E got \in Answer : load' = [at |-> "asked", got |-> got]
       /\ UNCHANGED <<copy, loading, busy, op>>
    \/ /\ status # "disconnected" /\ status' = "disconnected"
       /\ loading' = FALSE
       /\ UNCHANGED <<copy, busy, load, op>>
    \/ /\ status' = status \/ status' \notin {"connected", "disconnected"}
       /\ UNCHANGED page

Provider(f) == Answers(f) /\ Effect /\ UNCHANGED world
Wallet(f) ==
    \/ Provider(f)
    \/ (Connect(f) \/ Disconnect(f) \/ WalletSays(f)) /\ Effect /\ UNCHANGED world

-----------------------------------------------------------------------------
\* What is on the page: the wallet is connected, loading is over, and there is
\* a plan to show.
Shown == status = "connected" /\ ~loading /\ copy # NoCopy

\* The buttons are disabled while busy.
Click(place, key) ==
    /\ Shown /\ ~busy
    /\ op' = [NoOp EXCEPT !.at = place, !.key = key, !.owner = AsOwner]
    /\ busy' = TRUE
    /\ UNCHANGED <<wvars, copy, loading, load, world>>

\* A handler's next request.
Goto(place, tx) ==
    op' = [NoOp EXCEPT !.at = place, !.tx = tx, !.key = op.key,
                       !.owner = place = "record" /\ AsOwner]

\* finally: setBusy(false).
\* (mutant) only after a success.
DoneUnlessFailed == op' = NoOp /\ busy' = (op.at # "refresh")
Done == op' = NoOp /\ busy' = FALSE

\* catch: the message that goes with the error.
\* (mutant) api() does not look at what the server answers.
ReportNothing == UNCHANGED reported
Report == reported' = reported \cup ({op.tx} \ {NoTx})

Fails ==
    /\ Done
    /\ Report
    /\ UNCHANGED <<wvars, copy, loading, load, plan, escrowed, chain, recorded>>

\* await refresh(): the handler's own fetch.
Refresh ==
    \E got \in Answer : op' = [NoOp EXCEPT !.at = "refresh", !.got = got]

Refreshed ==
    /\ op.at = "refresh"
    /\ Applied(op.got)
    /\ Done
    /\ UNCHANGED <<wvars, load, world>>

\* sendThisMonth.  What sendAllowance does before it signs, loadAccount and
\* building the payment, changes nothing and fails like signing.
SendThisMonth ==
    /\ copy = "active"
    /\ Click(IF escrowed THEN "intent" ELSE "sign", publicKey)

\* release-intent, to the owner of an active plan.
BuildRelease ==
    /\ op.at = "intent"
    /\ op.owner /\ plan = "active"
    /\ Goto("sign", NoTx)
    /\ UNCHANGED <<wvars, copy, loading, busy, load, world>>

\* sign: the wallet signs for the key it is given.
Sign(t) ==
    /\ op.at = "sign"
    /\ chain[t] = "unsigned"
    /\ chain' = [chain EXCEPT ![t] = "off"]
    /\ Goto(IF escrowed THEN "record" ELSE "submit", t)
    /\ UNCHANGED <<wvars, copy, loading, busy, load, plan, escrowed, recorded, reported>>

\* submit: Horizon has applied it, or refused it.
SubmitSucceeds ==
    /\ op.at = "submit"
    /\ chain' = [chain EXCEPT ![op.tx] = "landed"]
    /\ Goto("record", op.tx)
    /\ UNCHANGED <<wvars, copy, loading, busy, load, plan, escrowed, recorded, reported>>

\* submitTransaction throws: it never reached the network, was refused, or will
\* still be applied after Horizon has answered with a timeout.
SubmitFails ==
    /\ op.at = "submit"
    /\ \E is \in {"pending", "off"} : chain' = [chain EXCEPT ![op.tx] = is]
    /\ Done
    /\ Report
    /\ UNCHANGED <<wvars, copy, loading, load, plan, escrowed, recorded>>

\* What recordPayment and recordRelease record: for the owner, while the plan is
\* active, a transaction from the owner that succeeded.
Accepts ==
    op.owner /\ plan = "active" /\ chain[op.tx] = "landed" /\ op.key = Owner

\* POST payouts for a payment: recorded; and the answer may be lost all the same.
RecordPayment ==
    /\ op.at = "record" /\ ~escrowed
    /\ Accepts
    /\ recorded' = recorded \cup {op.tx}
    /\ \/ Refresh /\ UNCHANGED <<busy, reported>>
       \/ Done /\ Report
    /\ UNCHANGED <<wvars, copy, loading, load, plan, escrowed, chain>>

\* POST payouts for a release: the server submits it, waits for it and records
\* it; the answer may be lost, or the server die, or stop waiting, before that.
RecordRelease ==
    /\ op.at = "record" /\ escrowed
    /\ op.owner /\ plan = "active" /\ op.key = Owner
    /\ \/ /\ chain' = [chain EXCEPT ![op.tx] = "landed"]
          /\ recorded' = recorded \cup {op.tx}
          /\ \/ Refresh /\ UNCHANGED <<busy, reported>>
             \/ Done /\ Report
       \/ /\ \E is \in {"pending", "landed", "off"} :
                 chain' = [chain EXCEPT ![op.tx] = is]
          /\ Done /\ Report
          /\ UNCHANGED recorded
    /\ UNCHANGED <<wvars, copy, loading, load, plan, escrowed>>

\* A button that changes the status: what it is shown for, what it asks.
Transitions ==
    {<<"active", "pause", "paused">>, <<"paused", "resume", "active">>,
     <<"active", "end", "ended">>, <<"paused", "end", "ended">>}

ChangeStatus == \E tr \in Transitions : copy = tr[1] /\ Click(tr[2], NoKey)

\* PATCH: the transition of the status that the row has by now.
Patch ==
    /\ op.owner
    /\ \E tr \in Transitions :
           plan = tr[1] /\ op.at = tr[2] /\ plan' = tr[3]
    /\ \/ Refresh /\ UNCHANGED busy
       \/ Done
    /\ UNCHANGED <<wvars, copy, loading, load, escrowed, chain, recorded, reported>>

\* onEnableUsdc: a changeTrust, built, signed and submitted like a payment.
EnableUsdc == copy = "active" /\ ~escrowed /\ Click("enable", NoKey)

TrustSigned ==
    /\ op.at = "enable"
    /\ Goto("trust", NoTx)
    /\ UNCHANGED <<wvars, copy, loading, busy, load, world>>

Enabled ==
    /\ op.at = "trust"
    /\ Done
    /\ UNCHANGED <<wvars, copy, loading, load, world>>

\* Any other step of a handler throws: not funded, rejected in the wallet, 401,
\* 404, 409, 429, 5xx, or no connection.
Throws == op.at \notin {"idle", "submit", "refresh"} /\ Fails

-----------------------------------------------------------------------------
\* A transaction left on the network is applied or not.
Settle(t) ==
    /\ chain[t] = "pending"
    /\ \E is \in {"landed", "off"} : chain' = [chain EXCEPT ![t] = is]
    /\ UNCHANGED <<wvars, page, plan, escrowed, recorded, reported>>

\* Another tab changes the plan, or the session.
PlanElsewhere ==
    /\ \E tr \in Transitions : plan = tr[1] /\ plan' = tr[3]
    /\ UNCHANGED <<wvars, page, escrowed, chain, recorded, reported>>
SessionElsewhere == Elsewhere /\ UNCHANGED <<page, world>>

\* The page is left or reloaded: its calls are gone, and what was signed for a
\* submission in progress may or may not have reached the network; to leave before
\* a record is answered for is to leave after the answer was lost.  Bound: not
\* before it has loaded.
Reload ==
    /\ ~loading /\ op.at # "record"
    /\ \E f \in Flows : Mount(f)
    /\ copy' = NoCopy /\ loading' = TRUE /\ busy' = FALSE
    /\ load' = NoLoad /\ op' = NoOp
    /\ Report
    /\ IF op.at = "submit"
       THEN \E is \in {"off", "pending"} : chain' = [chain EXCEPT ![op.tx] = is]
       ELSE UNCHANGED chain
    /\ UNCHANGED <<plan, escrowed, recorded>>

\* The handler waits for the wallet, or for a request.
AtWallet == op.at \in {"sign", "enable"}

HandlerAnswers ==
    \/ BuildRelease \/ SubmitSucceeds \/ SubmitFails \/ RecordPayment
    \/ RecordRelease \/ Patch \/ Enabled \/ Refreshed
    \/ (~AtWallet /\ Throws)
WalletSigns == TrustSigned \/ (\E t \in Txs : Sign(t)) \/ (AtWallet /\ Throws)

Next ==
    \/ \E f \in Flows : Wallet(f)
    \/ Loaded
    \/ SendThisMonth \/ ChangeStatus \/ EnableUsdc \/ HandlerAnswers \/ WalletSigns
    \/ \E t \in Txs : Settle(t)
    \/ PlanElsewhere \/ SessionElsewhere \/ Reload

Spec == Init /\ [][Next]_pvars

\* Requests are answered, one way or the other: a connection ends.  The wallet
\* need not answer, and the user need not click anything.
FairSpec ==
    /\ Spec
    /\ \A f \in Flows : WF_pvars(Provider(f))
    /\ WF_pvars(Loaded)
    /\ WF_pvars(HandlerAnswers)

-----------------------------------------------------------------------------
TypeOK ==
    /\ WTypeOK
    /\ plan \in PlanStatus /\ escrowed \in BOOLEAN
    /\ copy \in PlanStatus \cup {NoCopy}
    /\ loading \in BOOLEAN
    /\ load \in [at : {"off", "asked"}, got : PlanStatus \cup {NoCopy}]
    /\ op \in [at : {"idle", "intent", "sign", "submit", "record", "refresh",
                     "pause", "resume", "end", "enable", "trust"},
               tx : Txs \cup {NoTx}, key : Keys \cup {NoKey}, owner : BOOLEAN,
               got : PlanStatus \cup {NoCopy}]
    /\ chain \in [Txs -> {"unsigned", "off", "pending", "landed"}]
    /\ recorded \subseteq Txs /\ reported \subseteq Txs
    /\ busy = (op # NoOp)

\* No payment of the page is lost in silence: one that is on the chain without a
\* record belongs to a handler still at work, or somebody was shown an error or
\* left the page while it worked (sendThisMonth, api, submit).
LossesAreReported ==
    \A t \in Txs :
        chain[t] \in {"pending", "landed"} =>
            t \in recorded \/ t \in reported \/ op.tx = t

\* The page sticks only with the wallet, whatever is refused or lost: as long as
\* no question to it is open, the tab does not stay loading or connecting, and a
\* handler gives the buttons back; and the message that the plan is loading goes
\* away in any case (connect and the effect of WalletProvider, the finally blocks
\* of the page).
PageSettles ==
    /\ status \in {"loading", "connecting"}
           ~> (status \in {"connected", "disconnected"} \/ \E f \in Flows : AskingWallet(f))
    /\ busy ~> (~busy \/ AtWallet)
    /\ loading ~> ~loading
=============================================================================
