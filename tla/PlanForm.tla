------------------------------ MODULE PlanForm ------------------------------
(***************************************************************************)
(* The dashboard, dashboard/page.tsx, in one tab: the list of plans, and   *)
(* the form that makes a new one, over the wallet of WalletSession and the *)
(* two configurations of NetworkConfig.                                    *)
(*                                                                         *)
(* A submission goes on by itself: the form may be closed, opened again    *)
(* and submitted once more, the wallet disconnected and another one        *)
(* connected.  The page sees of the server that it takes a request or      *)
(* refuses it, for reasons that are in EscrowFlow and AuthSession; of them *)
(* only the network it is on is here.                                      *)
(***************************************************************************)
EXTENDS WalletSession, NetworkConfig, Amounts

CONSTANTS
    Saves,       \* bound: submissions at once
    MaxFetches,  \* bound: fetches of the list at once
    Envs         \* the environments the two sides are started with

ASSUME MaxFetchesAssumption == MaxFetches \in Nat

VARIABLES
    env,        \* the environment
    loading,    \* loading
    fetches,    \* how many fetches of the list are in progress
    showForm,   \* showForm
    mine,       \* the submission the mounted form waits for (its saving), or none
    save        \* what each submission awaits

fpage == <<loading, fetches, showForm, mine>>
fvars == <<wvars, env, fpage, save>>

NoSave == {}

AtWork(v) == save[v] # "done"

Init ==
    /\ WInit
    /\ env \in Envs
    /\ loading = TRUE /\ fetches = 0
    /\ showForm = FALSE /\ mine = NoSave
    /\ save = [v \in Saves |-> "done"]

-----------------------------------------------------------------------------
\* A signature is good for one passphrase: the browser pins its own, the server
\* checks its own.
SignaturesMatch == Server(env).passphrase = Browser(env).passphrase

\* refresh, by whoever calls it while connected.
BeginFetch == fetches < MaxFetches /\ fetches' = fetches + 1 /\ loading' = TRUE

\* finally: setLoading(false), whichever fetch it was.
\* (mutant) only a good answer ends loading.
AnsweredWell == \E good \in BOOLEAN : loading' = (loading /\ ~good)
Answered == loading' = FALSE

FetchAnswers ==
    /\ fetches > 0
    /\ fetches' = fetches - 1
    /\ Answered
    /\ UNCHANGED <<wvars, env, showForm, mine, save>>

\* The form is there while connected: leaving that state drops it and what it
\* waits for; the submission goes on.
Unmounted == mine' = IF status' = "connected" THEN mine ELSE NoSave

\* The effect on the wallet's status.
FormEffect ==
    /\ Unmounted
    /\ \/ status # "connected" /\ status' = "connected" /\ BeginFetch
       \/ status # "disconnected" /\ status' = "disconnected"
          /\ loading' = FALSE /\ UNCHANGED fetches
       \/ /\ status' = status \/ status' \notin {"connected", "disconnected"}
          /\ UNCHANGED <<loading, fetches>>
    /\ UNCHANGED <<env, showForm, save>>

\* The server verifies the challenge under its own passphrase.
Provider(f) == (ServerSays(f) \/ (SignaturesMatch /\ ConnectSucceeds(f))) /\ FormEffect

\* The button of this page waits for status to be "disconnected".
FormWallet(f) ==
    \/ /\ (status = "disconnected" /\ Connect(f)) \/ Disconnect(f) \/ WalletSays(f)
       /\ FormEffect
    \/ Provider(f)

-----------------------------------------------------------------------------
Mounted == status = "connected" /\ showForm

\* New support plan, Create your first plan, Cancel, the cross.
Toggle ==
    /\ status = "connected"
    /\ showForm' = ~showForm
    /\ mine' = NoSave
    /\ UNCHANGED <<wvars, env, loading, fetches, save>>

\* submit, of a form that is not saving: of an XLM plan, escrow-intent goes first.
Submit(v) ==
    /\ Mounted /\ mine = NoSave
    /\ ~AtWork(v)
    /\ \E first \in {"intent", "plan"} : save' = [save EXCEPT ![v] = first]
    /\ mine' = {v}
    /\ UNCHANGED <<wvars, env, loading, fetches, showForm>>

GoesTo(v, from, to) ==
    /\ save[v] = from
    /\ save' = [save EXCEPT ![v] = to]
    /\ UNCHANGED <<wvars, env, fpage>>

\* escrow-intent has built an escrow, the wallet signs it, and it is posted.
BuildEscrow(v) == GoesTo(v, "intent", "sign")
SignEscrow(v) == GoesTo(v, "sign", "escrow")

Over(v) == save' = [save EXCEPT ![v] = "done"]

\* onCreated: the form is closed, whichever it is by now, and the list is
\* fetched again.
Succeeds(v) ==
    /\ Over(v)
    /\ showForm' = FALSE
    /\ mine' = NoSave
    /\ BeginFetch

\* catch: the message; finally: setSaving(false), of the form it came from.
\* (mutant) the button stays disabled after an error.
FailsStuck(v) ==
    /\ Over(v)
    /\ UNCHANGED fpage
Fails(v) ==
    /\ Over(v)
    /\ mine' = mine \ {v}
    /\ UNCHANGED <<loading, fetches, showForm>>

\* POST allowances: a plan is made, of an escrow once that has landed; it has to
\* be signed for the server's network.
Create(v) ==
    /\ save[v] = "plan" \/ (save[v] = "escrow" /\ SignaturesMatch)
    /\ Succeeds(v)
    /\ UNCHANGED <<wvars, env>>

\* Any step throws: refused by the wallet or the server, or no connection, or the
\* answer is lost.
Throws(v) == AtWork(v) /\ Fails(v) /\ UNCHANGED <<wvars, env>>

-----------------------------------------------------------------------------
SessionElsewhere == Elsewhere /\ UNCHANGED <<env, fpage, save>>

\* The page is left or reloaded, which cuts its submissions off.  Bound: not
\* before it has loaded.
Reload ==
    /\ ~loading
    /\ \E f \in Flows : Mount(f)
    /\ loading' = TRUE /\ fetches' = 0 /\ showForm' = FALSE /\ mine' = NoSave
    /\ save' = [v \in Saves |-> "done"]
    /\ UNCHANGED env

\* The submission waits for the wallet, or for a request.
AtWallet(v) == save[v] = "sign"

Step(v) ==
    BuildEscrow(v) \/ Create(v) \/ (~AtWallet(v) /\ Throws(v))
WalletSigns(v) == SignEscrow(v) \/ (AtWallet(v) /\ Throws(v))

Next ==
    \/ \E f \in Flows : FormWallet(f)
    \/ FetchAnswers \/ Toggle
    \/ \E v \in Saves : Submit(v) \/ Step(v) \/ WalletSigns(v)
    \/ SessionElsewhere \/ Reload

Spec == Init /\ [][Next]_fvars

\* Requests are answered, one way or the other: a connection ends.  The wallet
\* need not answer.
FairSpec ==
    /\ Spec
    /\ \A f \in Flows : WF_fvars(Provider(f))
    /\ WF_fvars(FetchAnswers)
    /\ \A v \in Saves : WF_fvars(Step(v))

-----------------------------------------------------------------------------
TypeOK ==
    /\ WTypeOK
    /\ env \in Envs
    /\ loading \in BOOLEAN /\ fetches \in 0..MaxFetches
    /\ showForm \in BOOLEAN
    /\ mine \subseteq Saves
    /\ save \in [Saves -> {"intent", "sign", "escrow", "plan", "done"}]
    /\ \A v \in mine : AtWork(v)

\* The amount of a submission is not in the state: this holds of every amount it
\* may have.  An amount keeps its value from the text of the form to the stroops of
\* the escrow and of the payments that are compared with it, and back to text;
\* nothing is rounded (toStroops, and fromStroops, which only the tests call).
AmountsAreExact == \A v \in Saves : AtWork(v) => ConversionsAreExact

\* In the same way, percentages that make up 100 split the amount completely, with
\* the rest going to the last part (allocateByShares, which the tests call and no
\* page calls yet).
SharesAddUp == \A v \in Saves : AtWork(v) => SplitsAreComplete

\* The page sticks only with the wallet: the form does not go on saving, unless
\* its submission waits for a signature, and loading comes to an end in any case
\* (submit, refresh and their finally blocks).
FormSettles ==
    /\ mine # NoSave ~> (mine = NoSave \/ \E v \in mine : AtWallet(v))
    /\ loading ~> ~loading
=============================================================================
