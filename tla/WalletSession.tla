--------------------------- MODULE WalletSession ---------------------------
(***************************************************************************)
(* The wallet as one tab of the browser knows it: WalletProvider.tsx.      *)
(*                                                                         *)
(* The session cookie belongs to the browser and is shared by its tabs;    *)
(* status and publicKey are the tab's own.  Mounting asks /api/auth/me who *)
(* is signed in; connect and disconnect are started by buttons, of which   *)
(* the one on a plan's page is not disabled while another call is running. *)
(* What the server does about challenges and sessions is in AuthSession;   *)
(* a cookie stands here for the key of the session it names, and a cookie  *)
(* whose session is gone for none.                                         *)
(*                                                                         *)
(* A call waits for the server, which answers or fails, or for the wallet  *)
(* (external: Freighter), which may never say anything: nothing asks       *)
(* whether it is there, and its questions have no timeout.                 *)
(***************************************************************************)
EXTENDS Integers

CONSTANTS
    Keys, NoKey,   \* public keys
    Flows          \* bound: calls of the provider at once

ASSUME NoKeyAssumption == NoKey \notin Keys

VARIABLES
    cookie,      \* whose session the browser's cookie names
    status,      \* status
    publicKey,   \* publicKey
    flow,        \* the provider's calls in progress
    disturbed    \* history, since mounting: calls overlapped, or something but
                 \* this page's calls changed whose session it is

wvars == <<cookie, status, publicKey, flow, disturbed>>

Off == [at |-> "off", key |-> NoKey]
Running(f) == flow[f] # Off
Ends(f) == flow' = [flow EXCEPT ![f] = Off]

\* The effect on mounting: /api/auth/me, with the cookie of that moment.
MountedWith(f) ==
    [g \in Flows |-> IF g = f THEN [at |-> "me", key |-> cookie] ELSE Off]

WInit ==
    /\ cookie \in Keys \cup {NoKey}
    /\ status = "loading"
    /\ publicKey = NoKey
    /\ \E f \in Flows : flow = MountedWith(f)
    /\ disturbed = FALSE

\* setPublicKey and setStatus, applied together.
Now(st, k) == status' = st /\ publicKey' = k

MeAnswers(f) ==
    /\ flow[f].at = "me"
    /\ \/ flow[f].key # NoKey /\ Now("connected", flow[f].key)
       \/ Now("disconnected", publicKey)
    /\ Ends(f)
    /\ UNCHANGED <<cookie, disturbed>>

Begin(f, place, st) ==
    /\ flow[f] = Off
    /\ flow' = [flow EXCEPT ![f] = [at |-> place, key |-> NoKey]]
    /\ status' = st
    /\ disturbed' = (disturbed \/ \E g \in Flows : Running(g))
    /\ UNCHANGED <<cookie, publicKey>>

\* connect: the buttons are there unless connected.
Connect(f) == status # "connected" /\ Begin(f, "access", "connecting")

\* What connect awaits of the wallet, and of the server.
AskingWallet(f) == flow[f].at \in {"access", "sign"}
AskingServer(f) == flow[f].at \in {"challenge", "verify"}

GoesOn(f, from, to) ==
    /\ flow[f].at = from
    /\ flow' = [flow EXCEPT ![f] = [at |-> to, key |-> NoKey]]
    /\ UNCHANGED <<status, publicKey, disturbed>>

\* requestPublicKey, the challenge, and its signature.  Which key the wallet has
\* named nobody but connect knows before it is verified.
AccessGranted(f) == GoesOn(f, "access", "challenge") /\ UNCHANGED cookie
Challenged(f) == GoesOn(f, "challenge", "sign") /\ UNCHANGED cookie
ChallengeSigned(f) == GoesOn(f, "sign", "verify") /\ UNCHANGED cookie

\* The answer to the verification carries the cookie.
Verified(k) == cookie' = k /\ Now("connected", k)

ConnectSucceeds(f) ==
    /\ flow[f].at = "verify"
    /\ \E k \in Keys : Verified(k)
    /\ Ends(f)
    /\ UNCHANGED disturbed

\* Anything refused on the way; or the answer's body is lost, but not its cookie.
\* (mutant) the failure is not caught, and the tab keeps its status.
ConnectFailsUncaught(f) ==
    /\ AskingWallet(f) \/ AskingServer(f)
    /\ Ends(f)
    /\ UNCHANGED <<cookie, status, publicKey, disturbed>>
ConnectFails(f) ==
    /\ AskingWallet(f) \/ AskingServer(f)
    /\ cookie' = cookie \/ (flow[f].at = "verify" /\ cookie' \in Keys)
    /\ Now("disconnected", publicKey)
    /\ Ends(f)
    /\ UNCHANGED disturbed

\* disconnect: the button is there while connected, and until the answer.  The
\* request carries the cookie.
Disconnect(f) ==
    /\ status = "connected"
    /\ flow[f] = Off
    /\ flow' = [flow EXCEPT ![f] = [at |-> "logout", key |-> cookie]]
    /\ disturbed' = (disturbed \/ \E g \in Flows : Running(g))
    /\ UNCHANGED <<cookie, status, publicKey>>

\* logout, on the server: the session that came with the request is deleted, and
\* the cookie names none, unless it names another one by now.
SessionDestroyed(f) ==
    /\ cookie' = cookie \/ (cookie = flow[f].key /\ cookie' = NoKey)
    /\ GoesOn(f, "logout", "loggedOut")

\* logout, in the tab: the answer clears the cookie, whosoever it is by now; a
\* failure, with the session deleted or not, is ignored.
SigningOut(f) == flow[f].at \in {"logout", "loggedOut"}
LogoutHeard(f) == cookie' = cookie \/ (flow[f].at = "loggedOut" /\ cookie' = NoKey)
\* (mutant) the tab is reset inside the try, after the answer.
LogoutAnswersInTry(f) ==
    /\ SigningOut(f)
    /\ LogoutHeard(f)
    /\ Now("disconnected", NoKey) \/ UNCHANGED <<status, publicKey>>
    /\ Ends(f)
    /\ UNCHANGED disturbed
LogoutAnswers(f) ==
    /\ SigningOut(f)
    /\ LogoutHeard(f)
    /\ Now("disconnected", NoKey)
    /\ Ends(f)
    /\ UNCHANGED disturbed

\* The session expires; or another tab signs in or out, or a request does that
\* this tab sent before its page was left.
Elsewhere ==
    /\ cookie' \in (Keys \cup {NoKey}) \ {cookie}
    /\ disturbed' = TRUE
    /\ UNCHANGED <<status, publicKey, flow>>

\* The page is left or reloaded: its calls are gone, and the provider starts afresh
\* with the cookie that the browser has kept.
Mount(f) ==
    /\ flow' = MountedWith(f)
    /\ status' = "loading" /\ publicKey' = NoKey /\ disturbed' = FALSE
    /\ UNCHANGED cookie

\* What the server's answers, or their failing to come, do; and the wallet's.
ServerSays(f) ==
    \/ MeAnswers(f) \/ Challenged(f) \/ (AskingServer(f) /\ ConnectFails(f))
    \/ SessionDestroyed(f) \/ LogoutAnswers(f)
Answers(f) == ServerSays(f) \/ ConnectSucceeds(f)
WalletSays(f) ==
    AccessGranted(f) \/ ChallengeSigned(f) \/ (AskingWallet(f) /\ ConnectFails(f))

WNext ==
    \/ Elsewhere
    \/ \E f \in Flows : Connect(f) \/ Disconnect(f) \/ Answers(f) \/ WalletSays(f) \/ Mount(f)

WSpec == WInit /\ [][WNext]_wvars

-----------------------------------------------------------------------------
Statuses == {"loading", "disconnected", "connecting", "connected"}

WTypeOK ==
    /\ cookie \in Keys \cup {NoKey}
    /\ status \in Statuses
    /\ publicKey \in Keys \cup {NoKey}
    /\ flow \in [Flows -> [at : {"off", "me", "access", "challenge", "sign", "verify",
                                 "logout", "loggedOut"},
                           key : Keys \cup {NoKey}]]
    /\ disturbed \in BOOLEAN

\* A connected tab always knows a key.  It is the key of the session that its
\* requests are made for, so that what the wallet is asked to sign and what the
\* server is asked agree, except while the tab is signing out and has not heard
\* of it, or after its own calls have overlapped or the session has expired or
\* been changed by others (connect, disconnect, the effect of WalletProvider,
\* logout and the cookies of auth.controller.ts).
TabKnowsItsSession ==
    status = "connected" =>
        /\ publicKey # NoKey
        /\ disturbed \/ (\E f \in Flows : SigningOut(f)) \/ publicKey = cookie
=============================================================================
