--------------------------- MODULE PlanPageProofs ---------------------------
(***************************************************************************)
(* Proofs about PlanPage, for any number of keys, provider calls and       *)
(* transactions: types, and that no payment is lost in silence.            *)
(***************************************************************************)
EXTENDS PlanPage, TLAPS

\* What the button's handler has in hand: nothing until the wallet has signed,
\* then a transaction without a record, until it has one.
Holds ==
    /\ op.at \in {"submit", "record"} => op.tx \in Txs \ recorded
    /\ op.at \notin {"submit", "record"} => op.tx = NoTx

\* What has a record is on the chain.
Landed == \A t \in recorded : chain[t] = "landed"

PageInv == TypeOK /\ Holds /\ Landed /\ LossesAreReported

Way == {"unsigned", "off", "pending", "landed"}
Handling ==
    [at : {"idle", "intent", "sign", "submit", "record", "refresh", "pause", "resume",
           "end", "enable", "trust"},
     tx : Txs \cup {NoTx}, key : Keys \cup {NoKey}, owner : BOOLEAN,
     got : PlanStatus \cup {NoCopy}]

LEMMA PageInit == Init => PageInv
  <1> SUFFICES ASSUME Init PROVE PageInv
    OBVIOUS
  <1>1. WTypeOK
    <2>1. PICK f \in Flows : flow = MountedWith(f)
      BY DEF Init, WInit
    <2> QED
      BY <2>1 DEF Init, WInit, WTypeOK, Statuses, MountedWith, Off
  <1>2. NoOp \in Handling /\ NoOp.at = "idle" /\ NoOp.tx = NoTx
    BY DEF NoOp, Handling
  <1>3. TypeOK
    BY <1>1, <1>2 DEF Init, TypeOK, NoLoad, Handling
  <1> QED
    BY <1>2, <1>3 DEF Init, PageInv, Holds, Landed, LossesAreReported

-----------------------------------------------------------------------------
(* Types.                                                                  *)

LEMMA WalletTypes ==
    ASSUME WTypeOK, NEW f \in Flows,
           Connect(f) \/ Disconnect(f) \/ Answers(f) \/ WalletSays(f)
    PROVE  WTypeOK'
  <1>1. CASE Connect(f) \/ Disconnect(f)
    <2>1. PICK place \in {"access", "logout"}, key \in Keys \cup {NoKey} :
              flow' = [flow EXCEPT ![f] = [at |-> place, key |-> key]]
      BY <1>1 DEF Connect, Disconnect, Begin, WTypeOK
    <2>2. status' \in {"connecting", status} /\ UNCHANGED <<cookie, publicKey>>
          /\ disturbed' \in BOOLEAN
      BY <1>1 DEF Connect, Disconnect, Begin, WTypeOK
    <2> QED
      BY <2>1, <2>2 DEF WTypeOK, Statuses
  <1>2. CASE MeAnswers(f) \/ ConnectSucceeds(f) \/ ConnectFails(f) \/ LogoutAnswers(f)
    <2>1. flow' = [flow EXCEPT ![f] = Off] /\ disturbed' = disturbed
      BY <1>2 DEF MeAnswers, ConnectSucceeds, ConnectFails, LogoutAnswers, Ends
    <2>2. /\ cookie' \in Keys \cup {NoKey} /\ publicKey' \in Keys \cup {NoKey}
          /\ status' \in {"connected", "disconnected"}
      BY <1>2 DEF MeAnswers, ConnectSucceeds, ConnectFails, LogoutAnswers, LogoutHeard,
                  Now, Verified, WTypeOK
    <2> QED
      BY <2>1, <2>2 DEF WTypeOK, Statuses, Off
  <1>3. CASE AccessGranted(f) \/ Challenged(f) \/ ChallengeSigned(f) \/ SessionDestroyed(f)
    <2>1. PICK to \in {"challenge", "sign", "verify", "loggedOut"} :
              flow' = [flow EXCEPT ![f] = [at |-> to, key |-> NoKey]]
      BY <1>3 DEF AccessGranted, Challenged, ChallengeSigned, SessionDestroyed, GoesOn
    <2>2. UNCHANGED <<status, publicKey, disturbed>> /\ cookie' \in {cookie, NoKey}
      BY <1>3 DEF AccessGranted, Challenged, ChallengeSigned, SessionDestroyed, GoesOn
    <2> QED
      BY <2>1, <2>2 DEF WTypeOK
  <1> QED
    BY <1>1, <1>2, <1>3 DEF Answers, ServerSays, WalletSays

LEMMA SameWallet == ASSUME WTypeOK, UNCHANGED wvars PROVE WTypeOK'
BY DEF WTypeOK, wvars

\* The transaction that a step finds on its way, or off it.
LEMMA ChainFields ==
    ASSUME chain \in [Txs -> Way], NEW t \in Txs, NEW is \in Way,
           chain' = [chain EXCEPT ![t] = is]
    PROVE  /\ chain' \in [Txs -> Way] /\ chain'[t] = is
           /\ \A u \in Txs \ {t} : chain'[u] = chain[u]
OBVIOUS

\* A handler's next place, with the key it has.
LEMMA GotoFields ==
    ASSUME TypeOK, NEW place, NEW tx \in Txs \cup {NoTx}, Goto(place, tx),
           place \in {"sign", "submit", "record", "trust"}
    PROVE  /\ op' \in Handling /\ op'.at = place /\ op'.tx = tx
           /\ op' # NoOp
  <1>1. op.key \in Keys \cup {NoKey}
    BY DEF TypeOK
  <1> QED
    BY <1>1 DEF Goto, NoOp, Handling, AsOwner

LEMMA RefreshFields ==
    ASSUME TypeOK, Refresh
    PROVE  /\ op' \in Handling /\ op'.at = "refresh" /\ op'.tx = NoTx /\ op' # NoOp
  <1>1. PICK got \in PlanStatus \cup {NoCopy} :
            op' = [NoOp EXCEPT !.at = "refresh", !.got = got]
    BY DEF Refresh, Answer, TypeOK
  <1> QED
    BY <1>1 DEF NoOp, Handling

LEMMA ClickFields ==
    ASSUME NEW place, NEW key \in Keys \cup {NoKey}, Click(place, key),
           place \in {"intent", "sign", "pause", "resume", "end", "enable"}
    PROVE  /\ op' \in Handling /\ op'.at = place /\ op'.tx = NoTx /\ op' # NoOp
           /\ busy' = TRUE /\ UNCHANGED <<wvars, copy, loading, load, world>>
BY DEF Click, NoOp, Handling, AsOwner
-----------------------------------------------------------------------------
(* Payments and their records.                                             *)

\* A step that neither moves nor records a transaction.
LEMMA QuietKeeps ==
    ASSUME PageInv, TypeOK', Holds', UNCHANGED <<chain, recorded>>,
           reported \subseteq reported',
           op.tx \in {op'.tx, NoTx} \cup recorded \cup reported'
    PROVE  PageInv'
  <1>1. Landed'
    BY DEF PageInv, Landed
  <1>2. LossesAreReported'
    BY NoTxAssumption DEF PageInv, LossesAreReported
  <1> QED
    BY <1>1, <1>2 DEF PageInv

\* A step that moves or records one transaction, which had no record.
LEMMA SentKeeps ==
    ASSUME PageInv, TypeOK', Holds', NEW t \in Txs, t \notin recorded,
           \A u \in Txs \ {t} : chain'[u] = chain[u],
           recorded' \in {recorded, recorded \cup {t}},
           t \in recorded' => chain'[t] = "landed",
           reported \subseteq reported',
           \/ chain'[t] = "off" \/ t \in recorded' \cup reported' \/ op'.tx = t
           \/ chain[t] = "pending" /\ op'.tx = op.tx,
           op.tx \in {t, op'.tx, NoTx} \cup recorded \cup reported'
    PROVE  PageInv'
  <1>1. Landed'
    <2> SUFFICES ASSUME NEW u \in recorded'
                 PROVE  chain'[u] = "landed"
      BY DEF Landed
    <2>1. CASE u = t
      BY <2>1
    <2>2. CASE u # t
      BY <2>2 DEF PageInv, TypeOK, Landed
    <2> QED
      BY <2>1, <2>2
  <1>2. LossesAreReported'
    <2> SUFFICES ASSUME NEW u \in Txs, chain'[u] \in {"pending", "landed"}
                 PROVE  u \in recorded' \/ u \in reported' \/ op'.tx = u
      BY DEF LossesAreReported
    <2>1. CASE u # t
      BY <2>1, NoTxAssumption DEF PageInv, LossesAreReported
    <2>2. CASE u = t
      BY <2>2 DEF PageInv, LossesAreReported
    <2> QED
      BY <2>1, <2>2
  <1> QED
    BY <1>1, <1>2 DEF PageInv

LEMMA ReportFields ==
    ASSUME TypeOK, Report
    PROVE  /\ reported' \subseteq Txs /\ reported \subseteq reported'
           /\ op.tx \in {NoTx} \cup reported'
BY DEF Report, TypeOK

LEMMA DoneFields ==
    ASSUME Done
    PROVE  /\ op' \in Handling /\ op'.at = "idle" /\ op'.tx = NoTx
           /\ busy' = (op' # NoOp)
BY DEF Done, NoOp, Handling

\* The wallet's steps, and answers to the page's own fetch.
LEMMA WalletKeeps ==
    ASSUME PageInv, NEW f \in Flows, Wallet(f)
    PROVE  PageInv'
  <1>1. /\ UNCHANGED <<busy, op, world>>
        /\ copy' = copy /\ loading' \in BOOLEAN
        /\ load' \in [at : {"off", "asked"}, got : PlanStatus \cup {NoCopy}]
    <2>1. /\ UNCHANGED <<copy, busy, op, world>>
          /\ loading' \in {loading, FALSE}
          /\ load' = load \/ \E got \in Answer : load' = [at |-> "asked", got |-> got]
      BY DEF Wallet, Provider, Effect, page
    <2>2. Answer \subseteq PlanStatus \cup {NoCopy}
      BY DEF Answer, PageInv, TypeOK
    <2>3. /\ load \in [at : {"off", "asked"}, got : PlanStatus \cup {NoCopy}]
          /\ loading \in BOOLEAN
      BY DEF PageInv, TypeOK
    <2>4. ASSUME NEW got \in Answer, load' = [at |-> "asked", got |-> got]
          PROVE  load' \in [at : {"off", "asked"}, got : PlanStatus \cup {NoCopy}]
      <3>1. got \in PlanStatus \cup {NoCopy}
        BY <2>2
      <3> QED
        BY <2>4, <3>1
    <2> QED
      BY <2>1, <2>3, <2>4
  <1>2. TypeOK'
    <2>1. WTypeOK'
      BY WalletTypes DEF Wallet, Provider, PageInv, TypeOK
    <2> QED
      BY <1>1, <2>1 DEF PageInv, TypeOK, world
  <1>3. Holds'
    BY <1>1 DEF PageInv, Holds, world
  <1> QED
    BY <1>1, <1>2, <1>3, QuietKeeps DEF world

LEMMA LoadedKeeps ==
    ASSUME PageInv, Loaded
    PROVE  PageInv'
  <1>1. TypeOK'
    <2>1. WTypeOK'
      BY SameWallet DEF Loaded, PageInv, TypeOK
    <2> QED
      BY <2>1 DEF Loaded, Applied, NoLoad, PageInv, TypeOK, world
  <1>2. Holds'
    BY DEF Loaded, PageInv, Holds, world
  <1> QED
    BY <1>1, <1>2, QuietKeeps DEF Loaded, world

LEMMA ClickKeeps ==
    ASSUME PageInv, SendThisMonth \/ ChangeStatus \/ EnableUsdc
    PROVE  PageInv'
  <1>1. PICK place \in {"intent", "sign", "pause", "resume", "end", "enable"},
             key \in Keys \cup {NoKey} : Click(place, key)
    BY DEF SendThisMonth, ChangeStatus, EnableUsdc, Transitions, PageInv, TypeOK, WTypeOK
  <1>2. /\ op' \in Handling /\ op'.at = place /\ op'.tx = NoTx /\ op' # NoOp
        /\ busy' = TRUE /\ UNCHANGED <<wvars, copy, loading, load, world>>
    BY <1>1, ClickFields
  <1>3. TypeOK'
    <2>1. WTypeOK'
      BY <1>2, SameWallet DEF PageInv, TypeOK
    <2> QED
      BY <1>2, <2>1 DEF PageInv, TypeOK, world, Handling
  <1>4. Holds'
    BY <1>2 DEF Holds
  <1>5. op.tx = NoTx
    <2>1. op = NoOp
      BY <1>1 DEF Click, PageInv, TypeOK
    <2> QED
      BY <2>1 DEF NoOp
  <1> QED
    BY <1>2, <1>3, <1>4, <1>5, QuietKeeps DEF world
-----------------------------------------------------------------------------
(* The steps of a handler.                                                 *)

\* A step of a handler changes nothing of the wallet or of the page's own fetch,
\* and leaves either a handler at work or none, with the buttons given back.
LEMMA HandlerTypes ==
    ASSUME PageInv, UNCHANGED <<wvars, load, escrowed>>,
           plan' \in PlanStatus, copy' \in PlanStatus \cup {NoCopy},
           loading' \in BOOLEAN, op' \in Handling, chain' \in [Txs -> Way],
           recorded' \subseteq Txs, reported' \subseteq Txs, busy' = (op' # NoOp)
    PROVE  TypeOK'
  <1>1. WTypeOK'
    BY SameWallet DEF PageInv, TypeOK
  <1> QED
    BY <1>1 DEF PageInv, TypeOK, Handling, Way

\* What an ending handler has done is recorded or reported, or came to nothing.
LEMMA FailsKeeps ==
    ASSUME PageInv, Fails
    PROVE  PageInv'
  <1>1. /\ op' \in Handling /\ op'.at = "idle" /\ op'.tx = NoTx
        /\ busy' = (op' # NoOp)
    BY DoneFields DEF Fails
  <1>2. /\ reported' \subseteq Txs /\ reported \subseteq reported'
        /\ op.tx \in {NoTx} \cup reported'
    BY ReportFields DEF Fails, PageInv
  <1>3. TypeOK'
    BY <1>1, <1>2, HandlerTypes DEF Fails, PageInv, TypeOK, Way
  <1>4. Holds'
    BY <1>1 DEF Holds
  <1> QED
    BY <1>1, <1>2, <1>3, <1>4, QuietKeeps DEF Fails

\* A handler without a transaction that ends, or goes on to its fetch.
LEMMA NoPaymentKeeps ==
    ASSUME PageInv, op.at \notin {"submit", "record"},
           Done \/ (Refresh /\ UNCHANGED busy /\ op # NoOp),
           UNCHANGED <<wvars, load, escrowed, chain, recorded, reported>>,
           plan' \in PlanStatus, copy' \in PlanStatus \cup {NoCopy}, loading' \in BOOLEAN
    PROVE  PageInv'
  <1>1. op.tx = NoTx
    BY DEF PageInv, Holds
  <1>2. /\ op' \in Handling /\ busy' = (op' # NoOp)
        /\ op'.at \in {"idle", "refresh"} /\ op'.tx = NoTx
    <2>1. CASE Done
      BY <2>1, DoneFields
    <2>2. CASE Refresh /\ UNCHANGED busy /\ op # NoOp
      BY <2>2, RefreshFields DEF PageInv, TypeOK
    <2> QED
      BY <2>1, <2>2
  <1>3. TypeOK'
    BY <1>2, HandlerTypes DEF PageInv, TypeOK, Way
  <1>4. Holds'
    BY <1>1, <1>2 DEF Holds
  <1> QED
    BY <1>1, <1>2, <1>3, <1>4, QuietKeeps

LEMMA QuietHandlersKeep ==
    ASSUME PageInv, Patch \/ Enabled \/ Refreshed \/ Throws
    PROVE  PageInv'
  <1>1. CASE Patch
    <2>1. /\ op.at \in {"pause", "resume", "end"} /\ plan' \in PlanStatus
          /\ Done \/ (Refresh /\ UNCHANGED busy)
          /\ UNCHANGED <<wvars, copy, loading, load, escrowed, chain, recorded, reported>>
      BY <1>1 DEF Patch, Transitions, PlanStatus
    <2>2. op # NoOp
      BY <2>1 DEF NoOp
    <2> QED
      BY <2>1, <2>2, NoPaymentKeeps DEF PageInv, TypeOK
  <1>2. CASE Enabled
    BY <1>2, NoPaymentKeeps DEF Enabled, PageInv, TypeOK, world
  <1>3. CASE Refreshed
    <2>1. copy' \in PlanStatus \cup {NoCopy} /\ loading' \in BOOLEAN
      BY <1>3 DEF Refreshed, Applied, PageInv, TypeOK
    <2> QED
      BY <1>3, <2>1, NoPaymentKeeps DEF Refreshed, PageInv, TypeOK, world
  <1>4. CASE Throws
    BY <1>4, FailsKeeps DEF Throws
  <1> QED
    BY <1>1, <1>2, <1>3, <1>4

\* A handler without a transaction that goes on.
LEMMA GoingOnKeeps ==
    ASSUME PageInv, BuildRelease \/ TrustSigned
    PROVE  PageInv'
  <1>1. /\ op.tx = NoTx /\ op.at \in {"intent", "enable"} /\ op # NoOp
        /\ Goto("sign", NoTx) \/ Goto("trust", NoTx)
        /\ UNCHANGED <<wvars, copy, loading, busy, load, world>>
    BY DEF BuildRelease, TrustSigned, PageInv, Holds, NoOp
  <1>2. op' \in Handling /\ op'.at \in {"sign", "trust"} /\ op'.tx = NoTx /\ op' # NoOp
    BY <1>1, GotoFields DEF PageInv
  <1>3. TypeOK'
    BY <1>1, <1>2, HandlerTypes DEF PageInv, TypeOK, world, Way
  <1>4. Holds'
    BY <1>2 DEF Holds
  <1> QED
    BY <1>1, <1>2, <1>3, <1>4, QuietKeeps DEF world

\* Only an unsigned transaction is signed, which cannot have a record.
LEMMA SignKeeps ==
    ASSUME PageInv, NEW t \in Txs, Sign(t)
    PROVE  PageInv'
  <1>1. op.tx = NoTx /\ op.at = "sign" /\ op # NoOp /\ t \notin recorded
    BY DEF Sign, PageInv, Holds, NoOp, Landed
  <1>2. /\ op' \in Handling /\ op'.at \in {"submit", "record"} /\ op'.tx = t /\ op' # NoOp
    BY GotoFields DEF Sign, PageInv
  <1>3. /\ chain' \in [Txs -> Way] /\ chain'[t] = "off"
        /\ \A u \in Txs \ {t} : chain'[u] = chain[u]
    BY DEF Sign, PageInv, TypeOK, Way
  <1>4. TypeOK'
    BY <1>1, <1>2, <1>3, HandlerTypes DEF Sign, PageInv, TypeOK
  <1>5. Holds'
    BY <1>1, <1>2 DEF Holds, Sign
  <1> QED
    BY <1>1, <1>2, <1>3, <1>4, <1>5, SentKeeps DEF Sign

\* A handler at work on a payment that has no record yet.
LEMMA AtWorkOnIt ==
    ASSUME PageInv, op.at \in {"submit", "record"}
    PROVE  /\ op.tx \in Txs /\ op.tx \notin recorded /\ op # NoOp /\ busy = TRUE
           /\ chain \in [Txs -> Way]
  <1>1. op # NoOp
    BY DEF NoOp
  <1> QED
    BY <1>1 DEF PageInv, Holds, TypeOK, Way

LEMMA SubmitSucceedsKeeps ==
    ASSUME PageInv, SubmitSucceeds
    PROVE  PageInv'
  <1>1. PICK t \in Txs : /\ t = op.tx /\ t \notin recorded /\ busy = TRUE
                         /\ chain \in [Txs -> Way]
    BY AtWorkOnIt DEF SubmitSucceeds
  <1>2. op' \in Handling /\ op'.at = "record" /\ op'.tx = t /\ op' # NoOp
    BY <1>1, GotoFields DEF SubmitSucceeds, PageInv
  <1>3. /\ chain' \in [Txs -> Way]
        /\ \A u \in Txs \ {t} : chain'[u] = chain[u]
    BY <1>1, ChainFields DEF SubmitSucceeds, Way
  <1>4. TypeOK'
    BY <1>1, <1>2, <1>3, HandlerTypes DEF SubmitSucceeds, PageInv, TypeOK
  <1>5. Holds'
    BY <1>1, <1>2 DEF Holds, SubmitSucceeds
  <1> QED
    BY <1>1, <1>2, <1>3, <1>4, <1>5, SentKeeps DEF SubmitSucceeds

\* A handler that ends in an error, with its transaction on the chain or not.
LEMMA EndsBadly ==
    ASSUME PageInv, op.at \in {"submit", "record"}, Done, Report,
           recorded' \in {recorded, recorded \cup {op.tx}},
           op.tx \in recorded' => chain'[op.tx] = "landed",
           chain' \in [Txs -> Way],
           \A u \in Txs \ {op.tx} : chain'[u] = chain[u],
           UNCHANGED <<wvars, copy, loading, load, plan, escrowed>>
    PROVE  PageInv'
  <1>1. PICK t \in Txs : t = op.tx /\ t \notin recorded
    BY AtWorkOnIt
  <1>2. /\ op' \in Handling /\ op'.at = "idle" /\ op'.tx = NoTx
        /\ busy' = (op' # NoOp)
    BY DoneFields
  <1>3. /\ reported' \subseteq Txs /\ reported \subseteq reported' /\ t \in reported'
    BY <1>1, NoTxAssumption, ReportFields DEF PageInv
  <1>4. recorded' \subseteq Txs
    BY <1>1 DEF PageInv, TypeOK
  <1>5. TypeOK'
    BY <1>2, <1>3, <1>4, HandlerTypes DEF PageInv, TypeOK
  <1>6. Holds'
    BY <1>2 DEF Holds
  <1> QED
    BY <1>1, <1>2, <1>3, <1>5, <1>6, SentKeeps

\* A payment that is recorded has landed, and its handler fetches the plan.
LEMMA EndsWell ==
    ASSUME PageInv, op.at = "record", Refresh,
           UNCHANGED <<busy, reported>>,
           recorded' = recorded \cup {op.tx},
           chain'[op.tx] = "landed",
           chain' \in [Txs -> Way],
           \A u \in Txs \ {op.tx} : chain'[u] = chain[u],
           UNCHANGED <<wvars, copy, loading, load, plan, escrowed>>
    PROVE  PageInv'
  <1>1. PICK t \in Txs : t = op.tx /\ t \notin recorded /\ busy = TRUE
    BY AtWorkOnIt
  <1>2. op' \in Handling /\ op'.at = "refresh" /\ op'.tx = NoTx /\ op' # NoOp
    BY <1>1, RefreshFields DEF PageInv
  <1>3. recorded' \subseteq Txs /\ t \in recorded'
    BY <1>1 DEF PageInv, TypeOK
  <1>4. TypeOK'
    BY <1>1, <1>2, <1>3, HandlerTypes DEF PageInv, TypeOK
  <1>5. Holds'
    BY <1>2, <1>3 DEF Holds
  <1> QED
    BY <1>1, <1>2, <1>3, <1>4, <1>5, SentKeeps

LEMMA PaymentKeeps ==
    ASSUME PageInv, SubmitFails \/ RecordPayment \/ RecordRelease
    PROVE  PageInv'
  <1>1. op.at \in {"submit", "record"}
    BY DEF SubmitFails, RecordPayment, RecordRelease
  <1>2. op.tx \in Txs /\ op.tx \notin recorded /\ chain \in [Txs -> Way]
    BY <1>1, AtWorkOnIt
  <1>3. CASE SubmitFails
    <2>1. PICK is \in {"pending", "off"} : chain' = [chain EXCEPT ![op.tx] = is]
      BY <1>3 DEF SubmitFails
    <2>2. /\ chain' \in [Txs -> Way]
          /\ \A u \in Txs \ {op.tx} : chain'[u] = chain[u]
      BY <1>2, <2>1, ChainFields DEF Way
    <2> QED
      BY <1>1, <1>2, <1>3, <2>2, EndsBadly DEF SubmitFails
  <1>4. CASE RecordPayment
    <2>1. /\ chain' = chain /\ recorded' = recorded \cup {op.tx} /\ op.at = "record"
          /\ chain[op.tx] = "landed"
          /\ UNCHANGED <<wvars, copy, loading, load, plan, escrowed>>
      BY <1>4 DEF RecordPayment, Accepts
    <2>2. CASE Refresh /\ UNCHANGED <<busy, reported>>
      BY <1>2, <2>1, <2>2, EndsWell
    <2>3. CASE Done /\ Report
      BY <1>1, <1>2, <2>1, <2>3, EndsBadly
    <2> QED
      BY <1>4, <2>2, <2>3 DEF RecordPayment
  <1>5. CASE RecordRelease
    <2>1. /\ op.at = "record"
          /\ UNCHANGED <<wvars, copy, loading, load, plan, escrowed>>
      BY <1>5 DEF RecordRelease
    <2>2. CASE /\ chain' = [chain EXCEPT ![op.tx] = "landed"]
               /\ recorded' = recorded \cup {op.tx}
               /\ (Refresh /\ UNCHANGED <<busy, reported>>) \/ (Done /\ Report)
      <3>1. /\ chain' \in [Txs -> Way]
            /\ chain'[op.tx] = "landed"
            /\ \A u \in Txs \ {op.tx} : chain'[u] = chain[u]
        BY <1>2, <2>1, <2>2, ChainFields DEF Way
      <3>2. CASE Refresh /\ UNCHANGED <<busy, reported>>
        BY <2>1, <2>2, <3>1, <3>2, EndsWell
      <3>3. CASE Done /\ Report
        BY <1>1, <2>1, <2>2, <3>1, <3>3, EndsBadly
      <3> QED
        BY <2>2, <3>2, <3>3
    <2>3. CASE /\ \E is \in {"pending", "landed", "off"} :
                      chain' = [chain EXCEPT ![op.tx] = is]
               /\ Done /\ Report /\ UNCHANGED recorded
      <3>1. PICK is \in {"pending", "landed", "off"} :
                chain' = [chain EXCEPT ![op.tx] = is]
        BY <2>3
      <3>2. /\ chain' \in [Txs -> Way]
            /\ \A u \in Txs \ {op.tx} : chain'[u] = chain[u]
        BY <1>2, <3>1, ChainFields DEF Way
      <3> QED
        BY <1>1, <1>2, <2>1, <2>3, <3>2, EndsBadly
    <2> QED
      BY <1>5, <2>2, <2>3 DEF RecordRelease
  <1> QED
    BY <1>3, <1>4, <1>5

-----------------------------------------------------------------------------
(* What happens around the page.                                           *)

LEMMA SettleKeeps ==
    ASSUME PageInv, NEW t \in Txs, Settle(t)
    PROVE  PageInv'
  <1>1. PICK is \in {"landed", "off"} : chain' = [chain EXCEPT ![t] = is]
    BY DEF Settle
  <1>2. /\ chain[t] = "pending" /\ t \notin recorded /\ UNCHANGED <<page, wvars>>
        /\ UNCHANGED <<plan, escrowed, recorded, reported>>
    BY DEF Settle, PageInv, Landed
  <1>3. /\ chain' \in [Txs -> Way]
        /\ \A u \in Txs \ {t} : chain'[u] = chain[u]
    BY <1>1, ChainFields DEF PageInv, TypeOK, Way
  <1>4. TypeOK'
    BY <1>2, <1>3, HandlerTypes DEF page, PageInv, TypeOK, Handling
  <1>5. Holds'
    BY <1>2 DEF Holds, page, PageInv
  <1> QED
    BY <1>2, <1>3, <1>4, <1>5, SentKeeps DEF page

LEMMA OtherTabsKeep ==
    ASSUME PageInv, PlanElsewhere \/ SessionElsewhere \/ UNCHANGED pvars
    PROVE  PageInv'
  <1>1. UNCHANGED <<page, chain, recorded, reported, escrowed>>
    BY DEF PlanElsewhere, SessionElsewhere, pvars, world
  <1>2. WTypeOK'
    <2>1. CASE UNCHANGED wvars
      BY <2>1, SameWallet DEF PageInv, TypeOK
    <2>2. CASE Elsewhere
      BY <2>2 DEF Elsewhere, PageInv, TypeOK, WTypeOK
    <2> QED
      BY <2>1, <2>2 DEF PlanElsewhere, SessionElsewhere, pvars
  <1>3. plan' \in PlanStatus
    BY DEF PlanElsewhere, SessionElsewhere, pvars, world, Transitions, PlanStatus,
           PageInv, TypeOK
  <1>4. TypeOK'
    BY <1>1, <1>2, <1>3 DEF page, PageInv, TypeOK
  <1>5. Holds'
    BY <1>1 DEF page, PageInv, Holds
  <1> QED
    BY <1>1, <1>4, <1>5, QuietKeeps DEF page

\* Leaving the page is as good as an error message.
LEMMA ReloadKeeps ==
    ASSUME PageInv, Reload
    PROVE  PageInv'
  <1>1. WTypeOK'
    <2>1. PICK f \in Flows : Mount(f)
      BY DEF Reload
    <2> QED
      BY <2>1 DEF Mount, MountedWith, Off, PageInv, TypeOK, WTypeOK, Statuses
  <1>2. /\ op' = NoOp /\ op'.at = "idle" /\ op'.tx = NoTx /\ busy' = FALSE
        /\ op' \in Handling
    BY DEF Reload, NoOp, Handling
  <1>3. /\ reported' \subseteq Txs /\ reported \subseteq reported'
        /\ op.tx \in {NoTx} \cup reported'
    BY ReportFields DEF Reload, PageInv
  <1>4. Holds'
    BY <1>2 DEF Holds
  <1>5. ASSUME chain' \in [Txs -> Way] PROVE TypeOK'
    BY <1>1, <1>2, <1>3, <1>5
       DEF Reload, NoLoad, PageInv, TypeOK, Handling, Way
  <1>6. CASE op.at = "submit"
    <2>1. PICK t \in Txs : t = op.tx /\ t \notin recorded
                           /\ chain \in [Txs -> Way]
      BY <1>6, AtWorkOnIt
    <2>2. PICK is \in {"off", "pending"} : chain' = [chain EXCEPT ![t] = is]
      BY <1>6, <2>1 DEF Reload
    <2>3. /\ chain' \in [Txs -> Way]
          /\ \A u \in Txs \ {t} : chain'[u] = chain[u]
      BY <2>1, <2>2, ChainFields DEF Way
    <2>4. t \in reported' /\ recorded' = recorded
      BY <1>3, <2>1, NoTxAssumption DEF Reload
    <2> QED
      BY <1>3, <1>4, <1>5, <2>1, <2>3, <2>4, SentKeeps
  <1>7. CASE op.at # "submit"
    BY <1>3, <1>4, <1>5, <1>7, QuietKeeps DEF Reload, PageInv, TypeOK, Way
  <1> QED
    BY <1>6, <1>7

-----------------------------------------------------------------------------
(* The page as a whole.                                                    *)

\* A step of the page is a step of the wallet's provider, or none.
LEMMA PageSeesWallet == [Next]_pvars => [WNext]_wvars
  <1> SUFFICES ASSUME [Next]_pvars PROVE [WNext]_wvars
    OBVIOUS
  <1>1. ASSUME NEW f \in Flows, Wallet(f) PROVE WNext
    BY <1>1 DEF Wallet, Provider, WNext
  <1>2. CASE HandlerAnswers \/ WalletSigns
    BY <1>2 DEF HandlerAnswers, WalletSigns, BuildRelease, SubmitSucceeds, SubmitFails,
                RecordPayment, RecordRelease, Patch, TrustSigned, Enabled, Refreshed,
                Throws, Fails, Sign
  <1>3. CASE SendThisMonth \/ ChangeStatus \/ EnableUsdc
    BY <1>3 DEF SendThisMonth, ChangeStatus, EnableUsdc, Click
  <1>4. CASE Loaded \/ (\E t \in Txs : Settle(t)) \/ PlanElsewhere \/ UNCHANGED pvars
    BY <1>4 DEF Loaded, Settle, PlanElsewhere, pvars
  <1>5. CASE SessionElsewhere \/ Reload
    BY <1>5 DEF SessionElsewhere, Reload, WNext
  <1> QED
    BY <1>1, <1>2, <1>3, <1>4, <1>5 DEF Next

\* The plan's page runs the wallet's provider: whatever its buttons do, the cookie,
\* the status and the key only ever change as WalletProvider changes them.
THEOREM PageRunsTheWallet == Spec => WSpec
  <1>1. Init => WInit
    BY DEF Init
  <1> QED
    BY <1>1, PageSeesWallet, PTL DEF Spec, WSpec

LEMMA PageStep == PageInv /\ [Next]_pvars => PageInv'
  <1> SUFFICES ASSUME PageInv, [Next]_pvars PROVE PageInv'
    OBVIOUS
  <1>1. CASE HandlerAnswers \/ WalletSigns
    BY <1>1, GoingOnKeeps, SubmitSucceedsKeeps, PaymentKeeps, QuietHandlersKeep,
       SignKeeps DEF HandlerAnswers, WalletSigns
  <1> QED
    BY <1>1, WalletKeeps, LoadedKeeps, ClickKeeps, SettleKeeps, OtherTabsKeep,
       ReloadKeeps DEF Next

LEMMA PageInvariance == Spec => []PageInv
BY PageInit, PageStep, PTL DEF Spec

\* What the page, its handler and the world are made of is what it should be, and
\* the buttons are disabled exactly while a handler works (busy).
THEOREM PageTypes == Spec => []TypeOK
BY PageInvariance, PTL DEF PageInv

\* No payment of the page is lost in silence (sendThisMonth, api, submit).
THEOREM LossesAreNoticed == Spec => []LossesAreReported
BY PageInvariance, PTL DEF PageInv
=============================================================================
