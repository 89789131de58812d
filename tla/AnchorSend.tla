----------------------------- MODULE AnchorSend -----------------------------
(***************************************************************************)
(* Registering a payment with an anchor: the client chain of               *)
(* stellar/anchor/ (sendViaAnchor: stellar.toml, SEP-10 challenge and      *)
(* token, SEP-12 customer, SEP-31 transaction and its status), run against *)
(* the application's own anchor (anchor-server.service.ts over             *)
(* anchor.repo.ts and anchor-token.ts) behind the rate limiter.            *)
(*                                                                         *)
(* A call waits for one answer at a time and gives up at the first error:  *)
(* nothing is retried and nothing is undone.  A request whose caller has   *)
(* given up may still reach the server.  Challenges and tokens are kept    *)
(* nowhere; what they are worth is their signatures and their dates.       *)
(*                                                                         *)
(* The endpoints are public: besides sendViaAnchor there are callers that  *)
(* sign with another key, or come with the challenge or the token of       *)
(* another deployment, or with no token.  This one has its signing seed.   *)
(*                                                                         *)
(* External: WebAuth of the Stellar SDK, fetch and the Host header.        *)
(***************************************************************************)
EXTENDS RateLimit, Sequences

CONSTANTS
    Calls,           \* chains of requests, by sendViaAnchor or another client
    Sends,           \* what each may be asked to send
    Deployments,     \* servers running this code, each with its own secrets
    This,            \* the one the calls go to
    HomeDomain,      \* the anchor's domain, as the callers know it
    CHALLENGE_TTL,   \* CHALLENGE_TTL_SECONDS
    TOKEN_TTL,       \* TOKEN_TTL_SECONDS
    GRACE,           \* the clock drift WebAuth allows
    None             \* nothing yet

\* account is asked a challenge for and signer signs it; challengeOf and tokenOf
\* issued what the call presents; receiver is the KYC record; host is the server's
\* own idea of its address; complete: the KYC has all required fields; supported:
\* the asset and funding method are the anchor's.
AllSends == UNION {Sends[r] : r \in Calls}

SendAssumption ==
    \A p \in AllSends : /\ {"account", "amount", "receiver", "host", "ip", "complete",
                             "supported", "signer", "challengeOf", "tokenOf"} = DOMAIN p
                         /\ p.challengeOf \in Deployments
                         /\ p.tokenOf \in Deployments \cup {None}
                         /\ p.ip \in Ips
                         /\ p.complete \in BOOLEAN /\ p.supported \in BOOLEAN
ASSUME SendsAreRecords == SendAssumption
ASSUME DeploymentAssumption == This \in Deployments /\ None \notin Deployments
ASSUME TtlAssumption ==
    CHALLENGE_TTL \in Nat \ {0} /\ TOKEN_TTL \in Nat \ {0} /\ GRACE \in Nat

VARIABLES
    customers,      \* anchor_customers
    transactions,   \* anchor_transactions
    job,            \* what each call holds
    wire,           \* its request at the server, or the answer on its way back
    trouble         \* history: whether something else went wrong for a call

nvars == <<now, buckets, spent, customers, transactions, job, wire, trouble>>

\* The requests of a call, in order.  Those that write pass the rate limiter.
Steps == {"toml", "challenge", "token", "customer", "transaction", "status"}
Limited == {"token", "customer", "transaction"}

Idle == [at |-> "idle"]

Init ==
    /\ RInit
    /\ customers = << >>
    /\ transactions = << >>
    /\ job = [r \in Calls |-> Idle]
    /\ wire = [r \in Calls |-> [at |-> "none"]]
    /\ trouble = [r \in Calls |-> FALSE]

server == <<buckets, spent, customers, transactions>>

-----------------------------------------------------------------------------
\* The client.  A call sends the request of its next step, with what it holds.
Ask(r, step, fields) ==
    /\ job' = [job EXCEPT ![r] = [fields EXCEPT !.at = step]]
    /\ wire' = [wire EXCEPT ![r] = [at |-> step]]

Fail(r) == job' = [job EXCEPT ![r].at = "failed"]

\* sendViaAnchor: fetchAnchorToml.
Start(r, p) ==
    /\ job[r] = Idle
    /\ Ask(r, "toml", [at |-> "toml", send |-> p, challenge |-> None,
                       jwt |-> None, customer |-> 0, id |-> 0, status |-> None])
    /\ UNCHANGED <<now, server, trouble>>

\* The answer that call r waits for.
Answered(r, step) ==
    job[r].at = step /\ wire[r].at = "answer"

\* readChallengeTx, external: this server's own challenge, for this domain, in its time.
ValidChallenge(c, domain) ==
    /\ c.issuer = This
    /\ c.domain = domain
    /\ now <= c.minTime + CHALLENGE_TTL + GRACE

\* authenticate, sendPayment, getPaymentStatus: each answer is what the next
\* request is made of.
TomlAnswered(r) ==
    /\ Answered(r, "toml")
    /\ Ask(r, "challenge", job[r])
    /\ UNCHANGED <<now, server, trouble>>

\* What a call presents: the challenge with its signature, and a token if it has one.
Signs(p, c) == [c EXCEPT !.issuer = p.challengeOf, !.signer = p.signer]
Carries(p, t) == IF p.tokenOf = None THEN None ELSE [t EXCEPT !.issuer = p.tokenOf]

\* The client reads the challenge as the server will, and signs it.
ChallengeAnswered(r) ==
    /\ Answered(r, "challenge")
    /\ LET j == [job[r] EXCEPT !.challenge = Signs(job[r].send, wire[r].value)]
       IN  IF ValidChallenge(wire[r].value, HomeDomain)
           THEN Ask(r, "token", j)
           ELSE /\ job' = [job EXCEPT ![r] = [j EXCEPT !.at = "failed"]]
                /\ wire' = [wire EXCEPT ![r] = [at |-> "none"]]
    /\ UNCHANGED <<now, server, trouble>>

TokenAnswered(r) ==
    /\ Answered(r, "token")
    /\ Ask(r, "customer", [job[r] EXCEPT !.jwt = Carries(job[r].send, wire[r].value)])
    /\ UNCHANGED <<now, server, trouble>>

CustomerAnswered(r) ==
    /\ Answered(r, "customer")
    /\ Ask(r, "transaction", [job[r] EXCEPT !.customer = wire[r].value.row])
    /\ UNCHANGED <<now, server, trouble>>

TransactionAnswered(r) ==
    /\ Answered(r, "transaction")
    /\ Ask(r, "status", [job[r] EXCEPT !.id = wire[r].value.row])
    /\ UNCHANGED <<now, server, trouble>>

StatusAnswered(r) ==
    /\ Answered(r, "status")
    /\ job' = [job EXCEPT ![r] = [@ EXCEPT !.at = "done", !.status = wire[r].value,
                                           !.challenge = None, !.jwt = None]]
    /\ wire' = [wire EXCEPT ![r] = [at |-> "none"]]
    /\ UNCHANGED <<now, server, trouble>>

\* Any answer but ok.
Refused(r) ==
    /\ job[r].at \in Steps
    /\ wire[r].at = "error"
    /\ Fail(r)
    /\ wire' = [wire EXCEPT ![r] = [at |-> "none"]]
    /\ UNCHANGED <<now, server, trouble>>

\* fetch throws: the connection is lost before the request or after it, and the
\* call gives up.
\* (mutant) the request is sent once more.
LoseAndRetry(r) ==
    /\ job[r].at \in Steps /\ ~trouble[r]
    /\ trouble' = [trouble EXCEPT ![r] = TRUE]
    /\ wire' = [wire EXCEPT ![r] = [at |-> job[r].at]]
    /\ UNCHANGED <<now, server, job>>
Lose(r) ==
    /\ job[r].at \in Steps
    /\ trouble' = [trouble EXCEPT ![r] = TRUE]
    /\ Fail(r)
    /\ UNCHANGED <<now, server, wire>>

-----------------------------------------------------------------------------
\* The server.
Answer(r, v) == wire' = [wire EXCEPT ![r] = [at |-> "answer", value |-> v]]

\* withError: whatever is thrown becomes an answer.
\* (mutant) it does not, and the connection stays open.
ThrowUnanswered(r) == wire' = [wire EXCEPT ![r] = [at |-> "none"]]
Throw(r) == wire' = [wire EXCEPT ![r] = [at |-> "error"]]

\* withRateLimit, for the requests that write.
Arrived(r, step) ==
    /\ wire[r].at = step
    /\ IF step \in Limited THEN Admit(job[r].send.ip) ELSE UNCHANGED <<buckets, spent>>

Limit(r) ==
    /\ wire[r].at \in Limited
    /\ Refuse(job[r].send.ip)
    /\ trouble' = [trouble EXCEPT ![r] = TRUE]
    /\ Throw(r)
    /\ UNCHANGED <<now, customers, transactions, job>>

\* stellarToml: the endpoints are at the server's own host.
StellarToml(r) ==
    /\ Arrived(r, "toml")
    /\ Answer(r, None)
    /\ UNCHANGED <<now, customers, transactions, job, trouble>>

\* createChallenge, for the domain in the query.
CreateChallenge(r) ==
    /\ Arrived(r, "challenge")
    /\ Answer(r, [account |-> job[r].send.account, issuer |-> This,
                  domain |-> HomeDomain, minTime |-> now, signer |-> None])
    /\ UNCHANGED <<now, customers, transactions, job, trouble>>

\* issueToken.
IssueToken(account) == [account |-> account, issuer |-> This, exp |-> now + TOKEN_TTL]

\* verifyChallengeTxSigners, external: signed by the account it was asked for.
\* (mutant) by whomever.
SignedByAnybody(c) == c.signer # None
SignedByAccount(c) == c.signer = c.account

\* verifyChallenge: the POST names no domain, so the Host header stands for it.
VerifyChallenge(r) ==
    /\ Arrived(r, "token")
    /\ LET c == job[r].challenge
       IN  IF ValidChallenge(c, job[r].send.host) /\ SignedByAccount(c)
           THEN Answer(r, IssueToken(c.account))
           ELSE Throw(r)
    /\ UNCHANGED <<now, customers, transactions, job, trouble>>

\* verifyToken, through requireAccount: one is there, this server signed it, and
\* it has not expired.
\* (mutant) expired at its very last second.
TokenExpiresEarly(t) == t # None /\ t.issuer = This /\ now < t.exp
TokenIsValid(t) == t # None /\ t.issuer = This /\ now <= t.exp

\* putCustomer: always a new row, and by and at are history.
PutCustomer(r) ==
    /\ Arrived(r, "customer")
    /\ IF TokenIsValid(job[r].jwt) /\ job[r].send.complete
       THEN /\ customers' = Append(customers, [receiver |-> job[r].send.receiver, by |-> r])
            /\ Answer(r, [row |-> Len(customers) + 1])
       ELSE UNCHANGED customers /\ Throw(r)
    /\ UNCHANGED <<now, transactions, job, trouble>>

\* createTransaction, up to the await of findById.
\* (mutant) the asset and the funding method are not looked at.
SupportsAnything(p) == TRUE
Supports(p) == p.supported

CreateTransaction(r) ==
    /\ Arrived(r, "transaction")
    /\ IF TokenIsValid(job[r].jwt) /\ Supports(job[r].send)
       THEN wire' = [wire EXCEPT ![r] = [at |-> "insert", seen |-> now]]
       ELSE Throw(r)
    /\ UNCHANGED <<now, customers, transactions, job, trouble>>

\* createTransaction: the receiver is known, and the row is inserted.
\* (mutant) for the customer registered last.
LatestCustomer(r) == Len(customers)
Receiver(r) == job[r].customer

InsertTransaction(r) ==
    /\ wire[r].at = "insert"
    /\ IF Receiver(r) \in 1 .. Len(customers)
       THEN /\ transactions' = Append(transactions,
                   [amount |-> job[r].send.amount, receiver |-> Receiver(r), by |-> r,
                    status |-> "pending_sender"])
            /\ Answer(r, [row |-> Len(transactions) + 1])
       ELSE UNCHANGED transactions /\ Throw(r)
    /\ UNCHANGED <<now, buckets, spent, customers, job, trouble>>

\* getTransaction.
GetTransaction(r) ==
    /\ Arrived(r, "status")
    /\ IF TokenIsValid(job[r].jwt) /\ job[r].id \in 1 .. Len(transactions)
       THEN LET row == transactions[job[r].id]
            IN  Answer(r, [id |-> job[r].id, amount |-> row.amount, status |-> row.status])
       ELSE Throw(r)
    /\ UNCHANGED <<now, customers, transactions, job, trouble>>

\* A statement fails, or the handler is cut off.
Crash(r) ==
    /\ wire[r].at \in Steps \cup {"insert"}
    /\ trouble' = [trouble EXCEPT ![r] = TRUE]
    /\ Throw(r)
    /\ UNCHANGED <<now, server, job>>

Tick == Elapse /\ UNCHANGED <<customers, transactions, job, wire, trouble>>

Client(r) ==
    \/ TomlAnswered(r) \/ ChallengeAnswered(r) \/ TokenAnswered(r)
    \/ CustomerAnswered(r) \/ TransactionAnswered(r) \/ StatusAnswered(r)
    \/ Refused(r)

Server(r) ==
    \/ Limit(r) \/ StellarToml(r) \/ CreateChallenge(r) \/ VerifyChallenge(r)
    \/ PutCustomer(r) \/ CreateTransaction(r) \/ InsertTransaction(r)
    \/ GetTransaction(r)

Next ==
    \/ \E r \in Calls : \E p \in Sends[r] : Start(r, p)
    \/ \E r \in Calls : Client(r) \/ Lose(r) \/ Server(r) \/ Crash(r)
    \/ Tick

Spec == Init /\ [][Next]_nvars

\* Promises settle and the server answers what it is asked.
FairSpec == Spec /\ \A r \in Calls : WF_nvars(Client(r)) /\ WF_nvars(Server(r))

-----------------------------------------------------------------------------
Challenge ==
    [account : {p.account : p \in AllSends}, issuer : Deployments, domain : {HomeDomain},
     minTime : Nat, signer : {p.signer : p \in AllSends} \cup {None}]
Token == [account : {p.account : p \in AllSends}, issuer : Deployments, exp : Nat]
Status == [id : Nat, amount : {p.amount : p \in AllSends}, status : {"pending_sender"}]

ASSUME NoneAssumption == None \notin Challenge \cup Token

Job ==
    [at : Steps \cup {"done", "failed"}, send : AllSends,
     challenge : Challenge \cup {None}, jwt : Token \cup {None}, customer : Nat,
     id : Nat, status : Status \cup {None}]

Answers == {None} \cup Challenge \cup Token \cup [row : Nat] \cup Status

TypeOK ==
    /\ RTypeOK
    /\ customers \in Seq([receiver : {p.receiver : p \in AllSends}, by : Calls])
    /\ transactions \in Seq([amount : {p.amount : p \in AllSends}, receiver : Nat,
                             by : Calls, status : {"pending_sender"}])
    /\ job \in [Calls -> {Idle} \cup Job]
    /\ wire \in [Calls -> [at : Steps \cup {"none", "error"}]
                              \cup [at : {"insert"}, seen : Nat]
                              \cup [at : {"answer"}, value : Answers]]
    /\ trouble \in [Calls -> BOOLEAN]

\* What the anchor stores, it stores for a caller that has presented one of its own
\* challenges, signed by the account it was made for, and then one of its own tokens
\* for that account: at most one challenge's and one token's lifetime ago, though it
\* keeps neither of them, and no row says whose it is (readChallengeTx,
\* verifyChallengeTxSigners, issueToken, verifyToken).
EarnedBy(r, t) ==
    LET c == job[r].challenge
        j == job[r].jwt
    IN  /\ c # None /\ c.issuer = This /\ c.signer = c.account
        /\ j # None /\ j.issuer = This /\ j.account = c.account
        /\ t <= c.minTime + CHALLENGE_TTL + GRACE + TOKEN_TTL

RowsAreAuthenticated ==
    [][/\ Len(customers') > Len(customers) =>
             EarnedBy(customers'[Len(customers')].by, now)
       /\ Len(transactions') > Len(transactions) =>
             LET r == transactions'[Len(transactions')].by
             IN  wire[r].at = "insert" /\ EarnedBy(r, wire[r].seen)]_nvars

\* A call that succeeds returns its own transaction: the one it created, with
\* its amount, for the receiver it registered, whatever other calls do between
\* its requests (sendViaAnchor; tests/integration/anchor-selfhost.test.ts).
StatusIsOwn ==
    \A r \in Calls : job[r].at = "done" =>
        /\ job[r].status = [id |-> job[r].id, amount |-> job[r].send.amount,
                            status |-> "pending_sender"]
        /\ job[r].id \in 1 .. Len(transactions)
        /\ LET tx == transactions[job[r].id]
           IN  /\ tx.by = r
               /\ tx.amount = job[r].send.amount
               /\ customers[tx.receiver].receiver = job[r].send.receiver

\* However a call ends, and whatever of it still reaches the server after it has
\* given up, it leaves at most one transaction, for a receiver it has itself
\* registered before (nothing is retried; createTransaction, findById).
OneRegistrationPerCall ==
    /\ \A i, j \in 1 .. Len(transactions) :
           transactions[i].by = transactions[j].by => i = j
    /\ \A i \in 1 .. Len(transactions) :
           /\ transactions[i].receiver \in 1 .. Len(customers)
           /\ customers[transactions[i].receiver].by = transactions[i].by

\* The client and this server understand each other: a send that the anchor
\* supports, asked of it under its own address with what it issued and the account
\* signed, fails only if a connection or a statement failed, the limiter refused it,
\* or its challenge or its token has expired; any other never succeeds
\* (sendViaAnchor with anchorServerService).
Authentic(p) == p.challengeOf = This /\ p.signer = p.account /\ p.tokenOf = This
Acceptable(p) == p.complete /\ p.supported /\ p.host = HomeDomain /\ Authentic(p)

OutcomeIsDeserved ==
    \A r \in Calls :
        /\ job[r].at = "done" => Acceptable(job[r].send)
        /\ job[r].at = "failed" =>
               \/ trouble[r]
               \/ ~Acceptable(job[r].send)
               \/ job[r].jwt # None /\ now > job[r].jwt.exp
               \/ job[r].challenge # None
                    /\ now > job[r].challenge.minTime + CHALLENGE_TTL + GRACE

\* Every call comes to an end, for better or worse.
EveryCallEnds ==
    \A r \in Calls : job[r].at \in Steps ~> job[r].at \in {"done", "failed"}
=============================================================================
