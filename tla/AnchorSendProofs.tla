-------------------------- MODULE AnchorSendProofs --------------------------
(***************************************************************************)
(* Proofs about RateLimit and AnchorSend, for any number of calls and      *)
(* addresses and for every capacity, rate and lifetime.                    *)
(***************************************************************************)
EXTENDS AnchorSend, TLAPS

-----------------------------------------------------------------------------
(***************************************************************************)
(* The token bucket.  What a bucket holds is what the tightest of all      *)
(* windows leaves.                                                         *)
(***************************************************************************)
Window(ip, t0) == FULL + (now - t0) - SpentSince(ip, t0)

Dated(ip) ==
    /\ buckets[ip] # NoBucket => buckets[ip].lastRefill <= now
    /\ \A t \in (now + 1) .. (MaxTime + 1) : spent[ip][t] = spent[ip][now + 1]

Tight(ip) ==
    /\ \A t0 \in 0 .. now : Tokens(ip) <= Window(ip, t0)
    /\ \E t0 \in 0 .. now : Tokens(ip) = Window(ip, t0)

RInv == RTypeOK /\ \A ip \in Ips : Dated(ip) /\ Tight(ip)

LEMMA FullIsNat == FULL \in Nat /\ MS_PER_TOKEN \in Nat \ {0} /\ MS_PER_TOKEN <= FULL
BY CapacityAssumption DEF FULL

LEMMA TokensFit ==
    ASSUME RTypeOK, NEW ip \in Ips, Dated(ip)
    PROVE  Tokens(ip) \in 0 .. FULL
BY FullIsNat DEF RTypeOK, Dated, Tokens, Bucket

LEMMA RateInit == RInit => RInv
  <1> SUFFICES ASSUME RInit PROVE RInv
    OBVIOUS
  <1>1. RTypeOK
    BY MaxTimeAssumption DEF RInit, RTypeOK
  <1>2. ASSUME NEW ip \in Ips PROVE Dated(ip) /\ Tight(ip)
    <2>1. Dated(ip)
      BY MaxTimeAssumption DEF RInit, Dated
    <2>2. Tokens(ip) = FULL /\ Window(ip, 0) = FULL
      BY FullIsNat, MaxTimeAssumption DEF RInit, Tokens, Window, SpentSince
    <2> QED
      BY <2>1, <2>2, FullIsNat DEF RInit, Tight
  <1> QED
    BY <1>1, <1>2 DEF RInv

LEMMA WindowIsInt ==
    ASSUME NEW ip, NEW t0 \in Int, FULL \in Int, now \in Int,
           spent[ip][now + 1] \in Int, spent[ip][t0] \in Int
    PROVE  Window(ip, t0) \in Int
BY DEF Window, SpentSince

LEMMA WindowCharged ==
    ASSUME NEW ip, NEW t0 \in Int, NEW charge \in Int,
           FULL \in Int, now \in Int, now' = now,
           spent[ip][now + 1] \in Int, spent[ip][t0] \in Int,
           spent'[ip][now + 1] = spent[ip][now + 1] + charge,
           spent'[ip][t0] = spent[ip][t0]
    PROVE  Window(ip, t0)' = Window(ip, t0) - charge
BY DEF Window, SpentSince

\* A request is charged, or not, and all windows with it.
LEMMA Charged ==
    ASSUME RInv, NEW ip \in Ips, NEW charge \in {0, MS_PER_TOKEN},
           charge <= Tokens(ip), now' = now, Refilled(ip, charge),
           spent' = [spent EXCEPT ![ip] =
               [t \in 0 .. MaxTime + 1 |-> IF t > now THEN @[t] + charge ELSE @[t]]]
    PROVE  RInv'
  <1> USE FullIsNat, MaxTimeAssumption, NoBucketAssumption
  <1>1. now \in 0 .. MaxTime /\ Tokens(ip) \in 0 .. FULL
    BY TokensFit DEF RInv, RTypeOK
  <1>2. [tokens |-> Tokens(ip) - charge, lastRefill |-> now] \in Bucket
    BY <1>1 DEF Bucket
  <1>3. /\ buckets' \in [Ips -> Bucket \cup {NoBucket}]
        /\ buckets'[ip] = [tokens |-> Tokens(ip) - charge, lastRefill |-> now]
        /\ \A x \in Ips : x # ip => buckets'[x] = buckets[x]
    BY <1>2 DEF RInv, RTypeOK, Refilled
  <1>4. /\ spent' \in [Ips -> [0 .. MaxTime + 1 -> Nat]]
        /\ \A t \in 0 .. MaxTime + 1 :
               spent'[ip][t] = IF t > now THEN spent[ip][t] + charge ELSE spent[ip][t]
        /\ \A x \in Ips : x # ip => spent'[x] = spent[x]
    BY <1>1 DEF RInv, RTypeOK
  <1>5. RTypeOK'
    BY <1>1, <1>3, <1>4 DEF RTypeOK
  <1>6. Dated(ip)'
    BY <1>1, <1>3, <1>4 DEF RInv, RTypeOK, Dated
  <1>7. Tokens(ip)' = Tokens(ip) - charge
    BY <1>1, <1>2, <1>3 DEF Tokens
  <1>8. ASSUME NEW t0 \in 0 .. now PROVE Window(ip, t0)' = Window(ip, t0) - charge
    <2>1. now + 1 \in 0 .. MaxTime + 1 /\ t0 \in 0 .. MaxTime + 1
      BY <1>1
    <2>2. spent[ip][now + 1] \in Nat /\ spent[ip][t0] \in Nat
      BY <2>1 DEF RInv, RTypeOK
    <2>3. spent'[ip][now + 1] = spent[ip][now + 1] + charge /\ spent'[ip][t0] = spent[ip][t0]
      BY <1>1, <1>4, <2>1
    <2>4. t0 \in Int /\ charge \in Int /\ now \in Int /\ FULL \in Int
      BY <1>1
    <2>5. spent[ip][now + 1] \in Int /\ spent[ip][t0] \in Int
      BY <2>2
    <2> HIDE FullIsNat, MaxTimeAssumption, NoBucketAssumption
    <2> QED
      BY <2>3, <2>4, <2>5, WindowCharged
  <1>9. ASSUME NEW t0 \in 0 .. now PROVE Window(ip, t0) \in Int
    <2>1. now + 1 \in 0 .. MaxTime + 1 /\ t0 \in 0 .. MaxTime + 1
      BY <1>1
    <2>2. spent[ip][now + 1] \in Nat /\ spent[ip][t0] \in Nat
      BY <2>1 DEF RInv, RTypeOK
    <2>3. t0 \in Int /\ now \in Int /\ FULL \in Int
      BY <1>1
    <2>4. spent[ip][now + 1] \in Int /\ spent[ip][t0] \in Int
      BY <2>2
    <2> QED
      BY <2>3, <2>4, WindowIsInt
  <1>10. Tight(ip)'
    BY <1>1, <1>7, <1>8, <1>9 DEF RInv, Tight
  <1>11. ASSUME NEW x \in Ips, x # ip PROVE Dated(x)' /\ Tight(x)'
    BY <1>3, <1>4, <1>11 DEF RInv, Dated, Tight, Tokens, Window, SpentSince
  <1> QED
    BY <1>5, <1>6, <1>10, <1>11 DEF RInv

LEMMA RateElapses == RInv /\ Elapse => RInv'
  <1> SUFFICES ASSUME RInv, Elapse PROVE RInv'
    OBVIOUS
  <1> USE FullIsNat, MaxTimeAssumption
  <1>1. now \in 0 .. MaxTime /\ now' = now + 1 /\ now' \in 0 .. MaxTime
    BY DEF RInv, RTypeOK, Elapse
  <1>2. PICK new \in Nat : new = now + 1
    BY <1>1
  <1>3. RTypeOK'
    BY <1>1 DEF RInv, RTypeOK, Elapse
  <1>4. ASSUME NEW ip \in Ips PROVE Dated(ip)' /\ Tight(ip)'
    <2>1. Dated(ip)'
      BY <1>1 DEF RInv, RTypeOK, Dated, Elapse, Bucket
    <2>2. Tokens(ip) \in 0 .. FULL
      BY TokensFit DEF RInv
    <2>3. Tokens(ip)' = IF Tokens(ip) + 1 <= FULL THEN Tokens(ip) + 1 ELSE FULL
      <3>1. /\ UNCHANGED buckets
            /\ buckets[ip] # NoBucket =>
                   /\ buckets[ip].tokens \in 0 .. FULL
                   /\ buckets[ip].lastRefill \in Nat
                   /\ buckets[ip].lastRefill <= now
        BY DEF RInv, RTypeOK, Dated, Elapse, Bucket
      <3>2. CASE buckets[ip] = NoBucket
        BY <3>1, <3>2 DEF Tokens
      <3>3. CASE buckets[ip] # NoBucket
        BY <1>1, <3>1, <3>3 DEF Tokens
      <3> QED
        BY <3>2, <3>3
    <2>4. spent[ip][now + 2] = spent[ip][now + 1] /\ spent[ip][now + 1] \in Nat
      <3>1. now + 2 \in (now + 1) .. (MaxTime + 1) /\ now + 1 \in 0 .. MaxTime + 1
        BY <1>1
      <3>2. Dated(ip) /\ spent[ip] \in [0 .. MaxTime + 1 -> Nat]
        BY DEF RInv, RTypeOK
      <3> QED
        BY <3>1, <3>2 DEF Dated
    <2>5. Window(ip, new)' = FULL
      <3>1. spent' = spent /\ spent[ip][now + 2] = spent[ip][new]
        BY <1>2, <2>4 DEF Elapse
      <3>2. now' = new /\ now' + 1 = now + 2
        BY <1>2, <1>1
      <3> QED
        BY <1>2, <2>4, <3>1, <3>2 DEF Window, SpentSince
    <2>6. ASSUME NEW t0 \in 0 .. now
          PROVE  Window(ip, t0)' = Window(ip, t0) + 1 /\ Window(ip, t0) \in Int
      <3>1. /\ spent[ip][t0] \in Nat /\ spent' = spent
            /\ now' + 1 = now + 2
        BY <1>1 DEF RInv, RTypeOK, Elapse
      <3>2. SpentSince(ip, t0)' = SpentSince(ip, t0) /\ SpentSince(ip, t0) \in Int
        BY <2>4, <3>1 DEF SpentSince
      <3> QED
        BY <1>1, <3>2 DEF Window
    <2>7. ASSUME NEW t0 \in 0 .. now' PROVE Tokens(ip)' <= Window(ip, t0)'
      <3>1. CASE t0 = new
        BY <2>2, <2>3, <2>5, <3>1
      <3>2. CASE t0 \in 0 .. now
        BY <2>2, <2>3, <2>6, <3>2 DEF RInv, Tight
      <3> QED
        BY <1>2, <1>1, <3>1, <3>2
    <2>8. \E t0 \in 0 .. now' : Tokens(ip)' = Window(ip, t0)'
      <3>1. CASE Tokens(ip) + 1 <= FULL
        <4>1. PICK t0 \in 0 .. now : Tokens(ip) = Window(ip, t0)
          BY DEF RInv, Tight
        <4>2. t0 \in 0 .. now' /\ Tokens(ip)' = Window(ip, t0)'
          BY <1>1, <2>3, <2>6, <3>1, <4>1
        <4> QED
          BY <4>2
      <3>2. CASE ~(Tokens(ip) + 1 <= FULL)
        <4>1. new \in 0 .. now' /\ Tokens(ip)' = Window(ip, new)'
          BY <1>2, <1>1, <2>2, <2>3, <2>5, <3>2
        <4> QED
          BY <4>1
      <3> QED
        BY <3>1, <3>2
    <2> QED
      BY <2>1, <2>7, <2>8 DEF Tight
  <1> QED
    BY <1>3, <1>4 DEF RInv

LEMMA RateStep == RInv /\ [RNext]_rvars => RInv'
  <1> SUFFICES ASSUME RInv, [RNext]_rvars PROVE RInv'
    OBVIOUS
  <1>0. ASSUME NEW ip \in Ips PROVE Tokens(ip) \in Nat
    BY TokensFit, FullIsNat DEF RInv
  <1>1. ASSUME NEW ip \in Ips, Admit(ip), UNCHANGED now PROVE RInv'
    BY <1>0, <1>1, FullIsNat, Charged DEF Admit, CanTake
  <1>2. ASSUME NEW ip \in Ips, Refuse(ip), UNCHANGED now PROVE RInv'
    <2>1. spent' = [spent EXCEPT ![ip] =
              [t \in 0 .. MaxTime + 1 |-> IF t > now THEN @[t] + 0 ELSE @[t]]]
      <3>1. /\ spent \in [Ips -> [0 .. MaxTime + 1 -> Nat]] /\ spent' = spent
        BY <1>2 DEF RInv, RTypeOK, Refuse
      <3>2. spent[ip] = [t \in 0 .. MaxTime + 1 |->
                            IF t > now THEN spent[ip][t] + 0 ELSE spent[ip][t]]
        <4>1. \A t \in 0 .. MaxTime + 1 : spent[ip][t] + 0 = spent[ip][t]
          BY <3>1, MaxTimeAssumption
        <4>2. spent[ip] = [t \in 0 .. MaxTime + 1 |-> spent[ip][t]]
          BY <3>1
        <4> QED
          BY <4>1, <4>2
      <3> QED
        BY <3>1, <3>2
    <2>2. now' = now /\ Refilled(ip, 0) /\ 0 <= Tokens(ip) /\ 0 \in {0, MS_PER_TOKEN}
      BY <1>0, <1>2 DEF Refuse
    <2> QED
      BY <2>1, <2>2, Charged
  <1>3. CASE Elapse
    BY <1>3, RateElapses
  <1>4. CASE UNCHANGED rvars
    BY <1>4 DEF rvars, RInv, RTypeOK, Dated, Tight, Tokens, Window, SpentSince
  <1> QED
    BY <1>1, <1>2, <1>3, <1>4 DEF RNext

LEMMA BucketWindow == RInv => BucketIsWindow
  <1> SUFFICES ASSUME RInv, NEW ip \in Ips
               PROVE  CanTake(ip) <=>
                          \A t0 \in 0 .. now :
                              SpentSince(ip, t0) + MS_PER_TOKEN <= FULL + (now - t0)
    BY DEF BucketIsWindow
  <1>1. Tokens(ip) \in Int /\ MS_PER_TOKEN \in Int
    BY TokensFit, FullIsNat DEF RInv
  <1>2. ASSUME NEW t0 \in 0 .. now
        PROVE  /\ Window(ip, t0) \in Int
               /\ SpentSince(ip, t0) + MS_PER_TOKEN <= FULL + (now - t0)
                      <=> MS_PER_TOKEN <= Window(ip, t0)
    <2>1. spent[ip][t0] \in Nat /\ spent[ip][now + 1] \in Nat /\ now \in Nat
      BY MaxTimeAssumption DEF RInv, RTypeOK
    <2> QED
      BY <2>1, FullIsNat DEF Window, SpentSince
  <1>3. CanTake(ip) <=> MS_PER_TOKEN <= Tokens(ip)
    BY <1>1 DEF CanTake
  <1>4. Tight(ip)
    BY DEF RInv
  <1>5. (\A t0 \in 0 .. now : MS_PER_TOKEN <= Window(ip, t0)) <=> MS_PER_TOKEN <= Tokens(ip)
    BY <1>1, <1>2, <1>4 DEF Tight
  <1> QED
    BY <1>2, <1>3, <1>5
-----------------------------------------------------------------------------
(***************************************************************************)
(* The calls.  What each of them holds, and what its request or its answer *)
(* is worth, speaks of its own rows only, and rows are only ever added.    *)
(***************************************************************************)
Signed == {"token", "customer", "transaction", "status"}
Held == {"customer", "transaction", "status"}

Waits(r) ==
    /\ job[r].at \in {"idle", "done"} => wire[r].at = "none"
    /\ job[r].at \in Steps =>
           \/ wire[r].at \in {job[r].at, "answer", "error"}
           \/ job[r].at = "transaction" /\ wire[r].at = "insert"

Genuine(r) ==
    /\ job[r].challenge \in Challenge
    /\ job[r].challenge.issuer = This
    /\ job[r].challenge.signer = job[r].challenge.account

Earned(r, t) ==
    /\ Genuine(r)
    /\ t \in Token \cup {None}
    /\ t # None =>
           /\ t.account = job[r].challenge.account
           /\ t.exp <= job[r].challenge.minTime + CHALLENGE_TTL + GRACE + TOKEN_TTL

\* What a call presents is what its caller comes with.
SignsOwn(r) ==
    /\ job[r].challenge.account = job[r].send.account
    /\ job[r].challenge.issuer = job[r].send.challengeOf
    /\ job[r].challenge.signer = job[r].send.signer

CarriesOwn(r) ==
    /\ job[r].send.tokenOf = None => job[r].jwt = None
    /\ job[r].send.tokenOf # None =>
           job[r].jwt # None /\ job[r].jwt.issuer = job[r].send.tokenOf

Holds(r) ==
    /\ job[r].at \in Signed \/ wire[r].at \in Signed \cup {"insert"} =>
           job[r].challenge \in Challenge /\ SignsOwn(r)
    /\ job[r].at \in Held \/ wire[r].at \in Held \cup {"insert"} =>
           Earned(r, job[r].jwt) /\ CarriesOwn(r)
    /\ wire[r].at = "insert" =>
           /\ job[r].jwt # None /\ job[r].jwt.issuer = This
           /\ wire[r].seen <= job[r].jwt.exp

OwnCustomer(r, c) ==
    /\ c \in 1 .. Len(customers)
    /\ customers[c].by = r
    /\ customers[c].receiver = job[r].send.receiver

OwnTransaction(r, i) ==
    /\ i \in 1 .. Len(transactions)
    /\ transactions[i].by = r
    /\ transactions[i].amount = job[r].send.amount
    /\ OwnCustomer(r, transactions[i].receiver)

Shown(r) == [id |-> job[r].id, amount |-> job[r].send.amount, status |-> "pending_sender"]

Right(r) ==
    wire[r].at = "answer" =>
        /\ job[r].at = "challenge" =>
               /\ wire[r].value \in Challenge /\ wire[r].value.issuer = This
               /\ wire[r].value.account = job[r].send.account
        /\ job[r].at = "token" => wire[r].value # None /\ Earned(r, wire[r].value)
        /\ job[r].at = "customer" =>
               wire[r].value.row \in Nat /\ OwnCustomer(r, wire[r].value.row)
        /\ job[r].at = "transaction" =>
               wire[r].value.row \in Nat /\ OwnTransaction(r, wire[r].value.row)
        /\ job[r].at = "status" => wire[r].value = Shown(r) /\ Shown(r) \in Status

Owns(r) ==
    job[r] # Idle =>
        /\ job[r].customer # 0 => OwnCustomer(r, job[r].customer)
        /\ job[r].id # 0 => OwnTransaction(r, job[r].id)
        /\ job[r].at \in {"status", "done"} => job[r].id # 0
        /\ job[r].at = "done" => job[r].status = Shown(r)

Fresh(r) ==
    \/ job[r].at \in {"idle", "toml", "challenge", "token", "customer"}
    \/ wire[r].at \in {"transaction", "insert"}
    => \A i \in 1 .. Len(transactions) : transactions[i].by # r

CallInv(r) == Waits(r) /\ Holds(r) /\ Right(r) /\ Owns(r) /\ Fresh(r)

CustomerRow == [receiver : {p.receiver : p \in AllSends}, by : Calls]
TransactionRow ==
    [amount : {p.amount : p \in AllSends}, receiver : Nat, by : Calls,
     status : {"pending_sender"}]
Wire ==
    [at : Steps \cup {"none", "error"}] \cup [at : {"insert"}, seen : Nat]
        \cup [at : {"answer"}, value : Answers]

Tables == customers \in Seq(CustomerRow) /\ transactions \in Seq(TransactionRow)

CallsOK ==
    /\ job \in [Calls -> {Idle} \cup Job]
    /\ wire \in [Calls -> Wire]
    /\ trouble \in [Calls -> BOOLEAN]

SendInv ==
    RInv /\ Tables /\ CallsOK /\ OneRegistrationPerCall /\ \A r \in Calls : CallInv(r)

LEMMA SendTypes == SendInv => TypeOK
BY DEF SendInv, RInv, Tables, CallsOK, TypeOK, CustomerRow, TransactionRow, Wire

LEMMA SendFields ==
    ASSUME NEW p \in AllSends
    PROVE  /\ p.ip \in Ips /\ p.challengeOf \in Deployments
           /\ p.tokenOf \in Deployments \cup {None}
BY SendsAreRecords DEF SendAssumption

LEMMA SendInit == Init => SendInv
  <1> SUFFICES ASSUME Init PROVE SendInv
    OBVIOUS
  <1>1. RInv
    BY RateInit DEF Init
  <1>2. Tables /\ Len(customers) = 0 /\ Len(transactions) = 0
    BY DEF Init, Tables
  <1>3. CallsOK
    BY DEF Init, CallsOK, Wire
  <1>4. OneRegistrationPerCall
    BY <1>2 DEF OneRegistrationPerCall
  <1>5. ASSUME NEW r \in Calls PROVE CallInv(r)
    BY <1>2 DEF Init, Idle, CallInv, Waits, Holds, Right, Owns, Fresh, Steps, Signed, Held
  <1> QED
    BY <1>1, <1>2, <1>3, <1>4, <1>5 DEF SendInv

\* Every step of the system is a step of its limiter, or none.
LEMMA SeesLimiter == SendInv /\ [Next]_nvars => [RNext]_rvars
  <1> SUFFICES ASSUME SendInv, [Next]_nvars PROVE [RNext]_rvars
    OBVIOUS
  <1>1. ASSUME NEW r \in Calls, wire[r].at \in Steps PROVE job[r].send.ip \in Ips
    <2>1. job[r] \in Job
      BY <1>1 DEF SendInv, CallsOK, CallInv, Waits, Idle, Steps
    <2> QED
      BY <2>1, SendFields DEF Job
  <1>2. ASSUME NEW r \in Calls, NEW step \in Steps, Arrived(r, step), UNCHANGED now
        PROVE  [RNext]_rvars
    BY <1>1, <1>2 DEF Arrived, RNext, rvars
  <1>3. ASSUME NEW r \in Calls, Limit(r) PROVE [RNext]_rvars
    BY <1>1, <1>3 DEF Limit, RNext, Limited, Steps
  <1>4. ASSUME NEW r \in Calls, Server(r) PROVE [RNext]_rvars
    <2>1. CASE StellarToml(r)
      BY <1>2, <2>1 DEF StellarToml, Steps
    <2>2. CASE CreateChallenge(r)
      BY <1>2, <2>2 DEF CreateChallenge, Steps
    <2>3. CASE VerifyChallenge(r)
      BY <1>2, <2>3 DEF VerifyChallenge, Steps
    <2>4. CASE PutCustomer(r)
      BY <1>2, <2>4 DEF PutCustomer, Steps
    <2>5. CASE CreateTransaction(r)
      BY <1>2, <2>5 DEF CreateTransaction, Steps
    <2>6. CASE GetTransaction(r)
      BY <1>2, <2>6 DEF GetTransaction, Steps
    <2>7. CASE InsertTransaction(r)
      BY <2>7 DEF InsertTransaction, rvars
    <2> QED
      BY <1>3, <1>4, <2>1, <2>2, <2>3, <2>4, <2>5, <2>6, <2>7 DEF Server
  <1>5. ASSUME NEW r \in Calls, Client(r) \/ Lose(r) \/ Crash(r) PROVE [RNext]_rvars
    BY <1>5 DEF Client, TomlAnswered, ChallengeAnswered, TokenAnswered, CustomerAnswered,
                TransactionAnswered, StatusAnswered, Refused, Lose, Crash, server, rvars
  <1>6. ASSUME NEW r \in Calls, NEW p \in Sends[r], Start(r, p) PROVE [RNext]_rvars
    BY <1>6 DEF Start, server, rvars
  <1>7. CASE Tick
    BY <1>7 DEF Tick, RNext
  <1>8. CASE UNCHANGED nvars
    BY <1>8 DEF nvars, rvars
  <1> QED
    BY <1>4, <1>5, <1>6, <1>7, <1>8 DEF Next
-----------------------------------------------------------------------------
\* A step of call r: the others keep their places, and rows are only added.
Steady(r) ==
    \A q \in Calls : q # r => job'[q] = job[q] /\ wire'[q] = wire[q]

Grows(r) ==
    /\ \A c \in 1 .. Len(customers) :
           c \in 1 .. Len(customers') /\ customers'[c] = customers[c]
    /\ \A i \in 1 .. Len(transactions) :
           i \in 1 .. Len(transactions') /\ transactions'[i] = transactions[i]
    /\ \A i \in 1 .. Len(transactions') :
           i \in 1 .. Len(transactions) \/ transactions'[i].by = r

LEMMA RowsStay ==
    ASSUME NEW r \in Calls, Grows(r), NEW q \in Calls, job'[q].send = job[q].send
    PROVE  /\ \A c \in Nat : OwnCustomer(q, c) => OwnCustomer(q, c)'
           /\ \A i \in Nat : OwnTransaction(q, i) => OwnTransaction(q, i)'
  <1>1. ASSUME NEW c, OwnCustomer(q, c) PROVE OwnCustomer(q, c)'
    BY <1>1 DEF Grows, OwnCustomer
  <1>2. ASSUME NEW i \in Nat, OwnTransaction(q, i) PROVE OwnTransaction(q, i)'
    <2>1. transactions'[i] = transactions[i] /\ i \in 1 .. Len(transactions')
      BY <1>2 DEF Grows, OwnTransaction
    <2>2. OwnCustomer(q, transactions[i].receiver)
      BY <1>2 DEF OwnTransaction
    <2>3. PICK c : c = transactions[i].receiver
      OBVIOUS
    <2>4. OwnCustomer(q, c)'
      BY <1>1, <2>2, <2>3
    <2> QED
      BY <1>2, <2>1, <2>3, <2>4 DEF OwnTransaction, OwnCustomer
  <1> QED
    BY <1>1, <1>2

LEMMA OthersStay ==
    ASSUME SendInv, NEW r \in Calls, Steady(r), Grows(r)
    PROVE  \A q \in Calls : q # r => CallInv(q)'
  <1> SUFFICES ASSUME NEW q \in Calls, q # r PROVE CallInv(q)'
    OBVIOUS
  <1>1. job'[q] = job[q] /\ wire'[q] = wire[q] /\ CallInv(q)
    BY DEF Steady, SendInv
  <1>2. /\ \A c \in Nat : OwnCustomer(q, c) => OwnCustomer(q, c)'
        /\ \A i \in Nat : OwnTransaction(q, i) => OwnTransaction(q, i)'
    BY <1>1, RowsStay
  <1>3. job[q] = Idle \/ job[q] \in Job
    BY DEF SendInv, CallsOK
  <1>4. Waits(q)' /\ Holds(q)'
    BY <1>1 DEF CallInv, Waits, Holds, Earned, Genuine, SignsOwn, CarriesOwn
  <1>5. Right(q)'
    BY <1>1, <1>2 DEF CallInv, Right, Earned, Genuine, Shown
  <1>6. Owns(q)'
    <2>1. job[q] # Idle => job[q].customer \in Nat /\ job[q].id \in Nat
      BY <1>3 DEF Job
    <2> QED
      BY <1>1, <1>2, <2>1 DEF CallInv, Owns, Shown
  <1>7. Fresh(q)'
    BY <1>1 DEF CallInv, Fresh, Grows
  <1> QED
    BY <1>4, <1>5, <1>6, <1>7 DEF CallInv

\* A step of call r that writes no row.
LEMMA CallKeeps ==
    ASSUME SendInv, NEW r \in Calls, Steady(r), UNCHANGED <<customers, transactions>>,
           RInv', CallsOK', CallInv(r)'
    PROVE  SendInv'
  <1>1. Tables' /\ OneRegistrationPerCall'
    BY DEF SendInv, Tables, OneRegistrationPerCall
  <1>2. Grows(r)
    BY DEF Grows
  <1>3. \A q \in Calls : q # r => CallInv(q)'
    BY <1>2, OthersStay
  <1> QED
    BY <1>1, <1>3 DEF SendInv

\* What is known of call r before its step.
LEMMA Known ==
    ASSUME SendInv, NEW r \in Calls
    PROVE  /\ job[r] = Idle \/ job[r] \in Job
           /\ job[r].at # "idle" => job[r] \in Job
           /\ job[r] \in Job => job[r].at # "idle"
           /\ wire[r].at # "none" => job[r] \in Job /\ job[r].at \notin {"idle", "done"}
           /\ wire[r] \in Wire
           /\ Waits(r) /\ Holds(r) /\ Right(r) /\ Owns(r) /\ Fresh(r)
  <1>1. job[r] \in {Idle} \cup Job /\ wire[r] \in Wire /\ CallInv(r)
    BY DEF SendInv, CallsOK
  <1> QED
    BY <1>1 DEF Idle, Job, Steps, CallInv, Waits

\* Rows that stay are as much a call's own as before.
LEMMA OwnRowsStay ==
    ASSUME NEW r \in Calls, UNCHANGED <<customers, transactions>>,
           job'[r].send = job[r].send
    PROVE  /\ \A c \in Nat : OwnCustomer(r, c) => OwnCustomer(r, c)'
           /\ \A i \in Nat : OwnTransaction(r, i) => OwnTransaction(r, i)'
  <1>1. Grows(r)
    BY DEF Grows
  <1> QED
    BY <1>1, RowsStay

\* A client that learns of a row of its own, or of none.
LEMMA OwnsStay ==
    ASSUME NEW r \in Calls, UNCHANGED <<customers, transactions>>,
           job[r] \in Job, job'[r] \in Job, Owns(r), job'[r].send = job[r].send,
           \/ job'[r].customer = job[r].customer
           \/ OwnCustomer(r, job'[r].customer),
           \/ job'[r].id = job[r].id
           \/ OwnTransaction(r, job'[r].id),
           job'[r].at \in {"status", "done"} => job'[r].id # 0,
           job'[r].at = "done" => job'[r].status = Shown(r)'
    PROVE  Owns(r)'
  <1>1. /\ \A c \in Nat : OwnCustomer(r, c) => OwnCustomer(r, c)'
        /\ \A i \in Nat : OwnTransaction(r, i) => OwnTransaction(r, i)'
    BY OwnRowsStay
  <1>2. job[r] # Idle /\ job'[r].customer \in Nat /\ job'[r].id \in Nat
    BY DEF Job, Idle, Steps
  <1>3. job'[r].customer # 0 => OwnCustomer(r, job'[r].customer)
    BY <1>2 DEF Owns
  <1>4. job'[r].id # 0 => OwnTransaction(r, job'[r].id)
    BY <1>2 DEF Owns
  <1>5. job'[r].customer # 0 => OwnCustomer(r, job[r].customer)'
    BY <1>1, <1>2, <1>3
  <1>6. job'[r].id # 0 => OwnTransaction(r, job[r].id)'
    BY <1>1, <1>2, <1>4
  <1> QED
    BY <1>5, <1>6 DEF Owns

\* A step of call r that changes nothing of the others.
LEMMA Typed ==
    ASSUME SendInv, NEW r \in Calls,
           job' = [job EXCEPT ![r] = job'[r]], job'[r] \in Job,
           wire' = [wire EXCEPT ![r] = wire'[r]], wire'[r] \in Wire,
           trouble' \in {trouble, [trouble EXCEPT ![r] = TRUE]}
    PROVE  CallsOK' /\ Steady(r)
BY DEF SendInv, CallsOK, Steady

\* A client that sends its next request.
LEMMA Asks ==
    ASSUME SendInv, NEW r \in Calls, NEW step \in Steps,
           job' = [job EXCEPT ![r] = job'[r]], job'[r] \in Job, job'[r].at = step,
           wire' = [wire EXCEPT ![r] = [at |-> step]], UNCHANGED trouble
    PROVE  CallsOK' /\ Steady(r) /\ wire'[r] = [at |-> step] /\ Waits(r)' /\ Right(r)'
  <1>1. wire'[r] = [at |-> step] /\ [at |-> step] \in Wire
    BY DEF SendInv, CallsOK, Wire
  <1>2. wire' = [wire EXCEPT ![r] = wire'[r]]
    BY <1>1
  <1>3. CallsOK' /\ Steady(r)
    <2>1. trouble' \in {trouble, [trouble EXCEPT ![r] = TRUE]} /\ wire'[r] \in Wire
      BY <1>1
    <2> QED
      BY <1>2, <2>1, Typed
  <1>4. Waits(r)' /\ Right(r)'
    BY <1>1 DEF Waits, Right, Steps
  <1> QED
    BY <1>1, <1>3, <1>4

\* The client.
LEMMA ClientStep ==
    ASSUME SendInv, RInv', NEW r \in Calls,
           Client(r) \/ Lose(r) \/ \E p \in Sends[r] : Start(r, p)
    PROVE  SendInv'
  <1>0. /\ job[r] = Idle \/ job[r] \in Job
        /\ job[r].at # "idle" => job[r] \in Job
        /\ wire[r] \in Wire /\ job \in [Calls -> {Idle} \cup Job]
        /\ Waits(r) /\ Holds(r) /\ Right(r) /\ Owns(r) /\ Fresh(r)
    <2>1. job \in [Calls -> {Idle} \cup Job]
      BY DEF SendInv, CallsOK
    <2> QED
      BY <2>1, Known
  <1>1. ASSUME NEW p \in Sends[r], Start(r, p) PROVE SendInv'
    <2>1. p \in AllSends
      BY DEF AllSends
    <2>2. /\ job'[r] = [at |-> "toml", send |-> p, challenge |-> None, jwt |-> None,
                        customer |-> 0, id |-> 0, status |-> None]
          /\ job' = [job EXCEPT ![r] = job'[r]]
          /\ wire' = [wire EXCEPT ![r] = [at |-> "toml"]]
          /\ UNCHANGED <<trouble, customers, transactions>> /\ job[r].at = "idle"
      BY <1>0, <1>1 DEF Start, Ask, server, Idle
    <2>3. job'[r] \in Job
      BY <2>1, <2>2 DEF Job, Steps
    <2>4. CallsOK' /\ Steady(r) /\ wire'[r] = [at |-> "toml"] /\ Waits(r)' /\ Right(r)'
      <3>1. "toml" \in Steps /\ job'[r].at = "toml" /\ UNCHANGED trouble
        BY <2>2 DEF Steps
      <3> QED
        BY <2>2, <2>3, <3>1, Asks
    <2>5. Holds(r)' /\ Owns(r)' /\ Fresh(r)'
      BY <1>0, <2>2, <2>4 DEF Holds, Owns, Fresh, Signed, Held, Idle
    <2> QED
      BY <2>2, <2>4, <2>5, CallKeeps DEF CallInv
  <1>2. CASE TomlAnswered(r)
    <2>1. /\ job'[r] = [job[r] EXCEPT !.at = "challenge"] /\ job[r].at = "toml"
          /\ job' = [job EXCEPT ![r] = job'[r]]
          /\ wire' = [wire EXCEPT ![r] = [at |-> "challenge"]]
          /\ UNCHANGED <<trouble, customers, transactions>>
      BY <1>0, <1>2 DEF TomlAnswered, Answered, Ask, server
    <2>2. job[r] \in Job /\ job'[r] \in Job
      <3>1. job[r] \in Job
        BY <1>0, <2>1
      <3> QED
        BY <2>1, <3>1 DEF Job, Steps
    <2>3. CallsOK' /\ Steady(r) /\ wire'[r] = [at |-> "challenge"] /\ Waits(r)' /\ Right(r)'
      BY <2>1, <2>2, Asks DEF Steps, Job
    <2>4. Holds(r)' /\ Fresh(r)'
      BY <1>0, <2>1, <2>2, <2>3 DEF Holds, Fresh, Signed, Held, Job
    <2>5. Owns(r)'
      <3>1. /\ job[r] \in Job /\ job'[r].send = job[r].send
            /\ job'[r].customer = job[r].customer
            /\ job'[r].id = job[r].id
            /\ job'[r].at \notin {"status", "done"}
        BY <1>0, <2>1, <2>2 DEF Job
      <3> QED
        BY <1>0, <2>1, <2>2, <3>1, OwnsStay
    <2> QED
      BY <2>1, <2>3, <2>4, <2>5, CallKeeps DEF CallInv
  <1>3. CASE TokenAnswered(r)
    <2> DEFINE t == Carries(job[r].send, wire[r].value)
    <2>1. /\ job'[r] = [job[r] EXCEPT !.at = "customer", !.jwt = t]
          /\ job[r].at = "token" /\ wire[r].at = "answer"
          /\ job' = [job EXCEPT ![r] = job'[r]]
          /\ wire' = [wire EXCEPT ![r] = [at |-> "customer"]]
          /\ UNCHANGED <<trouble, customers, transactions>>
      BY <1>0, <1>3 DEF TokenAnswered, Answered, Ask, server
    <2>2. /\ job[r] \in Job /\ Earned(r, wire[r].value) /\ wire[r].value # None
          /\ SignsOwn(r)
      BY <1>0, <2>1 DEF Right, Holds, Signed
    <2>t. /\ job[r].send.tokenOf = None => t = None
          /\ job[r].send.tokenOf # None =>
                 /\ t \in Token /\ t.issuer = job[r].send.tokenOf
                 /\ t.account = wire[r].value.account /\ t.exp = wire[r].value.exp
      <3>1. wire[r].value \in Token /\ job[r].send \in AllSends
        BY <2>2 DEF Earned, Job
      <3> QED
        BY <3>1, SendFields DEF Carries, Token
    <2>a. job'[r] \in Job
      BY <2>1, <2>2, <2>t DEF Job, Steps
    <2>b. /\ job'[r].jwt = t /\ job'[r].at = "customer" /\ job'[r].send = job[r].send
          /\ job'[r].challenge = job[r].challenge
      BY <2>1, <2>2 DEF Job
    <2>c. Earned(r, t)
      BY <2>2, <2>t DEF Earned
    <2>d. Earned(r, job[r].jwt)' /\ SignsOwn(r)'
      BY <2>2, <2>b, <2>c DEF Earned, Genuine, SignsOwn
    <2>e. CarriesOwn(r)'
      BY <2>b, <2>t, NoneAssumption DEF CarriesOwn
    <2>3. job'[r] \in Job /\ Earned(r, job[r].jwt)'
      BY <2>a, <2>d
    <2>4. CallsOK' /\ Steady(r) /\ wire'[r] = [at |-> "customer"] /\ Waits(r)' /\ Right(r)'
      BY <2>1, <2>2, <2>3, Asks DEF Steps, Job
    <2>5. Holds(r)' /\ Fresh(r)'
      BY <1>0, <2>1, <2>4, <2>b, <2>d, <2>e DEF Holds, Fresh, Earned, Genuine
    <2>6. Owns(r)'
      <3>1. /\ job[r] \in Job /\ job'[r].send = job[r].send
            /\ job'[r].customer = job[r].customer
            /\ job'[r].id = job[r].id
            /\ job'[r].at \notin {"status", "done"}
        BY <1>0, <2>1, <2>2 DEF Job
      <3> QED
        BY <1>0, <2>1, <2>3, <3>1, OwnsStay
    <2> QED
      BY <2>1, <2>4, <2>5, <2>6, CallKeeps DEF CallInv
  <1>4. CASE CustomerAnswered(r)
    <2>1. /\ job'[r] = [job[r] EXCEPT !.at = "transaction", !.customer = wire[r].value.row]
          /\ job[r].at = "customer" /\ wire[r].at = "answer"
          /\ job' = [job EXCEPT ![r] = job'[r]]
          /\ wire' = [wire EXCEPT ![r] = [at |-> "transaction"]]
          /\ UNCHANGED <<trouble, customers, transactions>>
      BY <1>0, <1>4 DEF CustomerAnswered, Answered, Ask, server
    <2>2. /\ job[r] \in Job /\ Earned(r, job[r].jwt)
          /\ wire[r].value.row \in Nat /\ OwnCustomer(r, wire[r].value.row)
      BY <1>0, <2>1 DEF Right, Holds, Held
    <2>3. job'[r] \in Job /\ Earned(r, job[r].jwt)'
      BY <2>1, <2>2 DEF Job, Steps, Earned, Genuine
    <2>4. CallsOK' /\ Steady(r) /\ wire'[r] = [at |-> "transaction"]
          /\ Waits(r)' /\ Right(r)'
      BY <2>1, <2>2, <2>3, Asks DEF Steps, Job
    <2>a. /\ job'[r].send = job[r].send /\ job'[r].challenge = job[r].challenge
          /\ job'[r].jwt = job[r].jwt /\ job'[r].at = "transaction"
      BY <2>1, <2>2 DEF Job
    <2>b. SignsOwn(r) /\ CarriesOwn(r)
      BY <1>0, <2>1 DEF Holds, Signed, Held
    <2>c. SignsOwn(r)' /\ CarriesOwn(r)'
      BY <2>a, <2>b DEF SignsOwn, CarriesOwn
    <2>5. Holds(r)' /\ Fresh(r)'
      BY <1>0, <2>1, <2>3, <2>4, <2>a, <2>c DEF Holds, Fresh, Earned, Genuine
    <2>6. Owns(r)'
      <3>1. /\ job[r] \in Job /\ job'[r].send = job[r].send
            /\ OwnCustomer(r, job'[r].customer)
            /\ job'[r].id = job[r].id
            /\ job'[r].at \notin {"status", "done"}
        BY <1>0, <2>1, <2>2 DEF Job
      <3> QED
        BY <1>0, <2>1, <2>3, <3>1, OwnsStay
    <2> QED
      BY <2>1, <2>4, <2>5, <2>6, CallKeeps DEF CallInv
  <1>5. CASE TransactionAnswered(r)
    <2>1. /\ job'[r] = [job[r] EXCEPT !.at = "status", !.id = wire[r].value.row]
          /\ job[r].at = "transaction" /\ wire[r].at = "answer"
          /\ job' = [job EXCEPT ![r] = job'[r]]
          /\ wire' = [wire EXCEPT ![r] = [at |-> "status"]]
          /\ UNCHANGED <<trouble, customers, transactions>>
      BY <1>0, <1>5 DEF TransactionAnswered, Answered, Ask, server
    <2>2. /\ job[r] \in Job /\ Earned(r, job[r].jwt)
          /\ wire[r].value.row \in Nat /\ OwnTransaction(r, wire[r].value.row)
          /\ wire[r].value.row # 0
      BY <1>0, <2>1 DEF Right, Holds, Held, OwnTransaction
    <2>3. job'[r] \in Job /\ Earned(r, job[r].jwt)'
      BY <2>1, <2>2 DEF Job, Steps, Earned, Genuine
    <2>4. CallsOK' /\ Steady(r) /\ wire'[r] = [at |-> "status"] /\ Waits(r)' /\ Right(r)'
      BY <2>1, <2>2, <2>3, Asks DEF Steps, Job
    <2>a. /\ job'[r].send = job[r].send /\ job'[r].challenge = job[r].challenge
          /\ job'[r].jwt = job[r].jwt /\ job'[r].at = "status"
      BY <2>1, <2>2 DEF Job
    <2>b. SignsOwn(r) /\ CarriesOwn(r)
      BY <1>0, <2>1 DEF Holds, Signed, Held
    <2>c. SignsOwn(r)' /\ CarriesOwn(r)'
      BY <2>a, <2>b DEF SignsOwn, CarriesOwn
    <2>5. Holds(r)' /\ Fresh(r)'
      BY <1>0, <2>1, <2>3, <2>4, <2>a, <2>c DEF Holds, Fresh, Earned, Genuine
    <2>6. Owns(r)'
      <3>1. /\ job[r] \in Job /\ job'[r].send = job[r].send
            /\ job'[r].customer = job[r].customer
            /\ OwnTransaction(r, job'[r].id)
            /\ job'[r].id # 0 /\ job'[r].at = "status"
        BY <1>0, <2>1, <2>2 DEF Job
      <3> QED
        BY <1>0, <2>1, <2>3, <3>1, OwnsStay
    <2> QED
      BY <2>1, <2>4, <2>5, <2>6, CallKeeps DEF CallInv
  <1>6. CASE ChallengeAnswered(r)
    <2> DEFINE c == Signs(job[r].send, wire[r].value)
    <2>1. /\ job[r].at = "challenge" /\ wire[r].at = "answer"
          /\ UNCHANGED <<trouble, customers, transactions>>
          /\ \/ /\ job' = [job EXCEPT ![r] =
                       [job[r] EXCEPT !.challenge = c, !.at = "token"]]
                /\ wire' = [wire EXCEPT ![r] = [at |-> "token"]]
             \/ /\ job' = [job EXCEPT ![r] =
                       [job[r] EXCEPT !.challenge = c, !.at = "failed"]]
                /\ wire' = [wire EXCEPT ![r] = [at |-> "none"]]
      BY <1>6 DEF ChallengeAnswered, Answered, Ask, server
    <2>2. /\ job[r] \in Job /\ wire[r].value \in Challenge
          /\ wire[r].value.account = job[r].send.account
      BY <1>0, <2>1 DEF Right
    <2>c. /\ c \in Challenge /\ c.account = job[r].send.account
          /\ c.issuer = job[r].send.challengeOf /\ c.signer = job[r].send.signer
      <3>1. job[r].send \in AllSends
        BY <2>2 DEF Job
      <3> QED
        BY <2>2, <3>1, SendFields DEF Signs, Challenge
    <2>3. PICK place \in {"token", "failed"}, w \in {"token", "none"} :
              /\ job'[r] = [job[r] EXCEPT !.challenge = c, !.at = place]
              /\ job' = [job EXCEPT ![r] = job'[r]]
              /\ wire' = [wire EXCEPT ![r] = [at |-> w]]
              /\ place = "token" => w = "token"
              /\ place = "failed" => w = "none"
      BY <1>0, <2>1
    <2>a. job'[r] \in Job
      BY <2>2, <2>3, <2>c DEF Job, Steps
    <2>b. job'[r].at = place /\ job'[r].challenge = c /\ job'[r].send = job[r].send
      BY <2>2, <2>3 DEF Job
    <2>4. /\ job'[r] \in Job /\ job'[r].at = place /\ job'[r].challenge \in Challenge
          /\ SignsOwn(r)'
      BY <2>a, <2>b, <2>c DEF SignsOwn
    <2>5. wire'[r] = [at |-> w] /\ [at |-> w] \in Wire
      BY <2>3 DEF SendInv, CallsOK, Wire, Steps
    <2>6. CallsOK' /\ Steady(r)
      <3>1. trouble' \in {trouble, [trouble EXCEPT ![r] = TRUE]} /\ wire'[r] \in Wire
        BY <2>1, <2>5
      <3>2. wire' = [wire EXCEPT ![r] = wire'[r]]
        BY <2>3, <2>5
      <3> QED
        BY <2>3, <2>4, <3>1, <3>2, Typed
    <2>7. Waits(r)' /\ Right(r)' /\ Holds(r)' /\ Fresh(r)'
      BY <1>0, <2>1, <2>3, <2>4, <2>5 DEF Waits, Right, Holds, Fresh, Signed, Held, Steps
    <2>8. Owns(r)'
      <3>1. /\ job[r] \in Job /\ job'[r].send = job[r].send
            /\ job'[r].customer = job[r].customer
            /\ job'[r].id = job[r].id
            /\ job'[r].at \notin {"status", "done"}
        BY <1>0, <2>1, <2>2, <2>3, <2>4 DEF Job
      <3> QED
        BY <1>0, <2>1, <2>4, <3>1, OwnsStay
    <2> QED
      BY <2>1, <2>6, <2>7, <2>8, CallKeeps DEF CallInv
  <1>7. CASE StatusAnswered(r)
    <2>1. /\ job'[r] = [job[r] EXCEPT !.at = "done", !.status = wire[r].value,
                                      !.challenge = None, !.jwt = None]
          /\ job[r].at = "status" /\ wire[r].at = "answer"
          /\ job' = [job EXCEPT ![r] = job'[r]]
          /\ wire' = [wire EXCEPT ![r] = [at |-> "none"]]
          /\ UNCHANGED <<trouble, customers, transactions>>
      BY <1>0, <1>7 DEF StatusAnswered, Answered, server
    <2>2. job[r] \in Job /\ wire[r].value = Shown(r) /\ Shown(r) \in Status
      BY <1>0, <2>1 DEF Right
    <2>3. job'[r] \in Job /\ job'[r].at = "done" /\ job'[r].status = Shown(r)'
      BY <2>1, <2>2 DEF Job, Steps, Shown
    <2>4. wire'[r] = [at |-> "none"] /\ [at |-> "none"] \in Wire
      BY <2>1 DEF SendInv, CallsOK, Wire
    <2>5. CallsOK' /\ Steady(r)
      <3>1. trouble' \in {trouble, [trouble EXCEPT ![r] = TRUE]} /\ wire'[r] \in Wire
        BY <2>1, <2>4
      <3>2. wire' = [wire EXCEPT ![r] = wire'[r]]
        BY <2>1, <2>4
      <3> QED
        BY <2>1, <2>3, <3>1, <3>2, Typed
    <2>6. Waits(r)' /\ Right(r)' /\ Holds(r)' /\ Fresh(r)'
      BY <2>3, <2>4 DEF Waits, Right, Holds, Fresh, Signed, Held, Steps
    <2>7. Owns(r)'
      <3>1. /\ job[r] \in Job /\ job'[r].send = job[r].send
            /\ job'[r].customer = job[r].customer
            /\ job'[r].id = job[r].id
            /\ job[r].id # 0
        BY <1>0, <2>1, <2>2, <2>3 DEF Job, Owns, Idle, Steps
      <3> QED
        BY <1>0, <2>1, <2>3, <3>1, OwnsStay
    <2> QED
      BY <2>1, <2>5, <2>6, <2>7, CallKeeps DEF CallInv
  <1>8. CASE Refused(r) \/ Lose(r)
    <2>1. /\ job'[r] = [job[r] EXCEPT !.at = "failed"] /\ job[r].at \in Steps
          /\ job' = [job EXCEPT ![r] = job'[r]]
          /\ wire'[r] \in {wire[r], [at |-> "none"]}
          /\ wire' = [wire EXCEPT ![r] = wire'[r]]
          /\ trouble' \in {trouble, [trouble EXCEPT ![r] = TRUE]}
          /\ UNCHANGED <<customers, transactions>>
      <3>1. wire \in [Calls -> Wire]
        BY DEF SendInv, CallsOK
      <3> QED
        BY <1>0, <1>8, <3>1 DEF Refused, Lose, Fail, server
    <2>2. job[r] \in Job
      BY <1>0, <2>1 DEF Steps
    <2>3. job'[r] \in Job /\ job'[r].at = "failed"
      BY <2>1, <2>2 DEF Job
    <2>4. wire'[r] \in Wire
      BY <1>0, <2>1 DEF Wire
    <2>5. CallsOK' /\ Steady(r)
      BY <2>1, <2>3, <2>4, Typed
    <2>6. Waits(r)' /\ Right(r)' /\ Fresh(r)'
      BY <1>0, <2>1, <2>3 DEF Waits, Right, Fresh, Steps
    <2>7. Holds(r)'
      BY <1>0, <2>1, <2>2, <2>3
      DEF Holds, Earned, Genuine, SignsOwn, CarriesOwn, Signed, Held, Job
    <2>8. Owns(r)'
      <3>1. /\ job[r] \in Job /\ job'[r].send = job[r].send
            /\ job'[r].customer = job[r].customer
            /\ job'[r].id = job[r].id
            /\ job'[r].at \notin {"status", "done"}
        BY <1>0, <2>1, <2>2 DEF Job
      <3> QED
        BY <1>0, <2>1, <2>3, <3>1, OwnsStay
    <2> QED
      BY <2>1, <2>5, <2>6, <2>7, <2>8, CallKeeps DEF CallInv
  <1> QED
    BY <1>1, <1>2, <1>3, <1>4, <1>5, <1>6, <1>7, <1>8 DEF Client

\* The server.  Its replies leave what the client holds as it is.
LEMMA Replies ==
    ASSUME SendInv, NEW r \in Calls, wire[r].at # "none",
           UNCHANGED job, wire' = [wire EXCEPT ![r] = wire'[r]], wire'[r] \in Wire,
           trouble' \in {trouble, [trouble EXCEPT ![r] = TRUE]}
    PROVE  CallsOK' /\ Steady(r) /\ job'[r] = job[r] /\ job[r] \in Job
  <1>1. job[r] \in Job
    BY Known
  <1>2. job' = [job EXCEPT ![r] = job'[r]] /\ job'[r] \in Job
    BY <1>1 DEF SendInv, CallsOK
  <1> QED
    BY <1>1, <1>2, Typed

LEMMA Throws ==
    ASSUME SendInv, RInv', NEW r \in Calls, wire[r].at # "none", Throw(r),
           UNCHANGED <<job, customers, transactions>>,
           trouble' \in {trouble, [trouble EXCEPT ![r] = TRUE]}
    PROVE  SendInv'
  <1>1. wire'[r] = [at |-> "error"] /\ [at |-> "error"] \in Wire
    BY DEF SendInv, CallsOK, Throw, Wire
  <1>2. CallsOK' /\ Steady(r)
    <2>1. wire' = [wire EXCEPT ![r] = wire'[r]]
      BY <1>1 DEF Throw
    <2> QED
      BY <1>1, <2>1, Replies
  <1>3. job[r].at \notin {"idle", "done"} /\ Waits(r) /\ Holds(r) /\ Owns(r) /\ Fresh(r)
    BY Known
  <1>4. Waits(r)' /\ Right(r)' /\ Fresh(r)'
    BY <1>1, <1>3 DEF Waits, Right, Fresh
  <1>5. Holds(r)'
    BY <1>1, <1>3
    DEF Holds, Earned, Genuine, SignsOwn, CarriesOwn, Signed, Held
  <1>6. Owns(r)'
    <2>1. job[r] \in Job
      BY Known
    <2> QED
      BY <1>3, <2>1, OwnsStay DEF Owns, Shown, Idle, Job
  <1> QED
    BY <1>2, <1>4, <1>5, <1>6, CallKeeps DEF CallInv

\* An answer to the step that the call is at, if it still waits for it.
LEMMA Answering ==
    ASSUME SendInv, RInv', NEW r \in Calls, NEW v \in Answers, wire[r].at # "none",
           Answer(r, v), UNCHANGED <<job, customers, transactions, trouble>>,
           \/ job[r].at \in {"toml", "failed"}
           \/ /\ job[r].at = "challenge" /\ v \in Challenge
              /\ v.issuer = This /\ v.account = job[r].send.account
           \/ job[r].at = "token" /\ v # None /\ Earned(r, v)
           \/ job[r].at = "status" /\ v = Shown(r) /\ Shown(r) \in Status
    PROVE  SendInv'
  <1>1. wire'[r] = [at |-> "answer", value |-> v] /\ wire'[r] \in Wire
    BY DEF SendInv, CallsOK, Answer, Wire
  <1>2. CallsOK' /\ Steady(r)
    <2>1. wire' = [wire EXCEPT ![r] = wire'[r]]
      BY <1>1 DEF Answer
    <2>2. trouble' \in {trouble, [trouble EXCEPT ![r] = TRUE]}
      OBVIOUS
    <2> QED
      BY <1>1, <2>1, <2>2, Replies
  <1>3. job[r].at \notin {"idle", "done"} /\ Waits(r) /\ Holds(r) /\ Owns(r) /\ Fresh(r)
    BY Known
  <1>4. Waits(r)' /\ Fresh(r)'
    BY <1>1, <1>3 DEF Waits, Fresh
  <1>5. Right(r)'
    BY <1>1 DEF Right, Earned, Genuine, Shown
  <1>6. Holds(r)'
    BY <1>1, <1>3
    DEF Holds, Earned, Genuine, SignsOwn, CarriesOwn, Signed, Held
  <1>7. Owns(r)'
    <2>1. job[r] \in Job
      BY Known
    <2> QED
      BY <1>3, <2>1, OwnsStay DEF Owns, Shown, Idle, Job
  <1> QED
    BY <1>2, <1>4, <1>5, <1>6, <1>7, CallKeeps DEF CallInv

LEMMA ServerReads ==
    ASSUME SendInv, RInv', NEW r \in Calls,
           \/ Limit(r) \/ Crash(r) \/ StellarToml(r) \/ CreateChallenge(r)
           \/ VerifyChallenge(r) \/ CreateTransaction(r) \/ GetTransaction(r)
    PROVE  SendInv'
  <1>0. /\ wire[r].at # "none" => job[r] \in Job /\ job[r].at \notin {"idle", "done"}
        /\ Waits(r) /\ Holds(r) /\ Right(r) /\ Owns(r) /\ Fresh(r)
    BY Known
  <1>n. now \in Nat
    BY MaxTimeAssumption DEF SendInv, RInv, RTypeOK
  <1>1. CASE Limit(r) \/ Crash(r)
    <2>1. /\ wire[r].at # "none" /\ Throw(r)
          /\ UNCHANGED <<job, customers, transactions>>
          /\ trouble' \in {trouble, [trouble EXCEPT ![r] = TRUE]}
      BY <1>1 DEF Limit, Crash, Limited, Steps, server
    <2> QED
      BY <2>1, Throws
  <1>2. CASE StellarToml(r)
    <2>1. /\ wire[r].at = "toml" /\ Answer(r, None)
          /\ UNCHANGED <<job, customers, transactions, trouble>>
      BY <1>2 DEF StellarToml, Arrived
    <2>2. job[r].at \in {"toml", "failed"} /\ None \in Answers
      BY <1>0, <2>1 DEF Waits, Job, Steps, Answers
    <2> QED
      BY <2>1, <2>2, Answering
  <1>3. CASE CreateChallenge(r)
    <2> DEFINE v == [account |-> job[r].send.account, issuer |-> This,
                     domain |-> HomeDomain, minTime |-> now, signer |-> None]
    <2>1. /\ wire[r].at = "challenge" /\ Answer(r, v)
          /\ UNCHANGED <<job, customers, transactions, trouble>>
      BY <1>3 DEF CreateChallenge, Arrived
    <2>2. job[r].at \in {"challenge", "failed"} /\ job[r].send \in AllSends
      BY <1>0, <2>1 DEF Waits, Job, Steps
    <2>3. v \in Challenge /\ v \in Answers
      BY <1>n, <2>2, DeploymentAssumption DEF Challenge, Answers
    <2> QED
      BY <2>1, <2>2, <2>3, Answering
  <1>4. CASE VerifyChallenge(r)
    <2> DEFINE c == job[r].challenge
               v == [account |-> c.account, issuer |-> This, exp |-> now + TOKEN_TTL]
    <2>1. /\ wire[r].at = "token"
          /\ \/ ValidChallenge(c, job[r].send.host) /\ SignedByAccount(c) /\ Answer(r, v)
             \/ Throw(r)
          /\ UNCHANGED <<job, customers, transactions, trouble>>
      BY <1>4 DEF VerifyChallenge, Arrived, IssueToken
    <2>2. job[r].at \in {"token", "failed"} /\ c \in Challenge
      BY <1>0, <2>1 DEF Waits, Holds, Job, Steps, Signed
    <2>3. v \in Token /\ v \in Answers
      BY <1>n, <2>2, TtlAssumption, DeploymentAssumption DEF Challenge, Token, Answers
    <2>4. CASE ValidChallenge(c, job[r].send.host) /\ SignedByAccount(c) /\ Answer(r, v)
      <3>1. Earned(r, v)
        BY <1>n, <2>2, <2>3, <2>4, TtlAssumption
        DEF ValidChallenge, SignedByAccount, Earned, Genuine, Challenge
      <3>2. v # None
        BY <2>3, NoneAssumption
      <3> QED
        BY <2>1, <2>2, <2>3, <2>4, <3>1, <3>2, Answering
    <2>5. CASE Throw(r)
      BY <2>1, <2>5, Throws
    <2> QED
      BY <2>1, <2>4, <2>5
  <1>5. CASE GetTransaction(r)
    <2> DEFINE row == transactions[job[r].id]
               v == [id |-> job[r].id, amount |-> row.amount, status |-> row.status]
    <2>1. /\ wire[r].at = "status"
          /\ \/ job[r].id \in 1 .. Len(transactions) /\ Answer(r, v)
             \/ Throw(r)
          /\ UNCHANGED <<job, customers, transactions, trouble>>
      BY <1>5 DEF GetTransaction, Arrived
    <2>2. job[r] \in Job /\ job[r].at \in {"status", "failed"}
      BY <1>0, <2>1 DEF Waits, Job, Steps
    <2>3. CASE job[r].id \in 1 .. Len(transactions) /\ Answer(r, v)
      <3>1. row \in TransactionRow
        BY <2>3 DEF SendInv, Tables
      <3>2. v \in Status /\ v \in Answers
        BY <2>2, <3>1 DEF Job, TransactionRow, Status, Answers
      <3>3. row.status = "pending_sender" /\ job[r] # Idle /\ job[r].id # 0
        BY <2>2, <2>3, <3>1 DEF TransactionRow, Idle
      <3>4. v = Shown(r)
        BY <1>0, <2>2, <3>3 DEF Owns, OwnTransaction, Shown
      <3> QED
        BY <2>1, <2>2, <2>3, <3>2, <3>4, Answering
    <2>4. CASE Throw(r)
      BY <2>1, <2>4, Throws
    <2> QED
      BY <2>1, <2>3, <2>4
  <1>6. CASE CreateTransaction(r)
    <2>1. /\ wire[r].at = "transaction"
          /\ \/ TokenIsValid(job[r].jwt)
                /\ wire' = [wire EXCEPT ![r] = [at |-> "insert", seen |-> now]]
             \/ Throw(r)
          /\ UNCHANGED <<job, customers, transactions, trouble>>
      BY <1>6 DEF CreateTransaction, Arrived
    <2>2. CASE /\ TokenIsValid(job[r].jwt)
               /\ wire' = [wire EXCEPT ![r] = [at |-> "insert", seen |-> now]]
      <3>1. wire'[r] = [at |-> "insert", seen |-> now] /\ wire'[r] \in Wire
        BY <1>n, <2>2 DEF SendInv, CallsOK, Wire
      <3>2. CallsOK' /\ Steady(r) /\ job'[r] = job[r]
        <4>1. /\ wire' = [wire EXCEPT ![r] = wire'[r]]
              /\ trouble' \in {trouble, [trouble EXCEPT ![r] = TRUE]}
          BY <2>1, <2>2, <3>1
        <4> QED
          BY <2>1, <3>1, <4>1, Replies
      <3>3. job[r].at \in {"transaction", "failed"}
        BY <1>0, <2>1 DEF Waits, Job, Steps
      <3>4. Waits(r)' /\ Right(r)' /\ Fresh(r)'
        BY <1>0, <2>1, <3>1, <3>2, <3>3 DEF Waits, Right, Fresh, Steps
      <3>5. Holds(r)'
        BY <1>0, <2>1, <2>2, <3>1, <3>2
        DEF Holds, Earned, Genuine, SignsOwn, CarriesOwn, Signed, Held, TokenIsValid
      <3>6. Owns(r)'
        BY <1>0, <2>1, <3>2 DEF Owns, OwnCustomer, OwnTransaction, Shown
      <3> QED
        BY <2>1, <3>2, <3>4, <3>5, <3>6, CallKeeps DEF CallInv
    <2>3. CASE Throw(r)
      BY <2>1, <2>3, Throws
    <2> QED
      BY <2>1, <2>2, <2>3
  <1> QED
    BY <1>1, <1>2, <1>3, <1>4, <1>5, <1>6

\* A row is added: its caller's own.
LEMMA ServerWrites ==
    ASSUME SendInv, RInv', NEW r \in Calls, PutCustomer(r) \/ InsertTransaction(r)
    PROVE  SendInv'
  <1>0. /\ wire[r].at # "none" => job[r] \in Job /\ job[r].at \notin {"idle", "done"}
        /\ Waits(r) /\ Holds(r) /\ Right(r) /\ Owns(r) /\ Fresh(r)
    BY Known
  <1>t. /\ customers \in Seq(CustomerRow) /\ transactions \in Seq(TransactionRow)
        /\ Len(customers) \in Nat /\ Len(transactions) \in Nat
        /\ OneRegistrationPerCall
    BY DEF SendInv, Tables
  <1>1. CASE PutCustomer(r)
    <2> DEFINE row == [receiver |-> job[r].send.receiver, by |-> r]
               v == [row |-> Len(customers) + 1]
    <2>1. /\ wire[r].at = "customer"
          /\ UNCHANGED <<job, transactions, trouble>>
          /\ \/ customers' = Append(customers, row) /\ Answer(r, v)
             \/ UNCHANGED customers /\ Throw(r)
      BY <1>1 DEF PutCustomer, Arrived
    <2>2. CASE customers' = Append(customers, row) /\ Answer(r, v)
      <3>1. /\ job[r] \in Job /\ job[r].at \in {"customer", "failed"}
            /\ row \in CustomerRow
        BY <1>0, <2>1 DEF Waits, Job, Steps, CustomerRow
      <3>2. wire'[r] = [at |-> "answer", value |-> v] /\ wire'[r] \in Wire
        BY <1>t, <2>2 DEF SendInv, CallsOK, Answer, Wire, Answers
      <3>3. CallsOK' /\ Steady(r) /\ job'[r] = job[r]
        <4>1. /\ wire' = [wire EXCEPT ![r] = wire'[r]]
              /\ trouble' \in {trouble, [trouble EXCEPT ![r] = TRUE]}
          BY <2>1, <2>2, <3>2 DEF Answer
        <4> QED
          BY <2>1, <3>2, <4>1, Replies
      <3>4. /\ customers' \in Seq(CustomerRow) /\ Len(customers') = Len(customers) + 1
            /\ customers'[Len(customers) + 1] = row
            /\ \A c \in 1 .. Len(customers) : customers'[c] = customers[c]
        BY <1>t, <2>2, <3>1
      <3>5. Tables' /\ Grows(r)
        BY <1>t, <2>1, <3>4 DEF Tables, Grows
      <3>6. OneRegistrationPerCall'
        BY <1>t, <2>1, <3>4 DEF OneRegistrationPerCall
      <3>7. /\ \A c \in Nat : OwnCustomer(r, c) => OwnCustomer(r, c)'
            /\ \A i \in Nat : OwnTransaction(r, i) => OwnTransaction(r, i)'
        BY <3>3, <3>5, RowsStay
      <3>8. Waits(r)' /\ Fresh(r)'
        BY <1>0, <2>1, <3>1, <3>2, <3>3 DEF Waits, Fresh, Steps
      <3>9. Right(r)'
        <4>1. v.row \in Nat /\ wire'[r].value.row = Len(customers) + 1
          BY <1>t, <3>2
        <4>2. OwnCustomer(r, wire[r].value.row)'
          BY <1>t, <3>3, <3>4, <4>1 DEF OwnCustomer
        <4> QED
          BY <1>t, <3>1, <3>3, <4>1, <4>2 DEF Right
      <3>10. Holds(r)'
        BY <1>0, <2>1, <3>2, <3>3
        DEF Holds, Earned, Genuine, SignsOwn, CarriesOwn, Signed, Held
      <3>11. Owns(r)'
        BY <1>0, <3>1, <3>3, <3>7 DEF Owns, Shown, Job
      <3>12. \A q \in Calls : q # r => CallInv(q)'
        BY <3>3, <3>5, OthersStay
      <3> QED
        BY <3>3, <3>5, <3>6, <3>8, <3>9, <3>10, <3>11, <3>12 DEF SendInv, CallInv
    <2>3. CASE UNCHANGED customers /\ Throw(r)
      BY <2>1, <2>3, Throws
    <2> QED
      BY <2>1, <2>2, <2>3
  <1>2. CASE InsertTransaction(r)
    <2> DEFINE row == [amount |-> job[r].send.amount, receiver |-> job[r].customer,
                       by |-> r, status |-> "pending_sender"]
               v == [row |-> Len(transactions) + 1]
    <2>1. /\ wire[r].at = "insert"
          /\ UNCHANGED <<job, customers, trouble>>
          /\ \/ /\ job[r].customer \in 1 .. Len(customers)
                /\ transactions' = Append(transactions, row) /\ Answer(r, v)
             \/ UNCHANGED transactions /\ Throw(r)
      BY <1>2 DEF InsertTransaction, Receiver
    <2>2. CASE /\ job[r].customer \in 1 .. Len(customers)
               /\ transactions' = Append(transactions, row) /\ Answer(r, v)
      <3>1. /\ job[r] \in Job /\ job[r].at \in {"transaction", "failed"}
            /\ row \in TransactionRow
        BY <1>0, <2>1 DEF Waits, Job, Steps, TransactionRow
      <3>2. wire'[r] = [at |-> "answer", value |-> v] /\ wire'[r] \in Wire
        BY <1>t, <2>2 DEF SendInv, CallsOK, Answer, Wire, Answers
      <3>3. CallsOK' /\ Steady(r) /\ job'[r] = job[r]
        <4>1. /\ wire' = [wire EXCEPT ![r] = wire'[r]]
              /\ trouble' \in {trouble, [trouble EXCEPT ![r] = TRUE]}
          BY <2>1, <2>2, <3>2 DEF Answer
        <4> QED
          BY <2>1, <3>2, <4>1, Replies
      <3>4. /\ transactions' \in Seq(TransactionRow)
            /\ Len(transactions') = Len(transactions) + 1
            /\ transactions'[Len(transactions) + 1] = row
            /\ \A i \in 1 .. Len(transactions) : transactions'[i] = transactions[i]
        BY <1>t, <2>2, <3>1
      <3>5. Tables' /\ Grows(r)
        BY <1>t, <2>1, <3>4 DEF Tables, Grows
      <3>6. OwnCustomer(r, job[r].customer) /\ job[r] # Idle
        BY <1>0, <2>2, <3>1 DEF Owns, Idle
      <3>7. OneRegistrationPerCall'
        <4>1. \A i \in 1 .. Len(transactions) : transactions[i].by # r
          BY <1>0, <2>1 DEF Fresh
        <4>2. \A i \in 1 .. Len(transactions') :
                  i \in 1 .. Len(transactions) \/ i = Len(transactions) + 1
          BY <1>t, <3>4
        <4>3. /\ row.by = r /\ row.receiver = job[r].customer
              /\ job[r].customer \in 1 .. Len(customers)
              /\ customers[job[r].customer].by = r /\ customers' = customers
          BY <2>1, <3>6 DEF OwnCustomer
        <4>4. ASSUME NEW i \in 1 .. Len(transactions')
              PROVE  /\ transactions'[i].receiver \in 1 .. Len(customers')
                     /\ customers'[transactions'[i].receiver].by = transactions'[i].by
          <5>1. CASE i \in 1 .. Len(transactions)
            BY <1>t, <3>4, <4>3, <5>1 DEF OneRegistrationPerCall
          <5>2. CASE i = Len(transactions) + 1
            BY <3>4, <4>3, <5>2
          <5> QED
            BY <4>2, <5>1, <5>2
        <4>5. ASSUME NEW i \in 1 .. Len(transactions'), NEW j \in 1 .. Len(transactions'),
                     transactions'[i].by = transactions'[j].by
              PROVE  i = j
          <5>1. CASE i \in 1 .. Len(transactions) /\ j \in 1 .. Len(transactions)
            BY <1>t, <3>4, <4>5, <5>1 DEF OneRegistrationPerCall
          <5>2. CASE i = Len(transactions) + 1 \/ j = Len(transactions) + 1
            BY <3>4, <4>1, <4>2, <4>3, <4>5, <5>2
          <5> QED
            BY <4>2, <5>1, <5>2
        <4> QED
          BY <4>4, <4>5 DEF OneRegistrationPerCall
      <3>8. /\ \A c \in Nat : OwnCustomer(r, c) => OwnCustomer(r, c)'
            /\ \A i \in Nat : OwnTransaction(r, i) => OwnTransaction(r, i)'
        BY <3>3, <3>5, RowsStay
      <3>9. Waits(r)' /\ Fresh(r)'
        BY <1>0, <2>1, <3>1, <3>2, <3>3 DEF Waits, Fresh, Steps
      <3>10. Right(r)'
        <4>1. v.row \in Nat /\ wire'[r].value.row = Len(transactions) + 1
          BY <1>t, <3>2
        <4>2. OwnTransaction(r, wire[r].value.row)'
          BY <1>t, <2>1, <3>3, <3>4, <3>6, <4>1 DEF OwnTransaction, OwnCustomer
        <4> QED
          BY <1>t, <3>1, <3>3, <4>1, <4>2 DEF Right
      <3>11. Holds(r)'
        BY <1>0, <2>1, <3>2, <3>3
        DEF Holds, Earned, Genuine, SignsOwn, CarriesOwn, Signed, Held
      <3>12. Owns(r)'
        BY <1>0, <3>1, <3>3, <3>8 DEF Owns, Shown, Job
      <3>13. \A q \in Calls : q # r => CallInv(q)'
        BY <3>3, <3>5, OthersStay
      <3> QED
        BY <2>1, <3>3, <3>5, <3>7, <3>9, <3>10, <3>11, <3>12, <3>13 DEF SendInv, CallInv
    <2>3. CASE UNCHANGED transactions /\ Throw(r)
      BY <2>1, <2>3, Throws
    <2> QED
      BY <2>1, <2>2, <2>3
  <1> QED
    BY <1>1, <1>2

LEMMA SendStep == SendInv /\ [Next]_nvars => SendInv'
  <1> SUFFICES ASSUME SendInv, [Next]_nvars PROVE SendInv'
    OBVIOUS
  <1>1. RInv'
    <2>1. RInv /\ [RNext]_rvars
      BY SeesLimiter DEF SendInv
    <2> QED
      BY <2>1, RateStep
  <1>2. ASSUME NEW r \in Calls, Client(r) \/ Lose(r) \/ \E p \in Sends[r] : Start(r, p)
        PROVE  SendInv'
    BY <1>1, <1>2, ClientStep
  <1>3. ASSUME NEW r \in Calls, Server(r) \/ Crash(r) PROVE SendInv'
    <2>1. CASE PutCustomer(r) \/ InsertTransaction(r)
      BY <1>1, <2>1, ServerWrites
    <2>2. CASE ~(PutCustomer(r) \/ InsertTransaction(r))
      BY <1>1, <1>3, <2>2, ServerReads DEF Server
    <2> QED
      BY <2>1, <2>2
  <1>4. CASE Tick \/ UNCHANGED nvars
    <2>1. UNCHANGED <<customers, transactions, job, wire, trouble>>
      BY <1>4 DEF Tick, nvars
    <2>2. Tables' /\ CallsOK' /\ OneRegistrationPerCall'
      BY <2>1 DEF SendInv, Tables, CallsOK, OneRegistrationPerCall
    <2>3. ASSUME NEW r \in Calls PROVE CallInv(r)'
      <3>1. CallInv(r)
        BY DEF SendInv
      <3>2. Waits(r)' /\ Fresh(r)'
        BY <2>1, <3>1 DEF CallInv, Waits, Fresh
      <3>3. Holds(r)'
        BY <2>1, <3>1 DEF CallInv, Holds, Earned, Genuine, SignsOwn, CarriesOwn
      <3>4. Right(r)'
        BY <2>1, <3>1 DEF CallInv, Right, Earned, Genuine, Shown, OwnCustomer, OwnTransaction
      <3>5. Owns(r)'
        BY <2>1, <3>1 DEF CallInv, Owns, Shown, OwnCustomer, OwnTransaction
      <3> QED
        BY <3>2, <3>3, <3>4, <3>5 DEF CallInv
    <2> QED
      BY <1>1, <2>2, <2>3 DEF SendInv
  <1> QED
    BY <1>2, <1>3, <1>4 DEF Next

LEMMA SendInvariant == Spec => []SendInv
  <1>1. Init => SendInv
    BY SendInit
  <1>2. SendInv /\ [Next]_nvars => SendInv'
    BY SendStep
  <1> QED
    BY <1>1, <1>2, PTL DEF Spec

-----------------------------------------------------------------------------
\* The state of the limiter, the tables and the calls keeps its types
\* (withRateLimit, anchor.repo.ts, sendViaAnchor).
THEOREM SendsAreTyped == Spec => []TypeOK
BY SendInvariant, SendTypes, PTL

\* The anchor runs the limiter: whatever calls and crashes do, its buckets only
\* ever make the steps of RateLimit (withRateLimit around the writing routes).
THEOREM AnchorRunsTheLimiter == Spec => RSpec
  <1>1. Init => RInit
    BY DEF Init
  <1>2. SendInv /\ [Next]_nvars => [RNext]_rvars
    BY SeesLimiter
  <1> QED
    BY <1>1, <1>2, SendInvariant, PTL DEF Spec, RSpec

\* For every capacity and rate, a bucket admits exactly what a sliding window of
\* any length would, whoever asks and however often it refuses (take).
THEOREM BucketsAreWindows == Spec => []BucketIsWindow
  <1>1. SendInv => BucketIsWindow
    BY BucketWindow DEF SendInv
  <1> QED
    BY <1>1, SendInvariant, PTL

\* A call that has given up can still be carried out, but never twice, and with
\* its own receiver (createTransaction, findById).
THEOREM RegistersOnce == Spec => []OneRegistrationPerCall
  <1>1. SendInv => OneRegistrationPerCall
    BY DEF SendInv
  <1> QED
    BY <1>1, SendInvariant, PTL

\* However many calls are at it, each gets its own transaction (sendViaAnchor).
THEOREM GetsItsOwn == Spec => []StatusIsOwn
  <1>1. SendInv => StatusIsOwn
    <2> SUFFICES ASSUME SendInv, NEW r \in Calls, job[r].at = "done"
                 PROVE  /\ job[r].status = Shown(r)
                        /\ job[r].id \in 1 .. Len(transactions)
                        /\ transactions[job[r].id].by = r
                        /\ transactions[job[r].id].amount = job[r].send.amount
                        /\ customers[transactions[job[r].id].receiver].receiver
                               = job[r].send.receiver
      BY DEF StatusIsOwn, Shown
    <2>1. Owns(r) /\ job[r] # Idle
      BY Known DEF Idle
    <2> QED
      BY <2>1 DEF Owns, OwnTransaction, OwnCustomer
  <1> QED
    BY <1>1, SendInvariant, PTL

\* With any callers, and tokens and challenges of any lifetime, kept nowhere: every
\* row is written for a caller with this server's challenge, signed by its account,
\* and this server's token, within their lifetimes (verifyChallenge, verifyToken).
THEOREM RowsAreEarned == Spec => RowsAreAuthenticated
  <1> DEFINE A == /\ Len(customers') > Len(customers) =>
                         EarnedBy(customers'[Len(customers')].by, now)
                  /\ Len(transactions') > Len(transactions) =>
                         LET r == transactions'[Len(transactions')].by
                         IN  wire[r].at = "insert" /\ EarnedBy(r, wire[r].seen)
  <1>1. SendInv /\ [Next]_nvars => [A]_nvars
    <2> SUFFICES ASSUME SendInv, [Next]_nvars PROVE A
      OBVIOUS
    <2>t. /\ customers \in Seq(CustomerRow) /\ transactions \in Seq(TransactionRow)
          /\ Len(customers) \in Nat /\ Len(transactions) \in Nat /\ now \in Nat
      BY MaxTimeAssumption DEF SendInv, Tables, RInv, RTypeOK
    <2>1. ASSUME NEW r \in Calls, NEW t \in Nat, Earned(r, job[r].jwt),
                 job[r].jwt # None, job[r].jwt.issuer = This, t <= job[r].jwt.exp
          PROVE  EarnedBy(r, t)
      <3>1. job[r].challenge # None /\ job[r].challenge.minTime \in Nat
        BY <2>1, NoneAssumption DEF Earned, Genuine, Challenge
      <3>2. job[r].jwt.exp \in Nat
        BY <2>1 DEF Earned, Token
      <3> QED
        BY <2>1, <3>1, <3>2, TtlAssumption DEF Earned, Genuine, EarnedBy
    <2>2. CASE UNCHANGED <<customers, transactions>>
      BY <2>t, <2>2
    <2>3. ASSUME NEW r \in Calls, PutCustomer(r) PROVE A
      <3>1. wire[r].at = "customer" /\ UNCHANGED transactions
        BY <2>3 DEF PutCustomer, Arrived
      <3>2. Earned(r, job[r].jwt)
        BY <3>1, Known DEF Holds, Held
      <3>3. CASE UNCHANGED customers
        BY <2>2, <3>1, <3>3
      <3>4. CASE /\ TokenIsValid(job[r].jwt)
                 /\ customers' = Append(customers,
                        [receiver |-> job[r].send.receiver, by |-> r])
        <4>1. customers'[Len(customers')].by = r
          BY <2>t, <3>4
        <4>2. EarnedBy(r, now)
          BY <2>t, <2>1, <3>2, <3>4 DEF TokenIsValid
        <4> QED
          BY <2>t, <3>1, <4>1, <4>2
      <3> QED
        BY <2>3, <3>3, <3>4 DEF PutCustomer
    <2>4. ASSUME NEW r \in Calls, InsertTransaction(r) PROVE A
      <3>1. wire[r].at = "insert" /\ UNCHANGED customers
        BY <2>4 DEF InsertTransaction
      <3>2. /\ Earned(r, job[r].jwt) /\ wire[r].seen <= job[r].jwt.exp
            /\ job[r].jwt # None /\ job[r].jwt.issuer = This
            /\ wire[r].seen \in Nat
        BY <3>1, Known DEF Holds, Wire, Steps
      <3>3. CASE UNCHANGED transactions
        BY <2>2, <3>1, <3>3
      <3>4. CASE transactions' = Append(transactions,
                     [amount |-> job[r].send.amount, receiver |-> Receiver(r), by |-> r,
                      status |-> "pending_sender"])
        <4>1. transactions'[Len(transactions')].by = r
          BY <2>t, <3>4
        <4>2. EarnedBy(r, wire[r].seen)
          BY <2>1, <3>2
        <4> QED
          BY <2>t, <3>1, <4>1, <4>2
      <3> QED
        BY <2>4, <3>3, <3>4 DEF InsertTransaction
    <2>5. ASSUME NEW r \in Calls,
                 Server(r) \/ Client(r) \/ Lose(r) \/ Crash(r)
                     \/ \E p \in Sends[r] : Start(r, p)
          PROVE  A
      <3>1. CASE PutCustomer(r) \/ InsertTransaction(r)
        BY <2>3, <2>4, <3>1
      <3>2. CASE ~(PutCustomer(r) \/ InsertTransaction(r))
        <4>1. UNCHANGED <<customers, transactions>>
          BY <2>5, <3>2
          DEF Server, Limit, StellarToml, CreateChallenge, VerifyChallenge,
              CreateTransaction, GetTransaction, Client, TomlAnswered, ChallengeAnswered,
              TokenAnswered, CustomerAnswered, TransactionAnswered, StatusAnswered,
              Refused, Lose, Crash, Start, server
        <4> QED
          BY <2>2, <4>1
      <3> QED
        BY <3>1, <3>2
    <2>6. CASE Tick \/ UNCHANGED nvars
      BY <2>2, <2>6 DEF Tick, nvars
    <2> QED
      BY <2>5, <2>6 DEF Next
  <1>2. [][A]_nvars => RowsAreAuthenticated
    BY DEF RowsAreAuthenticated
  <1> QED
    BY <1>1, <1>2, SendInvariant, PTL DEF Spec
-----------------------------------------------------------------------------
(***************************************************************************)
(* How a call ends.  A call gets past a step only if its send has what the *)
(* step asks for, and what went wrong for it stays wrong: time only goes   *)
(* on, and a call that has failed holds on to what it had.                 *)
(***************************************************************************)
Excused(r) ==
    \/ trouble[r]
    \/ ~Acceptable(job[r].send)
    \/ job[r].jwt # None /\ now > job[r].jwt.exp
    \/ job[r].challenge # None
         /\ now > job[r].challenge.minTime + CHALLENGE_TTL + GRACE

SignedRight(p) == p.challengeOf = This /\ p.signer = p.account

Passed(r) ==
    /\ \/ job[r].at \in Held \cup {"done"}
       \/ job[r].at = "token" /\ wire[r].at = "answer"
       => job[r].send.host = HomeDomain /\ SignedRight(job[r].send)
    /\ \/ job[r].at \in {"transaction", "status", "done"}
       \/ job[r].at = "customer" /\ wire[r].at = "answer"
       => job[r].send.complete /\ job[r].send.tokenOf = This
    /\ \/ job[r].at \in {"status", "done"}
       \/ job[r].at = "transaction" /\ wire[r].at \in {"insert", "answer"}
       => job[r].send.supported
    /\ job[r].at = "transaction" => job[r].customer # 0

Deserves(r) ==
    /\ Passed(r)
    /\ job[r].at = "failed" \/ (job[r].at \in Steps /\ wire[r].at = "error") => Excused(r)

DeservedInv == SendInv /\ \A r \in Calls : Deserves(r)

LEMMA NowIsNat == SendInv => now \in Nat
BY MaxTimeAssumption DEF SendInv, RInv, RTypeOK

\* An excuse lasts as long as the call keeps what it holds.
LEMMA ExcuseLasts ==
    ASSUME SendInv, NEW r \in Calls, job[r] \in Job, Excused(r),
           job'[r].send = job[r].send, job'[r].jwt = job[r].jwt,
           job'[r].challenge = job[r].challenge,
           trouble[r] => trouble'[r], now' \in {now, now + 1}
    PROVE  Excused(r)'
  <1>1. now \in Nat
    BY NowIsNat
  <1>2. job[r].jwt # None => job[r].jwt.exp \in Nat
    BY DEF Job, Token
  <1>3. job[r].challenge # None => job[r].challenge.minTime \in Nat
    BY DEF Job, Challenge
  <1> QED
    BY <1>1, <1>2, <1>3, TtlAssumption DEF Excused, Acceptable

\* A call that takes no step.
LEMMA DeservesLasts ==
    ASSUME SendInv, NEW q \in Calls, Deserves(q), job'[q] = job[q], wire'[q] = wire[q],
           trouble[q] => trouble'[q], now' \in {now, now + 1}
    PROVE  Deserves(q)'
  <1>1. Passed(q)'
    BY DEF Deserves, Passed
  <1>2. CASE job[q].at = "failed" \/ (job[q].at \in Steps /\ wire[q].at = "error")
    <2>1. job[q] \in Job
      BY <1>2, Known DEF Steps
    <2>2. Excused(q)'
      BY <1>2, <2>1, ExcuseLasts DEF Deserves
    <2> QED
      BY <1>1, <2>2 DEF Deserves
  <1>3. CASE ~(job[q].at = "failed" \/ (job[q].at \in Steps /\ wire[q].at = "error"))
    BY <1>1, <1>3 DEF Deserves
  <1> QED
    BY <1>2, <1>3

\* A call that the server turns away.
LEMMA DeservesRefusal ==
    ASSUME SendInv, NEW r \in Calls, Deserves(r), wire[r].at # "none", Throw(r),
           UNCHANGED <<job, now>>, trouble[r] => trouble'[r],
           job[r].at \in Steps => Excused(r)'
    PROVE  Deserves(r)'
  <1>1. wire'[r] = [at |-> "error"] /\ job[r] \in Job
    BY Known DEF SendInv, CallsOK, Throw
  <1>2. Passed(r)'
    BY <1>1 DEF Deserves, Passed
  <1>3. job[r].at = "failed" => Excused(r)'
    BY <1>1, ExcuseLasts DEF Deserves
  <1> QED
    BY <1>1, <1>2, <1>3 DEF Deserves

\* A call that the server takes a step further.
LEMMA DeservesAnswer ==
    ASSUME SendInv, NEW r \in Calls, Deserves(r), wire[r].at # "none",
           UNCHANGED <<job, now, trouble>>, wire'[r].at \in {"answer", "insert"},
           job[r].at = "token" =>
               job[r].send.host = HomeDomain /\ SignedRight(job[r].send),
           job[r].at = "customer" =>
               job[r].send.complete /\ job[r].send.tokenOf = This,
           job[r].at = "transaction" => job[r].send.supported
    PROVE  Deserves(r)'
  <1>1. Passed(r)'
    BY DEF Deserves, Passed
  <1>2. job[r].at = "failed" => Excused(r)'
    BY DEF Deserves, Excused, Acceptable
  <1> QED
    BY <1>1, <1>2 DEF Deserves

LEMMA ServerDeserves ==
    ASSUME SendInv, NEW r \in Calls, Deserves(r), Server(r) \/ Crash(r)
    PROVE  Deserves(r)'
  <1>0. /\ wire[r].at # "none" => job[r] \in Job /\ job[r].at \notin {"idle", "done"}
        /\ Waits(r) /\ Holds(r) /\ Owns(r) /\ wire[r] \in Wire
        /\ wire \in [Calls -> Wire] /\ trouble \in [Calls -> BOOLEAN] /\ now \in Nat
    BY Known, NowIsNat DEF SendInv, CallsOK
  <1>1. ASSUME NEW v, Answer(r, v) PROVE wire'[r].at = "answer"
    BY <1>0, <1>1 DEF Answer
  <1>2. CASE Limit(r) \/ Crash(r)
    <2>1. /\ wire[r].at # "none" /\ Throw(r) /\ UNCHANGED <<job, now>> /\ trouble'[r]
      BY <1>0, <1>2 DEF Limit, Crash, Limited, Steps, server
    <2>2. Excused(r)'
      BY <2>1 DEF Excused
    <2> QED
      BY <2>1, <2>2, DeservesRefusal
  <1>3. CASE StellarToml(r) \/ CreateChallenge(r)
    <2>1. /\ wire[r].at \in {"toml", "challenge"} /\ wire'[r].at = "answer"
          /\ UNCHANGED <<job, now, trouble>>
      BY <1>1, <1>3 DEF StellarToml, CreateChallenge, Arrived
    <2>2. job[r].at \notin {"token", "customer", "transaction"}
      BY <1>0, <2>1 DEF Waits, Steps
    <2> QED
      BY <2>1, <2>2, DeservesAnswer
  <1>4. CASE VerifyChallenge(r)
    <2>1. wire[r].at = "token" /\ UNCHANGED <<job, now, trouble>>
      BY <1>4 DEF VerifyChallenge, Arrived
    <2>2. /\ job[r].challenge \in Challenge /\ job[r].at \in {"token", "failed"}
          /\ SignsOwn(r)
      BY <1>0, <2>1 DEF Holds, Signed, Waits, Job, Steps
    <2> DEFINE ok == ValidChallenge(job[r].challenge, job[r].send.host)
                     /\ SignedByAccount(job[r].challenge)
    <2>3. CASE ok /\ wire'[r].at = "answer"
      <3>1. job[r].send.host = HomeDomain /\ SignedRight(job[r].send)
        BY <2>2, <2>3
        DEF ValidChallenge, SignedByAccount, SignsOwn, SignedRight, Challenge
      <3> QED
        BY <2>1, <2>2, <2>3, <3>1, DeservesAnswer
    <2>4. CASE ~ok /\ Throw(r)
      <3>1. /\ job[r].challenge # None /\ job[r].challenge.domain = HomeDomain
            /\ job[r].challenge.minTime \in Nat
        BY <2>2, NoneAssumption DEF Challenge
      <3>2. Excused(r)
        BY <1>0, <2>2, <2>4, <3>1, TtlAssumption
        DEF ValidChallenge, SignedByAccount, SignsOwn, Excused, Acceptable, Authentic
      <3>3. Excused(r)'
        BY <1>0, <2>1, <3>2, ExcuseLasts
      <3> QED
        BY <2>1, <2>4, <3>3, DeservesRefusal
    <2> QED
      BY <1>1, <1>4, <2>3, <2>4 DEF VerifyChallenge
  <1>5. ASSUME wire[r].at \in Held, ~TokenIsValid(job[r].jwt) PROVE Excused(r)
    <2>1. job[r].jwt \in Token \cup {None} /\ CarriesOwn(r)
      BY <1>0, <1>5 DEF Holds, Earned
    <2>2. CASE job[r].send.tokenOf # This
      BY <2>2 DEF Excused, Acceptable, Authentic
    <2>3. CASE job[r].send.tokenOf = This
      <3>1. job[r].jwt # None /\ job[r].jwt.issuer = This /\ job[r].jwt.exp \in Nat
        BY <2>1, <2>3, DeploymentAssumption DEF CarriesOwn, Token
      <3> QED
        BY <1>0, <1>5, <3>1 DEF Excused, TokenIsValid
    <2> QED
      BY <2>2, <2>3
  <1>6. CASE PutCustomer(r)
    <2>1. wire[r].at = "customer" /\ UNCHANGED <<job, now, trouble>>
      BY <1>6 DEF PutCustomer, Arrived
    <2>2. job[r].at \in {"customer", "failed"}
      BY <1>0, <2>1 DEF Waits, Job, Steps
    <2>3. CASE /\ TokenIsValid(job[r].jwt) /\ job[r].send.complete
               /\ wire'[r].at = "answer"
      <3>1. CarriesOwn(r) /\ job[r].send.tokenOf = This
        BY <1>0, <2>1, <2>3 DEF Holds, Held, CarriesOwn, TokenIsValid
      <3> QED
        BY <2>1, <2>2, <2>3, <3>1, DeservesAnswer
    <2>4. CASE ~(TokenIsValid(job[r].jwt) /\ job[r].send.complete) /\ Throw(r)
      <3>1. Excused(r)
        BY <1>5, <2>1, <2>4 DEF Excused, Acceptable, Held
      <3>2. Excused(r)'
        BY <1>0, <2>1, <3>1, ExcuseLasts
      <3> QED
        BY <2>1, <2>4, <3>2, DeservesRefusal
    <2> QED
      BY <1>1, <1>6, <2>3, <2>4 DEF PutCustomer
  <1>7. CASE CreateTransaction(r)
    <2>1. wire[r].at = "transaction" /\ UNCHANGED <<job, now, trouble>>
      BY <1>7 DEF CreateTransaction, Arrived
    <2>2. job[r].at \in {"transaction", "failed"}
      BY <1>0, <2>1 DEF Waits, Job, Steps
    <2>3. CASE job[r].send.supported /\ wire'[r].at = "insert"
      BY <2>1, <2>2, <2>3, DeservesAnswer
    <2>4. CASE ~(TokenIsValid(job[r].jwt) /\ job[r].send.supported) /\ Throw(r)
      <3>1. Excused(r)
        BY <1>5, <2>1, <2>4 DEF Excused, Acceptable, Held
      <3>2. Excused(r)'
        BY <1>0, <2>1, <3>1, ExcuseLasts
      <3> QED
        BY <2>1, <2>4, <3>2, DeservesRefusal
    <2> QED
      BY <1>0, <1>7, <2>3, <2>4 DEF CreateTransaction, Supports
  <1>8. CASE InsertTransaction(r)
    <2>1. wire[r].at = "insert" /\ UNCHANGED <<job, now, trouble>>
      BY <1>8 DEF InsertTransaction
    <2>2. job[r] \in Job /\ job[r].at \in {"transaction", "failed"}
      BY <1>0, <2>1 DEF Waits, Job, Steps
    <2>3. job[r].at = "transaction" =>
              job[r].customer \in 1 .. Len(customers) /\ job[r].send.supported
      BY <1>0, <2>1, <2>2 DEF Deserves, Passed, Owns, OwnCustomer, Idle
    <2>4. CASE wire'[r].at = "answer"
      BY <2>1, <2>2, <2>3, <2>4, DeservesAnswer
    <2>5. CASE job[r].customer \notin 1 .. Len(customers) /\ Throw(r)
      BY <2>1, <2>2, <2>3, <2>5, DeservesRefusal DEF Steps
    <2> QED
      BY <1>1, <1>8, <2>4, <2>5 DEF InsertTransaction, Receiver
  <1>9. CASE GetTransaction(r)
    <2>1. wire[r].at = "status" /\ UNCHANGED <<job, now, trouble>>
      BY <1>9 DEF GetTransaction, Arrived
    <2>2. job[r] \in Job /\ job[r].at \in {"status", "failed"}
      BY <1>0, <2>1 DEF Waits, Job, Steps
    <2>3. job[r].at = "status" => job[r].id \in 1 .. Len(transactions)
      BY <1>0, <2>2 DEF Owns, OwnTransaction, Idle
    <2>4. CASE wire'[r].at = "answer"
      BY <2>1, <2>2, <2>4, DeservesAnswer
    <2>5. CASE /\ ~(TokenIsValid(job[r].jwt) /\ job[r].id \in 1 .. Len(transactions))
               /\ Throw(r)
      <3>1. job[r].at = "status" => Excused(r)
        BY <1>5, <2>1, <2>3, <2>5 DEF Held
      <3>2. job[r].at = "status" => Excused(r)'
        BY <2>1, <2>2, <3>1, ExcuseLasts
      <3> QED
        BY <2>1, <2>2, <2>5, <3>2, DeservesRefusal DEF Steps
    <2> QED
      BY <1>1, <1>9, <2>4, <2>5 DEF GetTransaction
  <1> QED
    BY <1>2, <1>3, <1>4, <1>6, <1>7, <1>8, <1>9 DEF Server

LEMMA ClientDeserves ==
    ASSUME SendInv, NEW r \in Calls, Deserves(r),
           Client(r) \/ Lose(r) \/ \E p \in Sends[r] : Start(r, p)
    PROVE  Deserves(r)'
  <1>0. /\ job[r] = Idle \/ job[r] \in Job
        /\ job[r].at # "idle" => job[r] \in Job
        /\ Right(r) /\ now \in Nat
        /\ job \in [Calls -> {Idle} \cup Job] /\ wire \in [Calls -> Wire]
        /\ trouble \in [Calls -> BOOLEAN]
    BY Known, NowIsNat DEF SendInv, CallsOK
  <1>1. CASE \E p \in Sends[r] : Start(r, p)
    <2>1. job'[r].at = "toml" /\ wire'[r].at = "toml"
      BY <1>0, <1>1 DEF Start, Ask
    <2> QED
      BY <2>1 DEF Deserves, Passed, Steps, Held
  <1>2. CASE TomlAnswered(r)
    <2>1. /\ job'[r].at = "challenge" /\ wire'[r].at = "challenge"
      BY <1>0, <1>2 DEF TomlAnswered, Answered, Ask, Job
    <2> QED
      BY <2>1 DEF Deserves, Passed, Steps, Held
  <1>3. CASE ChallengeAnswered(r)
    <2> DEFINE v == wire[r].value
               c == Signs(job[r].send, v)
    <2>1. job[r].at = "challenge" /\ wire[r].at = "answer" /\ UNCHANGED <<now, trouble>>
      BY <1>3 DEF ChallengeAnswered, Answered
    <2>2. job[r] \in Job /\ v \in Challenge /\ job[r].send \in AllSends
      BY <1>0, <2>1 DEF Right, Job
    <2>c. c \in Challenge /\ c.minTime = v.minTime
      BY <2>2, SendFields DEF Signs, Challenge
    <2>3. CASE job'[r].at = "token" /\ wire'[r].at = "token"
      BY <2>3 DEF Deserves, Passed, Steps, Held
    <2>4. CASE /\ ~ValidChallenge(v, HomeDomain)
               /\ job'[r] = [job[r] EXCEPT !.challenge = c, !.at = "failed"]
               /\ wire'[r].at = "none"
      <3>1. job'[r].at = "failed" /\ job'[r].challenge = c
        BY <2>2, <2>4 DEF Job
      <3>2. c # None /\ v.domain = HomeDomain /\ c.minTime \in Nat
        BY <2>2, <2>c, NoneAssumption DEF Challenge
      <3>p. job[r].at = "challenge" /\ v.issuer = This
        BY <2>1, <1>0 DEF Right
      <3>3. Excused(r)'
        BY <1>0, <2>1, <2>4, <2>c, <3>1, <3>2, <3>p, TtlAssumption DEF ValidChallenge, Excused
      <3> QED
        BY <2>4, <3>1, <3>3 DEF Deserves, Passed, Held
    <2> DEFINE j == [job[r] EXCEPT !.challenge = c]
    <2>5. j.challenge = c /\ [j EXCEPT !.at = "failed"]
                                 = [job[r] EXCEPT !.challenge = c, !.at = "failed"]
      BY <2>2 DEF Job
    <2>6. IF ValidChallenge(v, HomeDomain)
          THEN /\ job' = [job EXCEPT ![r] = [j EXCEPT !.at = "token"]]
               /\ wire' = [wire EXCEPT ![r] = [at |-> "token"]]
          ELSE /\ job' = [job EXCEPT ![r] = [j EXCEPT !.at = "failed"]]
               /\ wire' = [wire EXCEPT ![r] = [at |-> "none"]]
      BY <1>3, <2>5 DEF ChallengeAnswered, Ask
    <2>7. CASE ValidChallenge(v, HomeDomain)
      <3>1. job'[r] = [j EXCEPT !.at = "token"] /\ wire'[r] = [at |-> "token"]
        BY <1>0, <2>6, <2>7
      <3>2. job'[r].at = "token"
        BY <2>2, <3>1 DEF Job
      <3> QED
        BY <2>3, <3>1, <3>2
    <2>8. CASE ~ValidChallenge(v, HomeDomain)
      <3>1. job'[r] = [j EXCEPT !.at = "failed"] /\ wire'[r] = [at |-> "none"]
        BY <1>0, <2>6, <2>8
      <3> QED
        BY <2>4, <2>5, <2>8, <3>1
    <2> QED
      BY <2>7, <2>8
  <1>4. CASE TokenAnswered(r)
    <2>1. /\ job[r].at = "token" /\ wire[r].at = "answer"
          /\ job'[r] = [job[r] EXCEPT !.jwt = Carries(job[r].send, wire[r].value),
                                      !.at = "customer"]
          /\ wire'[r].at = "customer"
      BY <1>0, <1>4 DEF TokenAnswered, Answered, Ask, Job
    <2>2. job'[r].at = "customer" /\ job'[r].send = job[r].send
      BY <1>0, <2>1 DEF Job
    <2> QED
      BY <2>1, <2>2 DEF Deserves, Passed
  <1>5. CASE CustomerAnswered(r)
    <2>1. /\ job[r].at = "customer" /\ wire[r].at = "answer"
          /\ job'[r] = [job[r] EXCEPT !.customer = wire[r].value.row, !.at = "transaction"]
          /\ wire'[r].at = "transaction"
      BY <1>0, <1>5 DEF CustomerAnswered, Answered, Ask, Job
    <2>2. /\ job'[r].at = "transaction" /\ job'[r].send = job[r].send
          /\ job'[r].customer = wire[r].value.row
      BY <1>0, <2>1 DEF Job
    <2>3. wire[r].value.row # 0
      BY <1>0, <2>1 DEF Right, OwnCustomer
    <2> QED
      BY <2>1, <2>2, <2>3 DEF Deserves, Passed, Held
  <1>6. CASE TransactionAnswered(r)
    <2>1. /\ job[r].at = "transaction" /\ wire[r].at = "answer"
          /\ job'[r] = [job[r] EXCEPT !.id = wire[r].value.row, !.at = "status"]
          /\ wire'[r].at = "status"
      BY <1>0, <1>6 DEF TransactionAnswered, Answered, Ask, Job
    <2>2. job'[r].at = "status" /\ job'[r].send = job[r].send
      BY <1>0, <2>1 DEF Job
    <2> QED
      BY <2>1, <2>2 DEF Deserves, Passed, Held
  <1>7. CASE StatusAnswered(r)
    <2>1. job[r].at = "status" /\ wire'[r].at = "none"
      BY <1>0, <1>7 DEF StatusAnswered, Answered
    <2>2. job'[r].at = "done" /\ job'[r].send = job[r].send
      BY <1>0, <1>7, <2>1 DEF StatusAnswered, Job
    <2> QED
      BY <2>1, <2>2 DEF Deserves, Passed, Held, Steps
  <1>8. CASE Refused(r) \/ Lose(r)
    <2>1. /\ job[r].at \in Steps
          /\ job' = [job EXCEPT ![r].at = "failed"]
          /\ UNCHANGED now
          /\ \/ wire[r].at = "error" /\ UNCHANGED trouble
             \/ trouble' = [trouble EXCEPT ![r] = TRUE]
      BY <1>8 DEF Refused, Lose, Fail
    <2>2. job[r] \in Job
      BY <1>0, <2>1 DEF Steps
    <2>3. /\ job'[r].at = "failed" /\ job'[r].send = job[r].send
          /\ job'[r].jwt = job[r].jwt /\ job'[r].challenge = job[r].challenge
      BY <1>0, <2>1, <2>2 DEF Job
    <2>4. Excused(r)'
      <3>1. CASE wire[r].at = "error" /\ UNCHANGED trouble
        BY <2>1, <2>2, <2>3, <3>1, ExcuseLasts DEF Deserves
      <3>2. CASE trouble' = [trouble EXCEPT ![r] = TRUE]
        BY <1>0, <3>2 DEF Excused
      <3> QED
        BY <2>1, <3>1, <3>2
    <2> QED
      BY <2>3, <2>4 DEF Deserves, Passed, Held
  <1> QED
    BY <1>1, <1>2, <1>3, <1>4, <1>5, <1>6, <1>7, <1>8 DEF Client

LEMMA DeservedStep == DeservedInv /\ [Next]_nvars => DeservedInv'
  <1> SUFFICES ASSUME DeservedInv, [Next]_nvars PROVE DeservedInv'
    OBVIOUS
  <1>1. SendInv /\ SendInv' /\ \A r \in Calls : Deserves(r)
    BY SendStep DEF DeservedInv
  <1>2. ASSUME NEW r \in Calls,
               \/ Client(r) \/ Lose(r) \/ Server(r) \/ Crash(r)
               \/ \E p \in Sends[r] : Start(r, p),
               NEW q \in Calls
        PROVE  Deserves(q)'
    <2>1. CASE q = r
      BY <1>1, <1>2, <2>1, ClientDeserves, ServerDeserves
    <2>2. CASE q # r
      <3>1. job'[q] = job[q] /\ wire'[q] = wire[q] /\ trouble'[q] = trouble[q] /\ now' = now
        <4>1. /\ job \in [Calls -> {Idle} \cup Job] /\ wire \in [Calls -> Wire]
              /\ trouble \in [Calls -> BOOLEAN]
          BY <1>1 DEF SendInv, CallsOK
        <4>2. CASE Client(r) \/ Lose(r) \/ \E p \in Sends[r] : Start(r, p)
          BY <2>2, <4>1, <4>2
          DEF Client, TomlAnswered, ChallengeAnswered, TokenAnswered, CustomerAnswered,
              TransactionAnswered, StatusAnswered, Refused, Lose, Fail, Start, Ask
        <4>3. CASE Server(r) \/ Crash(r)
          BY <2>2, <4>1, <4>3
          DEF Server, Limit, StellarToml, CreateChallenge, VerifyChallenge, PutCustomer,
              CreateTransaction, InsertTransaction, GetTransaction, Crash, Answer, Throw
        <4> QED
          BY <1>2, <4>2, <4>3
      <3> QED
        BY <1>1, <3>1, DeservesLasts
    <2> QED
      BY <2>1, <2>2
  <1>3. ASSUME Tick \/ UNCHANGED nvars, NEW q \in Calls PROVE Deserves(q)'
    <2>1. UNCHANGED <<job, wire, trouble>> /\ now' \in {now, now + 1}
      BY <1>3 DEF Tick, Elapse, nvars
    <2> QED
      BY <1>1, <2>1, DeservesLasts
  <1> QED
    BY <1>1, <1>2, <1>3 DEF Next, DeservedInv

\* A send that the anchor should take fails only for a reason: a connection or a
\* statement that failed, the limiter, or a lifetime that has passed; and no send
\* succeeds that it should not take (sendViaAnchor with anchorServerService).
THEOREM OutcomesAreDeserved == Spec => []OutcomeIsDeserved
  <1>1. Init => DeservedInv
    <2>1. Init => \A r \in Calls : Deserves(r)
      BY DEF Init, Idle, Deserves, Passed, Held, Steps
    <2> QED
      BY <2>1, SendInit DEF DeservedInv
  <1>2. DeservedInv => OutcomeIsDeserved
    BY DEF DeservedInv, Deserves, Passed, OutcomeIsDeserved, Acceptable, Authentic,
           SignedRight, Excused, Held
  <1> QED
    BY <1>1, <1>2, DeservedStep, PTL DEF Spec
=============================================================================
