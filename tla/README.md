# Bakti: a verification project

Bakti lets somebody who works abroad set up a monthly allowance for a parent.
A plan is a row in Postgres; the money moves on Stellar, either as a classic
payment that the wallet signs and submits itself (USDC, or XLM without escrow)
or out of a Soroban contract that was pre-funded with the whole run (XLM). This
directory holds TLA+ models of that code, the TLC runs that check them on small
instances, and TLAPS proofs of the main results for all instances. Paths below
are relative to the repository.

## 1. The system

| Part | Code | State | Operations |
|---|---|---|---|
| Escrow contract | `contracts/bakti-escrow/src` | admin, token, next id (instance); one schedule per id (persistent); one token balance | `initialize`, `create_schedule`, `release`, four views |
| Plan records | `src/server/service/allowance.service.ts`, `allowance.repo.ts` | `allowances` rows: active, paused, ended | `create`, `buildEscrow`, `createEscrowed`, `changeStatus`, `list`, `getOwned` |
| Payout records | `src/server/service/payout.service.ts`, `payout.repo.ts` | `payouts` rows: plan, month, scheduled or sent, unique `tx_hash` | `recordPayment`, `buildRelease`, `recordRelease`, `ensureScheduled`, `markCollected` |
| Payment verification | `src/server/stellar/horizon.ts` | none | `verifyAllowancePayment` |
| Soroban glue | `src/server/stellar/contract.ts` | a promise chain per account and process | build and simulate, validate a signed invocation, submit and poll |
| Sign-in | `auth.service.ts`, `auth.repo.ts`, `withAuth.ts` | nonces, sessions | challenge, verify, mint, destroy |
| Rate limit | `withRateLimit.ts` | a token bucket per address and process | `take` |
| Anchor server (stub) | `anchor-server.service.ts`, `anchor.repo.ts`, `anchor-token.ts` | customers, transactions; challenges and tokens are kept nowhere | SEP-1, SEP-10, SEP-12, SEP-31 |
| Anchor client | `stellar/anchor/` | what one call holds | toml, challenge, token, customer, transaction, status in a chain |
| Amounts | `lib/amount.ts`, `ui/lib/format.ts` | none | parse, print, split |
| Wallet of a tab | `ui/wallet/WalletProvider.tsx`, `auth.controller.ts` | the tab's status and key; the browser's cookie | mount, connect, disconnect |
| A plan's page | `app/allowances/[id]/page.tsx`, `stellarClient.ts` | a copy of the plan, busy, loading, the handler at work | send this month, enable USDC, pause, resume, end |
| Dashboard | `app/dashboard/page.tsx` | the list, the form, the submissions under way | open and close the form, submit |
| Configuration | `config/env.ts`, `config/env.public.ts`, `stellar/network.ts` | the environment of either side | tables and overrides |
| Statistics, landing page, scripts | `stats.service.ts`, `app/page.tsx`, `scripts/` | none | read-only or one-off |

How they interact. The browser asks the server for an unsigned invocation
(`buildEscrow`, `buildRelease`), has the wallet sign it and posts it back; the
server validates it, submits it, polls until it lands and then writes its rows.
A classic payment is submitted by the browser; the server is only told the hash
and looks it up on Horizon. Requests carry the cookie of their moment, which
belongs to all tabs of the browser, while a page holds the key it connected
with. The contract knows nothing of the plans: anybody may call `release` at any
time, and pausing a plan does not pause its schedule. No cron job drives
anything. The anchor is separate: a client chain of six requests that can be run
against the stub anchor in the same server, behind the rate limiter.

What is hard. Requests interleave at every `await`: there are no database
transactions, and the only constraint across rows is the unique `tx_hash`. The
chain and the database are written one after the other with a crash, a timeout
or a lost answer possible in between. The contract pools every schedule's money
in one balance and cannot refund. In the browser a handler goes on with what it
captured while the wallet, the form and the cookie change under it. The anchor
remembers nothing of what it has signed, and its client neither retries nor
undoes. `PROJECT.json` lists these hazards line by line with the properties that
watch them.

What makes each part correct:

- contract: it can always pay what it owes; it pays only what is due, to whom it
  was promised; a late release moves nothing; nobody can change the terms;
- plan records: the lifecycle is a machine without a way out of `ended`;
- payout records: a record marked sent has a successful payment of that plan
  behind it, no hash counts twice, no record is lost or overwritten, a plan that
  is paused or ended takes no new payments;
- Soroban glue: an answer tells the truth about the chain, and what has landed
  is recorded sooner or later;
- sign-in: an accepted session was earned by its key, and replays are bounded;
- rate limit: a bucket is a sliding window, no stricter and no laxer;
- anchor: what it stores was authenticated, by its own challenge and its own
  token, and belongs to the call that asked; a call that dies leaves at most one
  registration, and a failure has a reason;
- browser: the key a tab shows is the one its requests are made for, a loss is
  never silent, and whatever fails, the page does not stick;
- amounts: they keep their value from the form to stroops and back.

## 2. The modules

`BaktiEscrow` models the contract: one action per entry point, with the error
returns as guards (an invocation that fails leaves no trace). `schedules`,
`nextId`, `admin` are the storage; `balance` and `open` are the token and the
network, external; `terms` is a history variable, the arguments each schedule
was created with. Widths matter: `u32` and `i128` are bounds that make a call
trap (`overflow-checks = true` in `contracts/Cargo.toml`).

`StandingOrder` is what the contract promises, without any of its machinery: a
pot per order, paid out by the agreed calendar. `BaktiEscrow` maps its state to
it (`Promise`, `KeepsThePromise`): the pot of a schedule is the months not yet
released, though the contract has a single balance and stores no such number.

`Sums` adds up the numbers of a sequence: what the contract owes for all its
schedules (`Liability`, against which its balance is measured in `Solvent`), and
the `reduce` of the amounts.

`PayoutRecords` models the two tables and the handlers that write them, with any
number of requests in flight. An action is what a handler does from one await to
the next; `job[r]` holds its locals (where it stands, the plan, transaction,
month and row it carries). A handler may die at any await (`Abort`). The
network and the browser are external: a transaction is unsent, pending, landed
or failed, and `Covers` says which plans a transaction matches, so that two
plans with the same recipient and amount can claim one payment. A hash is given
to `recordPayment` as a text, which the code neither parses nor normalises:
`Hashes` are the texts, `Named` says which transaction Horizon finds under each,
and the duplicate check and the unique `tx_hash` compare texts. The hash of a
release is computed by the server and has one spelling.

`PaymentBook` is what these tables promise, without handlers, rows or a queue: a
book to which lines are added, one for each release and one for each text that
names a payment, while its plan is active and for a month that has come; a plan
that goes from one status to the next and stays ended. `PayoutRecords` maps its state to it (`Book`, `KeepsTheBook`): the lines
are the rows marked sent, the transactions that took effect are those that landed.

`EscrowFlow` puts the Soroban glue and its callers around the contract: it
`EXTENDS BaktiEscrow`, and the network's `ApplyCreate` and `ApplyRelease` are the
contract's own actions. The browser has a call built, holds it, and posts it to
any of the server processes as often as it likes; a handler waits for its turn in
the line that its process keeps for the account (`lock`), and carries what it
knows (`job[r]`) across its awaits. `tx` is what has been built and what became
of it, `seq` the account's sequence number, `plan` the `allowances` rows that have
a schedule, `recorded` the releases that became a payout. One account is
followed; the others are `Others`. Expiry, loss, failure on the chain, a browser
that spends the sequence number elsewhere and the death of a process may come at
any time. The status of plans and the rows of payouts are not repeated here.

`AuthSession` models sign-in: `nonces` and `sessions` are the two tables, `signed`
what the wallets have signed (the account chosen in the wallet need not be the one
the challenge was issued for), `job[r]` a verification with its three statements
(`Find`, `Consume`, `MintSession`). A session keeps, as history, the challenge it
was minted for.

`RateLimit` is the token bucket. Tokens are counted in the milliseconds they take
to be gained, which leaves out only the rounding of the code's floating point.
`spent` is history: what each address was charged before each moment.

`AnchorSend` composes the limiter, the anchor server and the client chain.
`customers` and `transactions` are the two tables; `job[r]` is what a call holds
(challenge, token, customer, transaction); `wire[r]` is its one request, from the
sending to the answer. A challenge and a token carry which deployment issued
them, a signed challenge who signed it: the account it names or another key. A
call may present what another deployment issued, or no token, or a signature of
somebody else, and `VerifyChallenge` and `TokenIsValid` test all of that. A
request whose caller has given up may still reach the server. Time passes between
any two steps, so that a challenge or a token can expire on the way; the challenge is issued for the `home_domain` of the query and
verified against the Host header, which may be another name of the server.

`WalletSession` is the wallet as one tab knows it: the tab's `status` and
`publicKey`, the calls of the provider in progress (`flow`), and the browser's
`cookie`, which other tabs change as well. Connecting goes through four answers,
two of the wallet and two of the server (`access`, `challenge`, `sign`, `verify`);
signing out is two steps, the server's (`SessionDestroyed`) and the tab's
(`LogoutAnswers`), and between them the tab is connected without a session. A
page that is left or reloaded mounts the provider again (`Mount`).

`PlanPage` puts the page of one plan over it: the copy it shows, its fetches, the
handler of the button that was pressed (`op`) with what it captured, the plan on
the server, and the transactions it leaves on the chain with or without a record.
The server's side of a request is a single step here, which may succeed with its
answer lost; how requests interleave inside the server is the subject of
`PayoutRecords` and `EscrowFlow`.

`PlanForm` puts the dashboard over the same wallet, and over `NetworkConfig` and
`Amounts`: submissions of the form go on by themselves (`save[v]`) while the form
is closed, opened and submitted again and the wallet changes.

`NetworkConfig` computes what either side believes of the network from the
environment it was started with: the browser and the server read different
variables, and a signature is good for one passphrase.

`Amounts` has the conversions of the server as functions. A text is the number it
spells, with its places. `PlanForm` extends it to have it checked with it:
`AmountsAreExact` and `SharesAddUp` say of every amount that a submission may have
what `ConversionsAreExact` and `SplitsAreComplete` say of the functions; nothing in
its state depends on an amount. The texts, whole numbers and shares it is tried
with are parameters: the runs give them small values, the proofs any.

| TLA+ | Code |
|---|---|
| `Initialize`, `CreateSchedule`, `Release` | the entry points of `lib.rs` |
| `InsertAllowance`, `InsertFirstPayout` | `insertAllowanceWithFirstPayout` |
| `ChangeStatus`, `SetStatus` | `changeStatus`, before and after its write |
| `RecordPayment`, `CheckDuplicate`, `VerifyAllowancePayment` | `recordPayment` up to `ensureScheduled` |
| `RecordRelease`, `SendTransaction`, `PollTransaction`, `Resend`, `ReturnRecorded` | `recordRelease` with `submitSorobanSigned` |
| `ReadPeriod`, `FindScheduled`, `InsertScheduled` | `ensureScheduled` |
| `MarkSent` | the final `payoutRepo.update` of both |
| `BuildEscrow`, `BuildRelease`, `LoadAccount`, `Simulate` | `buildEscrow`, `buildRelease` down to `assembleForSigning` |
| `CreateEscrowed`, `AcceptsCreate`; `RecordRelease`, `AcceptsRelease` | `createEscrowed`, `recordRelease` and what they validate, up to the lock |
| `Turn`, `Start`, `Left`, `LeftOnError` | `withAccountLock` |
| `Send`, `PollDecided`, `PollAgain`, `LastPoll` | `submitSorobanSigned` |
| `InsertPlan`, `RecordSent` | the write after it |
| `CreateChallenge`; `Verify`, `Find`, `Consume`, `MintSession`; `DestroySession` | `auth.service.ts` |
| `Tokens`, `Admit`, `Refuse` | `take` of `withRateLimit.ts` |
| `Start`, `TomlAnswered` ... `StatusAnswered`, `Refused` | `sendViaAnchor` from one await to the next |
| `StellarToml`, `CreateChallenge`, `VerifyChallenge`, `PutCustomer`, `CreateTransaction`, `InsertTransaction`, `GetTransaction` | `anchor-server.service.ts` |
| `IssueToken`, `TokenIsValid` | `anchor-token.ts` |
| `MeAnswers`, `Connect`, `AccessGranted`, `Challenged`, `ChallengeSigned`, `ConnectSucceeds`, `ConnectFails`, `Disconnect`, `LogoutAnswers` | `WalletProvider.tsx` |
| `Verified`, `SessionDestroyed`, `LogoutHeard` | `verifyChallenge`, `logout` of `auth.controller.ts` |
| `SendThisMonth`, `BuildRelease`, `Sign`, `SubmitSucceeds`, `SubmitFails`, `RecordPayment`, `RecordRelease`, `Refreshed` | `sendThisMonth`, await by await |
| `ChangeStatus`, `Patch`; `EnableUsdc`, `TrustSigned`, `Enabled` | the other buttons of a plan's page |
| `Toggle`, `Submit`, `BuildEscrow`, `SignEscrow`, `Create`, `Succeeds`, `Fails` | the form of the dashboard |
| `Server`, `Browser` | `env.ts` with `network.ts`; `env.public.ts` |
| `ToStroops`, `FromStroops`, `AllocateByShares` | `amount.ts` |

An operator next to a definition whose name says what is wrong with it
(`DueOneEarly`, `FindScheduledUpsert`...) is a mutant: the same definition with a
plausible mistake, used to see that the properties notice it.

## 3. The runs

| Run | Configuration | Shows |
|---|---|---|
| `escrow` | `MCBaktiEscrow.cfg` | terms, calendar, due dates, solvency, payments only by release, the refinement; under a keeper every period is paid |
| `payout_one_request` | `MCPayoutOne.cfg` | one request at a time keeps the lifecycle rules and implements the book of payments |
| `payout_two_requests` | `MCPayoutTwo.cfg` | interleaved requests never count a text twice or a transaction for the wrong plan; races leave few open records; a plan that stops takes only what was under way |
| `payout_ended` | `MCPayoutEnded.cfg` | violated: an ended plan comes back |
| `payout_overwritten` | `MCPayoutKept.cfg` | violated: a recorded payment is overwritten |
| `flow_one_process` | `MCFlowOne.cfg` | in one process an escrow makes at most one plan, and every request is answered |
| `flow_two_processes` | `MCFlowTwo.cfg` | whatever two processes do, plans are backed and recorded releases happened |
| `flow_plan_lost` | `MCFlowPlan.cfg` | violated: an escrow that landed never becomes a plan |
| `sign_in` | `MCAuthSession.cfg` | a session is earned by its key; replays are bounded by the requests at once |
| `anchor_send` | `MCAnchorSend.cfg` | the anchor stores only what its own challenge and token authenticated, once, for its own caller; calls end, and fail only for a reason; the bucket is a sliding window |
| `plan_page` | `MCPlanPage.cfg` | no payment is lost in silence; the page sticks only with the wallet |
| `plan_form` | `MCPlanForm.cfg` | a tab knows its session, the form sticks only with the wallet; amounts keep their value |

Bounds. The contract is checked with two accounts besides its own address, two
schedules, amounts and counts that include the invalid ones, due ledgers before
and after the present, and integer widths small enough to overflow: two
schedules are what it takes for one to live off the other, and four ledgers let
a release come two periods late. The records are checked with two plans (one
escrowed), two payments of which one matches both plans, one release and two
months, and with a second spelling for the payment that matches both; there are
three rows, so that two requests can leave two open records and a third one would
be seen. Two requests are what every race in this code needs, and
`payout_two_requests` declares them symmetric: it has no liveness property, and
its step property does not tell them apart. It has one payment, one release and
one month, in which all the races of a month happen; what crosses from one month
into the next is in `payout_one_request` and in the violated runs. The flow is
checked with two requests (one in `flow_plan_lost`), one create and up to two releases, two polls with a
submission between them, and a ledger clock that lets a second month come due.
In `flow_two_processes` the requests, processes and transactions of a kind are
symmetric. An escrow has at least two possible inputs, so that the wrong one can
be posted. Sign-in has one challenge at a time, two keys, two requests, three
session ids (one more than they can make of one challenge, so that a third would
be seen) and a clock that passes both times to live; everything is symmetric.

`anchor_send` has two calls from one address; one is always good, the other may
be incomplete, unsupported, or asked of the server under another name. The bucket
holds three tokens, less than two calls spend, and gains one per tick, so that a
call is refused in one moment and admitted in the next. The other call may also
sign with another key, hold another deployment's challenge or token, or none.
Both times to live are one tick and the drift allowed is none, with three ticks: a challenge and a token can
each outlive their holder's patience in turn. `plan_page` has the owner and a
guest, a plan with or without escrow, one call of the wallet provider and one
transaction at a time: a handler has one in hand, and the next one meets only
finished ones. `plan_form` has one wallet, two calls of the provider at once, two
submissions and two fetches of the list, and two environments, one where both
sides agree and one where only the server was told its network. Amounts have two places instead of
seven, tried with texts of up to three places and all stroops up to twice the
unit; nothing in the code depends on seven. Which key it is matters on the plan's
page, where a guest may connect, and that calls of the provider overlap matters
on the dashboard; both at once would be too many states, and the proofs hold for
any number of both.

The bounds `MaxLedger`, `MaxSchedules`, `MaxRows`, `MaxPeriod`, `PlanRows`,
`MaxSeq` and `MaxTime` stop the clock or the inserts, so the runs with them do not
check for deadlock; `plan_page` and `plan_form` do.

Fairness. In `escrow`, ledgers keep closing, and for each schedule some caller
keeps trying. The first is the network's; the second is the keeper of the
contract's documentation (`lib.rs:6-8`), which the repository does not ship
(`docs/technical-flow.md:158`): the result says what a deployment with a keeper,
or a sender who keeps clicking, obtains. In `flow_one_process`, a handler whose
next step can run does run: promises settle and calls to the network return.
Nothing is assumed of browsers or of the network's transactions.
`flow_plan_lost` adds a browser that posts its escrow for ever, the most that
could be hoped for, to show that even this does not help. In `anchor_send` the
server answers what it is asked (`withError` makes an answer of whatever is
thrown) and a call goes on with its answer. In `plan_page` and `plan_form` the
fetches and the requests under way come to an end, well or badly. The wallet need
not answer: `requestAccess` may never settle where the extension is missing, since
nothing calls `ensureFreighter`, and no question to it has a timeout, so the
properties leave out the time during which one is open. The user never has to
click anything. No `fetch` in the code has a timeout
of its own, so this assumes that a connection that hangs is closed by somebody.

## 4. What the violated runs show

1. `changeStatus` reads, judges and writes by id alone. A pause and an end that
   both read `active` leave the plan paused after it was ended, and it can be
   resumed and pay again (`payout_ended`).
2. Two recordings of different payments find the same scheduled row, and the
   second overwrites the first. The guard `nextPayoutStatus('sent', 'send')`
   that would refuse it judges the status each request had read. The first
   payment was verified and is recorded nowhere (`payout_overwritten`).
3. An escrow lands while no handler is left to insert its plan: the server was
   killed, the insert failed, or the 28 polls were over (504). Posting it again
   ends in `txBadSeq`, since its number is used. The money is in the contract and
   no plan shows it; nothing reads schedules back from the chain
   (`flow_plan_lost`).

With one request at a time the first two do not happen (`payout_one_request`, and
the proofs of the same properties).

Noticed while modelling, without a run of its own:

- The plan's status is tested before the network round trips and never again; a
  plan paused or ended meanwhile gets its send recorded, against
  `docs/design.md:66`. With one request that cannot happen: `KeepsTheBook` allows a
  line only while the plan is active. With several, `StopsTakeEffect` bounds it by
  the handlers that had passed the test.
- `txHash` is any text, and is compared as it came. Another spelling under which
  Horizon finds the same payment is recorded as another payment; for the hashes
  the application's own pages send, `OneRecordPerSpelling` is one record per
  payment.
- `ensureFreighter` is called by nothing: without the extension a tab may stay
  connecting until it is reloaded.
- A second payment in the month opens a second record; `db/schema/payouts.ts:9`
  speaks of one for a period.
- `sep12.ts:7` says "register (or update)": every registration inserts a row.
- The stub anchor issues a challenge for the `home_domain` it is asked for and
  verifies it against the Host header; under a second name it refuses its own
  challenge.
- An amount typed as `1,000` is escrowed as 1000 and shown as 0 (`fmtAmount`),
  which also shows large amounts through a double and from 1e21 as an exponent.
- `USDC_ASSET_CODE` can be overridden, but `horizon.ts:54` compares with `'USDC'`.
- A plan without escrow belongs to whoever is signed in when the request goes
  out; the form does not say for whom it was filled in (`dashboard/page.tsx:321`).
- A guest who connects on a plan's page keeps seeing the owner's copy when the
  refresh is refused, although the page asks for the wallet that owns the plan
  (`app/allowances/[id]/page.tsx:144-145`).
- `allocateByShares` is called by its tests only.

## 5. The proofs

Eight modules hold proofs, for every value of the constants that satisfies the
named assumptions: no funds are negative, integer widths are natural numbers,
times to live and capacities are positive, placeholders differ from values
(`FundsAssumption`, `WidthAssumption`, `TtlAssumption`, `CapacityAssumption`,
`NoneAssumption`, ...), requests are finitely many (`RequestsAssumption`), a
transaction's own hash names it (`HashesAssumption`), the fields a send must have (`SendsAreRecords`), a plan's
owner is a key (`OwnerAssumption`), shares are percentages that make up 100
(`SharesAssumption`), and `Covers` says of each transaction which
plans it matches (`CoversAssumption`). Theorems with one request or one process
say so with an ASSUME of their own.

`SumsProofs`. What a recursive sum is cannot be had by the library's induction
theorems. It follows from two of its facts that take no operator: a set of numbers
with 0 and every successor is all of them (`SetInduction`, from the least number
outside it), and the set of lengths up to which a sum exists, is equal to another
or covers one of its parts is such a set. `SumOfChanged` is the one that
matters to the contract: a number that changes moves the sum by the difference.

`BaktiEscrowProofs`.

- Terms and calendar. The invariant is `TypeOK`, `TermsKept`,
  `DueDatesNeverDrift` and `NeverPaidEarly` together: the due date of a schedule
  is computed from its last stored one, so that nothing is early only because
  nothing ever drifted, and the terms must not change under it.
- Solvency. `balance >= Liability` is inductive next to it: a new schedule adds to
  both what it was funded with, a release takes a month from both, and everything
  else leaves the sum alone (`LiabilityFollows`). That a single month is covered
  follows because no part is more than the sum (`LiabilityCovers`).
- Refinement. Every step of the contract is a step of `StandingOrder` or leaves
  it unchanged. What has to be shown is that a schedule's pot covers the next
  month, from the counts, and that other schedules' pots do not move.

`PayoutRecordsProofs`.

- Any number of requests. A handler carries a transaction and a row across
  awaits. The invariant states what a handler knows at each place (`Knows`) and
  that this cannot go stale (`Lasts`): a landed transaction stays landed, a row
  keeps its plan. The unique constraint does the rest, and a release has no
  second text (`OwnHash`).
- How many. Sets trade: what the table gains, a request under way gives up
  (`Trade`). A request enters the race for a month's record only when there is no
  open one, or no plan yet (`RacersFindNone`, `PlansExist`), so the open records
  and the racers together are never more than the requests (`FewOrRacing`,
  `OpenRecordsStayFew`). In the same way the handlers that may still record for a
  plan that is not active only become fewer (`RecordingShrinks`, `StopsAreKept`).
- One request at a time. Now what was read is still so when it is used
  (`Undisturbed`), and with it the rules of the lifecycle follow, for any
  number of plans, rows and months: ended is final, sent stays.
  The violated runs show that the assumption is needed.
- Refinement (`RecordsKeepTheBook`), for one request at a time. `SetStatus` moves
  the plan, `MarkSent` writes the line, a settled transaction takes effect, and
  whatever else a handler does, including to die, leaves the book as it is
  (`SameLines`). The row that is marked must be open, or a line would be
  overwritten; its plan must still be active; and its month must have come
  (`Dated`), although it may have been read off the clock months before.

`EscrowFlowProofs`.

- `FlowRunsTheContract`: the flow implements the contract, so the theorems above
  hold in it too, and are stated for it (`FlowKeepsThePromise`).
- `PlansAreBacked`: what is known of a transaction (`Known`: a landed create is
  the schedule it asked for) and what a handler relies on (`Relies`: the
  transaction it submits was handed out, for the input it carries). That a
  backing lasts (`BackingLasts`) needs the contract's own invariant: no later
  call reuses an id. Nothing in it depends on the lock, so it holds for any
  number of processes.
- `RecordsNeverOutrunReleases`: the releases of a schedule that have landed are
  finitely many and at most what the contract has counted, and what is recorded
  is among them (`RecordInv`). Again for any number of processes.
- `FlowTypeCorrect`: a handler counts no more polls than it makes; whoever
  is inside the lock is in his process's line, and whoever works is its first
  (`LineInv`).
- `OneProcessOnePlan`: with one process, an escrow lands under an id that no
  other has, one request at a time awaits it, and no plan has its id yet
  (`OnceInv`). It is stated for one process on purpose: `schedule_id` carries no
  unique constraint, and two processes that poll the same escrow insert two
  plans for it.
- Database and chain together, which is what a user of the system relies on.
  `PlansAreWorthTheirMonths`: the unpaid months of a plan shown as escrowed, at the
  amount it shows, are part of a sum that the contract's balance covers.
  `RecordsNeverOutrunTheCalendar`: as many payouts as are recorded for a schedule
  had fallen due by its agreed calendar. Both join the flow's invariants with the
  contract's.

`AuthSessionProofs`. A verification carries its challenge across two awaits; the
invariant says that what it found still holds (`Knows`), because a nonce never
changes its key or expiry and is never unconsumed (`NonceLasts`). For the replays
it counts: a request that has found a challenge holds the chance of one session,
and the sessions made and the chances held are together no more than the requests
(`Bounded`), since nobody finds a consumed challenge.

`AnchorSendProofs`.

- `BucketsAreWindows`: the tokens of a bucket are what the tightest of all windows
  leaves (`Tight`): none leaves less, and one leaves exactly that. Capping the
  refill opens a new window.
- `AnchorRunsTheLimiter`: the anchor takes no step on the buckets that `RateLimit`
  does not take by itself.
- The calls. What a call holds and what its request is worth speaks of its own
  rows only, and rows are only added, so that a step of one call leaves what is
  known of the others alone (`CallInv`, `OthersStay`). A call that has no
  transaction yet has none in the table (`Fresh`), which is why a request that is
  carried out late cannot be a second one.
- `RowsAreEarned`: a token of this deployment was issued by it for a challenge it
  had issued and the account had signed (`EarnedBy`), so that a row stands for
  both, whatever a call presents.
- `OutcomesAreDeserved`: a call gets past a step only if its send has what the
  step asks for (`Passed`), a known customer and a known transaction cannot be
  missing, and an excuse lasts (`ExcuseLasts`).

`PlanFormProofs`.

- The wallet. Undisturbed, one call of the provider runs alone (`Alone`), and the
  tab's key is the cookie's until it signs out. This is shown of `WalletSession` by itself
  (`WalletsKnowTheirSession`); that the dashboard and a plan's page each run the
  provider (`FormRunsTheWallet`, `PageRunsTheWallet`) carries it over.
- Amounts, which are statements about the functions and not about a state. For
  any number of places: the whole and the fractional part of a
  division put the number together again, so that what `fromStroops` prints is
  read back by `toStroops` (`ReadBack`); shares are rounded down, and what they
  leave of the total is at least 0 and goes to the last (`Allocated`). The sums of
  shares come from `SumsProofs`.

`PlanPageProofs`. What the handler has in hand (`Holds`): nothing until the wallet
has signed, then a transaction without a record until its own handler records it.

Only model-checked: `AllPeriodsPaid`, `EveryRequestAnswered`, `EveryCallEnds`,
`PageSettles` and `FormSettles`, because liveness is out of the prover's reach.
Every other property of a passing run is also the statement of a theorem, but for
`AmountsAreExact` and `SharesAddUp`: what is proved is what they say of the
functions (`AmountsKeepTheirValue`, `SharesMakeUpTheTotal`).

## 6. Not modelled

- Statistics, the landing page, the payment tools panel (it streams Horizon's
  payments for display), markup, wording and scripts: they read, or show, or run
  once. The read-only views of the contract and of the services likewise.
- The time to live of the contract's entries (`storage.rs`). An archived entry is
  restored, with its data, by the transaction that needs it; a model of it would
  only say when that costs a fee.
- Memos of anchor transactions, fees and account reserves of the network, and
  the floating-point rounding of the bucket.
- Of the configuration, what does not decide the network: the remaining variables
  are constants of the modules that use them, or wording. A USDC issuer that
  differs between the sides makes a payment that the server refuses to record,
  one case of a loss that `LossesAreReported` covers.
- XDR, cookies, signatures and the tokens' HMAC are taken to be sound: a signed
  text is the fact that its key has signed it. Who signed what, and who issued it,
  is modelled.
- `fmtAmount`: it prints through floating point, which TLC has not.
- Whose payment or escrow the server accepts from a page is one comparison in one
  step, in the session's request itself; it has no property of its own in the
  pages' modules.
- The contract's callers are accounts; a contract as caller would only move
  `require_auth` elsewhere.
- The server's side of a page's request is one step in `PlanPage` and `PlanForm`.
  A composition with `PayoutRecords` or `EscrowFlow` would multiply their states;
  what the pages rely on is what those modules show of each handler.
