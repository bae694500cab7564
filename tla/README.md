# Moon-Theatre in TLA+

This directory specifies Moon-Theatre (`juben-sha`): a WeChat mini-program in which users buy points, chat with
characters played by language-model agents, and pay for each answer; the server behind it (`apps/api`); and the agent
runtime the server calls (`fastclaw`, a Go program kept in the tree). The models follow the code. TLC checks them on small
instances and TLAPS proves the central theorems for every value of the constants.

## The system

| Part | Source | State it keeps | Operations | What makes it correct |
|---|---|---|---|---|
| wallet | `apps/api/src/server/modules/wallet/service.ts` | `wallet_accounts`, `wallet_transactions` | open, credit, consume, refund, adjust | no lost update, no overdraft, a key moves points once, a replay answers what was recorded |
| admin adjustments and audit | `modules/admin/audit.ts`, `app/api/admin/wallet/adjustments/route.ts` | `admin_audit_logs` | record intent, finalise | points and their author commit together |
| chat turn | `modules/chat/service.ts`, `stream-runner.ts` | `messages` (status, attempt, lease), `chat_generation_attempts`, usage and bond rows | create, retry, charge, generate, refund, finalise, fail | one reply, charged exactly when it was delivered |
| generation recovery | `modules/chat/generation-recovery*.ts` | none of its own | list, settle one attempt | every ambiguous charge is settled, no settled one is disturbed |
| deferred chat effects | `modules/chat/workflow.ts`, `achievements`, `memory`, `relationships` | `chat_effect_runs`, `user_achievements`, `user_titles`, `memories` | claim, run, complete, fail | what a turn earned is granted and announced once, memories are current |
| payments | `modules/payments/*`, `app/api/orders` | `orders`, `payments` | prepay, notice of success or failure | one active payment per order, credited once |
| return messages | `modules/return-messages/service.ts` | `return_messages`, `messages` | check, sweep, read | at most three unread, one per window, known to the agent |
| chat page | `apps/miniapp/src/pages/chat/index.tsx`, `services/api.ts` | the component's states and refs | load, page up, switch mode, send, look up | what is shown belongs to the mode the next message goes to |
| gateway: task queue | `fastclaw/internal/taskqueue/queue.go` | a channel and a worker per chat, a semaphore, the bus | submit, execute, clean up, stop | tasks of a chat one at a time while none outlasts its queue, none lost, each ends |
| gateway: cron | `internal/cron/scheduler.go`, `store/database.go` | `cron_jobs` | poll, lock, fire, update | one replica fires a due job, and one does |
| gateway: groups | `internal/gateway/routing.go`, `dedup.go` | the map of seen posts | deduplicate, match, route | one agent answers, each hears a post once |
| agent sessions | `internal/session/manager.go`, `agent/loop.go`, `agent/slash.go` | the row of `sessions`, caches of each replica | turn, append, read-only turn, commands | no message lost or twice, a history the provider accepts |
| sandboxes | `internal/sandbox/*.go`, `agent/tools` | boxes, pools, the durable store | hydrate, run, snapshot, evict, recreate | the last version of a file survives its box |
| user spaces | `internal/gateway/userspace.go` | the registry's cache | load, invalidate, evict | no space older than its last invalidation |
| sign-in, catalogue, statistics, other pages, console | other modules | single rows | reads and single-row edits | — |

How they interact. The chat page sends `POST /api/chat/stream`, which resolves the turn of a client message id, creates an
attempt row, charges the wallet with key `consume_<message>_<attempt>`, asks the agent runtime over HTTP and streams its
answer, and in one transaction commits reply, usage row, bond and turn status. Where the answer is not to be paid for, it
first refunds with key `refund_<message>_<attempt>`. After the commit, the deferred effects evaluate achievements and
memories. A recovery job (every five minutes, and on an administrator's request) settles attempt rows whose charge or
refund is pending or unknown against the wallet rows. Payments credit the wallet with key `credit_order_<order>`;
administrators adjust it under an advisory lock. Return messages are stored by the server and appended to the agent's
session in the same transaction. In the runtime, a request finds its user's space, in it an agent, in that the session of
its chat; messages of channels and cron jobs come by the bus and the task queue, those of the server by HTTP past it.

What is hard. The server keeps all state in PostgreSQL (READ COMMITTED): every `await` of a handler is a point where
others run and where the process may die; leases expire while their owner still runs; a transaction may commit without
its caller learning of it; recovery races the worker it recovers from, and itself. The runtime keeps caches in every
replica over rows it writes whole; channels, semaphore and bus may be full; boxes vanish. The page is one thread, whose
requests answer in any order. `PROJECT.json` lists each such place as a hazard with the property that covers it.

## The modules

Money (`apps/api`):

- `Ledger` — what the wallet promises: atomic postings, each key at most once, never below zero.
- `Wallet` — the wallet as concurrent transactions, one action per statement: `LockKey` (advisory lock),
  `KeyIsNew`/`Replay` (lookup of the idempotency key), `LockAccount`/`NoAccount` (`FOR UPDATE`, or creation),
  `Write`/`Refuse` (balance comparison, unique index), `Commit`, `Abort`, and for adjustments `FinalizeAudit` /
  `LoseFinalize` after the transaction. `pc[p]` is the statement handler `p` runs next, `seen[p]` the account row it
  read. Writes become visible at `Commit`; a lock taken by `LockAccount` also stands for the uncommitted row of an
  account being created.
- `Purchase` — what buying points promises: an order is credited once, when it was paid for.
- `Payment` — orders and their payment rows. `claimPayment` and the notices hold the order row from their first
  statement to their commit and are one action each (`FirstClaim`, `Reuse`, `TakeOver`, `NotifySuccess`,
  `NotifyFailure`); after its claim a prepay request goes on without a lock, `CallProvider` (outside the database),
  `SavePrepay` or `MarkUnknown`, and may die between them. The wallet is `INSTANCE Ledger`, which `Wallet` implements.
  `OrderInit`, `orderVars`, `points` and the like are named apart from `Wallet`, beside which `MCAccount` runs `Payment`.

Conversation (`apps/api`, `apps/miniapp`):

- `PaidReply` — what a turn promises: one charge per attempt and none after the reply, no refund of what paid for the
  reply, one reply, charged for if it succeeded and free if the platform bears its cost.
- `ChatTurn` — one turn: its user message (`status`, `attempt`, `lease`), up to `MaxAttempts` attempts, each with
  its row (`chargeSt`, `refundSt`), its wallet rows (`consumed`, `refunded`), its worker (`pc`, `verdict`), and
  recovery runs (`rpc`, `rrow`). The worker is cut at its awaits; `Work` is what it does when nothing goes wrong and
  `Fault` what else may happen. A behaviour draws `faults`, the kinds of failure it admits, from the sets in
  `FaultSets`, so that each property can be stated under exactly the failures it survives.
- `ChatEffects` — what follows the commit of a reply: `Claim`, then `Evaluate`, `Seed`, `Compare`, `Unlock`, `Entitle`
  (achievements and titles) or `Remember`, `Forget`, `Insert` (memories), then `Complete` or `MarkFailed`; each statement
  commits by itself, and effects of several turns overlap. A memory is the set of words it says.
- `Inbox` — what return messages promise: one a day, at most `UnreadCap` unread.
- `ReturnMessage` — the return messages of one user and character. `Check` and `Sweep` plan (`CountUnread`, `LookAt`),
  then `Run` their deliveries, which reach the transaction of `deliverReturnMessage` much later: `Enter` is that
  transaction up to the HTTP call to the agent's runtime, `AppendToSession` / `AppendFails` the call, `Commit` /
  `CommitFails` its end.
- `ChatPage` — the chat page of one character in two modes: `Resume`, `SwitchMode`, `ScrollUp`, `Retry` ask for histories
  (`loads`), `History`, `Earlier`, `ListFound`, `ListEmpty`, `LoadFails` apply the answers in any order; `Send` opens a
  stream, `Server` stores, answers or refuses, `Done`, `Refused`, `Breaks`, `Lookup`, `Closes`, `EndsSilently` are what
  the page hears of it. `loadId` is `historyLoadIdRef`.

Agent runtime (`fastclaw/internal`):

- `ChatService` — what the queue promises a line of a chat: its messages are worked on one after another in their order,
  each ends once, and answers go out once, in that order; a queue that is stopped may pass over messages.
- `TaskQueue` — `Submit` finds or makes the queue of a chat under the lock and sends outside of it (`Send`); each worker
  receives, waits for a slot, runs the agent, replies on the bus; `Cleanup` drops idle queues; `Signal`, `Return`,
  `Stop` are the shutdown. `idle` and `busy` count ticks, since a queue was used and since a worker has had its task; a
  task takes as long as it likes, and its queue may be dropped meanwhile. `line` says which queues of a chat follow one
  another: a new line begins with a queue that is made while a task of the chat has been with its worker for more than
  `IdleTimeout` (`Outlived`). Both are history, which no step of the code reads.
- `CronJobs` — replicas `List` due jobs, `Lock` each by an UPDATE, `Fire` it on the bus, `Update` the row; `Delete` by a
  user, `Crash` of a replica. A lock may be taken over after `LockTTL` ticks.
- `GroupRouting` — posts of a Telegram group, one copy per bot: `Deliver`, `Ignore`/`Accept` (deduplication and
  routing by bindings, mention and team), `Expired` entries of the map.
- `AgentSession` — one session: its row, the cached list of each replica or generation of a user space, and requests cut
  at the two locks: `GetRead`/`GetSet`, `AppendNamed`, `Read`, `Compact`, `ModelCalls`, `ToolsAnswer`, `LoopDetected`,
  `PadRead`/`PadWrite`, and the slash commands `Clear`, `Snapshot`/`Trim`, `Undo`, then `Restore` or `DropTurn`. A list is
  `Accepted` by the provider if the result of each call comes next to it.
- `Sandbox` — a session's file in the durable store and in boxes: `WriteFile` (the file tool), `GetExecutor`, `Run`,
  `Recreate`, `Rehydrate`, `Rerun`, `TakeSnapshot`/`PutBack` (the exec tool), `Evict`, `Flush`/`FlushPut`, `Release` (the
  sweep), `Expire` (E2B's own timeout), `Reload` of the user space.
- `UserSpaces` — the registry: `Get`, `LookAgain`, `ReadSettings`, `Store` of requests; `EvictIdle`; and the handlers of
  settings, which commit a change that some spaces have read and name the spaces they will drop, in `ChangeSystem`,
  `ChangeScope`, `SaveTools`, `UpdatePlugin`; then `ListSpaces` and `Invalidate`.

`WalletProofs`, `PaymentProofs`, `ChatTurnProofs`, `BackgroundProofs` (`ReturnMessage`, `ChatEffects`),
`TaskQueueProofs`, `GatewayProofs` (`CronJobs`, `UserSpaces`, `GroupRouting`, `Sandbox`), `AgentSessionProofs` and
`ChatPageProofs` hold the theorems. The `MC` modules are instances for TLC. `MCAccount`, `MCSettles`, `MCGateway` and
`MCAgent` put parts that meet in one place of the system into one instance: a behaviour runs one part, chosen by `part`,
since no statement about one reads another. Where they can they EXTEND the parts, whose operators have names of their own
(`Init`, `EffectInit`, `FilesInit`, ...), so that what TLC checks and what is proved is one definition.

Definitions whose comment begins with "Mutant" are the wrong variants of the definition that follows them, a dropped
guard or a swapped order; no specification uses them. Substituting one makes the property it was written for fail.

### Abstractions

Message texts, prompts, models, tiers and prices are left out; the price of a call is positive. `ChatTurn` uses the wallet
as `Ledger` and `ReplyIsRecorded` describe it: a key takes effect at most once, a repeated call with a key finds its row.
Other turns of the user move the balance between any two steps, so the balance check and the consumption may each go
either way. `Generate` chooses the outcome of the agent, of moderation and of the scope check. A lease is live or expired:
without the fault `lease` it expires only under a worker that has ended. A recovery transaction may fail at any statement
(fault `db`, or `wallet` at the refund) and then marks the refund as unknown. Recovery lists unresolved rows one at a time
instead of up to fifty; a row listed long ago is a run that stays at `row`. The path of `resolveExistingClientTurn` for a
completed turn without a reply is left out: no step leads there.

`Payment` leaves out the answers that change nothing (409, in progress), and the values no code sets: orders `paid`
and `refunded`, the result `provider_error`. Whether a user pays is the user's choice (`Pay`), as soon as any
credential was answered, or, with the mock channel, at will once a payment row exists. Signed notices of failure may
come for any order at any time; those of success in full only for paid ones. `OpenOrderIsPayable` also says that the
last refusal of `claimPayment` (an order in prepay without an active payment) and its second "in progress" branch are
never reached.

In `ReturnMessage` a day is a number, a message is its window, and one user and character stand for all: the advisory
lock, the cap and the unique index are per pair. Only the uncommitted session of a delivery is kept apart (`created`): the
unique index on active free sessions makes any other creator wait, and copies in a session that is rolled back with its
delivery are nobody's. Sessions are never archived in the model. The pool of four of a sweep never limits the at most
three deliveries to one pair. §3.2 of its specification limits deliveries to one per window, and the model follows it; a
sweep that fills three windows delivers three messages on one calendar day, which §3.3 words differently.

In `ChatEffects` one rule of each kind (replies, level, user messages) stands for the rules of that kind. In
`AgentSession` the provider refuses a history in which the result of a call does not come next to it (warnings apart,
which are system messages and lifted out of the list), memory files and prompts are left out, and `CompactMessages` never
gets its summary, because it asks for it without a context. The route that appends messages is modelled for the role its
caller uses, `assistant`; with `user` it would look for a client message id that such messages lack. Slash commands use
the agent's own session manager and the turns of a roleplay agent that of their user, which are two caches of one row.
Histories that other requests overtake are recorded (`stale`, `moved`, `hurt`, `met`), because the code has no lock across
a turn and promises nothing for them. `Sandbox` records in `exposed` the sessions a known circumstance has cost a version
(two calls at work on one session, a rewrite of the same size, a box gone before its snapshot, a failed call), and keeps
its promise for the others. `ChatPage` records in `crossed` and `silent` the three crossings and the silent end of a
stream that the page has no guard for.

## Runs

| Run | Instance | What it shows |
|---|---|---|
| `account` | 3 handlers, 2 users, 4 calls of 5 keys with failures anywhere; 2 orders of one user, 2 prepay requests, 2 channels, notices of every kind; effects of 2 turns with 1 fault | no update is lost, replays answer the record, totals and audit agree with the ledger, some call can always go on; `Wallet` implements `Ledger`; one credential per order, orders in prepay can be paid, credited exactly when paid, `Payment` implements `Purchase`; achievements catch up and are announced once, memories are current |
| `turn_safe` | 2 attempts; every fault with 1 recovery run, or the fenced faults with 2 | free replies are free and attempt rows tell the truth under every fault; behind the fence: one reply, a charge that is neither answered nor given back is listed by recovery, `ChatTurn` implements `PaidReply` |
| `settles` | 2 attempts and 1 recovery run; 1 order and 3 requests; 2 callers, cap 2, 3 days; fair | every turn ends answered or with its charges given back; what was paid for is credited; every recent day has its message or the cap is reached |
| `gateway` | 2 chats, 3 tasks, 2 queues, 1 slot, channels and bus of 1, shutdown; 1 job, 2 replicas, 2 crashes; fair | `TaskQueue` implements `ChatService` for each line of a chat's queues: its tasks run one after another, in order, and are answered once; no send on a closed channel, no task lost, each served; one replica fires a due job, and one does |
| `agent` | 2 replicas, 3 requests of every kind, 1 fault; every configuration of 2 agents and 2 bots; 2 loads, boxes and versions; 2 users, 2 changes; 2 modes, 3 actions of the user | ids are unique, no message lost, calls are answered, next to them unless a round was cut off; a post is heard once; files survive boxes; spaces have seen what was committed when they were invalidated; the page shows its scope, keeps replies, opens its input |
| `queue_beside` | 1 chat, 2 tasks, 2 slots | violated: a second worker of a chat runs beside the first, whose queue was dropped under its task |
| `turn_retry_strands` | fault `wallet` | violated: a charge of a failed attempt is stranded by a quick successful retry |
| `turn_slow_worker` | fault `lease` | violated: two replies |
| `payment_late_unknown` | 1 order | violated: a late failing request overwrites the verified payment of a credited order |
| `return_retry` | 2 callers | violated: a delivery tried again tells the agent twice |
| `session_clear` | 2 replicas, no fault | violated: what `/new` deleted comes back from another replica's cache |
| `page_earlier` | 1 send, 2 actions | violated: earlier messages of one mode appear in the empty page of the other |

The violations are disagreements between the code and its specifications (`docs/specs/2026-11-04-运行时与支付可靠性加固Spec.md`
§4.2 and §7, `2026-08-10-return-message-spec.md` §3.3, `2026-08-17-chat-history-pagination-spec.md`), `CONTEXT.md` or a
comment (`session/manager.go`, `taskqueue/queue.go`); `findings` quotes the lines.

Two more disagreements have no run, but the properties beside them say where they begin. `padOrphanToolResults` is to keep
"the next turn's API call" from a refusal after "any other premature exit" (`agent/loop.go:1144`). It appends at the end
of the list: where a process died in a tool round, or a stream ran in circles, that is behind the user message of the next
turn, and providers refuse the history until `/new` or `/retry` cuts the call away (`cut` in `CallsAnswered`). And
`invalidate` is there "so the in-memory copy doesn't lag behind the DB" (`gateway/userspace.go:592`), but handlers name
fewer spaces than read what they write: `invalidateScope` nobody when the agents cannot be listed, and an agent's owner
when a super_admin has the agent in a space of his own too; the tools page saves the system's settings and names the
caller; the plugins page names nobody; the settings page writes entries of agents of other owners. `SpaceIsFresh` says
what an invalidation is worth where there is one.

Faults outside the fence. The fenced part of `turn_safe` and the theorems that assume `Fenced` exclude three more
circumstances, each of which breaks a property when an instance admits it. The fault `ack`: the reply's COMMIT succeeds
and its answer is lost, so the catch block refunds a committed reply (`DeliveredKeepsCharge`). The fault `usage`: the
usage row of an error event cannot be written, the catch block fails the turn a second time, by then under the next
attempt, which recovery refunds and which then delivers (`DeliveredKeepsCharge`). `ClientId = FALSE` with
the fault `crash`: a turn without a client message id has no status for recovery to find, and a worker that dies after
the charge keeps it (`NothingKeptForNothing`).

Bounds. Two attempts are enough for a stale worker to meet its successor, two recovery runs for them to overlap on one row
and on both; three handlers let two contend while a third moves the balance; two calls per handler let a retry follow its
first call. Two requests let one supersede the other on one order, two orders let keys be mistaken for each other, two
channels let a deployment change between any two steps. The second order is prepaid once the first is settled
(`OneAfterTheOther`): they share the wallet alone, where the postings of `Wallet` meet. `AllObserved` is a view that
forgets the claims of idle requests, which no step reads. Two callers with up to two deliveries each let every
plan go stale, and three days with a cap of two make the cap bite; `MaxCopies` counts copies up to `MaxCopies`. One slot,
channels and a bus of one make every wait of the gateway happen, two queues let a chat have a second one while its first
still works, in the same line or in the next. Two replicas let a lock be taken over and two crashes strand it twice. Three
requests let a message be appended, lost sight of and appended again; `Meeting` in `MCAgent` lets two of them overlap
without a fault, and a third where turns meet appends. One post suffices, since posts of different authors or texts share
nothing. `Followed` stops at a loss that is named. `SomeTaps` lets the user switch there and back with a message on its
way. The proofs have none of these bounds.

Fairness. Workers and handlers are weakly fair in their ordinary steps: Node runs them until they end or die, and a
PostgreSQL lock is released when its transaction ends. The clock is fair. Recovery is strongly fair in listing and
settling, since the scheduler comes back every five minutes over every listed row and its transactions do not fail for
ever. The channel repeats the notice of a payment until it is acknowledged (`WF` of `NotifySuccess`), with the channel
still configured: after a redeployment with another one the notice is refused, so `settles` has one channel. Sweeps come
every hour, and neither the append, nor a commit, nor the process fails every time (`SF` of `Sweep`, `Enter`,
`AppendToSession`, `Commit`). A process that dies while it still plans has done nothing, so `Die` begins with the
deliveries. Goroutines are weakly fair; a worker that waits for the semaphore is strongly fair, since a Go channel serves
blocked senders in their order. The ticker of the cron poll is fair. Clients, users and administrators are not: nobody has
to call or to retry. Deadlock is not checked: handlers end, and a turn at rest has no next step; `SomeCallGoesOn` and
`Served` say what must not wait for ever.

## Theorems

`WalletProofs` (assuming only what `Wallet` assumes of its constants):

- `WalletTypeOK`.
- `WalletNeverOverdrawn`, `WalletImplementsLedger`, `WalletLedgerExplainsBalance`, `WalletKeyPostedOnce` rest on
  `LockInv`: a process past `lock` holds the row of its user, what it has seen is the current row, and a process at
  `commit` alone carries its key and can afford its posting. It is needed because a property of the ledger says nothing
  about values read earlier. `StepPosts` turns it into one sentence, every step posts atomically or leaves balance and
  ledger alone, from which the others follow.
- `WalletAuditMatchesLedger`, from `AuditInv`: only an adjustment that is in the ledger is waiting to be finalised.
- `WalletSomeCallGoesOn`, from `HoldersRun`: whoever holds an account row is past the statement that takes it, whoever
  holds a key is past its own, and a transaction that ended holds nothing. So calls that are under way never all wait for
  each other. The property is stated over the guards of the waits (`Waits`), since ENABLED is out of the prover's reach.
- `WalletReplyIsRecorded`: an answer is the row of its key, whether the call posted it or found it.
- `WalletTotalsExplainBalance`, from `OriginInv` and `ConsumedIsOpen`: every row is some call's, a refund follows the
  consumption it names, and `consumed` is the sum of the consumptions no refund gave back. The clamp at zero could hide
  a point only if a refund gave back more, or twice; `RefundsAssumption`, that callers name a consumption and its
  refund after the same attempt and amount, excludes that, and `ChatTurn` is the code that keeps it. The sums are
  partial sums over a sequence; what holds of them is proved with `UpTo`, an induction over a set of numbers
  (`LeastNumber`, from the well-foundedness of `<`).

`ChatTurnProofs`:

- `TurnTypeOK`, `TurnFreeRepliesAreFree`, `TurnRecordsTellTruth` hold under every fault, for any number of attempts
  and recovery runs. Their invariant `Truth` says at which steps a worker is certain to have charged, and not to have,
  and that recovery starts a refund only for an attempt that was charged.
- `TurnOneReply`, `TurnDeliveredKeepsCharge`, `TurnClosedChargesAreFree`, `TurnCompletedIsFinal` assume `Fenced`: a
  client message id, and none of the faults `lease`, `usage`, `ack`; the findings show that each of these breaks one of
  them. Their invariant `Fence` adds that only the current attempt has a worker that still decides, that a reply
  completes the turn, and that recovery waits for workers.
- `TurnImplementsPaidReply`, from `Truth` and `Fence` and under the same hypothesis: the step that consumes, the step that
  refunds and the commit of the reply are the steps of `PaidReply`, and no other step touches what it speaks of.
- `TurnChargesStayInReach`, the safety half of `NothingKeptForNothing`, from `Reach`: an attempt has its row before its
  charge can exist, and only a reply completes the turn, so that the list of the recovery job has every charge that is
  neither answered nor given back, at the latest when the lease of the latest attempt is over.

`PaymentProofs` (assuming that orders have owners and positive points):

- `PaymentTypeOK`, `PaymentOneCredential`, `PaymentOpenOrderIsPayable`, `PaymentCreditedExactly` follow from one
  invariant: an order before prepay has no payment row and later exactly one, which is active, and has or may get a
  credential, exactly while the order is in prepay; and the wallet holds the key of an order exactly when it is
  credited. `OneCredential` alone is not inductive: that no second row is inserted depends on the order's status, the
  row's `active` column and the notices that change both.
- `PaymentImplementsPurchase`, from the same invariant: only a success notice posts, once, for a paid order.
- `PaymentPaidIsCreditable`, the safety half of `PurchaseFairSpec`, from `PaidIsClaimed`: who pays has seen a credential,
  so the order was claimed, and stays claimed. No requests, faults and notices take a paid order to a state in which its
  notice would be refused while its channel is configured.

`BackgroundProofs`, return messages (a positive cap and number of windows): `ReturnTypeOK`, `ReturnNeverOverCap`,
`ReturnAgentKnowsDelivered`, `ReturnImplementsInbox`. Their invariant `Fenced` says that at most one delivery is past its
count, that its count still admits it (readers only lower it), that its window is still free, and that before its commit
the agent has its message; without it the cap is not inductive, since a commit does not look at the count again.

`BackgroundProofs`, deferred effects (bounds that are numbers, effects that are effects, an obsolete content that is one):

- `EffectsCatchUp`, from `UnlockInv`: a code that is due is unlocked, or some turn still has it on its way (`Brings`),
  in its rules, its comparison or its insertion; the title of an unlocked code is given or on its way; a code is won by
  the one turn whose insertion returned the row, and announced by no other.
- `EffectsTyped`: what is unlocked was seeded, and plans are made of rows that were read and contents that were suggested,
  an induction over the suggestions like the next one.
- `MemoriesCurrent`, from `MemoryInv`: the property itself says nothing of the plan a turn made before its deletion.
  The invariant says that the memories the plan leads to (`Becomes`) stand apart and show the last suggestion, that one
  turn rewrites at a time, and that what it deleted is gone when it inserts. That the plan is right is a fact about the
  loop over the suggestions, for any number of them (`LoopSound`): after each, what is inserted stands apart from what
  is left, and the last suggestion that counts is among them. The loop is a recursive function; `LoopExists` and
  `UpTo` are the induction.

`TaskQueueProofs` (positive capacities):

- `QueueTypeOK`, `QueueNoSendOnClosed`, `QueueNoTaskLost`.
- `QueueLineSerial` and `QueueImplementsChatService`, whatever time tasks take. The invariant `Touched` says that whoever
  may still receive from a queue has touched it since the last tick; so the sweep takes none with a task on its way to
  it, and that Submit sends outside the lock is harmless for this reason alone. A task is another matter, since its queue
  is not touched while it lasts: `Timed` says that a queue was dropped under it only if it has lasted longer than
  `IdleTimeout`, whence `OneLive`, a line of a chat has one queue that still gets or holds a task, with `Counted`, which
  numbers the lines. For the order within a line, `Lined` says that a channel holds its tasks in the order they were
  submitted, behind the one its worker holds and before the one Submit is about to send, whence what a worker executes is
  the first of its line that has not ended (`FirstOfLine`); `Bussed` and `BusOnce` say that the replies of a line wait on
  the bus in that order, each once. What was asked of the service is `Asked`, the lines of the tasks in the order they
  were submitted. Without the lines neither holds, as `queue_beside` shows.
- `QueueNeverStuck`, the safety half of `Served`: slots, channels and bus are bounded, and never all wait for one another:
  a slot is held by a worker that executes, and only the bus can make it wait, which the router empties without waiting.

`GatewayProofs`:

- `JobsTypeOK`, and `JobsAreExclusive`, which assumes `PollsEndInTime`: a poll ends before a lock it took may be taken
  over (five minutes). The invariant says that the lock of a job a replica fires is no older than the replica's poll.
- `SpacesTyped`, `GroupsTyped`: the types, with the bounds of what is counted.
- `SpacesLoaderHoldsLock`, `SpacesAreFresh`, whichever spaces the handlers name. The invariant says that one request
  loads, the holder of the lock, so that what is stored has seen all that was committed when the space was last
  invalidated.
- `PostsAreHeardOnce`, which assumes `CopiesComeInTime`: the copies of a post reach the gateway within the minute the
  map keeps its entry. The invariant says that the entry of a post that was routed is no older than the post, hence
  there while copies may come.
- `FilesTyped`, `FilesWorkIsKept`, for any number of turns, sessions, boxes and loads of the space. The invariant has
  two halves. `Tidy` holds always: an executor belongs to one pool and session, a box to one executor, a call to its
  session. `Kept` holds for a session until it is `exposed`: one call or sweep at a time, in one pool, is at work on
  it, and the last version is in the store while nobody is, in the box once it runs, and in the hand of whoever carries
  it from one to the other. `Tidy` cannot be left out: a step of one session would else reach the box of another.

`AgentSessionProofs` (`NoneIsApart`: the mark of absence is no list and no request):

- `SessionTypeOK`, `SessionIdsUnique`, from `IInv`: whatever is stored, cached, snapshotted or read holds no named message
  twice, a named message is appended only under the lock of the list it is looked for in, and every other write puts
  back what was read, or a part of it.
- `SessionNothingLost`, from `KeptInv`: while nothing hurts, a request that is not overtaken works on a cache and a
  view that have all that was acknowledged, so what it writes back has it too.
- `SessionCallsAnswered`, from `CallInv`: while requests do not meet, the cache of the active one is the row, its
  view is the cache, results in them follow their calls, and only the last call may want one (`OrphansAreLatest`, an
  induction over the list): the loop answers it, pads it, or drops it. As long as no round was cut off (`cut`), only a
  request in its round has a list that is not `Accepted`, and there the call ends it, warnings apart, so that the padding
  comes next to it.

`ChatPageProofs` (`NoSessionIsApart`: a mode without a session is told from every history):

- `PageInputOpens`, from `PageInv`: while a message is on its way its stream says so or ended silently, and while the page
  switches a request for that is out.
- `PageShowsItsScope`, `PageKeepsReplies`, from `CalmInv`: while nothing crossed, the message on its way is the last, of
  the page's mode; older messages that still count were asked for in it; and a history asked for when a message was over
  has its reply, also when it is asked for because the message was refused. Without the last, an answer that replaces the
  messages could drop a reply it was asked for before.
- `PageTyped`, from `Counted`: what was asked for, the lists that may still be found and the messages that may still be
  refused are together at most two for each thing the user did, and two. So `LoadNumbers` hides no answer.

Only model-checked: the liveness properties `NothingKeptForNothing`, `PurchaseFairSpec`, `InboxFillsUp`, `Served`,
`JobsFire` (fairness is out of the prover's reach). `TurnChargesStayInReach`, `PaymentPaidIsCreditable` and
`QueueNeverStuck` prove what the first, the second and the fourth need of safety, that nothing gets to a state from which
it could not go on. `AllTypeOK` of `MCAccount` and `MCAgent` is no theorem of its own: it is the conjunction of the parts'
type invariants, each of which is one (`WalletTypeOK`, `PaymentTypeOK`, `EffectsTyped`; `SessionTypeOK`, `GroupsTyped`,
`FilesTyped`, `SpacesTyped`, `PageTyped`). The assumptions named `...Assumption` are evaluated in every run. The
hypotheses of single theorems are not assumptions of their modules, since the code does not enforce them; the instances
satisfy them.

## Not modelled

The creation of chat sessions by their first turn (a request that loses the race fails before it charges, and its retry
finds the session). Sign-in, catalogue, statistics and the administrator's pages are reads and single-row edits. The other
pages of the mini-program show what one request answers. Of `fastclaw`: providers, channel parsers other than Telegram's,
plugins, the console and the JSONL files of a single process are protocol adapters, presentation, or unused in this
deployment. Scripts and infrastructure are no part of the running program. These make up most of the lines of the
tree, which is why the models stand for a small share of them.

## Plan

1. Done: what moves money (`Wallet`, `ChatTurn`, `Payment`) and `ReturnMessage`, with their proofs.
2. Done: deferred effects, the chat page, and the runtime's queue, cron jobs, groups, sessions, sandboxes and user spaces.
3. Done: a theorem for every safety property the passing runs check, of its parts where a run joins several.
4. Left: turns of two sessions over the tool registry they share (`bindSession`); sessions found or created by turns and
   deliveries at once; refinements of `ChatEffects` and `AgentSession` against specifications of their own, as `Wallet`,
   `Payment`, `ChatTurn`, `ReturnMessage` and `TaskQueue` have.
