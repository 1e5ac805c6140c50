# Verification of runabout

TLA+ models of the repository's stateful programs, the TLC runs that check them
and the TLAPS proofs about them. Paths are relative to the repository (`src/`).

Contents: 1 inventory, 2 modules and the code they model, 3 what each run
checks, 4 bounds, 5 fairness, 6 what is proved, 7 where code and comments
disagree, 8 what is not modelled, 9 what could come next.

## 1. Inventory

runabout is a workspace of Go programs. `cmd/linkari` is by far the largest and
the one with a state that several actors share; `bmux`, `jira-poller`,
`plaid-service` and `internal/consensus` have concurrency of their own. The
others are batch tools, pure evaluators or clients of other services.

### linkari

A phone shares URLs and files with a server. The server stores each share in the
SQLite table `queue`, routes it to an action (a tmux window, a headless command,
or a scoring goroutine inside the server), waits for its score and notifies the
phone through Firebase Cloud Messaging (FCM) by way of the table `push_outbox`.

| part | state it keeps | operations | what makes it correct |
|---|---|---|---|
| share queue (`queue.go`) | rows of `queue`: status, retry_count, retry_after, queued_at, score | `Enqueue`, `EnqueueScored`, `EnqueuePrefiltered`, `EnqueueWithSource`, `MarkRelayed`, `MarkFailed(WithReason)`, `SetCaptured`, `ScoreByURL`, `ScoreByID`, `UpdateScore`, `Archive`, selects | a share is never lost, settles, and stays settled |
| intake (`server.go` `handleShare`) | where each request stands | dedup, prefilter, enqueue, route, mark | the row says what was started for it |
| routing (`handler.go`) | none | `Route`, `handleTemplate` | starts at most what the action says |
| replay loop (`replay.go`) | the batch it read | select pending, route, mark | every pending row is taken again |
| scoring (`server_score.go`, `retry_policy.go`) | a goroutine per share | fetch, evaluate, `retryOrFail`, store, archive, push | the score reaches its own share; retries are bounded and not wasted |
| capture (`server.go` `captureAsync`) | a goroutine per share | fetch, write the artifact, `SetCaptured`, fallback | a capture ends captured or failed |
| watchdog (`watchdog.go`) | the rows it selected, alert ring | select stuck, rescue from disk, mark timed out, alert | only overdue rows time out; none is forgotten |
| callbacks (`/notify`, `/queue/{id}/score`) | a request | store a score from outside | no row of another share changes |
| push outbox (`outbox.go`, `queue.go`) | rows of `push_outbox`: status, attempts, next_attempt, created_at | five writers; drain, prune | a notification is sent or given up, not repeated without need |
| device registry (`devices.go`, `queue.go`) | rows of `devices` | register, upsert, look up, disable | a push reaches a device of its user |
| sources (`firehose.go`, `youtube_*.go`) | `seen_content`, cursors | poll, insert, mark seen, digest | each item is taken once |
| audio pipeline (`youtube.go`, voice notes) | goroutines, retry_count | download, transcribe, retry | retries are bounded |
| HTTP, auth, rate limits (`server.go`) | sessions, invites, buckets | log in, refresh, revoke | limits hold per device |

How they interact: all agents of the server (request handlers, goroutines, two
tickers, the drain worker) share one database handle with one connection
(`SetMaxOpenConns(1)`, `queue.go:140`). One SQL statement is therefore atomic,
and between two statements of one function anything may happen, unless they are
in one transaction (only `EnqueueDigestIfDue` and `UpsertDevice` are). Routing
starts goroutines that nobody waits for and that hold the row's id. The
goroutines die with the process; the tables survive.

What is hard: several agents write the status of a row by its id after they read
it in an earlier statement; a score finds its row by URL; the replay loop and the
watchdog act on lists read some time ago; a restart forgets everything but the
table; most errors of status writes are ignored; FCM's answer and its record are
two steps. Section "hazards" of `PROJECT.json` lists the most important ones, of all
programs, at their lines; sections 7 and 8 below name the others.

### Other programs

| program | state and concurrency | operations | what makes it correct |
|---|---|---|---|
| bmux control bridge (`gateway/ctlbridge`) | FIFO of response channels, the pty, one parser goroutine, Stop | `Send`, `DeliverResponse`, `CancelAll`, `Start`, `Stop`, `runParser` | an answer reaches the call whose command it answers; every call returns; a dead tmux is noticed |
| bmux session registry (`gateway/registry`, `gateway/lifecycle`, `cmd_gateway_wire.go`) | map of sessions, two bounded channels, pump and event loop | `populate`, `apply`, `run`, `Stop`; the manager's `Start` and `Stop` | the map is what tmux has, unless the program lost an event; stopping comes to an end |
| bmux WebSocket gateway (`gateway/ws`) | clients, their queues, subscriptions, the router's channels | accept, `handlePaneAttach`, `handlePaneDetach`, writer, frame streams, `dispatch`, `Stop` | no leaked slot or channel; frames in order, behind their snapshot |
| bmux mirror (`mirror`) | one Node subprocess, pending requests, active panes, idle timers | `Write`, `Snapshot`, `Resize`, `Destroy`, `Close`; reader, watcher, restart | a request is settled once; every call returns; panes survive a crash |
| bmux daemon, reconnect, ssh, pane, config | pid file; retry loop around ssh | start, stop, back off | not modelled |
| jira-poller | lookback window, `seen_events`, `pending_events`, drain worker | poll cycle, `Publish`, `MarkSeen`, drain, expiry | no transition of the window with a readable date is missed; delivered at least once, copies accounted for |
| plaid-service | `plaid_items`, cursors, transactions; overlapping ticks | sync, commit, classify an error, count, give up, link | nothing before the cursor is missing; removed stays removed; items end drained or out of the schedule for a reason |
| internal/consensus | one round of votes over levels, early cancel | vote, compute, escalate | not modelled: nothing in production starts a round |
| castex, chain-eval, effiscore, ghwatch, herdr-watch, hookval, linkari-labeler, mdq, perfgate, protonexport, runway, shellprof, ts-go, wasend; `internal/` firecrawl, registry, secrets, telemetry | no state shared between actors, or pure I/O | | not modelled |

bmux's gateway is a chain: tmux writes to the control connection; the bridge's
parser answers `Send` calls, hands pane output to the router of the WebSocket
gateway, and puts topology events into a channel from which a pump feeds the
registry. The mirror answers the snapshots that an attach sends. The links are
bounded channels that drop, or block, when full, and each module has the two
links of its component.

What is hard in these: a lock is given up between joining a queue and writing to
the pipe; bounded channels drop; a list is newer than the events that follow it;
goroutines outlive the connection that started them; a subprocess dies while
requests wait, and several goroutines decide what becomes of one request; two
cron entries start the same sync; a cursor is stored apart from the rows.

## 2. Modules

| module | models |
|---|---|
| `ShareQueue` | the table `queue` of linkari and every agent that writes its status |
| `PushOutbox` | the table `push_outbox`, its writers and the drain worker |
| `PushDelivery` | abstract: what an outbox promises for each message |
| `Exchange` | abstract: what a call that asks over a shared line is promised |
| `PaneStream` | abstract: what a client sees of a pane it attached to |
| `LedgerCopy` | abstract: what a copy of a ledger promises, whoever makes it |
| `ControlBridge` | bmux: calls of `Send`, the FIFO, the parser and `Stop` |
| `SessionRegistry` | bmux: topology events from the parser to the map, and the manager that starts and stops the chain |
| `PaneGateway` | bmux: WebSocket connections, attaches, and the fan-out of frames |
| `MirrorManager` | bmux: requests to the subprocess that mirrors panes, its death and restart |
| `JiraPoller` | jira-poller: poll cycle, dedupe store, outbox, drain worker, crashes |
| `PlaidSync` | plaid-service: overlapping syncs of an item, cursor and retries |
| `XProofs`, for X each of these but the abstract four | theorems about X |
| `MCX` | X for TLC |
| `MCShareQueueClaims` | a comment's statement about the queue that the code refutes |

Each abstract module has an instance in the module that implements it, with the
refinement mapping, and the abstract specification is a property of its run and a
theorem:

| abstract | implemented by | mapping |
|---|---|---|
| `PushDelivery` | `PushOutbox`, and `JiraPoller`: two outboxes that share no code | the status of a row and the copies that were accepted |
| `Exchange` | `ControlBridge` | a call is idle, open while `Send` is between its queueing and its return, then closed; its reply is what is in its channel; the line is trusted until `skewed` |
| `PaneStream` | `PaneGateway` | an attach is shown once the end of its snapshot is on the socket; what it painted last is the last frame written for it |
| `LedgerCopy` | `PlaidSync` | Plaid's log, the table, the stored cursor; syncs, pages, retries and faults are gone |

ShareQueue and PushOutbox meet at one point only: goroutines of the share queue
insert rows into the outbox, and the outbox never writes the queue. An insert is an
unconditional action of PushOutbox, so nothing that ShareQueue does can
invalidate what is shown of the outbox, and ShareQueue leaves the inserts out.

### ShareQueue

State: `row` (the table), `lastId` (AUTOINCREMENT), `handling` (per row, where
its `/share` request stands), `job` (goroutines and callback requests),
`replay` (rest of the batch, and the row that is routed but unmarked), `sweep`
(rows the watchdog selected, and those it could not rescue). `evalFails` is a
history variable: it counts failed evaluations, which the code does not keep.

One action is one SQL statement together with the code up to the next one:

| code | actions |
|---|---|
| `handleShare` | `ShareEnqueue`, `SharePrefiltered`, then `HandlerRoute`, `HandlerRouteFails` or `HandlerCapture`, then `HandlerMarkRelayed` |
| sync sources, firehose | `SourceEnqueue`, `FirehoseEnqueue` |
| `StartReplay` | `ReplaySelect`, then for each row `ReplayCapture`, `ReplayRoute` and `ReplayMarkRelayed`, or `ReplayRouteFails` |
| `scoreAsync` | `ScoringAborts`; `EvaluationFails`, `RetryOrFail`; `EvaluationOfURL` or `EvaluationOfFile`; `ArchiveItem`; `PersistFails` |
| `ScoreByURL` | `EvaluationOfURL` or `Notify` (first select), `FindOpen` (second select), `UpdateItem` or `InsertScored`, `Reread` |
| `ScoreByID` | `EvaluationOfFile` (select), `UpdateItem` |
| `captureAsync`, `captureScoreFallback` | `SetCaptured`, `CaptureFails`, `CaptureFallsBack` |
| `sweepOnce` | `SweepSelect`, `SweepRescue` or `SweepMiss` per row, `SweepMark` per row |
| `/notify`, `/queue/{id}/score` | `Notify`, `QueueScore` |
| a crash, an error of a write | `Restart`, `WriteFails` |

Abstractions. A URL, or the identity of a file, is a name. An action's kind says
what routing does with it: `url` and `file` start `scoreAsync`, `launch` opens a
window or a command, `auto` is a launch whose row is inserted scored, `capture`
goes to `captureAsync`. A score is the name it was computed for and whether it
reaches the archive threshold. `aged` stands for queued_at before the watchdog's
cutoff and `due` for retry_after reached: two clocks compared in two selects.
Error reasons are kept apart as far as a property mentions them. Content
fetching, prompts, tags, telemetry and wiki contexts are left out.

### PushOutbox

State: `push` (the table), `lastPush`, and `drain` (rest of the snapshot, the row
being sent, FCM's answer). History: copies accepted per row, accepted copies
whose record was lost, failed calls. `EnqueueDigestIfDue` is one action because
the code runs check and insert in one transaction; `EnqueueUnthrottled` stands
for the other writers. The drain pass is `DrainStart` (`PendingPushes`), then per
row `Expire`, `TokenError`, `NoToken`, or `SendStart` followed by FCM's answer
(`SendAccepted`, `SendFails`, `SendAmbiguous`) and its record (`MarkPushSent`,
`RecordFailure`, or `RecordLost` when the write fails). The answer and the record
are separate steps because a crash fits in between.
The outcome of a token lookup is free, since devices come and go at any time.
`Drain` is `WorkerStep` (what the worker does) or `FCMAnswers` (the three ways a call
ends); the two are apart because nothing makes FCM answer.

### ControlBridge

`pc`, `respCh` (each call's channel of capacity one), `queue` (the FIFO),
`wire` (lines whose answer has not been parsed), `collecting` (inside a block),
and Stop's place. `Send` is `Enqueue` under the lock, then `Write` or
`WriteFails` outside it, then an answer (`DeliverResponse`), `Timeout`,
`ContextDone` or cancellation. The parser is `ParseEnd`, `ParseError`,
`ParseDetach` (the answer to Stop's own line, for which nothing is queued),
`ParseEvent` and `ParserEnds`. `StopCancels`, `StopDetaches` and `StopCloses` are
the three parts of `Stop`. `panicked` is a send on the events channel after it
was closed. `skewed` is history: it becomes TRUE where the code lets the FIFO and
the pty get out of step, which is when a command is written out of turn, when a
command fails (`%error` is taken for a line of its block) or at the detach line.

### SessionRegistry

`stream` is the bridge's channel, `eventCh` the registry's, both bounded and both
dropping. `Created` and `Closed` are tmux's reports by name, `Unnamed` a report
that only says that something changed, `Other` pane output that takes room.
`Pump` and `PumpEnds` are the goroutine of `cmd_gateway_wire.go`. `BridgeStart`,
`ListSessions`, `Populate`, `PopulateFails`, `GatewayStarts`, `Stop` and
`Stopped` are the manager; the registry lists the sessions in one step and puts
the list into the map in another, and the events in between stay in the channel.
`Apply`, `SeeStop`, `SeeClosed`, `RelistFails` are the event loop. `lost` is
history: the registry was not told of a change.

### PaneGateway

`reader[c]` is where the goroutine of a connection is, `writer[c]` its writer,
`writeCh[c]` their queue, `sub[k]` an attach: owner, pane, whether the router has
its channel, the frames in the channel, whether its goroutine runs. An attach is
`Subscribe`, `AddSub` (which cancels an earlier attach to the pane), `SendStart`,
`SendSnapshot` or `NoSnapshot`, `SendEnd`; the three sends block on a full queue
until the *gateway's* context ends (`SendCancelled`). `Emit` and `Deliver` are the
parser, which looks up the channels under the lock and sends outside it; `Stream`
moves a frame from channel to queue or drops it. `Leave`, `CancelSub`, `Left` are
the way out, after the writer has ended. History: `ended`, `last`.

### MirrorManager

A generation is one subprocess with its reader and watcher. `EnterWrite`,
`EnterDestroy`, `EnterResize`, `EnterSnapshot` are the sections under `m.mu`;
`TakePipe`, `Send`, `SendFails` the write outside it; `Receive` and `TimeOut` end
a snapshot. `TakeChannel` takes an entry out of `m.pending`, `Answer` sends to it.
`WatchCrash`, `Reject`, `Start` or `StartFails`, `Adopt`, `Copy`, `Rewrite` are the
watcher of a generation that died, `Close` and `CloseKills` the shutdown,
`TimerFires` the idle timer, `Handle` the loop of `js/xterm-mirror.js`.

### JiraPoller

`poll` is the cycle: `PollStart` fixes the cutoff, `PollPage` fetches a page by
offset, `Publish` inserts a row, `Mark` remembers the transition; each may fail,
and after a failing insert the cycle goes on. `drain` is the pass: `ExpireRow`,
`DeliverStart`, the sink (`SinkAccepts` one event of a call at a time,
`SinkSucceeds`, `SinkFails`), then row by row `MarkDelivered`, `RecordFailure` or
`RecordLost`. `Crash` ends both at any point. A transition is to come, in the
window, or out of it. `dated` are the transitions whose date the client can parse:
`mapChangelog` (`atlassian.go:289`) drops the parser's error, any other date becomes
the zero time, and `BeforeCutoff` has it older than every cutoff. A transition is
dated or not as it happens, freely.

### PlaidSync

`feed[i]` is Plaid's log of an item, a cursor a position in it. An element of
`Runs` is one sync: `List`, `Admit`, `Begin` or `NoToken`, `Fetch` or
`FetchFails`, one `Write` per update (added, then modified, then removed, as
`SyncTransactions` goes; `WriteFails` for a row whose account is unknown), `PageDone`,
`Commit` or `CommitFails`. A failure is `HandleAuth` for the class that asks for a new
login, or `ReadRetries`, `Count`, `GiveUp`, `RecordGiveUp`, which are statements
of their own. The code drops the errors of several statements, and each has its
action: `BeginAnew` (the cursor is not read, and the log is read from its start),
`CommitFails`, `RetriesUnread` (the count is taken for zero), `CountLost`,
`GiveUpLost` (the item stays active), `OutcomeLost` (the status `login_required`, or
the last count, is not stored). `Crash` ends all syncs.

## 3. Runs

| run | question | answer |
|---|---|---|
| `share_safety` | every kind but captures, every feed, two goroutines, a callback, a fault, all on one share and the row a late score may insert | `TimeoutsAreOverdue`, `RetriesAreSpent`, `SettledIsFinal`, `PrefilteredIsFinal` hold (2.4 million states) |
| `share_urls` | two shares of one URL or of two: whose row does a score reach | `ScoresAreOwn` holds (1.2 million) |
| `share_liveness` | do shares settle under races, a restart or a failing write | `EveryShareSettles` holds (0.6 million) |
| `push` | ambiguous answers, lost records, restarts, a row behind one whose lookup always fails | `OneDigestPerWindow`, `CopiesAreAccountedFor`, `DeathIsDeserved`, the refinement `KeepsPromise`, `EveryPushSettles` (unless a call to FCM never returns) hold (0.7 million) |
| `bridge` | three calls, failing commands, time-outs, a dying tmux, Stop | `AnswersMatch`, `QueueFollowsPty`, the refinement `KeepsExchange`, `EverySendReturns`, `DisconnectIsSeen` hold (0.3 million) |
| `registry` | two sessions, output that fills the channels, a lost connection, Stop | `RegistryFollowsTmux`, `RegistryConverges`, `StopReturns` hold (0.6 million) |
| `gateway` | a client that attaches twice, to one pane or to two, while output arrives and its connection breaks | `SlotsAreAccountedFor`, `SubscriptionsAreOwned`, `FramesKeepTheirOrder`, `FramesFollowTheSnapshot`, the refinement `KeepsStream`, `StopEndsEverything` hold (0.3 million) |
| `mirror` | two calls, the idle timer, Close and a crash on one pane | `SettledOnce`, `WaitersAreKnown`, `EveryCallReturns`, `RestartRestoresPanes` hold (0.3 million) |
| `jira` | two transitions on pages of one, with dates that parse or not, a fault anywhere | `SeenIsStored`, `CopiesAreAccountedFor`, `DeathIsDeserved`, `SearchIsComplete`, the refinement `KeepsPromise`, `EveryTransitionSettles` hold (1.1 million) |
| `plaid` | two overlapping syncs of one item, every class of errors, a crash or a dropped error | `CommittedIsStored`, `StatusIsEarned`, `RemovedStaysRemoved`, the refinement `KeepsCopy`, `EveryItemSettles` hold (0.8 million) |
| `claim_retry` | does the replay loop re-pick a row that waits for its retry | refuted, see section 7 |
| `claim_cleanup` | are the subscriptions of a lost connection cleaned up | refuted, see section 7 |

The properties in words. linkari:

- `TimeoutsAreOverdue`: no row is failed as timed out before its queueing passed
  the cutoff, although the mark is written long after the select and by id.
- `RetriesAreSpent`: `retryOrFail` reads and writes the counter in two statements.
  Concurrent goroutines of one row can lose an increment, so a row may get *more*
  attempts than configured, but is never given up before that many failed.
- `ScoresAreOwn`: `ScoreByURL` picks a row several statements before it writes;
  the score nevertheless only reaches a row of the same URL or file.
- `SettledIsFinal`: a settled row whose id nobody holds stays as it is. The
  definition `AtRest` is the point of it: it lists every agent that may still
  overwrite a settled row, and shows that no select finds it again.
- `PrefilteredIsFinal`: nothing routes, scores or times out a prefiltered share.
- `EveryShareSettles`: a pending row is always taken by the replay loop and a
  relayed one by the watchdog, so no interleaving, restart or lost write leaves a
  share open for ever. The watchdog is what makes this true: a handler that marks
  a row relayed after its scoring asked for a retry hides it from the replay loop.
- `CopiesAreAccountedFor`: copies accepted by FCM = copies whose record was lost
  + 1 if the row is sent + 1 if the record is being written. So a device sees a
  notification twice only after an ambiguous answer, a lost write or a crash.
- `DeathIsDeserved`: a row is dead because it is too old, its one device has no
  token, or because `pushMaxAttempts` calls failed.
- `OneDigestPerWindow`: `EnqueueDigestIfDue` keeps its own digests apart.
- `EveryPushSettles`: without a token, with FCM refusing every call, behind a full
  batch of rows whose lookup always fails, every row is sent or given up. It excepts
  one thing, which the code allows (section 7): the worker waits for ever for the
  answer to one call, and nothing settles any more.
- `KeepsPromise`: PushOutbox implements PushDelivery: nothing is done before a
  copy was accepted, and nothing done or dropped is sent again.

bmux:

- `AnswersMatch`, `QueueFollowsPty`: calls that time out, are cancelled or cannot
  write leave or keep their entry in the FIFO so that no later answer shifts. This
  holds until the first of the events that `skewed` records; those events, and
  what they do, are in section 7.
- `KeepsExchange`: in step or not, each channel is offered one answer at most, so the
  `default` of `DeliverResponse` never drops one, and none before its call has asked;
  an answer that comes after its call gave up goes to that call's channel.
- `EverySendReturns`, `DisconnectIsSeen`: whatever tmux does. Both allow for the
  panic of section 7.
- `RegistryFollowsTmux`: the map and the events under way, applied in order, are
  tmux's sessions, although the list may be newer than events applied on top of it.
- `RegistryConverges`, `StopReturns`: after the last change the map is right; and
  `Stop` comes to an end also when the connection is gone and the closed channel
  keeps waking the loop.
- `SlotsAreAccountedFor`, `SubscriptionsAreOwned`: for every interleaving of
  attach, detach, disconnect, Stop and errors, a slot is held just while its
  connection is served, and the router has no channel that nobody will remove.
- `FramesKeepTheirOrder`, `FramesFollowTheSnapshot`: three goroutines hand a frame
  on, two of them may drop it; none overtakes, none is doubled, none is written
  before the end of its own snapshot.
- `KeepsStream`: PaneGateway implements PaneStream: however connections, attaches and
  queues come to grief, what a client paints is later than what it has painted, is
  output of the pane, and comes on top of a snapshot.
- `StopEndsEverything`: also readers blocked on a full queue and the goroutines
  that attaches of clients long gone left behind.
- `SettledOnce`, `WaitersAreKnown`, `EveryCallReturns`: answer, deadline and the
  watcher's rejection race for one request; exactly one settles it.
- `RestartRestoresPanes`: a subprocess that was restarted gets every pane back that
  nobody destroyed, also those written to during the restart.

jira-poller and plaid-service:

- `SeenIsStored`: "a publish failure does not permanently drop the event": insert
  first, remember afterwards, whatever fails in between.
- `SearchIsComplete`: unless the result moves during the search (`shifted`), paging by
  offset leaves out no transition of the window whose date can be parsed. The others
  the cycle drops, see section 7.
- `CopiesAreAccountedFor`, `DeathIsDeserved`, `KeepsPromise`: as for PushOutbox;
  here a batch is one call of the sink, and one bad row must not cost the others.
- `EveryTransitionSettles`: a transition whose date can be parsed and that stays in the
  window is stored, also when a search skipped it once, and what is stored is delivered
  or dead-lettered. One whose date cannot be parsed is never stored.
- `CommittedIsStored`: whatever two syncs do, no update before the cursor is
  missing; `RemovedStaysRemoved`: reading pages again revives nothing.
- `KeepsCopy`: PlaidSync implements LedgerCopy: seen from the tables alone, rows are
  entered and struck for a reason and in this order, and the stored cursor moves, also
  back, only to a place with nothing missing before it.
- `StatusIsEarned`, `EveryItemSettles`: an item is given up only after that many
  failures, needs a login only if Plaid or the vault said so, and otherwise ends up
  with everything that was reported.

The type invariants (which also say that no queue outgrows its channel and that a
status comes with its reason) are theorems of every module and part of every
inductive invariant; the runs leave them to the proofs.

`CHECK_DEADLOCK FALSE` appears in every configuration: the numbers of shares,
calls, messages and faults are bounded, so the model stops once everything is
settled, as the programs idle.

## 4. Bounds

| constant | value | why it is enough |
|---|---|---|
| `Workers` | 2 (1 in `share_urls`) | every race is between two sequences of statements on one row, or one of them and the handler, the loop or the watchdog, which come on top |
| `MaxRows` | 2 (1 in `claim_retry`) | the shared row, and a second of the same URL (shared, or inserted by a late score) |
| `MaxShares`, `Names` | 1, or 2 in `share_urls` | properties are per row or per pair; a second URL is needed only for scores that reach the wrong row |
| `MaxCalls` (ShareQueue) | 1 in `share_safety` | one external score at any moment of a row's life |
| `MaxFaults` | 1 (0 in `share_urls`) | a crash or failing statement at any point, and what repairs it |
| `MaxPushes` | 2 | one digest before another; one row in front of another |
| `DrainLimit` | 1 (code: 50) | a full batch hides the row behind it |
| `PushMaxAttempts`, `MaxAttempts`, `MaxRetries` | 2 | one failure that is not the last and one that is |
| `MaxAmbiguous`, `MaxLost` | 1 | one loss separates each copy from its record |
| `Calls` (ControlBridge) | 3 | one call ahead, one that misbehaves, one behind |
| `StreamCap`, `EventCap` | 2 (code: 256) | an event that finds the channel full behind one on the way |
| `MaxChanges` | 6 | a session that comes, goes and comes again while another does |
| `Clients`, `MaxSubs`, `Panes` | 1, 2, 2 | two attaches of one client to one pane or to two; clients share nothing but the limit, and the proofs are for any number |
| `QueueCap`, `SubCap`, `MaxFrames` | 2, 1, 2 | both queues full, both dropping |
| `Calls`, `Panes`, `MaxCrashes` (MirrorManager) | 2, 1, 1 | two requests, the timer and the watcher of a dead generation at once |
| `Events`, `PageSize`, `DrainBatch` | 2, 1, 2 | a result of two pages, a batch of two rows; each transition has an issue of its own, so the filter on older transitions of an issue is not exercised |
| `Items`, `Txns`, `Runs` | 1, 2 (one on a linked account), 2 | items share nothing; a sync that overlaps another |
| `MaxFaults` (PlaidSync) | 1 | one crash or one dropped error, at any statement |
| `MaxFeed`, `PageSize`, `MaxPages` | 3, 2, 2 | more than a page, and more pages than a sync may take |

`ScoringMaxAttempts` is the code's own 2. The symmetry of workers is used in
`share_safety` alone, which checks no liveness.

## 5. Fairness

Nothing forces a share, a call, a connection, a fault or any particular outcome.

- `ShareQueue`: weak fairness of each handler, each goroutine, the replay loop, the
  watchdog and the two clocks. Handlers and goroutines are scheduled by the Go
  runtime and every call they make has a timeout (`scoreAsync`: 120 s,
  `server_score.go:587`). The loop and the watchdog are tickers that live as long
  as the process. That the replay loop makes progress assumes that tmux is up at
  infinitely many ticks (`replay.go:41` skips the others). Restarts are bounded;
  between them the process runs on.
- `PushOutbox`: weak fairness of the worker's own steps and of the two clocks that end
  a backoff and the 24 hours of a row's life. FCM and the lookup may fail every time:
  `EveryPushSettles` rests on the age ceiling alone, and on the age being looked at
  before the token. FCM's answer is not among the fair steps: the request has no
  context and the client no timeout (`outbox.go:343`, `:350`), so a call need not
  return, and the property says what is then lost.
- `ControlBridge`: a write to the pty returns, the two seconds of `Send` pass, the
  parser sees the end of its input, and Stop, once called, goes on. tmux need not
  answer.
- `SessionRegistry`: pump, event loop and the manager's calls run. tmux may fall
  silent or die.
- `PaneGateway`: readers, writers, the goroutines of attaches and the parser run,
  each as a whole: a goroutine that has both a message and a cancelled context may
  take either, so what is demanded is only that it does something.
- `MirrorManager`: goroutines run, the lock is given to everybody who waits, the
  500 ms of a snapshot pass, and the subprocess reads its input. That a timer fires,
  Close is called or the subprocess dies is never demanded.
- `JiraPoller`: cycle and drain go on (tickers), a backoff ends. Calls to Jira return,
  the client has a timeout of 30 s (`atlassian.go:57`); so do deliveries, because the
  sink `main.go` builds is a file. (With an `HTTPSink` and a client without timeout they
  need not.) A delivery may fail every time; crashes, failing statements and failing
  searches are bounded.
- `PlaidSync`: ticks come, a sync goes on or fails, a rate limit passes. Calls to Plaid
  are taken to return. Crashes and dropped errors are bounded; failures that the code
  counts are not.

## 6. Proofs

All theorems hold for every value of the constants that satisfies the modules'
named assumptions (TLC evaluates them in every run): any number of rows, calls,
clients, sessions, transactions, crashes, and queues of any length.

`ShareQueueProofs`:

- `TypeCorrect`, `Timeouts`, `Retries`, `OwnScores`: `Spec => []P` for `TypeOK`,
  `TimeoutsAreOverdue`, `RetriesAreSpent`, `ScoresAreOwn`.
- `Settled`, `Prefiltered`: `Spec => P` for the action properties
  `SettledIsFinal` and `PrefilteredIsFinal`.

None of the properties is inductive, since each speaks of the table while the
danger is in the ids that agents carry. The inductive invariant `Inv` adds what
every agent knows of the rows it holds: they are inserted; a scoring goroutine
carries the name of its row; the retry counter it read stays below the number of
failed evaluations; the row it is about to update has the name it scored; a row
about to be archived has its own score; rows in the sweep are aged (age, unlike
status, never goes back). For `Prefiltered` a second invariant says that a
prefiltered row is at rest. The proof
that a step preserves it goes statement by statement; lemmas describe what each
kind of table update keeps, so each action only shows which update it is.
`Settled` shows for every group of actions that it neither changes a row at rest
nor lets an agent get hold of it: the selects look at the status, and everybody
else acts on ids that `AtRest` excludes.

`PushOutboxProofs`:

- `TypeCorrect`, `Accounting`, `NoEarlyDeath`, `DigestThrottle`: `Spec => []P`
  for `TypeOK`, `CopiesAreAccountedFor`, `DeathIsDeserved`, `OneDigestPerWindow`.
- `Refinement`: `Spec => KeepsPromise`, step by step: each action is a step of
  PushDelivery or leaves its variables alone.

The inductive invariant is these four and: ids are handed out in order, every row
of the worker's snapshot is still pending (nobody else ends a row's life), stored
attempts never exceed the failed calls, a pruned row is out of its window.

`ControlBridgeProofs`: `TypeCorrect`, `AnswersCorrect` (`AnswersMatch`),
`QueueCorrect` (`QueueFollowsPty`). Neither is inductive. `Aligned` adds that the
entries of the FIFO are distinct, that those behind the pty's lines are just the
calls that have yet to write, and that every such call has an entry; an entry is
removed only behind the lines, which is what keeps the rest in place.
`ExchangeRefines` (`KeepsExchange`) speaks of the bridge out of step as well, where
`Aligned` says nothing. Its own invariant, `Registered`, is that an entry of the FIFO
is there once, belongs to a call that has asked, and to a channel that is empty: so
the pop that fills the channel also ends the chance to fill it again.

`SessionRegistryProofs`: `TypeCorrect`, `FollowsCorrect` (`RegistryFollowsTmux`).
The invariant says of the living sessions themselves what the property says of the
map: the last report under way about a session agrees with its being alive. That
makes any list of the moment safe to start from. Appending to one channel, moving
an event between them and applying one are the three lemmas.

`PaneGatewayProofs`: `TypeCorrect`, `SlotsCounted` (`SlotsAreAccountedFor`),
`NoneOrphaned` (`SubscriptionsAreOwned`), `SnapshotComesFirst`
(`FramesFollowTheSnapshot`). The invariant adds whose a subscription is (`Owners`),
that a connection which is not served yet has an empty queue and owns nothing
(`Fresh`), and that a goroutine that streams has the end of its snapshot in the
queue or written (`Announced`): a queue is only appended to and popped, so what
follows the end keeps following it.

`FramesOrdered` (`FramesKeepTheirOrder`) follows the frames of an attach over three
places: the parser's hand, the channel of the attach, the queue of its connection.
`Lined` says of each place that its frames ascend, and of any two that all in the one
are later than all in the other: whatever waits in the channel, or in the hand, is
later than every frame of the attach in *any* queue and than the last one written
(`Waits`). A move from one place to the next then puts the frame behind all that are
there, and a drop leaves the rest ascending. `Joined` puts the places together into the
sequence the property speaks of. `StreamRefines` (`KeepsStream`) takes from the same
invariant that the frame at the head of a queue is later than the last one painted
(`Lined`) and that the end of its snapshot is out (`Following`).

`MirrorManagerProofs`: `TypeCorrect`, `OnceOnly` (`SettledOnce`), `NoneForgotten`
(`WaitersAreKnown`). The channel of a snapshot is in one of four hands: not made,
in `m.pending`, with a reader, settled. The invariant says that these exclude each
other for every call, and which watcher may still reject.

`JiraPollerProofs`: `TypeCorrect`, `StoredBeforeSeen` (`SeenIsStored`),
`Accounting` (`CopiesAreAccountedFor`), `NoEarlyDeath` (`DeathIsDeserved`),
`Refinement` (`KeepsPromise`). The invariant says what the drain pass holds: its
rows are pending until it records them, and its place tells what the sink has taken.

`SearchCompletes` (`SearchIsComplete`) is about counting. An issue's place in a result
is its rank, the number of issues of the result up to it. Ranks are a bijection with
`1..Cardinality` (`RankGrows`, `RankIsOnto`; the second from the pigeonhole lemma of
the library), so a page that is shorter than `PageSize` was the last (`FullPage`), and
a full one has just the ranks after its offset. `SearchSoFar` is the invariant: unless
the result shifted, every transition of the window with a parsable date and a rank up
to the offset has been brought. The theorem promises nothing about the other dates, nor
about a search whose result shifted.

`PlaidSyncProofs`: `TypeCorrect`, `NothingSkipped` (`CommittedIsStored`),
`NeverBack` (`RemovedStaysRemoved`), `StatusCorrect` (`StatusIsEarned`). The table
only grows and Plaid's log is only appended to, so what a sync wrote stays written
whatever the others do; it is enough to follow one sync: everything before its
local cursor is stored, and of its page everything that is not still to do.
`CopyRefines` (`KeepsCopy`) is this seen from outside: a write of a sync is an entry, a
strike or nothing, and a commit is a mark, for which the invariant gives that nothing
before it is missing, for the older of two cursors as well.

Only model-checked: the liveness properties (`EveryShareSettles`,
`EveryPushSettles`, `EverySendReturns`, `DisconnectIsSeen`, `RegistryConverges`,
`StopReturns`, `StopEndsEverything`, `EveryCallReturns`, `RestartRestoresPanes`,
`EveryTransitionSettles`, `EveryItemSettles`), because fairness is beyond the
prover. Every invariant, action property and refinement that a passing run checks is
a theorem.

## 7. Where code and comments disagree

Two are runs that end in a counterexample, with the quotation in `PROJECT.json`:

- `claim_retry`: `retryOrFail` says the replay loop re-picks the row
  (`server_score.go:1411`). The handler, or the loop, that routed the share may
  mark it relayed after the goroutine asked for its retry; the row then waits for
  the watchdog and fails.
- `claim_cleanup`: "Client disconnect → all F1 subscriptions cleaned up"
  (`ws/gateway_test.go:572`). When the writer dies on a full queue while the reader
  is sending a snapshot, the reader waits for room that never comes, or for the
  gateway's context (`handler.go:157`), not for its connection's: slot and
  subscriptions stay.

The following was met while modelling. The models have the behaviour as the code
does, and no property says the opposite.

linkari:

- A row inserted as scored (`AutoScore`) is marked relayed by id after routing
  (`server.go:1658`), so the watchdog selects it, although `server.go:1503` says it
  never does.
- `captureScoreFallback` (`server.go:3083`) passes a capture to `Route`, whose switch
  (`handler.go:634`) has no case for captures: it always fails, where `server.go:3073`
  says it goes through the normal scoring path.
- `SelectStuckRelayed` (`queue.go:877`) compares `queued_at`; the README (`:307`,
  `:339`) speaks of the time spent relayed. What the replay loop relays after a long
  outage of tmux is stuck at once.
- `MarkRelayedTimedOut` (`queue.go:901`) updates by id without a look at the status,
  so a row scored between select and mark is failed; `watchdog.go:26` speaks of a
  predicate.
- `EnqueueDevicePush` and `EnqueuePrefilterPush` (`queue.go:1763`) insert digest rows
  without the window; `queue.go:1787` calls another function the single entry point.
- A capture that takes longer than a replay tick is started again, and the second
  goroutine can fail the row the first one captured; a share can be scored by two
  goroutines at once.

- The request to FCM has no context and `http.DefaultClient` no timeout
  (`outbox.go:343-350`). One call that never returns keeps the single worker, which
  holds `outboxMu`, and no notification is sent or given up until a restart.

bmux:

- `Send` joins the FIFO under the lock and writes outside it (`sender.go:46-66`), so
  two commands can be written in the other order and get each other's answers; a
  command that fails ends in `%error`, which the parser takes for a line of the
  block. `sender.go:17` says that blocks correspond to the queue.
- Stop closes the events channel while the parser may be sending on it
  (`bridge.go:307`): a panic. ControlBridge has it as `panicked`.
- Plain output that happens to be base64 is decoded (`parser.go:200`); names with
  blanks are cut (`bridge.go:352`).
- A `%sessions-changed` without a name is parsed (`parser.go:139`) and dropped by the
  pump (`cmd_gateway_wire.go:94`); pane and window events carry no session, so the
  registry ignores them. After a failing populate the registry's `Stop` would wait
  for a goroutine that was never started, but nobody calls it then.
- `send-keys` starts a goroutine per message (`ws/handler.go:111`): keys can be
  reordered. After a second attach to a pane, frames of the first can appear inside
  the new snapshot. The channel of `wsReadyBridge` is not closed on cancellation
  (`cmd_gateway_wire.go:23`).
- Mirror: Close between the check of `closed` (`manager.go:142`) and the start
  (`:176`) leaves a subprocess running, against `:389`; a pane destroyed during a
  restart is written again (`:189`); the idle timer can destroy the pane that is
  being written (`:284`); requests are written outside the lock and can overtake each
  other. In production nothing writes to the mirror yet.

jira-poller: `mapChangelog` drops the error of `time.Parse(time.RFC3339, ...)`
(`atlassian.go:289`). A date such as `2026-04-28T10:00:00.000+0000`, the form the
fixtures have (`testdata/search_ok_page1.json:20`, `atlassian_test.go:90`), does not
parse, becomes the zero time, and `poller.go:177` drops its transition as older than the
window at every poll: it is never published, and nothing is logged. Paging by offset
over a result that moves can skip an issue until the next cycle; a downtime longer than the window loses transitions; `LastPollTime`
advances although inserts failed; `CleanupExpired` has no caller.

plaid-service: errors of the cursor's and the retries' `Scan` are ignored; a modified
transaction goes through `INSERT OR IGNORE` and keeps its old payload (`sync.go:184`);
retries are never reset by a success; `next_sync_at` is never read; nothing brings an
item back from `login_required` or `error`.

consensus (read, not modelled): `Compute` counts votes of any agent where
`quorum.go:30` speaks of required ones; castex's vote command checks neither the
required agents nor duplicates; vote events carry no path, so an audit finds none.

## 8. Not modelled

linkari:

- Reads that fail outside `ScoreByURL` and `ScoreByID`, and an insert that fails
  in `handleShare` (the share then goes on without a row).
- `Prune` and schema migrations, which run before the server accepts requests.
- The YouTube and voice-note pipelines with their own retries, `FindRecentFile`,
  the volume alert of the watchdog, `seen_content`, cursors and the subscription
  digest.
- Which device a lookup finds; the device registry. PushOutbox leaves the outcome of
  a lookup free, which covers every registry.
- HTTP, sessions, invites, rate limits: request-local checks.
- Columns that no status decision reads (tags, feedback, outcome, search index).

Other programs:

- bmux: the typed commands on top of `Send`, decoding of output, the fan-out of the
  registry to subscribers (there are none), authentication, input to panes; the
  daemon, ssh and reconnect loops, which are processes, files and a sequential retry.
- jira-poller: retention of the dedupe store (no caller), the health endpoint.
- jira-poller: an `HTTPSink`, which nothing builds.
- plaid-service: the link flow, the token vault, the HTTP handlers; recovery from a
  panic inside a sync; dropped errors of `mapSyncError`'s own writes, of the read in
  `isDeferred`, and of the rate limit alone while the count beside it is stored. The
  contents of a row: for a modified transaction the properties say only that a row is
  there.
- consensus: no production code starts a round.
- The batch tools, evaluators and clients of the last row of section 1: no state
  shared between actors.

## 9. What could come next

1. `DeviceRegistry` composed with PushOutbox: the lookup of a token becomes a read of
   the table, and re-registration a writer of it.
2. `Sources` and `AudioRetry` (linkari): `seen_content`, digests, the counter shared
   with scoring.
3. ControlBridge composed with SessionRegistry: the list of sessions as a `Send` that
   can get another command's answer.
