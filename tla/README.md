# TLA+ models of bub-contrib

bub-contrib is a monorepo of plugins for Bub, an agent framework that is not
part of this repository. A plugin registers hooks (`load_state`,
`provide_channels`, `run_model`, `provide_tape_store`, ...), and Bub's framework
calls them while it processes an inbound message as a *turn*. Almost everything
here runs on one asyncio event loop: a step of a model is what a task runs
between two awaits. Paths below are relative to `src/packages/`.

## Inventory

| Component | State it keeps | Operations | What is hard | What makes it correct |
| --- | --- | --- | --- | --- |
| ACP turns and steering (`bub-acp-server` `agent.py`, `steering.py`) | prompt runs per session, one prompt lock, per-session steering lock, steering inbox with receipts, sessions being closed | prompt, cancel, close, delete, steering, drain, shutdown | cancellation against every await, a lock shared by all sessions, a close waiting for tasks that wait for the lock | teardown only when quiet, steering consumed exactly once and reported truthfully, a cancel is answered, arrival order, everything ends |
| ACP session metadata (`agent.py`) | `_sessions` (shared by HTTP connections), `acp-sessions.json`, title tasks, config values | new, load, resume, list, set option, title, delete | tasks keep a session object across awaits while `list_sessions` replaces the objects | what was acknowledged is stored, a deleted session stays deleted |
| ACP session MCP channels (`agent.py`, `mcp.py`) | `_mcp_channels` (shared), connect tasks | replace on new/load/resume, close, shutdown | connecting is a long await that close, shutdown and other connections overtake | no connection leaks, a failed replacement keeps the old one |
| ACP stream routing and client tools (`agent.py`, `client_tools.py`) | `ACPStreamState`, terminals held by the client, what an edit has read | wrap stream, send results, replay a session; bash, output, kill, read, write, edit | rounds of calls without ids, equal commands, timeout and cancellation between create and release, overlapping edits | results, terminals and answers are shown as what they are; bash releases its terminals |
| ACP subagents (`subagents.py`, `agent.py`) | runs by id and task, finished order | events, list, cancel, output, end of session | late events after a run was pruned or its session ended | bounded retention, running tasks listed, an end told once and last |
| ACP HTTP, plugin (`http.py`, `plugin.py`) | none of their own | wiring, ASGI transport | none beyond the rest | |
| MCP manager (`bub-mcp`) | server states, bootstrap task, tool bindings per agent | start, connect, stop, bind, add, remove, call | stop cancels a bootstrap others await; tools replace tools of the agent | an agent gets its own tools back; no client leaks |
| QQ outbound (`bub-qq` `outbound/`, `session.py`) | sequence counters, send records, latest messages; all bounded | passive and active send, dedupe, audit, media | concurrent sends of one chat, a remote that rejects reused numbers, eviction | no number is reused, content reported sent was sent once |
| QQ files (`inbound/persist.py`, `images.py`, `outbound/media.py`, `upload.py`) | attachments by message, files in `inbox/` and their part files | download, view, fetch, upload in parts | two downloads of one file, failure and cancellation between blocks, a crash | a file that is read or sent is whole and the chat's own |
| QQ gateway (`gateway/`) | session id, sequence, heartbeat, identify slots, close codes | connect, identify, resume, dispatch, reconnect, stop | reconnects racing stop, rejected sessions, several shards sharing slots | resume only with a live session, slots respected, stop ends |
| QQ tokens and OpenAPI (`protocol/auth.py`, `openapi.py`) | cached token, single-flight lock, HTTP session | get, invalidate, request, retry | a rejected token reported late, expiry while requests wait | a fresh token is not thrown away, a rejected request is tried once more |
| QQ approvals (`approval.py`) | pending approvals, one-time tokens, outcomes | request, click, dispatch, expire | a click racing a second click, expiry, eviction | an approved call runs at most once, its outcome is told once |
| QQ admission, admins, guard (`admins.py`, `security.py`, `guard.py`, `plugin.py`) | pairing codes, failures, lockouts, admins and their file, calls per sender | claim, issue, remove, limit, check a tool call | a code claimed twice, merged messages of several senders, an admin removed meanwhile | only who claimed is admin; nothing that needs an admin runs for others |
| QQ inbound and store (`inbound/`, `channel.py`, `store.py`, `gateway/webhook.py`) | dedupe cache, reply context, persisted settings | receive, acknowledge, persist, stop, restart | redelivery, webhook threads, failing handlers | a message is handed over once; reply context fits together |
| Schedule (`bub-schedule`) | jobs in memory and in a JSON file | add, update, remove, trigger, due, fire | crash during the save, stop between firing and run | persistence across restarts, a reminder is given once |
| Tape stores (`bub-tapestore-redis`, `-sqlite`, `-sqlalchemy`) | entries, next id, anchor index, registry, vectors | append, fetch, search, reset, list | concurrent writers, a reset in between, failures and cancellation between two commands | a tape is a log; ids agree with positions, an anchor slices what it names |
| Tape projections (`bub-tapestore-otel`, `tape-dataset-opendal`) | pending entries and traces per tape; files of a dataset | append, reset; export | exporters behind a store, exports cut off | every entry in one trace; a manifest speaks of its own export |
| Docker environment (`bub-docker-env`) | containers and users by key | acquire, start, run, signal, release | a release awaiting removal while another acquire starts the same name | a container in use is not removed |
| Other environments (`bub-sandbox-env`, `bub-monty-env`, `bub-env`) | lazily started pool | spawn, run code, close | pool start and close | one pool, closed |
| Channels (`bub-slack`, `bub-discord`, `bub-feishu`, `bub-wecom`, `bub-wechat`, `bub-dingtalk`) | a connection task, per-chat maps | start, stop, receive, send | SDK threads, stop during connect, reply streams per chat | a reply goes to the request it answers; messages arrive once, in order |
| Context budget (`bub-context-budget`) | usage baseline per turn | before and after an LLM call | a stale baseline | the notice is given when the budget is crossed, and only then |
| Coding agents (`bub-codex`, `bub-cursor`, `bub-kimi`, `bub-github-copilot`, `bub-dsh`) | thread ids per session on disk, skill links in the workspace, runtimes and their lock, the sign-in's token | run a turn, resume, save, link and unlink, sign in | overlapping turns of one workspace, cancelled runs that go on, a crash | a run resumes its own thread and streams its own words |
| Other plugins (`bub-web-search`, `bub-extism`, `bub-agent-plugins`, `bub-herdr`, `bub-mcp-server`, `bub-session-prompt`) | next to none | one external call each | I/O | |

How they interact: a channel turns an outside event into an inbound message;
Bub's turn calls `load_state` (where the MCP manager binds its tools and the
schedule, QQ and context plugins add state), runs the model with an environment
and records a tape through a tape store; the channel sends what the turn says.
The ACP server is both a channel and a driver of turns: it calls
`process_inbound` itself, under its prompt lock.

## Modules

One module per component, one action per stretch of code between two awaits
(or, for Redis, per command; for SDK threads, per call). Where a handler saves,
trims or wakes somebody on its way, that is part of the action.

| Module | Code | State | Actions |
| --- | --- | --- | --- |
| `AcpTurns` | `bub-acp-server` `agent.py`, `steering.py` | the runs of `_prompt_runs` and the tasks that execute them, the prompt lock and its line, the steering locks by generation, receipts and inbox, `_closing_sessions` | `Prompt`, first step of a turn task, `AcquirePromptLock`, `DrainMessages`, `TurnEnds`, `Cancel`, `EndSession` with its gather and teardown, and the steps of a steering request |
| `SteeringDelivery` | the promise of `steering.py` | the fate of a message and what its sender is told | queue, consume, withdraw, report |
| `AcpSessions` | `agent.py` | `_sessions` as places in a heap of `ACPSession` objects, `acp-sessions.json`, `_title_sessions` | new, load, list, close, delete, option and title, each split at its awaits |
| `AcpSessionMcp` | `agent.py`, `mcp.py`, `http.py` | `_mcp_channels`, the prompt lock, what a request awaits the stop of | connect, replace, turns, close, shutdown |
| `AcpStreams` | `agent.py`, `client_tools.py` | `ACPStreamState`, calls and results in rounds, the client's terminals and a file, the tape a load replays | rounds of calls, results, answers, cancellation, replay; the steps of bash, kill and edit |
| `AcpSubagents` | `subagents.py`, `agent.py` | runs by task and by connection, those that ended in their order, what the emitter has told | start, output, end and its handler, cancel, end and load of a session |
| `McpManager` | `bub-mcp` `plugin.py` | bootstrap task, clients, bindings, the agent's tools | start, connect, bootstrap, bind, restore, stop |
| `DockerPool` | `bub-docker-env` `environment.py` | pool, `_started`, the lock's queue, docker by name, commands without a caller | acquire, call, start, check, release, remove, cancel, crash |
| `MontyPool` | `bub-monty-env` `environment.py` | the pool, its lock, who uses which pool, a close | run code, lock, start, check out, close |
| `ContextBudget` | `bub-context-budget` `plugin.py` | the messages and their sizes, the baseline | before and after an LLM call, messages, hand-off |
| `QQGateway` | `bub-qq` `gateway/websocket.py` | where every shard is, session id and sequence, heartbeat, what is on the wire | resolve, connect, identify, resume, read, handle, reconnect, give up, stop |
| `IdentifySlots` | `_await_identify_slot` of the same file | the attempts of a window | want, take, wait, tick |
| `QQTokens` | `protocol/auth.py`, `openapi.py` | the token, its lock and its line, revocations | ask, lock, fetch, reject, retry, expire |
| `BoundedDict` | `session.py` | none: operators on dicts that drop their oldest entry | |
| `QQSend` | `outbound/send_flow.py`, `session.py` | targets, counters and records in bounded dicts; what the platform accepted | inbound message, send up to its request, the platform's answer, the end of a send, an exception, a request handled late |
| `QQMedia` | `inbound/persist.py`, `images.py`, `outbound/media.py`, `upload.py` | names and the files they lead to (two attachments may share one, as `inbox_dir` cuts a message id to 64 characters), who has a file open, the parts the platform asks for and what it holds | begin, get, write, break off, replace, read, prepare, put a part, merge, crash |
| `QQApproval` | `approval.py`, `plugin.py`, `channel.py` | pending approvals, clicks, tokens, outcomes by session in a bounded dict | ask, card sent or failed, click, acknowledgement, dispatch, command, a message that carries outcomes and one that cannot |
| `QQInbound` | `inbound/`, `gateway/webhook.py`, `store.py`, `session.py` | the deduper, the reply context, the store and its file | post, message, toggle, interaction, acknowledge, stop, restart |
| `QQAdmins` | `admins.py`, `security.py` | codes, failures, lockouts, admins in memory and file, notices | claim, expose, register, issue, remove, notify, restart |
| `QQTurns` | `guard.py`, `plugin.py`, `workspace.py` | who sent what a turn merges, verdicts and calls of the rate limiter | arrive, start of a turn of each kind, limiter, tool call and its check |
| `RedisTape` | `bub-tapestore-redis` `store.py` | entry list, counter, anchor index, registry | the commands of append (script and fallback), reset and fetch |
| `SqliteTape` | `bub-tapestore-sqlite` `store.py` | the database as committed and as the connection sees it, the transaction, the lock, vectors and index | append, reset, fetch, search, each cut at its awaits by cancellation, failure or crash |
| `SqlAlchemyTape` | `bub-tapestore-sqlalchemy` `store.py` | the row and entries as committed and in the open transaction, a lock per process | append, reset, search, in two processes |
| `TapeLog` | the promise of a tape store | a log per tape, the fate of a call | append, reset, query, failure |
| `OtelExporter` | `bub-tapestore-otel` `exporter.py`, `store.py` | pending entries, batches, traces | commit, record, pop, instrument |
| `TapeDataset` | `tape-dataset-opendal` `exporter.py`, `filters.py` | the tapes read, the files to write, the directory | begin, read, build, write, fail |
| `JobStore` | `bub-schedule` `jobstore.py`, `channel.py`, `tools.py`, `jobs.py` | jobs in memory and file, the scheduler, the framework, runs | add, remove, trigger, due, fire, begin, finish, start, stop, crash |
| `SlackChannel`, `DiscordChannel`, `FeishuChannel`, `WeComChannel`, `WeChatChannel`, `DingTalkChannel` | `channel.py` of each | connection, threads and tasks, the maps a reply is found by, the places at which Discord cuts a text | receive, hand over, reply, start, stop |
| `DshRuns` | `bub-dsh` `plugin.py` | workers, the runtime's lock, the queue and stream of a turn | begin, lock, say, return, take, leave |
| `CliAgents` | `plugin.py`, `utils.py` of the four CLI agents | links, threads files, runs | start and end per agent, time out, cancel, crash |
| `CopilotLogin` | `bub-github-copilot` `auth.py`, `plugin.py` | the poll and its interval, the grant, the token file | begin, poll, answer, sleep, profile, save, resolve a token |

The definitions keep the names of the code; `PROJECT.json` maps each to its
lines. A definition under a comment that begins with *mutant* is a plausible
bug of the definition that follows, used to see that a property can fail.

### How they are composed for TLC

`AcpTurns` and `QQSend` are checked as they are. The others are parts of
composites, which EXTEND one module and INSTANCE the rest: `MCAcpSessions` (metadata and MCP
channels of a server), `MCTurnResources` (what a turn works with: containers,
MCP tools, the client's streams and terminals, subagents, the context budget,
code workers), `MCQQGateway` (shards, identify slots, tokens, files),
`MCQQApproval` (inbound, admins, turns, approvals), `MCTapes` (the stores and
projections), `MCChannels` (six channels, the schedule, the coding agents and
the sign-in). The parts of one composite share no variable, and a behaviour
explores one while the others rest in their initial state, so that the states
add up instead of multiplying. That loses nothing: an invariant or
step property that speaks of one part only holds of all interleavings of
parts without common variables if it holds of each part alone. What the code
does share between such parts is in each of the modules: `open`, `closing` and the
prompt lock are modelled in `AcpTurns`, `AcpSessions` and `AcpSessionMcp`, each
with as much of the other's behaviour as it needs (in `AcpSessions` a turn runs
and ends, in `AcpSessionMcp` it takes the lock and uses a channel; in `AcpStreams`
it calls tools and is cancelled); admins change at any time in `QQTurns`, where
`QQAdmins` says how.

`AcpTurns` implements `SteeringDelivery` under the refinement mapping at its
end, which computes a message's fate from inbox, receipts and history.
What a steering request hears depends on its `steerId`. Without one it is `startedNewTurn` for a turn
of its own and `injected` for a model step of another. With one the client is notified first and
then hears `injected` of either (`agent.py:803`; `tests/test_e2e.py` of the package expects that of a
turn of its own), or `failed`, though the message was taken, if the notification raises. Where its own
turn ends unstarted, a request is refused (*rejected*), is `failed` if the turn raised another error,
or dies of a cancellation nobody catches (*aborted*), and in none of these was the message taken.
`Acknowledged` of `SteeringDelivery` are the requests with a `steerId`.

`SqliteTape` and `SqlAlchemyTape` implement `TapeLog`: the log is what is
committed, and the fate of a call what its caller was told.

## Runs

| Run | Instance | Shows |
| --- | --- | --- |
| `acp_turns` | 1 session, 1 prompt, 2 steering requests, 1 of them with a `steerId`, any number of cancellations, 1 close; stores, agents and notifications that fail; 3.8M states | no turn is alive during a teardown; a steering message is consumed once, by one turn, and what its request hears is true of it; a cancelled prompt answers `cancelled`; requests of one steering lock keep their order; the agent implements `SteeringDelivery` |
| `acp_turns_live` | 2 sessions that share the prompt lock, one request of each kind | steering requests, prompts and closes all end |
| `acp_sessions` | metadata: 1 session, 2 turns, 1 option, new, load, list, 2 closes; channels: 2 sessions, new, 2 loads, a turn, a close, the shutdown; 1.9M states | `acp-sessions.json` and memory agree, ended sessions stay ended, a failed deletion keeps its metadata, one title; no channel leaks, a turn keeps its channel, ended sessions and a stopped agent hold none |
| `turn_resources` | 3 environments of one key, a call each, 1 crash; 3 managers, 2 servers, 2 turns; 2 turns of 3 calls, 2 cancellations; 3 subagents, 2 connections, 1 end kept; 5 messages, 2 models, 2 toolsets; 3 runs of code, 2 closes; 0.9M states | a container in use stays and an unused one goes, and so does a pool of workers; clients are accounted for, bound tools have a live client, the agent gets its own tools back; the client sees results, terminals and answers as what they are; terminals are released, only overlapping edits are lost; running subagents are listed, their ends told last; the hand-off is asked for in time and not early |
| `qq_gateway` | 1 shard, sessions of 3 events, 3 faults, 2 rejections; 3 shards, 2 slots, a window of 3; 3 requests, 2 tokens; 2 attachments of 2 blocks, 2 calls, parts of one and of two blocks, 1 crash; 0.25M states | every event is handed over once, in order, across resumes; a shard recovers; a fatal code and `stop()` end the receiver; no more identifies in a window than QQ bears; a token is dropped and fetched for cause; files are whole |
| `qq_send` | 2 chats, 2 messages, 3 sends of 2 contents, dicts of 1 entry | no `msg_seq` is used twice, reports are true, the cap is kept, retries are recognised |
| `qq_approval` | 2 approvals of 2 calls, 2 clicks, 1 token, `TTL` of one tick; 2 events and 3 deliveries, 2 codes, lockouts, merged turns of 2 senders; 1.1M states | calls run once per approval, in time; outcomes are true and told once; a message is handed over once and admins have claimed; turns with a stranger's word run nothing that needs an admin |
| `tapes` | Redis with EVAL: 3 appends, 1 that fails, a reset and a query; without: 3 appends that all may fail; SQLite: 3 calls, 2 tapes, 1 crash; SQLAlchemy: 2 appends, 2 resets, a search, 2 processes, 2 kinds of database; OpenTelemetry: 3 appends, a reset; dataset: 2 tapes, 3 entries, 2 exports, with and without a filter that drops anchors; 1.1M states | ids are places; a query returns the slice its anchors bound; fallback ids are distinct and their index exact; vectors match their index, searches find what matches; stores are logs; an entry is in one trace; a manifest speaks of its own export and segments are slices |
| `channels` | 3 messages and 2 replies per channel (Discord: 1 reply of any text of up to 4 characters, cut at 2), starts and stops; 1 one-shot and 1 repeated job, 1 crash; 2 harness runs, 3 agent runs of 2 sessions with 2 skills and a crash, 2 sign-ins; 1.9M states | replies find their messages, messages arrive once and in order, jobs are kept and reminders given once, runs stream their own words and resume their own threads, polls keep GitHub's interval |
| `acp_turns_zombie`, `acp_sessions_lost`, `qq_approval_notrun` | the smallest instance each | expected violations, see below |

**Bounds.** Two competitors are what most races need; there is a third
where the code counts (shares of a container, appends around a gap, identifies
of a window, runs that are pruned) or where a second one must race against two others. Dicts of one or two entries make
every eviction happen; `MaxTime`, `MaxSeq`, `MaxFaults`, `MaxRejections`, `MaxTokens`,
`MaxCalls`, `MaxTurns`, `MaxCancels`, `MaxPools`, `MaxCloses`, `MaxOpens`, `MaxSaid`,
`MaxLogins`, `MaxLength`, `DMaxEntries` and `DMaxExports` (of `TapeDataset`),
`MaxRestarts` and `MaxCrashes` bound clocks, inputs and faults of the environment, never the program.
Sizes stand for what is compared with a limit only: a context of 8 tokens with messages
of 1 and 4, a Discord message of up to twice the length of a part, a file of two blocks.
Requests of one kind are interchangeable, which is the symmetry used; where names are
numbers, the same is said by letting them begin in their order. Symmetry is
not used where liveness is checked. Deadlock is checked where the system has
something to do until it rests; `CHECK_DEADLOCK FALSE` stands where requests
are used up or a clock ends, and in `acp_turns`, whose instance includes the
lost turn described below.

**Fairness.** `AcpTurns!FairSpec`: an asyncio task that is ready runs in the
end, so every step of a turn task, a steering request and a close is weakly
fair (`asyncio.Lock` is FIFO and needs no more); a model call ends, as
the code puts no bound on it and everybody waits for it. That a client sends a request or a cancellation is
not fair. `MCQQGateway!PartsSpec`: the receiver's task and each shard's are
weakly fair; QQ and the network are not, and stop failing because `MaxFaults`
runs out. Nothing else is claimed to happen.

## Proofs

TLAPS proves, for every value of the constants that meets the modules'
assumptions, 38 of the 40 properties the runs check; the other two are liveness. A property of a
composite is stated in its MC module, and where the proofs are not in a module of
their own they follow the statement there.

**Turns and steering** (`AcpTurnsProofs`): `TypeOK`, `TeardownIsQuiet`,
`SteeringExactlyOnce`, `CancelIsAnswered`, `SteeringKeepsArrivalOrder` and the
refinement of `SteeringDelivery`. The inductive invariant is `TypeOK`, `RunInv`
(a live task has a registered run that is not completed, and at most one holds the
prompt lock), `EndInv` (what a close collected covers every live run of its
session, as the session is in `_closing_sessions` and adopts nobody), `SteerInv` (a
message is in the inbox or was drained, and its receipt says which) and
`CancelInv` (the cancellations a task counts are those of cancel and of a close).
`TeardownIsQuiet` alone is not inductive: it needs that nobody enters between the
collection and the teardown. The order of arrival needs
in addition that of two requests of one lock the earlier has answered when the later enters.

**Session metadata and channels** (`MCAcpSessions`): `ReloadLosesNothing`, `EndsHold`,
`TitledOnce` and `ChannelsAccountedFor`. The invariant of the metadata says what each
request may hold at each of its awaits, that a session that is being ended is not known and is
ended by one request, and what is remembered of a title that was asked for.
`TitledOnce` is proved with one connection, and
`ChannelsAccountedFor` where `session/list` shows a new session late: both are
false otherwise, and listed below. The invariant of the channels says who is
about to install or stop which channel, and that a turn is bound to the installed one.

**What a turn works with** (`MCTurnResources`): `ContainersAreKept`, `McpIsSound`,
`StreamsAreTrue`, `ClientToolsAreSound`, `SubagentsAreKnown`, `HandoffIsTimely`.

- *Containers.* The shares of an object are its holders; its queue has each waiting task
  once, the holder first and a close last; a started object is in the pool or about to be
  removed, and its container is there. Proved where closes do not overlap the next start
  (`~Overlap`), without which it is false. *Pools*: an open pool is the current one, or
  outlives its close in a run the close overlapped.
- *Managers.* Bindings follow the order of the managers, and what an agent has under a name
  of theirs is a tool of a manager that serves it, or its own.
- *Streams.* The results still expected are those of the round, place by place; the rounds on the
  tape are of different calls; what is shown as final is, under its own call. A
  terminal is shown under a call that made one with the same command: calls take the terminals
  of their command in turn, and that one is left for each is a pigeonhole argument, by a least
  place at which it failed. *Edits*: what an edit that is not overlapped has
  read is what the edits that are over wrote.
- *Subagents.* What a connection lists are tasks it watches that run, or that it keeps as ended; those it
  keeps are few, each once, and the last of them are those that ended last. A closed session may
  be kept on another connection, so this is said of every pair of them.
- *Budget.* A baseline counts the messages it covers and the tools of its request. The size of a
  sequence of messages is the last of its partial sums, which exist and are only one such
  function; so sizes add up and an estimate from the baseline is what the messages weigh.

**QQ.** `MCQQGateway`: `WindowIsKept` of `IdentifySlots`, as what was dropped from the
deque has left the window; `EventsAreHandedOnce` (what is on the wire of a shard
follows what it has seen, or its session ends before it reads on); `TokensAreSpared` (the
cached token is the last that was issued, unless it was dropped; a second try has another than
the first); `FilesAreWhole` (a name leads to files opened for it, the finished one is whole and the
part is being written; while one download at a time writes to a name it writes what the part's name
leads to; what was uploaded is the beginning of what was read, up to the offset of the next part).
`QQSendProofs`: `SeqNeverReused`, `ReportedWasSent`,
`PassiveCapKept`, `RetryIsRecognised`; the sends of a remembered message that keep their
number, among them those refused whose number is not given back yet, have different numbers, all
at most the counter, and records and reports have an accepted request behind them. Giving a
number back is safe because only the highest one is. `QQApprovalProofs`:

- `RunsAreApproved`, `RunsAreTimely`: an approval goes one way, from pending to one click to issued; a
  token names an approval that was issued, has not run and whose call is its key.
- `OutcomesAreTold`: an approval that was asked for is in one place, pending, in a click, with its command
  or recorded; what is recorded was told, waits in the queue of its session, or was pushed out, and
  that takes `Kept` later ends of the session or `MaxPending` other approvals. That it does is a count over
  sets of any size, from the library's facts about cardinality.
- `AdmissionIsKept`: the limiter's window of a sender holds the turns counted for it, or has been
  dropped, and its times are in order; a code is fresh until used, and used by one; a seen event was
  handled; the dicts of a reply drop their entries together, as they have one order.
- `StrangersRunNothing`: a turn knows all its senders at each of its stages, and who is locked out
  stays so until its time.

**Tape stores** (`TapeProofs`). Redis with EVAL: `IdsArePlaces`, the exactness of the anchor index,
`AnswersAreSlices`, and that a miss is true; what a query has found so far is related to the tape as it was
when it was asked. Without EVAL `FallbackIsExact`, as long as a tape is not reset: ids that
were given but not pushed are fresh. `SqlStoresAreSound` and `StoresAreLogs`, the
refinement of `TapeLog` by both SQL stores, step by step: for SQLite the rows refer to rows that are there and
are told apart (`Sound`), the vectors that are committed fit the index (`Fit`), and each
statement of a transaction finds what the ones before it wrote (`At`), so a rollback and
a crash leave what was committed; for SQLAlchemy the counter counts the entries as its
holder sees them, and a search that no reset has overtaken has read entries of the tape.

*Exports* (`ExportsAreTrue`). OpenTelemetry: an entry is in one place (with its writer, pending, in one
batch, one trace, or lost), and a batch is one call's; steps are slices between
the ends, so they share nothing, and by the invariant of the loop over a step a call comes before its
result. Dataset: by the invariant of the loop over a tape the rows are its slices, the open one among
them; the files are written in one order, the manifest last, so at any time the directory is what older
exports left, with its first files replaced. The loops are recursive functions: that there is a function with
their equations (`LoopExists`) is enough to argue by a least place at which the invariant fails.

**Channels and agents** (`MCChannels`): all four of its properties, of the behaviours of the run itself.

- `JobsAreKept`: while every save went well the file is the store, which holds what is owed; a reminder has
  begun or is submitted only after the store gave it up, and a job is submitted only where
  none of its runs is under way.
- `RunsAreTheirOwn`: *harness*, what has come out of a turn's queue and what waits in it are together what
  its run has put, and only the holder of a runtime's lock is heard; *agents*, what is kept for an agent and
  a session is the last thread saved there, and the links of a run are those it is to remove; *sign-in*, a
  login sleeps for what GitHub asked for since its last answer, and the file is the last login's.
- `MessagesArriveInOrder`: Feishu's thread gives one message at a time, and what a lookup was answered for is
  known from then on, also where the next lookup raises; WeChat holds what comes later
  in a chat while an image is held, and what is handed over goes before what came later; the
  stop of DingTalk cancels every task its set holds, which are all that are due.
- `RepliesFindTheirMessages`: a mark, stream or command that a reply has taken is no session's any more and no
  other reply's (Slack, WeCom, Feishu). Discord: the places where chunks begin increase until a chunk
  fits, at a least one; between the end of one chunk and the beginning of the next are blanks; so the chunks cover the
  text, whatever its length.

Every composite explores its parts one at a time. In `QQApprovalProofs` and `TapeProofs`
`PartsRunAlone` says that a behaviour of the run is one of each part's specification, for which
the theorem is; those of `MCChannels` are of the run, and the other theorems are stated of the part's
specification (`Mcp!Spec`, `Streams!Spec`, ...).

Assumed are the modules' ASSUMEs only: the bounds are natural numbers, names of
different kinds differ, the names of rows, messages and calls are numbers where the model takes the least of
them, the parts QQ asks for cover the file, and a dataset's `Order` lists each tape
once and keeps apart the files of tapes and tables. The bounds themselves, of clocks, calls and faults, may be any
number. Induction over the numbers is there as the well-founded order of the library, that a set of
them has a least element (`NatOrder`, `Least`): that carries the arguments by a first place at which something
fails, and in `MCTurnResources`, `MCChannels` and `TapeProofs` the facts about sums, chunks and loops, each of
which is defined by a recursive function. There are no RECURSIVE operators.

**Only model-checked:** `RequestsEnd` and `ReceiverSettles`, which are liveness and out of the prover's
reach, as ENABLED is. `TypeOK` of the proved modules is a theorem and no run's invariant.

## Where the code departs from its documents

Checked by a run of its own (`PROJECT.json`, *findings*): a steering request
that waits for ever (`acp_turns_zombie`), an option that is acknowledged and lost
(`acp_sessions_lost`), a call that runs after "Not run" (`qq_approval_notrun`).

Seen while modelling, excluded from the runs by the assumption named, and
found again by TLC once it is dropped:

| What happens | Where | To see it |
| --- | --- | --- |
| A session that arrives while the last user of a shared container closes starts a container of the same name, which the removal takes. `bub-docker-env/README.md:31` has it removed when the last session closes. | `environment.py:262` | `Overlap = TRUE`, `UsedContainerStays` |
| A call cancelled after `docker run` and before `_started` leaves a container nobody removes. | `environment.py:228` | drop `cut` from `NothingIsLeftBehind` |
| Close codes 4006 and 4007 ask for an identify and the shard resumes for ever. | `ws_errors.py:19` | `"4006"` in `Refusals`, `Recovers` |
| A token service that answers 503 once stops the receiver for good. | `websocket.py:536` | `"outage"` in `TokenErrors`, `GivesUpForGood` |
| A shard that awaits its cancelled heartbeat swallows its own cancellation, and the receiver neither ends nor receives. | `websocket.py:328` | 2 shards and 2 faults under `QQGateway!FairSpec`, `FailureEnds` |
| With the counter of a message evicted, numbers start again at 1, QQ answers *duplicate*, and the send reports *already sent*. | `session.py:36` | 3 messages in 2 chats, dicts of 2, `EvictionIsHarmless` |
| A click whose acknowledgement raises anything but `QQOpenAPIError` is lost with its approval, and nobody is told. | `channel.py:464` | count handlers at `"raised"` as idle, `EndsAreToldOnce` |
| Two connections each generate a title of one session; `bub-acp-server/README.md:470` says at most once. | `agent.py:1263` | 2 `Conns`, `TitledOnce` |
| `session/new` shows its id in `session/list` before its channel is installed, and installs it without the prompt lock, under a turn that a second client started. | `agent.py:617` | `ListedEarly <- TRUE`, `TurnKeepsChannel` |
| Managers an application stops in the order they bound leave a tool of a stopped manager on the agent. | `bub-mcp` `plugin.py:246` | `Hosted <- FALSE`, `OwnToolsReturn` |
| Without EVAL two appends push in the other order than their ids; `bub-tapestore-redis/README.md:44` calls ids monotonic. | `store.py:93` | 2 writers, `IdsAreMonotonic` |
| A reset unregisters a tape that an append has filled again; `store.py:22` calls the registry eventually consistent. | `store.py:50` | a writer and a reset, `RegistryConverges` under `FairSpec` |

Seen while modelling, and in the models as it is: the properties speak of what
holds all the same.

*ACP server.* A bash call cancelled, or whose update fails, while its terminal is
created leaves it unreleased (`client_tools.py:155`), and so does a `kill_bash` whose
`kill_terminal` fails; background terminals are never released by the end of a turn.
Two edits of one file that overlap lose one. Without ids of the provider, the ids
`tool-0`, ... repeat from turn to turn. The calls of a cancelled turn get no result.
Subagents a connection watched stay listed there when another ends the session. A steering request with
a `steerId` may hear `failed` of a message that was taken (`agent.py:812`).

*QQ.* A click that is delivered twice is acknowledged and handed over twice; a toggle
delivered late overwrites a newer setting; a message counts as seen before its
handler has run, so the redelivery after a failure is dropped (`common.py:132`).
Settings whose save failed are lost at a restart. Two downloads of one attachment share
the part file (`persist.py:86`), and two attachments of one message with one name share
the file. Two sends of one content that are under way at a time both go out
(`send_flow.py:188`): the README promises no more than that a `msg_seq` is used once. A
group code stays good when its issuer is removed. `aclose` may miss an HTTP session a request
opens meanwhile.

*Tape stores.* A cancellation of SQLite between BEGIN and COMMIT leaves the transaction open:
later writes fail until the store is closed, and queries read what is not committed
(`store.py:79`). `_vector_dimensions` outlives a rolled-back first index, and a reset then
fails. The nearest vectors are found among all tapes and then filtered. A text search of
SQLAlchemy around a reset returns entries that do not match. The exporter of OpenTelemetry
loses a batch that fails, leaves the entries after the last `loop.step` in no step, and of
two rounds of calls in one step keeps the later results. A dataset filter that drops an anchor
merges its slice into the one before; raw files of tapes that are gone stay; an
export that was cut off leaves newer files under an older manifest.

*Schedule.* A crash or a full disk while `jobs.json` is rewritten leaves no jobs, and the
next save makes that final (`jobstore.py:42`). A reminder that falls due while the channel
stops, or that fires before a crash, is lost. `schedule.trigger` overlaps scheduled runs.

*Channels.* Slack: a burst leaves the hourglasses of earlier messages for ever, and a reply may take the mark of
a message whose hourglass is not set yet. Discord: a reply refers to the latest message,
newer perhaps than the one it answers. Feishu: a command without a reply, or one whose handling
fails once it has left its id (`channel.py:231`), shifts later ones; a lookup that raises loses its message and is made
again at the next (`channel.py:493`);
events that come after `stop` are handed over if its thread outlived the second it is given.
WeCom: a second frame replaces the stream of the first, which then never ends. DingTalk:
callbacks that run while `stop` awaits the stream still hand messages over. WeChat: an image
processed after `stop` is held and handed over later. Discord (no token) and Feishu (no
configuration) raise in their main loop, and `stop` raises it again.

*Coding agents.* A turn that found a skill linked by another loses it with that turn's end; a
dangling link in `.agents/skills` fails the turn and leaves the links made before; a
crash leaves them all. A threads file torn by a crash fails every later turn of codex and kimi.
The process of a cancelled codex, kimi or cursor turn goes on. A cancelled harness run makes the next of its
runtime wait. Sign-in: a token whose profile cannot be read is not saved, and the expiry that is stored is
never looked at. The answer of the harness that was not streamed is lost if earlier text was.

*Others.* Once a call carried the hand-off instruction, the next request is estimated from its messages
alone. A close of the Monty environment that overlaps the start of its pool leaves the
pool open until it is closed again.

## Assumptions

- Bub closes an environment once, begins no call on a closed one, starts the MCP
  managers once before any turn, and calls the `load_state` hooks in a fixed order.
- `docker rm --force` succeeds; a command whose caller was cancelled takes effect
  later or never; commands under way are settled before a crashed Bub is back.
- An MCP client that has begun to close is closed in the end.
- An error response of QQ means QQ did not accept the message; a timestamp is
  the only thing that closes a reply window.
- A ZSCAN is one command, as it is for small sorted sets.
- The agent is run without `send_user_message_updates`, as is the default (`config.py:15`): with it a turn may
  also fail before it waits for the prompt lock. What a prompt contains can be converted.
- Slack's client runs the listener of one event up to its reaction before that of the next.
- A cancelled connect of the SQLite store counts as done or not begun: the code drops the connection, and the next
  call opens and configures one as the first did (`store.py:340`).
- A click that changes nothing is no step. `TTL = 0` means valid for one tick.
- Bub merges waiting messages of one session into one turn, in their order, and hands a
  turn's replies to the channel of its session.
- A database commits or rolls a transaction back whole; SQLite and the server kinds of
  database differ in who waits or fails when two write.
- A replaced or truncated file is what its last completed write left, or torn by a crash.
- The harness gives a notification to whoever runs in it, and GitHub asks for no shorter
  interval than before.

## Not modelled

- The shutdown of the ACP agent while turns run (its channels' shutdown is modelled): what runs then is
  cancelled with the loop.
- HTTP and ASGI wiring, plugin entry points, configuration, the Extism bridge (what a
  plugin does is outside the repository, and a call is one step), the sandbox and `env` environments (one process per
  call), the plugin loader, web search, the small plugins and the scripts: they keep no state between calls.
- Data: texts, cards, keyboards, markdown, JSON, SQL, image conversion, argument
  parsing, path rules, and tables such as `protocol/errors.py`, which only choose the wording of a log line.

Worth doing next: the shutdown of `AcpTurns`, and with it the order in which a shutdown collects its tasks
(`agent.py:1386`), the one hazard no property covers.
