# A TLA+ model of Clawork

Clawork is a desktop agent: a Tauri back end with a local HTTP API, a command line
client and a user interface over it, and crates for permissions, skills, messages,
an operator database, a daemon, an MCP client and connectors. Many threads of one
process share maps behind separate locks, two SQLite databases without transactions,
and a few files. This directory holds TLA+ modules of that behaviour, TLC
configurations that check them on small instances, and proofs that TLAPS checks for
every instance.

Paths below are relative to the repository; `lib.rs` alone is
`apps/desktop/src-tauri/src/lib.rs`.

## 1. Inventory

| component | state | operations | hard behaviour |
|---|---|---|---|
| **Permission engine** `crates/clawork-capabilities` | `mode`, `pending`, `approved`, each behind its own `RwLock` | `request_elevation`, `approve_token`, `authorize`, `current_mode`, `expire_elevation_if_needed`, `reset_to_sandbox` | no operation is atomic: an expiry is three critical sections, an authorization reads the clock, the mode and the approvals at three moments |
| **Action gate and handlers** `lib.rs`, `local_api_handlers.rs`, `crates/clawork-fs`, `crates/clawork-audit` | the engine, the domain policies, the audit log | 22 handlers that pass `authorize_action` and `ensure_action_still_authorized`, act, and audit | every `await` lets elevations end, policies change and the application restart; effects fail half-way; audit records get lost |
| **Local API tokens** `local_auth.rs`, `local_api_handlers.rs` | the registry in memory, `data/cli.token` | issue, revoke, rotate, `require_auth`, the start of the application | authorization is separate from the act, a rotation is three steps, the file outlives the registry |
| **Operator sessions** `crates/clawork-operator`, `lib.rs` | sessions, plan steps, proposals, approvals in SQLite | create, plan, run, approve, reject, timeline | several statements without a transaction; states set without a look at the old one |
| **Scheduled tasks** `crates/clawork-operator`, `lib.rs` | cron tasks with `next_run_at` | create, run now, a loop every 15 s | the loop reads due tasks and runs them later, against manual runs, restarts and failing writes |
| **Daemon and watchdog** `crates/clawork-daemon`, `lib.rs` | `running`, heartbeat and cron jobs, `daemon_should_run` | start, stop, restart, a health loop every 30 s | stop and restart are spawned tasks that may run in either order |
| **Inbound messages** `lib.rs`, `webhook_api.rs`, `crates/clawork-adapters` | messages, keys seen, the file of keys | poll, webhook, remember, persist, autorun, reply | deduplication over restarts, snapshots written late, one adapter failing |
| **MCP client** `crates/clawork-mcp-client` | one child process behind a mutex, a request id | ensure session, call, retry | timeouts, late answers, answers matched by order alone, a tool that runs twice |
| **Research and media jobs** `lib.rs`, `crates/clawork-operator` | job rows, report files, artifacts | create, report, file, register, complete | a request that ends half-way: a job that stays `running`, a file without its artifact |
| **Natural language execution** `local_api_handlers.rs`, `bin/clawork-cli` | none of its own | plan, execute each step through a handler; the client confirms and asks again | a step that needs confirmation in the middle of a plan, which is then repeated whole |
| **Skills** `crates/clawork-skills` | a map of manifests, one process a run | reload, watch, create; execute a child process | scans that cross changes and each other; a process that hangs, floods or does not read its input |
| **Connector OAuth** `crates/clawork-operator` | one row a provider | start, callback | each is one statement; no state ties a callback to its start |
| memory, browser, office, MCP servers, UI, scripts | files, pages, formats | - | I/O and presentation |

How they interact: the UI commands, the HTTP handlers and the loops that `run` spawns
call the same `*_inner` functions on one `AppState`. Each HTTP call first passes
`require_auth`; each gated handler then passes the gate, which asks the policies of
the operator store and the permission engine, acts, and appends to the audit log. The
loops (expiry 2 s, health 30 s, tasks 15 s, inbound) share the state with them.

What makes each component correct:

- *engine*: an approval never outlives its confirmation or the expiry of the
  elevation; only an expired elevation ends by itself, and it does end; an answer of
  `authorize` rests on something that held while it ran; calls return.
- *gate*: no dangerous effect without the user's consent, no effect that a policy
  forbids, no path outside the roots without an elevation where the path is checked
  (`fs_read`, `fs_write`), and an audit log that says what was done. Three handlers
  write where the client says with no check of the path, on the approval that any write
  needs: `office_create_excel`, `media_generate`, and `research_create_job` by the name
  of a project. So does `create_html_artifact` (`local_api_handlers.rs:945`), a step of a
  plan that passes no gate at all.
- *tokens*: what a rotation or a lifetime ends stays ended, over failures and restarts,
  and the token in the file is one that works.
- *operator*: a session waits for an approval only if there is something to approve, a
  plan is there whole once it is made; and whatever requests left behind that crossed or
  were cut short, the next one by itself puts it right (a decision and its log entry too).
- *tasks*: a time of a schedule is fired once, and it is made up for when it was missed.
- *research jobs*: a job is completed when all that belongs to it is there.
- *plans*: success means all of the plan; what needs consent is not done twice.
- *skills*: the registry follows the directory; a run ends, with all of the output or none.
- *daemon*: it runs exactly when the last request wanted it to.
- *inbound*: no message is skipped, none is acted on twice while its key is kept, and what
  is accepted is acted on.
- *MCP*: an answer belongs to the request that gets it; a call returns.

## 2. Plan

The order, most important first. A run is added for a question of its own only; components
that share no state are checked side by side in one run (`MCRequests`, `MCChildren`).

1. `PermissionEngine`, `PermissionService` (what it promises), `PermissionRefinement`,
   `PermissionDecisions`; proofs of types, approvals, elevations and refinement. Done.
2. `Handlers` and `ActionGate`, over an engine whose calls are atomic. Done.
3. `LocalAuth`. Done.
4. `Daemon`, `Inbound`. Done.
5. `OperatorSessions`, `Scheduler`, `ResearchJobs`, `PlanExecution`, composed in
   `MCRequests`. Done.
6. `McpClient`, `SkillRegistry`, `SkillRun`, composed in `MCChildren`. Done.
7. Proofs. Done: every invariant and action property that a run checks, and the refinement
   of the engine, are theorems.
8. Next: the type invariants that are not theorems yet; an abstract queue of calls that
   `McpClient` implements as long as no line is `offset`; consent over the lock-granular engine instead of the atomic one.

## 3. The modules

### PermissionEngine

One step is one critical section, or one reading of the clock, of one thread. `pc[t]`
is the place in the code; `frame[t]` its local variables: `start` and `now` are the two
readings of the clock a call makes, `expiry` the value carried from one lock to the
next. `expire_elevation_if_needed` is inlined in three operations, so `frame[t].back`
says where it returns to. Its steps are `ExpireNow` (the clock, before the lock),
`ExpireMode`, `ClearPending`, `ClearApproved`. `approve_token` holds the read guard on
`pending` over the insertion into `approved`: `readers` is the set of such threads, and
`ClearPending` and `Mint`, which need the write lock, wait for it to be empty. A lock
held inside one step only is that step's atomicity. A token is a UUID: `Mint` takes one
that was never `issued`. The clock moves forward only; the code uses the wall clock and
has no defence against one that goes back.

`Reset` is one of the calls a caller may make: the application never makes it, clients of
the crate may.

`PermissionService` is the same engine without threads: agents reset it, or notice that an
elevation expired, and owe the two clears. It allows late clears, because the code makes
them. `PermissionRefinement` maps a thread between an expiry and its last clear to an agent
that owes. `PermissionDecisions` adds a history of what held during a call, to judge the
answers of `authorize`.

### Handlers and ActionGate

`Handlers` has one record for each gated handler: kind of action, kinds of target,
whether it reads the mode, whether it may find itself not configured, its effects in
order, which of them may be refused as a result rather than an error, whether the client
names the local path it reads or writes (`Pathed`), and whether that path is checked
against the roots (`Rooted`). The effects are those of the handler's longest course;
a course that skips one is shorter and has the same ends.

`ActionGate` takes a request through `CheckExpiry`, `LogExpiry`, `CheckPolicy`,
`LogDenied`, `Decide`, `LogAsked` (the first two and the decision twice: `round`), then
`Prepare`, `CheckPath`, `Perform` (once per effect), `LogDone`. Each is what the code
does between two `await`s. `AppendAudit` may lose the record, as `append_audit` ignores
errors. `Restart` loses the engine and whatever is under way and keeps the log and the
policies. `acts` is history: until when the user consents, from the elevations and
approvals the user made since the last start; it is what `EffectHasConsent` compares
with, independently of the engine.

Abstractions: a call of the engine is atomic here (how its steps interleave is the
subject of `PermissionEngine`); a domain is a value, and whether a target has one is in
`Handlers`; the audit records of the user's own elevations and approvals are left out;
`create_html_artifact` and `llm_prompt` do not pass the gate and are not in it; where a path
lies is one bit of the request, which any handler that is given a path may have.

### LocalAuth

`registry` maps a token to `Absent`, `Forever` or its expiry; `file` is `data/cli.token`.
A call is authorized (`Authorize`, under the lock, dropping an expired token) and then
works: `Insert`, `Write`, `Retain` for a rotation, `Insert` for an issue, `RevokeToken`.
`Write` fails in every way `persist_cli_token` can: the old content, none, or the new
content whose mode could not be set. (A write cut off in the middle of the 44 bytes is
not modelled.) `Restart` starts again with the token of the file, without an expiry.
The clock is read in the step that uses it, and a client presents any token it has seen
in an answer or in the file.

### Daemon

`start` is `TestAndSet`, `Spawn`, `KeepHeart`, `MakeCron`, `KeepCron`, and `stop` is
`Stop`, `TakeHeart`, `TakeCron`: one step for one lock, in the order of the code. A job
is a task that runs them: the one spawned at the start of the application, one for each
request, and the watchdog (`WatchWant`, `WatchLook`, then a start). `job[j].then` says
what follows a stop, and `job[j].hand` is a task that has been spawned and is not yet in
its slot. `beats` and `crons` are the tasks that live, whatever the slots say: a handle
that is overwritten is dropped and its task goes on. A heartbeat ends when it is aborted
or when its next round finds the flag cleared (`Beat`); a scheduler ends only by a
shutdown, which may fail. The list of tasks and the events are left out, and so is a
client that hangs up in the middle of a start. `crossed` is history: a request came, or
the watchdog looked, while another task was at work.

### Inbound

A thread is the automation loop, or a request that lists the messages or is a webhook.
`job[t]` is its place and what it holds: `asked` and `batch` while it polls a feed, `got`
the messages in hand, then `keys` still to be appended to the file and `snap`, the snapshot
of all keys to be written over it (empty unless it is time to). A poll is `Ask` (the cursor is read), `Answer` or
`Refused`, `Advance` (the cursor is set), for Telegram, then `ReadLines` and `RemoveLines`
for the WhatsApp file, then the first three again for Slack; `PollFails` gives up all of
it. `Remember` is the one critical section of `remember_inbound_messages`: it goes through
the messages in order (`Taken`, each by `Take`). The writes come after the section and
without a lock. `writeln!` on a file without a buffer is two of them, the key (`AppendKey`)
and the end of its line (`EndLine`), and `std::fs::write` is two, the file emptied
(`EmptyFile`) and written from its beginning (`Rewrite`). So `saved` is a sequence of lines, each with
the keys that were written into it, and `open` says that the last has not ended: keys of two
threads may run together in a line, or the key after a restart with the one a stop cut off
before its end, and such a line is the key of nothing (`Scrap`) to who reads it. A snapshot
written over appended lines replaces them, but for those beyond its end, the first of which
it may cut. Each write happens whole or not at all. `Run` is the loop's. Telegram forgets
the messages up to the one it is asked to go beyond (`confirmed`); Slack keeps its own.
`Restart` loses cursors, keys and jobs and reads the file (`Loaded`). A write that fails loses
its key or the end of its line; a file that cannot be opened, all of them; a compaction that
fails leaves the old file, or one without its keys. History are `evicted` (keys that made room
for others), `lost` (keys not written, or no longer in the file) and `troubled` (a write
failed, two threads had keys to write at once, or a stop came within a line or a compaction). `Held` says of a message that a poll has it in hand, that it was accepted, or
that it went with a poll that failed (`dropped`).

Messages are numbered in each feed, and their key is their adapter and number. Left out are
the buffer of messages to list, the instruction's prefix and the reply, the elevation that
the loop may ask for, more than one Slack channel, and feeds that answer in pages. The
loop's approve-and-retry (`lib.rs:4848`) is never reached: it runs the plan so that an
error of a step does not end it.

### OperatorSessions

A request is a row of statements, and a step is one of them: `DeleteSteps`, `InsertStep`
(once per step of the plan), `SetPlanned` for a plan; `SetRunning`, `ListSteps`,
`ProposeAction`, `SetOutcome` for a run; `Decide`, `LogDecision` for an approval or a
rejection. `Cut` ends a request between any two of them. A stored step is
`<<plan, number>>`, so that steps of two plans that crossed are told apart; `list_steps`
orders by the time of the plan, so of two plans either may come first (a superset: equal
times fall to SQLite). `newest` and `request[c].alone` are history.

What the code does, and the model with it: a state is set by a plan or a run only,
whatever it was before (`SetState`); deciding on a proposal executes nothing and leaves its
session waiting; a plan for an id without a session is stored and answered as a success;
two runs of a session propose the same step twice.

### Scheduler

The loop is `Poll` (the rows that are due, as they are now), `RunDue`, then `ReadTask` and
`WriteRun` of `run_task_now`, `Fire` (the suggestion and the audit record); a run by hand
is the same two statements by another. `RunFails` is an error of either, which the loop
ignores: it fires and audits the task all the same, and finds it due again. `Reboot` keeps
the rows. A schedule is a set of times, and one that does not parse is the empty set.
A run looks at the clock twice: `run_task_now` dates it, and `next_cron_time` searches the
next time from the iterator's own look (`upcoming(Utc)`), a little later, and so does the
creation of a task. `NextTime` has both, and `Between` is what it passes over.
History are `fired` (how often the loop fired a task for a time), `excused` (the tasks of which
a run failed or wrote over a later one, which may be fired twice) and `skipped` (the times
passed over between the two looks).

### ResearchJobs

What `research_create_job_inner` does after the gate: `CreateJob`, `BuildReport`,
`WriteReport`, `Register`, `Complete`, `AuditJob`. `build_research_report` has no error: a
source that cannot be fetched is part of the report, so `fail_research_job` is never
called and a job without a single source is completed. `Stop` ends the request anywhere:
an error returned by `?`, a client that hangs up, a crash.

### PlanExecution

The client (`Ask`, `Confirm`) over the application (`TakeStep`, `AskStep`, `FailStep`). What
a plan's step does is `ActionGate`'s subject; here it is one decision, and a step is of a
kind: `free` passes no gate (status, memory search, the daemon), `gated` does, `masked` does
too but answers a refusal as another error (`browser_autopilot_inner` for a URL). A token
confirmed lets any step through until it runs out. `Confirm` has the code's corner: a
refusal of the second attempt is approved as well, and then nothing is asked for with it;
`NoIdleApproval` shows it needs a lapse in between. With `continue_on_error` a refusal is an
outcome of its step, and nothing is confirmed. The plan is the same in both attempts; a
language model may make another, and then nothing ties the attempts together. A dry run
(`local_api_handlers.rs:497`), which answers success and takes no step, is left out.

### McpClient

`call` is two exchanges, `initialize` and `tools/call`, with the mutex given back in
between; `mutex` is its queue (tokio's is fair), the first being who has it. An exchange is
`Lock`, `EnsureSession`, `WriteLine`, `ReadLine`; `ReadEnd` and `TimeOut` drop the session
and try once more (`GiveUp`). A dropped session does not end its server: `server[g]` lives
on with its pipes, and what was written to it is still done. The server serves its lines in
order, exits, or sends a line nobody asked for; `HangUp` drops a call where it is. The ids
of requests are never compared with those of answers, so the model has none: a line
answers `<<method, call>>`. `offset` is history: servers with a line too many, from a
notification or a call that was dropped between its write and its read. Lines are written
whole; the server's stderr, which is piped and never read, is left out.

### SkillRegistry and SkillRun

A reload of the registry scans the directory skill by skill (`ReadManifest`), gives up at a
manifest it cannot read, and puts the result in place of the registry (`Publish`).
`TakeEvent` is the watcher, one reload for each event; `CreateSkill` writes a manifest and
reloads too. `crossed` is history: two reloads were under way at once, and then the older
may end last and stay. Left out: a skills directory that goes as a whole, two directories
that name one id, and what changes before the watcher is set up.

A run is `RunSkill`, `WriteStdin` until the request is sent, `CloseStdin` (which starts the
readers), `Wait` or `TimeOutSkill`, `Join`; the process reads, writes and exits as it likes
between. Sizes are in chunks, of which a pipe holds `PipeSize`. One reader stands for both
of stdout and stderr. A skill that is not registered, or whose module or capabilities are
refused, starts no process, like a request that is too large.

## 4. The runs

| run | instance | shows |
|---|---|---|
| `engine` | 2 callers and the sweep, 2 tokens, lifetimes 1 and 2, clock to 2 | `TypeOK`, `ApprovedIsPending`, `AllowedOnGrounds`, `AskedOnlyIfLapsed`, `OnlyLapsedElevationEnds`, `ImplementsService` |
| `engine_live` | 1 caller and the sweep, 2 tokens, lifetime 1, clock to 2 | `ElevationEnds`, `CallsReturn` |
| `gate` | 2 requests to a file or a messenger, 2 tokens, policies that block writes, one elevation, one restart, clock to 1 | `EffectHasConsent`, `BlockedNotDone`, `ExpiryLoggedOnce` |
| `gate_handlers` | 1 request to any of the 22 handlers, policies that block everything, clock to 2 | `LogTellsTruth`, `SuccessIsLogged`, `OutsideNeedsElevation` |
| `auth` | 2 calls at once, 4 tokens, 1 restart, good and bad lifetimes | `RotatedOut`, `LeaseKept`, `FileTokenServesInTurn` |
| `auth_rotations` | 2 calls at once, 3 tokens | `FileTokenServes` fails: see below |
| `daemon` | boot, watchdog and a client that makes 2 requests, 2 failures | `StatusTellsTruth`, `NoneLeftBehind`, `StopObeyedInTurn`, `Revived`, `FallsSilent` |
| `daemon_stop` | boot, watchdog and 2 requests at once | `StopObeyed` fails: see below |
| `inbound` | the loop and a request, a message of Telegram or Slack, a line that the webhook delivers too, 2 keys kept, a compaction whenever there is a new key, 1 failure, 1 restart | `NoneSkipped`, `RunOnce` |
| `inbound_autorun` | the same threads, a line without an id, a message of the webhook, nothing failing | `AcceptedIsRun` fails: see below |
| `requests` | *sessions*: 1 session and an id without one, 2 clients, 5 requests, plans of 2 steps, 1 cut | `WaitingHasProposal`, `NewestPlanIsWhole`, `AloneIsDone` |
| | *scheduler*: 2 tasks, a schedule with the times 1 and 2 and one with none, 1 run by hand, 1 failing write, 1 restart | `FiredOnce`, `DueIsRun` |
| | *jobs*: 2 jobs, one of a project, 2 that stop | `JobTellsTruth` |
| | *plan*: every plan of 1 to 3 steps of every kind, both settings of continue_on_error, 1 elevation | `GatedOnce`, `SuccessIsWholePlan`, `NoIdleApproval` |
| `children` | *mcp*: 2 callers, 2 calls, 4 servers, 1 fault | `AnswersMatch`, `CallsReturnFromMcp` |
| | *registry*: 1 skill that stays and 2 that change, the watcher and a request, 3 changes | `BundledStay`, `RegistryIsCurrent` |
| | *run*: requests of 1 to 4 chunks (3 is allowed), pipes of 2, output of up to 5 (3 is read) | `SuccessIsWhole`, `RunEnds` |

Every module states its type invariant. Only the engine's is listed with a run; the others
hold under the same configurations when they are added to `INVARIANTS`. Those of the gate, the
tokens, the messages and the runs of skills are theorems too.

Why the bounds are enough. Two callers and the sweep are every pair of operations and
an expiry between them; two tokens let one be given while another is approved; a clock
that reaches 2 with lifetimes of 1 and 2 lets an elevation end, be renewed, and end
again, and a confirmation end before, with and after it. In `gate` one elevation and one
approval are the two ways of consent, and either ends while the request is in any of its
steps. `auth` needs four tokens for one rotation over another with an issue between them
and the token of a first start. The daemon's three starters (boot, request, watchdog) are all there are kinds of, two requests are every pair of a
start, a stop and a restart, and two failures are one more than it takes to fail again; its
requests are used up and a stopped daemon rests, so its runs do not look for deadlocks. In
`inbound` two messages with a key are two threads whose writes cross, one of them comes by
two ways, and a restart may find any of the steps between the lock, the writes and the run. Messages
do run twice in it, with a key that made room (a line that ran together takes a place among
the two kept) and with one that was lost without any write failing. A compaction with every new key is a late snapshot as often as
there can be one. In
`requests` two clients and five requests let a plan cross a plan, a run and another run
before a request that is alone; a plan of two steps is one that can be half there. Two
tasks and one poll make the loop's list out of date while it works through it. Plans of
three steps have a step before, at and after the one that is refused. In `children` four
servers are two for each of two exchanges, so that both attempts fail and another caller
still finds a server; three changes are one before, during and after a scan; a request of 2
chunks fits the pipe and one of 3 does not. `requests` and `children` do not look for
deadlocks: their clients stop asking. Each of their behaviours moves one component only
(`part`), for they share no state. Threads and tokens are interchangeable in every property, so the runs of the engine, the gate and the tokens use symmetry, except the
liveness run.

Fairness. `FairSpec` asks for two things. The sweep starts again whenever it can: the
loop of `lib.rs:4688` has no way out. A thread that can go on again and again does:
the runtime schedules it, and the locks are parking_lot's, which hand a lock over to a
waiting thread rather than let others overtake it for ever. No caller is assumed to
call, and the clock is not assumed to move. For the daemon the runtime runs every task
that was spawned, and the loops of the watchdog and of the heartbeats come round again
after their sleep (`lib.rs:4714`, `clawork-daemon/src/lib.rs:95`); requests need not come. In
`requests` the scheduler's loop goes on (`lib.rs:4747` has no way out and its store
answers); nothing is assumed of clients. In `children` a caller of the MCP client goes on:
the mutex of tokio is fair and every wait in it has a time limit of 15 s
(`clawork-mcp-client/src/lib.rs:31`); the runtime of a skill and its reader go on. Nothing
is assumed of servers, skills, or of a client hanging up.

What `auth_rotations` shows. `README.md:175` says that a rotation revokes the existing
tokens and saves the new one in `data/cli.token`. Two rotations that overlap each keep
only their own token: both answer with a new token, the registry ends empty, and the
token in the file opens nothing until the application is restarted. While no two rotations
overlap (`FileTokenServesInTurn`, run `auth`) the promise holds, over other calls that cross
them, failing writes and a restart.

What `daemon_stop` shows. `README.md:271` says that start, stop and restart agree with the status, and `scripts/smoke-local-api.ps1:134` that a daemon does
not run after a stop. Requests to stop and to restart only spawn their task (a start is awaited by its request, which
the model takes for a task of its own: a client that hangs up in its middle is left out), and a
start and a stop share no lock:
a stop whose flag was cleared before a start began may take away that start's scheduler,
and leave a daemon said to run without one; or it may run whole before the start it was to
undo, and the daemon runs for good. One at a time (`daemon`) both hold, and in any
case a daemon that should run is said to run in the end (`Revived`). `StatusTellsTruth`
without its condition fails the same way.

What `inbound_autorun` shows. `README.md:205` names the webhook as a route by which chat
instructions arrive. A webhook only ingests, and the loop runs only what its own poll was
the first to accept: what a webhook, or a request to list the messages, accepted first is
never run.

What the models also show, and no text of the repository contradicts: after a restart
the token of the file has no expiry, even when it was revoked or the rotation named a
lifetime (`LeaseKept` is about issued tokens, which are never in the file); an expiry
that is noticed by a status poll is not recorded (`ExpiryLoggedOnce` says at most once);
the clears after an expiry may wipe approvals that were given after it; a poll that fails
at one adapter loses what it has from the others, which are not asked again (`dropped` in
`NoneSkipped`); keys that two threads append at once run together in one line, and a snapshot of the keys that
is written late removes newer keys from the file (`lost` with `troubled` in `RunOnce`), so that
after a restart their messages may be run again; a time of a schedule between the two looks at
the clock of one run is passed over (`skipped` in `DueIsRun`); a run
of a session that crosses a new plan may find it without steps and complete it
(`AloneIsDone` asks for requests that nothing crosses); a research job whose artifact cannot
be registered, or whose client hangs up, is `running` for good (`RunningIsWorkedOn`, half of
`JobTellsTruth`, names no other cause); a task whose schedule has no next time is accepted, enabled and never due;
an MCP server that sends one notification answers every later question with the answer
before it (`offset` in `AnswersMatch`), and an exchange may run a tool twice; one manifest
that cannot be read keeps every later change of every skill out of the registry
(`RegistryIsCurrent` excuses it); and a skill that does not read a request larger than the
pipe is never timed out (`RunEnds` is about requests that fit; the limit of 10 s of
`config/clawork.example.toml:77` starts when the request has been written).

What the properties excuse, and so would not notice. Where the code gives no more, a property
says under which condition it holds, and the condition covers part of a hazard:

| property | excused |
|---|---|
| `LeaseKept` | the token of the file, which a restart honours for ever |
| `StatusTellsTruth`, `NoneLeftBehind`, `StopObeyedInTurn` | starts and stops that crossed (`StopObeyed` is about those) |
| `NoneSkipped` | what a poll had in hand when another adapter failed |
| `RunOnce` | keys that made room, and keys lost where writes failed, crossed or were cut short |
| `WaitingHasProposal` | a session whose proposals are all decided |
| `AloneIsDone` | requests that another about the same session or proposal crosses |
| `FiredOnce` | tasks of which a run failed or wrote over a later one |
| `DueIsRun` | times between the two looks at the clock of one run |
| `JobTellsTruth` | a job whose request stopped, which is left running |
| `RegistryIsCurrent` | what is left after two reloads crossed, and manifests that cannot be read |
| `RunEnds` | requests larger than the pipe |

## 5. The proofs

Each theorem is about every value of the constants that the modules' assumptions allow:
any sets of threads, callers, requests, tokens, skills or lines, any lifetimes, sizes and
schedules, any bounds. The assumptions say no more than what names are for: that the sweep
is not a caller, that `NoToken` is not a token, that numbers are natural numbers, and that
a lifetime, a limit or a pipe is not 0.

Hardly an invariant is inductive as it stands. Each module of proofs begins with what has
to be added, then has one lemma for each action, and ends with its theorems.

| module | inductive invariant | theorems |
|---|---|---|
| `PermissionEngineProofs` | `IInv`, `DInv` | `TypeCorrect`, `ApprovalsStand`, `ElevationKept` (an action property), `Implements` (the refinement), `AllowedJustly`, `AskedJustly` |
| `ActionGateProofs` | `GateInv` | `GateConsent`, `GateBlocks`, `GateOutside`, `GateLogTrue`, `GateLogComplete`, `GateExpiryOnce`, `GateTyped` |
| `LocalAuthProofs` | `AuthInv` | `RotationOutlaws`, `LeaseObeyed`, `FileServes`, `AuthTyped` |
| `DaemonProofs` | `DaemonInv` | `DaemonStatusTrue`, `DaemonLeavesNone`, `DaemonStops` |
| `InboundProofs` | `InboundInv` | `NoneIsSkipped`, `RunAtMostOnce`, `InboundTyped` |
| `RequestsProofs` | `SchedulerInv`, `JobsInv`, `PlanInv` | `FiredOnceAtMost`; `JobsTellTruth`; `GatedStepsOnce`, `SuccessTakesAll`, `ApprovalsAreShown` |
| `OperatorSessionsProofs` | `SessionsInv` | `WaitsForProposal`, `NewestPlanStands`, `AloneDoesAll` (an action property) |
| `ChildrenProofs` | `RegistryInv`, `RunInv`, `McpInv` | `BundledStayRegistered`, `RegistryCatchesUp`; `SuccessReadAll`, `RunLeavesNone`; `AnswersInStep`, `OneExchange` |

*The permission engine.* When a thread inserts an approval, what it inserts was read from
`pending` a step earlier, and the invariant must know that the entry is still there. `IInv`
says which threads hold the read lock (`LockHolders`: exactly those about to insert), that
what such a thread found still stands (`FoundStands`), which calls carry a token
(`TokenCalls`), that only issued tokens have entries (`OnlyIssued`, so that `Mint` does not
overwrite one), and that no reading of the clock is in the future (`ClockRead`, for
`ElevationKept`). `ClearPending` keeps `FoundStands` because it waits for the readers; that
is the argument the code relies on. The same invariant gives the refinement what it needs:
an insertion is a `Grant` because the confirmation stands, an expiry is an `Expire` because
the reading of the clock is not in the future, the first step of a reset is a `Reset`.
For the answers of `authorize`, `SeenIsComplete` says that what is the case now is recorded
for every call under way, whoever made it so; each of the three looks of `authorize` is then
one of the recorded moments.

*The gate.* `ConsentCovers` relates the engine to the history of what the user did: the
engine holds no elevation and no approval longer than the user's. `Fits` says of the record
of one request, by where it is, how many effects it has done, that past the gate it was
consented to, that past the check of its path an elevation was seen, and that a banned one
gets no further than the policy; a step of one request leaves the records of the others, so
each action has one record to look at. For the log, a record's decision must agree with
where its request is (`EntriesFit`), and a request is recorded once (`OneEntry`). That an
expiry is recorded once at most is a count: recorded, about to be recorded (by a request or
by the sweep) and still running are never more than the elevations (`ExpiriesCounted`).

*The tokens.* What a rotation outlaws is fixed when it begins, and it is taken out only when
it ends. So the invariant says that a token a call has minted is nobody else's (`OwnPrivate`)
and that the file holds no token which is outlawed, or will be by a rotation that has written
its own (`FileClean`): from the file a restart would bring it back. `InTurn` is what holds
while rotations do not overlap.

*The daemon.* While starts and stops do not cross there is at every step just what that step
has made or left (`Stage`), and a daemon that is to stop is being stopped for good (`Obeys`).
The proof says nothing of how numbers of heartbeats and schedulers are chosen, so `TypeOK`,
which bounds them, is not among the theorems.

*The messages.* `NoneSkipped` needs more than the cursors: what a poll *asked* to go beyond is
held already, and its answer begins right behind (`Asked`), so that a poll which sets a cursor
back, or on, leaves nothing between; the code itself never compares a cursor with what Telegram
was told to forget. `RunOnce` needs that what
was run has its key in the file as well as in memory (`RanIsSaved`, or a restart would run it
again), and that what the loop is about to run has its key there, or among the keys to be
written before it runs anything (`LoopWork`). Both are up to keys that made room or that the
file lost, and the second excuse needs trouble: as long as there was none (`Orderly`), one
thread at a time has anything to write, every line ends before the next begins, and the
snapshot of that thread holds the keys the memory holds, so that neither an append nor a
compaction takes a key from the file. What `Remember` does with any number of messages
is a function by recursion over them; as no theorem of induction can be used, the lemmas
`FollowsExists` and `TakenAccounts` take the least number for which their claim would fail
(`HasFirst`: `<` is well-founded) and show that it cannot be.

*Scheduled tasks, jobs, plans.* For `FiredOnce` a time stays on the loop's list until it was
fired (`LoopRunsDue`), a time that was fired is behind the last run and off the list
(`FiredIsBehind`), and `Poll` cannot put it there again, since the next time comes after the
last run. That uses that a set of numbers has a least one. `JobsInv` adds how far a request is
ahead of its job's row. `PlanInv` says, as long as nothing lapsed, that the steps behind were
taken, and that before the second attempt no watched step was (`NothingTaken`): a refusal of
the first attempt comes at the first watched step, so its repeat takes none twice.

*Sessions.* The properties speak of the end of a request, so `SessionsInv` says of each
request under way what it has done (`PlanWork`, `RunWork`, `DecideWork`), and that while one is
alone no other about the same is under way (`AloneIsAlone`). `OtherWork` is the argument of
non-interference: a statement of one request touches the rows of the session or proposal it is
about, so only requests that are not alone can be disturbed.

*Skills and the MCP client.* What a reload publishes it read earlier; `ReadIsCurrent` says that
this is what is on the disk, or that an event still to be taken says it is not, unless reloads
crossed. Of a run, all the skill wrote is read, in the pipe, or given up with an error
(`OutputAccounted`). In the client, who has the session is the first in line and alone there
(`HolderIsFirst`, with `InLine` for the queue), and the pipes of the session hold the one line
its exchange asked for, or the answer to it, or nothing (`PipesInStep`) unless a server spoke
unasked or a caller hung up: the code compares no ids, and what keeps its answers in step is
that a session is dropped, pipes and all, whenever an exchange fails.

Only model-checked: liveness (`ElevationEnds`, `CallsReturn`, `Revived`, `FallsSilent`,
`DueIsRun`, `CallsReturnFromMcp`, `RunEnds`), which is out of the prover's reach, and the type
invariants that section 4 does not name as theorems (the proofs have types of their own, as far
as they need them). The three properties that the code does not have are counterexamples of TLC
and have no theorem.

## 6. Not modelled

- The connectors' OAuth: `oauth_start` and `oauth_callback` are one upsert each, and no
  state ties one to the other; there is nothing to interleave. The connectors' calls are in
  `Handlers`.
- How an instruction becomes a plan (a language model, or keywords), the text of a
  briefing, the scoring of mail: text in, text out.
- Media jobs beyond their course through the gate: they have no state of their own.
- The profile and the allow list of a domain policy, which nothing reads but the list of
  policies, and the spelling of domains.
- Memory search, the browser, the office files: I/O behind a handler's effect.
- The MCP servers (`mcp_local.rs`, `mcp_remote.rs`), which translate calls into the
  handlers; the commands of the client other than through `with_approval_retry`; the user
  interface; scripts, configuration and CI.
- Formats and parsing (manifests, cron expressions, JSON, the text of a domain or a path),
  and the network and the services behind it beyond failing and answering.
