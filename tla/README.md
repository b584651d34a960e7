# Kumiho plugins: a TLA+ model

Kumiho gives coding agents a graph memory.  This repository holds the plugins
that connect a host (Claude, Codex, OpenClaw, n8n, ChatGPT, ComfyUI) to it.
Most of the code is glue; what can go wrong is concentrated where several
short-lived processes share files without a server between them, where one
asyncio or Node process runs overlapping requests, and where a call crosses a
boundary on which it can be lost, cut or repeated.  That is what is modelled.

Contents: the system, how the modules are composed, module by module what is
modelled and claimed, the runs and their bounds, findings and known
disagreements, what is proved, what is not modelled, the plan.

## The system

| Component | State it keeps | Operations | What is hard |
|---|---|---|---|
| Provisioning lock (`claude/scripts/run_kumiho_mcp.py`) | `~/.kumiho/provision.lock`, one legacy lock beside each alias | acquire, hand off to a detached child, refresh, heartbeat, sweep, release | check-then-unlink by path, kills, five-second handoff |
| Shared runtime (same file) | `~/.kumiho/venv`, install marker, attestation, alias of the plugin-data venv | probe, provision, record, migrate | kills between steps, slow probes, several installs with one marker, orphan pip |
| Backend selection: wizard and launcher (`setup.py`, `run_kumiho_mcp.py`) | two settings files, the persisted environment, Claude Desktop's entry, two `.env.local` | choose, switch, launch | six places written one after the other, read together |
| Reflex hooks (`memory-reflex.py`, `reflex-observe.py`, `reflex_prefetch_worker.py`, `reflex_state.py`) | per-session json files, ledger, latch, lock | inject recall, observe, prefetch | answers that arrive turns later, print before save, private prompts beside others |
| Claude session hooks (`save-session-artifact.py`, `code-capture-hook.py`, `session_mine_worker.py`) | saved copy, worker lock | save, mine | which reply belongs to an off-record prompt, resumed sessions |
| Decision Memory queue (`code-capture-hook.py`, `code_ingest_worker.py`, `code_capture_pending.py`) | worker lock, queue file, overflow file | hook, mine, enqueue, drain | read-modify-write without a lock, truncation, kills |
| Backfill (`backfill_inventory.py`, `backfill/ingest_runner.py`, `backfill_codex.py`) | `staging.json` | inventory, stage, ingest, resume | kill between remote write and mark, overlapping commands, off-record turns in three formats |
| Codex onboarding (`onboard_kumiho.py`, `run_kumiho_mcp.py`) | `~/.kumiho/codex.json` | choose, launch | look now, write minutes later |
| Codex lifecycle (`codex_lifecycle.py`, `codex_thread_context.py`, `*.mjs`) | a file per thread, context variables, a stdio bridge | account turns, guard edits, tag calls | lost events and replies, overlapping handlers, chunked lines |
| Cloud MCP server (`app.py`, `auth.py`, `middleware.py`) | signing keys, introspection results, routing cache | authenticate, route | concurrent misses, expiry, cancellation |
| Cloud MCP client pool (`clients.py`, `singleflight.py`) | pooled clients with leases, per-key gates | lease, build, retire, close | cancellation at every await, eviction in use |
| OpenClaw plugin | hook state, session counters, child process, timers | hooks, consolidation, start, restart, close | hooks beside a consolidation, restart of the child, late answers |
| n8n nodes | cursor in static data; attempts of a write | trigger, reconnect; retry | cursor and kill, lost answers |
| GPT connector | codes and tokens in memory, clients and PIN in two files | OAuth endpoints, rotate-pin | two writes for one approval, one-time use, caps |
| ComfyUI nodes (`nodes.py`) | files under the output directory; the graph | save, register, link, load, search | a dozen calls per save that fail or are refused, other savers |
| Launch environment (`run_kumiho_mcp.py`, `run_kumiho_ce.py`, `run_kumiho_cloud.py`) | the environment of one launch | merge sources, route, guard, bind | seven sources with their own rights and order |
| Cloud edge worker, portable skill bundles | none | proxy, packaging | I/O only |

The launcher is the meeting point: hosts start it concurrently, it takes the
**provisioning lock**, and under it works on the **shared runtime**; hooks and
workers run from that runtime.  A launch then selects the **backend** that the
wizard or the Codex onboarding recorded, puts its **environment** together and
becomes the memory server.  Around
a session, **hooks** inject recall, account turns and guard edits; at its end
the transcript is **saved and mined**, commits go through the **queue**, and an
old session is replayed by the **backfill**.  The hosted server, OpenClaw, n8n,
ComfyUI and the GPT connector reach the same graph by themselves.

`codex/scripts/_vendored_launcher.py`, `codex/scripts/bounded_proc.py` and
`codex/scripts/backfill/` are copies (`test_launcher_parity.py`), so one model
stands for both hosts.

## Composition

`ProvisionLock` and `SharedRuntime` have runs of their own.  The others are
checked in four compositions.  The components of a composition share no
variable in the code (hooks and gateways keep files of their own), so a product
would only multiply their states: a composition has a variable `live` that says
whose steps a behaviour takes, and the others rest in one initial state.  No
property speaks of two of its components at once, so nothing is lost; fairness
asks nothing of what rests.  The exception is the transcript of a session,
which `SessionEnd` extends and a backfill reads later.

| Composition | Components |
|---|---|
| `MCHosts` | `CodexBackend` (extended), `BackendConfig`, `LaunchEnv`, `Reflex`, `CodexTurns`, `CodexEditGuard`, `CodexBridge` |
| `MCEdges` | `CaptureQueue` (extended), `Transcript`, `SessionEnd`, `Backfill`, `GptGateway`, `N8nTrigger`, `N8nWrite`, `ComfyNodes` |
| `MCCloud` | `ClientPool` (extended), `CloudRequest`: a request that comes through the second enters the first |
| `MCOpenClaw` | `OpenClawSession`, `OpenClawRuntime`: a hook waits for the runtime, its "entering" steps |

A module that is instantiated states what it asks of its constants as a
definition (`BridgeAssumption`, `TranscriptBounds`, ...); the composition assumes
all of them (`BackfillBounds` asks for sessions numbered from 1, in the order of
their age; `BackendAssumption` that the names of addresses are distinct).  Several properties of a component are conjunctions of named parts;
a counterexample says which part failed.

## Modules

### ProvisionLock

A process is a launcher (`_ensure_runtime`), a wizard or a detached child; a
process id stands for a pid together with its birth time.  `file[x]` is the
record at lock path `x`: owner, token, and the frozen list of legacy locks.
`"unwritten"` is a lock created with `O_EXCL` whose record is not written yet.
`stale` marks unwritten locks older than `PROVISION_LOCK_STALE_S`.  `aliased` is
the set of legacy paths whose alias resolves to the shared runtime.

| Actions | Code |
|---|---|
| `Judge`, `Unlink` | `_remove_abandoned_lock`: its checks, then its unlink |
| `FreezeTargets` .. `UndoCanonical` | `_acquire_provision_lock`, `_acquire_desktop_compat_locks` |
| `GiveUp`, `Retry` | the callers, `_acquire_provision_lock_with_wait` |
| `Spawn`, `HandoffSeen`, `HandoffFails` | `_spawn_detached_provisioning` |
| `AdoptBegin`, `AdoptCheck`, `AdoptSwap` | `_adopt_desktop_compat_locks`, `_adopt_provision_lock` |
| `RefreshCompat`, `RefreshCanonical`, `HeartbeatAborts` | `_refresh_provision_lock`, `_provision_lock_heartbeat` |
| `BeginAlias` .. `ReleaseMigrationLock` | `_ensure_plugin_data_venv_alias` and its migration lock |
| `Release*` | `_release_provision_lock` |
| `Desktop*`, `Crash`, `Age` | an older Kumiho Desktop (external), kills, time |

Every check of a path and the unlink, rename or write it licenses are two
steps.  The several reads *before* one unlink are one step: a record is written
once and a dead owner stays dead, so the last of the reads decides.  The refresh
is two steps, legacy locks and canonical lock; its `utime` leaves no trace
because the age of a *written* record is never asked for.  Desktop's lock is
modelled in one step each way; its source is not here.

`stolen` is a history variable: `<<p, x>>` says that `p`, alive, lost its file
at `x` to somebody's unlink or replace.  The protocol cannot prevent that (see
findings), so the properties say exactly what it costs.

| Property | Claim | Run |
|---|---|---|
| `OneUnrobbedProvisioner` | two processes are in the runtime only if one was robbed of the canonical lock | `lock_live`, proved |
| `RobbedNeverMutatesAgain` | whoever was robbed finishes at most the mutation it is in | `lock_live`, proved |
| `DeadOwnerIsSwept` | a launcher that finds a dead owner's record sees it go | `lock_live` |
| `LocksKeepDesktopApart` | while the locks are not robbed: one on a provisioner's list keeps Desktop out of the shared runtime (`ListKeepsDesktopOut`; an alias made after the list was frozen is not on it and nothing is claimed of it), and no alias replaces a private venv a Desktop works in (`PrivateVenvIdle`) | `lock_desktop`, proved |
| `LocksAreHonoured` | no robbery without a kill or a half-written lock that went stale (`RobberyNeedsAFault`), and a launcher goes on to serve without leaving a lock nobody may sweep (`NothingLeftBehind`) | `lock_desktop`, proved |
| `HandoffIsComplete` | a child that owns the canonical lock owns the whole bundle | `lock_desktop`, proved |
| `OneProvisioner` | the docstring's unconditional claim: **violated** | `lock_toctou` |

Bounds: three processes are what a robbery takes (two sweepers and a victim, or
parent, child and sweeper); one kill makes the lock to sweep; two legacy paths
are what a rollback takes (one acquired, the next one busy).  `lock_live` has no
legacy path and three processes, `lock_desktop` two paths, one Desktop and two
processes.  No symmetry where liveness is checked.

Fairness (`FairSpec`): weak fairness of each launcher's own steps, i.e. the
operating system schedules a live process.  Launches, kills, failures and the
passing of time are not fair.

### SharedRuntime

Actors are pairs `<<host, role>>`: an MCP server start, its detached child, a
terminal wizard, and `setup`, which provisions from `setup.py` without serving.  A package spec (`Text`) accepts some versions and asks for
some extras.  `changed` holds the files of the fingerprint written since the
attestation was taken, which is all `_runtime_attestation_matches` can see.  The
lock is a mutex with a holder, sound as long as nobody is robbed, which is what
`ProvisionLock` establishes; a killed holder leaves `Dead`, swept by the next.

| Actions | Code |
|---|---|
| `Look`, `SkipProbe`, `Probe`, `AcquireReady`, `Recheck` | `_ensure_runtime` up to the ready path |
| `Reserve`, `Take` | detached or own provisioning |
| `Assess` .. `Verify` | `_provision`: set aside, create, install, verify |
| `WriteMarker`, `WriteAttestation` | `_write_install_marker`, `_write_runtime_attestation` |
| `KeepAlias` .. `RestoreLegacy` | `_migrate_plugin_data_venv_alias` |
| `Kill`, `PipSucceeds`, `PipFails`, `Desktop` | a kill, with or without a surviving pip; pip's end; a foreign update |

| Property | Claim |
|---|---|
| `RecordsAreTrue` | what is recorded, or served from, satisfies its package spec at that moment and is locked (`ReadyIsSatisfied`); an attestation that matches never hides a runtime a probe would reject (`AttestedIsSatisfied`); proved |
| `ServesWithoutThrash` | a server comes to serve again and again although start-up probes time out (`KeepsServing`), and nothing satisfied is reinstalled because another install has other floors (`NoThrash`) |
| `HookPathPresent`, `PipNeverTwice` | **violated**: `runtime_hook`, `runtime_pip` |

Run `runtime` has pips die with their launcher (a Windows job object); the POSIX
case is the violation run `runtime_pip`.  Two events (kill, failure, wizard,
foreign update) are the fewest in which a second fault meets what the first left
behind.  Fairness: a launched process runs on, a pip ends, and a user reconnects
a server that is not serving.  Nobody has to start a wizard or stop a server.

### BackendConfig

A *route* is what one place says: the mark of the self-hosted edition (CE) and
an endpoint.  The wizard writes it to six places one after the other (`WriteLocal`,
`WriteGlobal`, `WriteOs`, `WriteDesktop`, `WriteDotenv`) or removes it (`ClearOs`,
`ClearDesktop`, `ClearLocal`, `ClearGlobal`), after a sign-in for Cloud.  It can be
interrupted before each step named in `CutAt`, and within the two writes of Desktop's
entry (`Cancel`); up to `MaxRefused` writes are refused by the system and passed over,
as the code does with an `OSError` (`PassOver`): a settings file is then as it was or
half-written, the persisted environment as it was, Desktop's entry perhaps half done.
`Served(process)` is what a launch makes of all of them: the mode comes from any
place, an endpoint of the process counts on this machine only, the persisted
environment and `.env.local` fill gaps, and the user's settings replace all.
Around the wizard the user begins a `settings.local.json`, names an endpoint,
opens a project with settings of its own, or updates the plugin (which loses
`.env.local`), and a launch adds Desktop's entry.

| Property | Claim |
|---|---|
| `SelectionIsServed` | a launch serves something that was chosen or named at some time, never a mixture; and until a choice is *torn*, what the last completed onboarding chose, or what an interrupted one or the user's hand has begun to replace it with, except between the writes of the two settings files; proved |
| `SwitchIsComplete` | after a switch to Cloud, Cloud is served: **violated**, `backend_switch` |

A choice is torn by an interruption between the two settings files or before the
persisted environment follows them, by a write that was refused, or by an update of
the plugin that leaves `~/.kumiho/.env.local` behind.  An older choice may be served
then, and the code does serve it (disagreements below); a later choice that names
its endpoint and reaches every place mends it, one of the default endpoint does not.
What a switch to Cloud leaves in `.env.local` is `SwitchIsComplete`'s affair.

Settings files start absent, broken or empty.  Three runs of the wizard, one change
around them and one refused write let a third choice meet what the first left behind;
every step can be the one before an interruption.  The two named endpoints are
interchangeable (symmetry; the run has no liveness property).

### LaunchEnv

The environment of one launch: what each variable is and by whom it was said
(`env`), in the order in which the code reads its sources: the host's process
(`Inherit`, `Clear`), the persisted environment (`HearOs`), `.env.local`
(`HearDotenv`), the project, the user's settings, the plugin's own (`HearProject`,
`HearSettings`, `HearPlugin`); Codex reads its own file instead (`CodexCe`,
`CodexCloud`).  Then templates go (`Sanitize`), the edition routes or refuses
(`RouteCe`, `RouteCloud`), the model is guarded (`ConfigureLlm`) and an adapter
binds the client (`BindCe`, `BindCloud`), which a tool call may refresh (`Refresh`).
An address is what the guards tell apart: on this machine, with credentials,
remote over TLS, remote in plain text, unreadable.

`LaunchIsSafe` (proved): a server of CE talks to this machine alone and has no
token (`CeStaysHere`); one of Cloud has no route of CE, no client of the SDK's own
choice, and sends no vendor key in plain text (`CloudStaysCloud`); what a checkout
says stays on this machine, the user's settings win, and Codex hears no file of
Claude's (`UserDecides`).  Each source says one thing, three are heard in all: one
to be overruled, one to overrule it, and the edition.

### CodexBackend

An onboarding run looks at `codex.json` (`Look`), decides (`Resolve`: what was
asked for, else what the file said, else the backend that answers), signs in
and writes (`Write`); a launch refuses to start on a file it cannot read.  The
file is spoilt or removed, the credential runs out, the server comes and goes,
and `setup_codex.py` registers variables of its own meanwhile.
`ExplicitIsServed`: an explicit choice is served or nothing is, until another
explicit choice; proved.  One onboarding at a time, three runs, three changes.

### Reflex

State is the session's files: `turn.json` (`turnFile`), `recall.json`, the
observer's count of quiet turns, the latch, `prefetch.lock` and the shared
`recall.json.tmp`.  A prompt stands for its text and a query for the set of
prompts whose text it contains.

| Actions | Code |
|---|---|
| `Submit`, `Save`, `HookCut` | `memory-reflex.py` `main`: what it injects, then what it saves; a kill in between |
| `Reflects`, `Stop` | the agent's own reflect; `reflex-observe.py` `main`, which counts the turn and starts a worker |
| `FetcherStep`, `FetcherCut` | `reflex_prefetch_worker.py`: lock, query, recall, `write_json_atomic`; a kill |
| `LockAges`, `RecallAges` | time |

| Property | Claim |
|---|---|
| `InsightsAreRight` | an insight is shown only with the prompt it was made for, though its worker may have started turns ago (`InsightFitsPrompt`); what was saved as injected is not injected again, nudges keep their distance, and the session stays within its budget (`SaidOnce`); proved |
| `PrivateStaysOut` | no private prompt is in a query or in the file of the turn, not as the prompt before and not through an answer that repeats it; proved |

Three prompts (plain, one that asks for no write, private), three turns, one
worker, one kill.  With two workers at once the shared temporary file lets one
publish the other's half; the lock makes that rare but does not exclude it.

### CodexTurns, CodexEditGuard, CodexBridge

`CodexTurns` is the accounting of `dispatch()`: an event is a step, since a lock
of the thread is held for all of it.  Between host and hook an event may be lost
before its state is saved and a reply after it.  A refused stop comes back as a
turn with an id of its own (`Continued`); the file keeps the last `Keep` turns.

`CodexEditGuard` is the guard of a patch: it asks `code_why` file by file
(`LookUp`, `LookUpFails`) while others edit and commit, then denies with the
rationale as far as it has room, and the agent submits again.  A receipt is saved
for every file that was looked up (`codex_lifecycle.py:482-486`), also when its
rationale no longer fits: a denial speaks of eight paths, with 800 characters for
each and 1800 in all, so two rationales of full length fit.  `Room` counts them.

`CodexBridge` is the way of a call: the launcher finds the session of its
environment and starts the server; Codex writes lines in pieces; the bridge
reads them at any chunk boundary, moves the thread id of the metadata into a
private argument and removes a forged one; a task of the server (a thread that
is used again, or a coroutine) binds it to a context variable, answers, and
resets it; the answer returns as a hook event and becomes a receipt when
`ReflectOk`.  A session may carry a generation suffix (`:cN`), which counts as
the session.

| Property | Claim |
|---|---|
| `TurnsAreCounted` | a stop is refused at most twice, never for a turn that wanted no write (`NagsAreBounded`); without losses each public turn that ended is counted once (`CountIsExact`); proved |
| `EditsAreInformed` | a patch that passes touches only files whose rationale the agent was told in this turn for this HEAD and content, or whose denial was lost or had no room; proved |
| `CallsAreOwn` | a call works on the session of the thread its own metadata names (`CallsKeepTheirThread`); a receipt needs the turn's own call with every capture stored (`ReceiptsAreOwn`); messages stay in order (`LinesKeepTheirOrder`); proved |

Four turn ids with `Every` and `Keep` 2; two files, two versions, two turns, one
loss; two threads, two tasks, two lines (two overlapping calls, or a call and
its hook) and two captures.

### CaptureQueue

Commits are numbered in the order they are made.  A worker is spawned after a
commit and at session end.  The worker lock is looked at, then written; the
queue file is read, spilled, truncated and filled in separate steps.  `mishap`
remembers that two updates overlapped, that one was cut between truncation and
write, or that a spill failed; `owed` the commits whose `enqueue` returned.
The agent's capture call is external; `done` is the source's.

`QueueIsSound` (proved): no commit stands in the queue twice, whoever overlaps
(`QueueIsDeduped`), and without a mishap a commit once queued is queued, spilled
or captured (`QueuedIsKept`).  Three commits over a queue of two make the
eviction happen; a worker and a draining agent are two concurrent updaters, each
able to run again; `LOCK_STALE_S` may pass at any moment.

### Transcript, SessionEnd

A transcript is a sequence of records: prompts, off-record prompts, replies
(with the prompt they answer), records of the harness that carry the role
"user", and records beside the conversation.  `Transcript` is what a backfill
packet shows of it, for the three sources (`Messages`, `Hidden`, `Packet`).
`SessionEnd` is what happens when the session ends: `End` saves a copy
(`_parse_transcript`, `_redact_private`, which read the same records in their own
way) and spawns a worker that looks at its lock, writes it, checks the
transcript for private turns and starts the miner; `Resume` and `Continue` let
the session go on meanwhile, `Age` lets the lock expire.

| Property | Claim |
|---|---|
| `PacketIsClean` | no excerpt is an off-record prompt or a reply to one |
| `ArtifactHides` | a reply to a private prompt is in the copy only if an entry of the harness stands between them |
| `MiningIsConsented` | a session with a private prompt is not mined, however its workers overlap, save for what is said after the check |
| `ArtifactIsClean` | the docstring's claim without that exception: **violated**, `artifact_harness` |

`OffRecordStaysOut` in `MCEdges` is the first three.  Four records are a private
prompt, something of the harness, a reply, and one more turn; two ends are two
workers.

### Backfill

One staging file, which every command reads whole and writes whole.  Inventory
commands are a step each; the runner keeps what it read at its start in memory
and writes it after every call of the server, and is stopped between any two of
these.  The server (external) keeps rows, idempotency keys and the revision that
was stacked last.

`LedgerIsTrue` (proved): a mark stands for a stored revision and no credential was
sent (`MarksAreTrue`); a capture is stored once however often the runner stops
(batch mode), and once more per stop without the idempotency prefix
(`StoredOnce`); the oldest mention ends on top (`OldestOnTop`); a Codex file has
one scope (`OneScope`).

Two sessions, two distilled captures beside the digest, of which one has the
shape of a credential, two stagings, one stop, two scopes.  `late` and `regrown`
are histories of what the claims except: captures staged during a run or after
the first upload, and a session that grew between its replay and its marks.

### GptGateway

Handlers share one event loop and await only their form, so each is a step; an
approval is three (`EnterPin` writes the clients' file, `ConsumePin` clears the
PIN in the other).  The gateway is killed at any moment, also within a write;
`RotatePin` is another process; replies are lost, and a client asks again with
what it holds.  Refresh tokens are a set with a birth order, of which only the oldest go
when there are too many.

`ConsentIsExact` (proved): the approved clients are those a PIN was entered for, each with
a PIN of its own, save for a kill within the write or between the two.
`GrantUsedOnce` (proved): a redeemed code or refresh token is worth nothing.  Three
clients over a book of two, two PINs, three grants, one kill.

### N8nTrigger, N8nWrite

`N8nTrigger` is the loop (`Connect`, `Receive`, `Break`, `Wake`), n8n's own
saving of static data and its kills.  Names are sequences of characters, because
the name filter becomes a regular expression in which `*` and `?` are
quantifiers of the character before them (`Verdict`).  `StreamIsExact` (proved):
what passes is emitted once, in order and without gaps since the first cursor, and
the kept cursor never runs ahead.  `N8nWrite` is one write after the other with its
attempts, keys and fallbacks.  A key is a hash of the request and the execution, so
items of one execution with equal requests (`like`) share it and are one write: the
service answers the second as it did the first.  `WriteIsOnce` (proved): a request is
carried out once however many items make it, and an item is reported done only
if its request, or the equal one of an earlier item, was.  Requests of different
executions never share a key and are not in one behaviour.

### ComfyNodes

The catalogue is external: the items that exist, the revisions in the order of
their creation with artifacts, edges and metadata, the tag.  A ComfyUI process
has the next call (`doing`), what it registers (`job`, `todo`, `again`, `target`)
and the dependency at hand (`owner`, `deps`, `held`).  Every call is a step: `Look`,
`Make`, `CreateRevision`, `CreateArtifact`, `Retry` (a revision that turned out to be
closed is made anew, with all its artifacts), `Tag`, then per dependency `Find`
and `Edge`.  A call is lost before or after it took effect (`CallFails`), refused
(`Refused`), the user stops ComfyUI, somebody publishes a revision.  Images and
videos have handlers of their own in the code with the same steps.

`AssetsAreTrue` (proved): what a save reports as registered has every file of the save and
the metadata of its workflow (`SavedIsWhole`); an edge leads to a revision that
holds a file which the workflow loads, and a finished save has one for every such
file that it did not give up (`LineageIsTrue`); the kref that was
returned loads a file of that save (`KrefLoadsItsSave`).  Two processes, two
saves, one fault; a video already has two artifacts, so a batch is one image.

### ClientPool

Requests are tasks of one asyncio loop, so an action is what a task does between
two awaits.  The pool's own lock and the gate table's lock are never held across
an await and are not modelled; the lock of a key's gate is, as the queue of the
requests that hold or wait for it.  A request goes through `gate`, `retire`
(closing what its look-up retired), `build`, `insert`, `evict`, `leave` and
`serve`; `close` is a last borrower closing a retired channel.  A deadline
(`middleware.py`) cancels it wherever the code has not shielded it: while it
waits for the gate or builds, never between the constructor's thread and the
map.  A constructor in its thread finishes even then, and its client goes on to
the map.

Clients are numbered by age.  The order of the `OrderedDict` is `pos`, so that an
LRU is a set and a function.  What a closed client carried is forgotten
(`owner`, `retired`), which keeps the state space small and hides nothing: it is
not reachable any more.

| Actions | Code |
|---|---|
| `EnterGate`, `LeaveGate` | `KeyedGate.hold` |
| `Hit`, `Miss`, `Construct`, `Insert` | `ClientPool._acquire`, `_build`, `_retire_locked` |
| `GiveUp` | the deadline, and errors of discovery, contract or constructor |
| `Close` | `_close_all`, one channel at a time; a failing `close` is swallowed by the code |
| `Release` | `ClientLease.release`, `ClientPool._release` |
| `Expire`, `Aclose` | the time to live of an entry; `aclose` |

`Aclose` waits until no request is left: the server is run without a graceful
shutdown timeout, so uvicorn drains it before the lifespan ends.

| Property | Claim |
|---|---|
| `LeasesAreKept` | every behaviour is one of `ChannelLease`: opened once, lent while open, closed once and unused; proved |
| `NothingLeaks` | an open channel is in the map, in use, or about to be closed; proved |
| `LeasesAreCounted` | the count that decides about closing is the number of borrowers; proved |
| `OwnCredential` | nobody is served with another credential, although token ids repeat; proved |
| `GatesOpen` | a request at a gate gets past it whatever happened to those before it (part of `NobodyWaitsForever`) |

Three requests are a holder, one waiting behind it and one of another key; two
clients and an LRU of one make each insertion of the other key evict; two
callers whose tokens carry one token id are a rotation.  Fairness: the loop runs
every ready task, and discovery, the constructor and closing a channel end
(`http_timeout_seconds`).  Requests are not obliged to finish their work, nor
does time have to pass.

### CloudRequest

The way of a request to the pool: signing keys under one lock with a cooldown
(`GetKey`, `RefreshKeys`), the state of an API key behind a gate (`Introspect`,
`Vouch`), the region by whoever misses it (`Resolve`, `StoreRoute`).  The control
plane answers at some moment between question and arrival (`Answer`); a call
fails (`CallFails`), the deadline cancels a request at any await (`TimesOut`), and
facts cease to hold (`WorldChanges`): a key is retired, an API key deleted or
expired, a tenant moved.

`TrustIsRecent`: a fact that has ceased to hold is trusted no longer than its
cache keeps it plus the time one request may wait, and an API key past its own
expiry only by a request that asked before it (proved).  `EveryRequestEnds` (the other
part of `NobodyWaitsForever`): nobody waits for a lock whose holder was cancelled.
Two requests, three arrivals, one cache cold at a time, time up to 3.  Fairness:
calls end or time out, and a free lock is taken.

### OpenClawSession, OpenClawRuntime

`OpenClawSession` has the four activities of the one Node process (before a
prompt, after an answer, before a compaction, the idle timer), each from await
to await; the backend answers, fails, or takes effect late.  `excuses` records
what the code does lose messages by.  A behaviour is followed to its first
excuse (`FollowExcused`), since nothing is claimed after it.

`OpenClawRuntime` is `ensureRuntimeStarted` and the bridge: callers share one
start, a changed credential restarts the child, exits of old children arrive at
any moment, the Dream State timer arms itself.  Credentials are refreshed by
`ensureRuntimeStarted`, and besides by a hook that has its runtime and by the timer
for a quiet user (`RefreshOutside`).  `excused` records four things after which the
code does not keep its child or its credentials apart, and a fifth for the timer;
each is a disagreement below.

| Property | Claim |
|---|---|
| `KeptUnlessExcused` | a message working memory took is in the graph or will be found by a later flush: failed and late calls alone lose nothing; proved |
| `NobodyWaits` | when the user goes quiet, what was said reaches the graph (`FlushedWhenQuiet`), and no caller waits for ever for a start or a close (`EveryCallEnds`) |
| `NothingRunsTwice` | until a start has overlapped a close, a child that was not told to end is the one the bridge talks to (`NoChildIsLost`); until a call has come during a Dream State run, there is one timer or run at a time (`OneDreamAtATime`); proved |
| `RunsWithCurrentKey` | the child has the credentials of the configuration unless a caller is about to restart it, or one of four things has happened: credentials changed during a handshake, were refreshed outside `ensureRuntimeStarted`, or were logged out, or a start overlapped a close; proved |

Four messages, a threshold of three, reads of two, one failure; two callers,
four children, two keys, two events from outside.  Fairness: the event loop runs
every ready continuation, timers fire, a call of the backend ends, the agent
answers a prompt.  Users, logins and exits are not fair.

## Runs

| Run | Shows | States, about |
|---|---|---|
| `lock_live` | what a robbery costs, and that dead owners go | liveness |
| `lock_desktop` | the bundle with legacy locks and Desktop | symmetry |
| `runtime` | records are true, servers serve | liveness |
| `cloud_mcp` | the hosted server | 90 thousand, liveness |
| `openclaw` | the OpenClaw plugin | 190 thousand, liveness |
| `hosts` | Claude Code and Codex around a session, and the launch between them | 2.9 million |
| `edges` | queue, session end, backfill, gateway, n8n, ComfyUI | 1.1 million |
| `lock_toctou`, `runtime_pip`, `runtime_hook`, `backend_switch`, `artifact_harness` | counterexamples, see findings | |

Each passing property has a mutant of a mapped definition that breaks it
(`PROJECT.json`); the mutated definitions stand before the originals, marked as
such.  Most runs have no deadlock check: a program that has served its bound of
prompts, commits or requests stops.

## Findings

Places where a comment or a docstring promises what the code does not do, each
with a run that TLC refutes; `PROJECT.json` quotes the lines.

- `lock_toctou`: a sweeper can unlink a newer live lock.
- `runtime_pip`: a pip survives its killed launcher on POSIX and a second starts.
- `runtime_hook`: a kill between the two renames of the migration leaves no path.
- `backend_switch`: CE and then Cloud leaves the CE mark in `.env.local`, which wins.
- `artifact_harness`: a harness entry after an off-record prompt ends the hiding
  of its reply in the saved copy.

## Known disagreements without a run

Met while modelling; some are excepted by a property's wording, bound or history
variable, as said there.

- `run_kumiho_mcp.py:2039`: legacy locks are listed before the canonical lock is
  held; an alias made in between leaves its lock out of the bundle, and a Desktop
  that comes through it is in the runtime beside the provisioner, with no robbery.
- `run_kumiho_mcp.py:2610`: two installs with different package texts overwrite
  each other's attestation; with slow probes neither serves.
- `code_ingest_worker.py:93`: a worker that finds a fresh lock drops its commit,
  beside the comment at `:118` ("Never drop the commit").
- `backfill_inventory.py:506`: a ChatGPT export is linearized by time, so the
  reply to an off-record prompt on one branch can follow an open prompt of
  another, and is shown (`Branching = TRUE` violates `PacketIsClean`).
- `session_mine_worker.py:151`: what a resumed session says between the check and
  the miner's own reading is sent; the lock is removed by whoever leaves (`:198`).
- Backfill: a session that grows between a stored row and its mark is stored
  twice; the runner's whole-file write loses what was staged meanwhile.
- `reflex_prefetch_worker.py:640`: two workers at once share one temporary file;
  the first words of an answer to an off-record prompt can reach a query.
- `setup.py:748-770`, `:1926-1936`: an onboarding that is cut between
  `settings.local.json` and `settings.json`, or passes over a refused write, leaves an
  older endpoint in the second.  One for the default endpoint that is cut before the
  persisted environment has removed the old endpoint from the settings only; the next
  one, whose environment no longer has it, leaves it there, ends, and it is served.
- `setup.py`: `--yes` drops a configured endpoint; with no readable settings file
  the broken `settings.json` is overwritten (721-760).
- `onboard_kumiho.py`: of two overlapping onboardings the later write wins, even
  when it decided by itself and the other was asked for a backend.
- `kumihoApi.ts:332`: a retried create without a key finds its own earlier write
  as a conflict; where the fallback does not find it, it is reported failed.
- `kumihoApi.ts:102-110`: two items of one execution with equal requests share a key:
  the second, a revision say, is reported done and nothing is done for it.
- `KumihoAction.node.ts:2105-2126` looks for a space after a 5xx only, beside
  `docs/fastapi-endpoint-map.md:22` ("409/5xx").
- `KumihoEventStreamTrigger.node.ts:267` says "Supports '\*' and '?' wildcards";
  the pattern is used as a regular expression (14-18).
- OpenClaw: hooks that run beside a consolidation, sessions longer than one read,
  consolidations of another sender, and a restart past the first session of the
  day lose messages (`excuses`).
- OpenClaw, `mcp-bridge.ts:233-246`: the exit of a child clears the bridge, whichever
  child has gone.  A start beside a close (`index.ts:876-888`; a close gives up after
  three seconds) therefore loses sight of its new child, which runs on after a stop.
- OpenClaw, `index.ts:828-851`, `:969`: the timer's variable is cleared when it fires,
  so a call during a Dream State run arms a second timer; both go on for ever.
- OpenClaw, credentials: those that a hook or the timer for a quiet user refreshes
  (`index.ts:1543`, `:1617`, `:1672`, `:1707`), and those that change during a
  handshake, restart nothing; after a logout a new child still gets the old ones,
  which the bridge only adds to (`mcp-bridge.ts:170`).
- `codex_lifecycle.py:482`: a receipt is saved for files whose rationale the denial
  had no room for; the next submission passes.
- ComfyUI: a failed registration returns a kref with `?r=new`, and a revision number
  that does not exist is replaced by the latest one while the kref still names it;
  the first match of a dependency being in another project makes every save
  register the file again; two saves within a second write the same file; a
  missing ffmpeg leaves the frames' temporary directory; a comment says that the
  whole workflow is stored with an image, from which it was removed (`nodes.py:1245`).
- `claude/README.md:206-208`, `:366` and `:569-570` say that a CE endpoint in the
  user's settings may be remote over TLS and that a Redis URL may carry
  credentials, and the launcher accepts both (`run_kumiho_mcp.py:3664-3745`);
  `run_kumiho_ce.py:19-84` refuses them, so that server exits (`CeRefuses`).
- GPT gateway: a kill between the two writes of an approval leaves the PIN usable
  for another client; `serve.py:40` starts the inner server outside its `try`.

## What is proved

Eight modules hold proofs, all for every value of the constants that the
assumptions of the modules admit.  The steps a composition takes are steps of
one component or leave its variables alone (`EachMoves` in `HostsProofs` and
`EdgesProofs`, there with `TriggerMoves` and `TranscriptMoves`, `CallsMove` in `CallsProofs`,
`HalvesMove` in `OpenClawProofs`), so
the invariants of its components are proved one by one and hold of the whole
composition.

| Module | Theorems | Assumed beyond the constants' types |
|---|---|---|
| `ProvisionLockProofs` | `TypeCorrect`, `MutualExclusionUnlessRobbed`, `RobbedIsStopped`, `HandoffTransfersBundle`, `LocksHonoured`, `ListedLocksKeepApart` | |
| `SharedRuntimeProofs` | `RuntimeTyped`, `RecordsStayTrue` | `PipDies`: a pip ends with its launcher |
| `ClientPoolProofs` | `PoolImplementsLease` (refinement), `NoChannelLeaks`, `LeaseCount`, `NoForeignCredential`, `CloudTypesHold`, `TrustAlwaysRecent` (action property), `PoolTypeCorrect` | |
| `CaptureQueueProofs` | `QueueTyped`, `QueueAlwaysSound` | |
| `HostsProofs` | `LaunchesAreSafe`, `EditsAlwaysInformed`, `PrivateAlwaysStaysOut`, `InsightsAlwaysRight`, `SelectionAlwaysServed`, `TurnsAlwaysCounted`, `CodexTyped`, `ExplicitAlwaysServed` | `OneRun`: onboardings do not overlap (for `ExplicitAlwaysServed`) |
| `CallsProofs` | `CallsAlwaysOwn` | |
| `EdgesProofs` | `LedgerAlwaysTrue`, `ConsentAlwaysExact`, `GrantsAreUsedOnce`, `WritesAreOnce`, `AssetsAlwaysTrue`, `StreamAlwaysExact`, `OffRecordAlwaysStaysOut` | `~Branching`: no export with branches (for `OffRecordAlwaysStaysOut`) |
| `OpenClawProofs` | `NothingEverRunsTwice`, `CredentialsAlwaysCurrent`, `TakenAlwaysKept`, `OpenClawTyped` | |

The three hypotheses are disagreements named above: without `PipDies`,
`RecordsAreTrue` is refuted by the story of `runtime_pip`; of two overlapping
onboardings the later write wins; and in an export with branches a reply can follow
another prompt than its own.  Others are excused by a history variable in the property
itself, where its comment and the tables above say so: `stolen`, `torn`, `excused`,
`excuses`.

None of the properties is inductive as it stands.  What each invariant adds:

**ProvisionLock.**  A state could have two processes past their checks with one
lock file.  `IInv` says what each stage implies: from its reservation to its
release a process owns the canonical file or is in `stolen` (`HolderOwns`), a
created and not yet written file belongs to its creator (`WriterOwns`), a token
is the process's own or that of a parent who waits or is gone (`TokenOK`,
`ParentOK`), what a pending write, replacement or unlink is about (`PendingOK`)
and who may stand in the record (`CanonicalOK`).  Since a path holds one record,
two owners are equal unless one was robbed.  `RecordInv` adds what the canonical
record says of the process it names (how far it has come, its token, its frozen
list) and that whoever was robbed never gets the record back: hence no second
mutation.  `FaultInv` says that without a kill and a stale half-written lock
nobody alive is robbed.  `BundleInv` follows the legacy locks: which of the frozen
ones a process holds, or was robbed of, at each step of acquisition (`LoopOK`),
handoff (`AdoptOf`), use and release (`BundleOf`, `LeftOf`), and what a Desktop
then cannot do (`DesktopOf`, `PrivateOf`).

**SharedRuntime.**  A record is true because of what the steps before it left:
the holder of the lock is alone in the runtime (`LockOK`), every pip has its
launcher waiting (`PipOK`), a half-built Python has changed files (`PythonOK`),
and after pip the spec is satisfied (`PipWorks`).

**ClientPool.**  That a channel is closed without borrowers depends on the count
when it is *retired*, not when it is closed, so `IInv` carries the promise along:
`DueOK` (what waits to be closed is open, unused, out of the map and in one
task's hands), `PoolOpen` and `RetiredOpen`, `InsertOK` (a client on its way into
the map is its builder's alone) and `Accounted` (which of these an open client
is).  The count is tied to the borrowers by the cardinality theorems of finite
sets.

**CaptureQueue.**  A process that rewrites the queue holds in `keep` what will
stand there: each commit once, within the cap (`KeepOK`), nothing of the queue
forgotten (`NothingForgotten`), and an empty file when it is filled (`Emptied`);
while there is no mishap there is one such process (`OneUpdater`).

**CodexBackend, BackendConfig.**  `FileOK`: the file says what was asked for or is
spoilt.  `ClaudeInv` has three parts.  `ClaudeGround` holds whatever is cut or refused:
no place says anything that was not chosen or named at some time (`AllChosen`), and the
wizard takes the steps of what it was asked for (`WantFits`).  While nothing is torn,
`Sound` says that every place leads to what may be served (`Fits`), and that the
persisted environment names an endpoint only while the settings do (`OsBacked`), which
is why the wizard knows that it has to be cleared.  `Progress` says what a run with no
refused write has already put right, also of what was torn before, which is how a
choice that reaches every place mends it.

**LaunchEnv, CodexEditGuard, Reflex.**  `LaunchInv` is the environment between two
sources: who may have said what so far (`Sources`) and what the launcher has
settled (`Routed`).  `GuardInv` says that a receipt stands for a rationale that was
shown, and that a running check has seen only receipts and what it is about to
explain.  `ReflexInv` says that no worker holds a private prompt and that every
packet on its way was made for the prompt it names; it does not bound the
workers, so what the run excludes (two at once) is covered for these claims.
`SaidInv` says that the turn's file agrees with what was saved as said (`Agrees`):
nothing in it is repeated too soon (`Once`), the last of each kind is what the turn
remembers (`Remembered`), and what it weighs is what is spent (`Weight`); and
between a hook's print and its save, that what it is about to save agrees with
what will then have been saved.

**Backfill.**  Staging file, runner's copy and server's rows say one thing.
`MarksInv` and `PresentInv` relate the marks of both copies to the rows, `CountInv`
lets a row exceed its mark only by the stops, `BatchInv` says that what is pending
and was sent will be sent again under the same key, `OrderInv` that what is left
to stack is not younger than what was stacked, `ScopeInv` that whoever is known
was found under the scope that is written.  The runner takes the youngest of its
sessions; that there is one follows from the least element of a set of naturals
(`MinExists`), not from induction.

**GptGateway, N8nWrite.**  `ConsentInv` ties the two files and the two copies in
memory to who paid a PIN; `GrantInv` keeps what was redeemed apart from what is
live.  `WriteInv` says that a key stands for one request, of however many equal items,
and an answer for something that is there.

**N8nTrigger.**  The names and the filter stay opaque: which events pass is one set
(`Passes`), which grows only by events after all the others (`PassesGrow`), so that
the recursive function that matches them does not have to be computed.
`Emitting` says what this activation has emitted at every stage of its loop, also
while no stream is open, `Kept` that neither cursor that survives an activation,
nor the place where this one began, is ahead of what was ever emitted.

**ComfyNodes.**  `AssetInv` says how much of a save is in the catalogue at the call
its process is at: the artifacts but those still listed (`Half`), an edge or a
giving-up for each dependency that was dealt with (`Lineage`), and of the
dependency at hand whose revision is held (`Linking`).  That this survives the
other processes needs what no step of theirs takes back (`Grown`): artifacts and
edges of a revision are only added to by the process that made it (`Apart`: no two
have one save), and an edge leads to a revision that holds the file (`RevGood`).

**Transcript, SessionEnd.**  Both read positions of one transcript, so `Answers`
says where the prompt of a reply stands: before it, with no prompt in between
(unless there are branches), which makes it the one that `Hidden` looks at.
Records are only added, so a copy that was clean stays clean (`CopyStays`), and
`MinerInv` says that a worker that was cleared had seen no private prompt, and
that one that was not has sent nothing.

**CodexTurns.**  A counter is compared with a set that the file does not keep, so
`Knows` says that while nothing was lost there *is* a set of counted turns of that
size, between the public turns that ended and those that were refused before
(`Counts`).  `Nags` pays each refusal with a mark of the file, `Follows` keeps what
the host is at, under whichever id, apart from the turns before it.

**CodexBridge.**  That a call keeps its thread rests on its number being taken
once, and that on the order of what is still on its way: `Piled` and `Lined` say
that the numbers of pieces, of the read line and of the inbox increase, `Behind`
that whatever was asked is behind all of them.  `Faithful` says that a message that
arrives is a written one as the bridge makes it, or noise; `AtWork` that a task
runs a call of its own, inside its context only under its own thread and outside
it under none; `AnswerOf` what an answer was scoped to.

**CloudRequest.**  `TrustIsRecent` compares a passage with a fact that ceased to hold
at some other time, so the invariant dates everything: what a request was told
held when it began (`Told`), and what a cache keeps held at most a request's time
before it was stored (`KeysOK`, `EntryOK`, `VoucherOK`).  `WorldOK` says that what
holds now has not ceased to.

**OpenClaw.**  `RunInv`: only who waits for its own start is in one (`OwnStart`), and
a number is left for each child that may still be spawned (`Room`, an argument
about cardinalities); what bridge and handshake name exists
(`HandsAreThere`); a timer is set exactly while one runs (`Dreams`); and a child on its
way has the current credentials, or a caller that saw the change is about to
restart it (`Current`).  `SessionInv`: what consolidates is alone (`Alone`), it clears
only what it read or what is in a summary (`Sound`), and what was taken is in a
summary or in the session its user is found in (`Found`).  The types need two counts
besides (`RunLimits`, `HooksFit`): room is left for one more timer while no variable
names one (`TimersFit`), and no more messages are counted than there were, those of
the activity under way included (`CountsFit`).

Only model-checked:

- liveness under fairness (`DeadOwnerIsSwept`, `ServesWithoutThrash`,
  `NobodyWaitsForever`, `NobodyWaits`), which the prover cannot treat;
- the type invariants of the compositions `MCHosts` and `MCEdges`: each proof above carries
  the types of the variables it is about (`TurnTyped`, `BridgeTyped` and so on), for
  any constants; the rest are those of the modules whose values a fold or a recursive function computes.

## Not modelled

- Removals of a lock that the system refuses (`run_kumiho_mcp.py:2184`, `:2198`): the
  code passes over them, and the lock stays as long as its process lives
  (`NothingLeftBehind` is about removals that work).
- A host that inherited the persisted environment at a login after an onboarding: the
  launches of `BackendConfig` get the project's or Desktop's values, and read that
  environment where it is kept.  A settings file that cannot be read for a moment
  (`setup.py:737`) counts as broken.
- How lock paths are computed and process birth times are read; `--status`.
- Which modules the probe imports: a torn pip counts as an unsatisfied runtime.
- A serving process's use of the packages after the lock is released.
- The entry that launchers of several versions mend in Claude Desktop's
  configuration (`run_kumiho_mcp.py:3308-3504`); custom control planes, package
  specs and the id of a session in the environment of a launch.
- The patterns that classify a prompt as private, and the wording of anything.
- The content of recall in OpenClaw, its prefetch, artifacts and most tools;
  judged delivery and sessions of the hosted server; the proxy and the tunnels
  of the GPT connector: requests passed on without state of their own.
- The catalog behind ComfyUI's drop-down lists and its user interface.
- The edge worker and the portable skill bundles: I/O only.
- Batches of JSON-RPC messages and the end of a Windows process tree in the
  Codex bridge.

## Plan

1. `OffRecordStaysOut` with branches needs a linearization that keeps a reply with its
   prompt; the types of `MCHosts` and `MCEdges`, lemmas about folds.
2. A module for the entry in Desktop's configuration.
3. Abstract specifications: a lease with a holder that `ProvisionLock`
   implements, a bag of owed commits that `CaptureQueue` implements.
