# tether-ddns: specifications, checks and proofs

tether-ddns is a small dynamic-DNS service.  A Python backend
(`src/tether_ddns/`, FastAPI on one asyncio loop with an APScheduler
`AsyncIOScheduler`) watches the public address of a home link, updates DNS
records at the providers when it moves, watches whether the link is up at all,
keeps a history of reachability incidents, polls Healthchecks.io projects,
pings a heartbeat URL and runs hooks.  A React client (`src/frontend/src/`)
follows it over a websocket.

This directory holds TLA+ modules translated from that source, TLC
configurations that check them on small instances, and proofs checked by TLAPS.
Paths below are relative to `src/tether_ddns/` unless they start with
`src/`, `docs/` or `README.md` (the last two relative to the repository root).

## 1. Inventory

### 1.1 What runs concurrently

* One asyncio loop runs every scheduled coroutine and every `async def` route.
  A task gives the loop up only at an `await`, so what lies between two awaits
  is one atomic step with respect to other tasks.
* Plain `def` routes (domain create/update/delete, hook configuration, settings,
  `delete_healthchecks`, `set_check_visibility`, all GETs) run in a thread pool,
  in parallel with the loop and with each other, without any lock.
* `flush_state` is a plain function, so APScheduler runs it in an executor
  thread every 30 seconds.
* A job never overlaps itself (`max_instances=1`), but the same coroutine is
  reachable by several ways: `check_reachability` runs as the `reachability`
  job, as part of the one-shot `startup` job and of every `/refresh`
  (`scheduler.py:188-192`); `sync_ips` runs as the `sync` job and inside
  `check_once`; a domain is also updated by `/domains/{id}/sync`.

### 1.2 Components

| component | state | operations | talks to | properties that make it correct |
|---|---|---|---|---|
| **Domain sync** (`services/sync.py`, `services/dispatch.py`) | locals of each pass: addresses read at its start, families that changed, index into the live list, address in flight | `refresh_public_ips`, `_sync_one`, `sync_domain`, `sync_ips`, `sync_one_now` | runtime state, IP sources, providers, hooks | a domain shown as synced was acknowledged by its provider at that address; every domain reaches the current address; failures are retried and announced, recoveries too |
| **Runtime state** (`runtime.py`) | per-domain status and address, public addresses, `online`, incident view, heartbeat and healthchecks fields, remembered configurations | `set_status`, `set_freshness`, `rebuild`, `restore`, `record_reachability`, `snapshot`, ... | everything writes it, `sync_broadcast` publishes it | edits of one domain leave the others alone; restored values are reconciled |
| **Reachability** (`reachability.py`, `services/incidents.py`, `incidents.py`, `incident_store.py`) | incident window (filed incidents, ongoing one, revision, `monitoring_since`), `_dirty`, `incidents.json` | `check`, `record`, `prune`, `flush`, load on start | runtime state, file | a crash costs at most widened detail; incidents are ordered and agree with the checks; the revision tells every change; runtime, recorder and view agree |
| **Scheduler** (`scheduler.py`) | the jobs | start, shutdown, reschedule heartbeat, schedule/nudge healthchecks, `check_reachability`, `sync_ips`, `check_once`, `flush_state` | all services | transitions are reported once, and as transitions; nothing in memory is lost by a graceful shutdown |
| **Persistence** (`state_store.py`, `config_store.py`, `incident_store.py`, `app.py`) | `state.json`, `config.json`, `incidents.json`, all replaced atomically | save, load, restore at start | threads and the loop | the file is a state the program was in; a start after a crash loses only what the design says |
| **Domain routes** (`api.py:328-364`, `services/collection.py`) | the live `config.domains` list | create, update, delete, manual sync | config store, `rebuild`, sync | each edit reaches the domain it names, and the passes notice |
| **Healthchecks projects** (`services/healthchecks.py`, `healthchecks.py`, `api.py:440-527`) | refs, visibility, offline flag and runtime of each project | poll, fetch, create/update/delete, `mark_offline`, nudge | healthchecks.io, scheduler | an answer that arrives late does not undo a newer fact; endpoint and key stored together were validated together |
| **Heartbeat** (`services/heartbeat.py`, `api.py:404-438`) | status and time of the last ping | the job, the manual ping, settings | URL, scheduler | the status shown belongs to the URL configured; no ping while offline |
| **Websocket, server** (`ws.py`, `api.py:534-546`) | registered sockets | register, broadcast, disconnect | runtime state | a client ends up with the last snapshot |
| **Websocket, client** (`liveConnection.ts`, `useLiveState.ts`, `useIncidents.ts`) | socket, retry delay, timers, last message time | connect, drop, reconnect, staleness, resume | server | at most one live socket; a lost link is always retried; stale data is marked |
| **Configuration store** (`config_store.py`, `api.py:366-430`) | the settings, masked secrets | save, mask, merge, hook configuration | files | concurrent saves do not lose an edit; masking then merging keeps a secret |
| **Hooks** (`hooks/`, `services/dispatch.py`, `api.py:366-402`) | the live `config.hooks` list; the router hook's session | `dispatch`, `run_hook_now`, create, update, delete; `on_*` events | router, Pushover | one failing hook does not stop the others; no hook hears twice of an event; the router session is closed; the rule follows the address |
| **Providers** (`providers/`) | none | `update` | DNS APIs | the right zone is chosen |
| **IP sources** (`ip_sources/`) | none | `detect_public_ip` | HTTP and DNS services | the first source that answers wins |
| **Uptime figures** (`src/frontend/src/utils.ts`) | none (pure) | `overlap`, `bucketByDay`, `uptimeStats` | incidents | percentages and buckets are exact at their boundaries |
| **Plumbing** (`plugin_config.py`, `schema_fields.py`, `paths.py`, `logging_setup.py`, `__main__.py`) | plugin registry, filled once | - | - | - |

### 1.3 Where it is hard

* **State read before an await and used after it**: `refresh_public_ips` reads
  both current addresses before it awaits the sources; `check_reachability`
  reads `was_online` before the probe; `sync_domain` writes the outcome of an
  update to a domain that may have been edited or deleted meanwhile.
* **Iteration over live lists across awaits**: `sync_ips` over `config.domains`,
  `dispatch` over `config.hooks`.
* **Threads inside the loop's state**: `rebuild` empties and refills the
  dictionary of runtimes in a worker thread.
* **Crash and restart**: three files, written at different times, are read
  together by the next start.
* **Partial failure**: a provider that raises after writing the record, a save
  that raises after memory changed, a hook that raises.
* **Liveness**: failed updates must be retried and a moved address must reach
  every domain, though nothing but the freshness rule remembers that one did not.

`PROJECT.json` lists each hazard at its line, with the properties that cover it
or the reason why none does.

## 2. Modules

| module | what it is |
|---|---|
| `SyncService` | the domain-sync core with the runtimes, the domain routes, crash and restart |
| `MCSyncService` | its instances: domains, targets and addresses for TLC |
| `SyncServiceProofs` | the theorems about `SyncService` that hold however many tasks overlap |
| `SyncJobProofs` | the theorems about its addresses and events: domains that keep their record, the sync job alone |
| `IncidentLedger` | the abstract specification of the incident history: no files, no process, no crashes |
| `Reachability` | `check_reachability`, the recorder and its file, the published view, shutdown, crash and start |
| `UptimeFigures` | the figures the page computes from the incidents, over `Reachability` |
| `MCReachability` | the instances of both |
| `ReachabilityProofs`, `UptimeProofs` | the theorems about `Reachability` and about the figures |
| `Healthchecks` | projects: polls, fetch, the routes, visibility, the link |
| `MCHealthchecks`, `HealthchecksProofs` | its instance and its theorems |
| `Heartbeat` | the ping job, the manual ping, the settings route with its save, crash and restart |
| `MCHeartbeat`, `HeartbeatProofs` | its instance and its theorems |
| `LiveSockets` | the websockets and the network, shared by the next two |
| `LiveServer` | the endpoint, the connection manager and the broadcast tasks |
| `LiveClient` | `LiveConnection` with its timers, and the snapshot shown |
| `Live` | the composition of the three |
| `MCLive`, `LiveProofs` | its instances and its theorems |
| `Hooks` | the dispatch over the live list, the manual run, the hook routes, the router's session and rule |
| `MCHooks`, `HooksProofs` | its instance and its theorems |

### 2.1 `SyncService`

*Steps.*  An action is what the code does between two awaits.  `proc[t]` holds
the locals of task `t` and `pc` the await it is suspended at: `detect` (an IP
source), `announce` (the dispatch of `ip_changed`), `update` (the provider),
`hooks` (the dispatch of a `domain_update_*` event); `detected`, `acked` and
`refused` are the same awaits once the answer has arrived but the loop has not
resumed the task.  The for-loop of `sync_ips` visits several domains without
giving the loop up (disabled ones, fresh ones); this is `loop = p` with
`pc = "visit"`, one action per domain, so that no other task runs in between but
threads can.

| action | code |
|---|---|
| `StartPass` | `sync_ips` and the first line of `refresh_public_ips` |
| `SourceAnswers` | `detect_public_ip` ends, with the real address or with None |
| `NothingNew`, `AnnounceAddress`, `AnnounceReturns` | the two rounds of `refresh_public_ips` |
| `VisitDisabled`, `VisitNothingToDo`, `VisitUnknownProvider`, `VisitUpdate` | the branches of `_sync_one`, and `sync_domain` up to the provider call |
| `ProviderAnswers` | the provider acknowledges, or raises with the record written or not |
| `UpdateConfirms`, `UpdateChanges`, `UpdateOfDeletedRaises` | the rest of `sync_domain` and `_sync_one`: same status as before (no event), a new status (an event), or the `KeyError` of `sync.py:111` |
| `HooksReturn`, `EndPass` | the loop goes on, or ends |
| `StartManual`, `ManualDetected`, `ManualReturns` | `sync_one_now`, which fires no events |
| `CreateDomain`, `UpdateDomain`, `ToggleDomain`, `DeleteDomain` | the list edit of the three routes |
| `RebuildClears`, `RebuildFills` | `_persist` and the two halves of `rebuild`, in the route's thread |
| `FlushState`, `Restart` | `flush_state`, and a stop anywhere followed by the `lifespan` start |
| `LinkReported`, `AddressMoves` | the environment: reachability, the uplink |

*Abstractions.*  Everything of a domain whose change makes `rebuild` start
afresh (provider, credentials, hostname, record type) is one value, its
*target*; `record[target]` is the record that configuration writes.  `acked`,
`told` and `announced` are history variables that no action reads.  An id is
never reused, and the ids of the first list are distinct (they are uuids, made in
`config_store.py:36` and kept by every later write; `IdsAssumption`).  Two domains never share a target.  Messages,
`last_sync` times and log lines are left out, and so are the broadcasts:
`snapshot` reads the state and changes none of it.  An IP source reports the real
address or fails; a wrong address is not modelled.

`RebuildPreempted` says whether the loop may run while a thread is inside
`rebuild`.  CPython may switch threads there; the window is a few bytecodes.  It
is TRUE in `SyncRestart`, where the property must survive it, and FALSE in the
other runs, so that what they show is due to the awaits alone.

### 2.2 `Reachability` and `IncidentLedger`

A check is `StartCheck` (captures `was_online`), `ProbesAnswer` (any subset of
the resolvers), `RecordResult` (everything from the answer to the dispatch: the
recorder's fold and save, `record_reachability`, the event's payload; there is no
await in it) and `HooksReturn`.  `RecordFails` is the same step when the save
raises.  `Shutdown` flushes the runtime and then the recorder if it is dirty,
`Crash` does neither, `Start` loads both files, prunes, writes if it must and
seeds the view.  `FileDamaged` is the environment.

*Abstractions.*  The filed incidents are a set, not a list: the code appends in
time order, and `Chronological` shows the set is always linearly ordered, so that
the list's order is the one of the starts.  Two incidents equal in every field
would be one element of the set; that takes two of zero length at the same
instant with the same detail.  The clock is an integer that never steps back (the
code uses `time.time()`).  Latency, totals and the in-memory ring of samples
decide nothing and are left out.  What a transition does to healthchecks projects
is in `Healthchecks`.

`IncidentLedger` states what the history promises to a reader of the incident
list: checks are folded into a set of closed stretches and an open one, expired
stretches may go at any time, and the revision moves with every change.
`ImplementsLedger` maps the recorder's window to it; a crash, a shutdown and a
start must all look like nothing, or like an expiry.

`UptimeFigures` adds no state: `Overlap`, `Bucket` and `Stats` are the pure
functions of `utils.ts`, applied to the window of every reachable state, and
`FiguresAreCounted` compares them with a count of the seconds that lie in an
incident of each severity.  A day is `DayLength` ticks; days of 23 or 25 hours
and the rounding of the percentages are left out.

### 2.3 `Healthchecks`

| action | code |
|---|---|
| `PollTick`, `PollResumes` | `poll` up to its await and after it |
| `StartFetch`, `FetchResumes`, `FetchRecords` | `fetch`: the request, the merged list up to `persist`, the runtime |
| `UpdateInPlace`, `StartUpdate`, `UpdateResumes` | `update_healthchecks` without and with a new endpoint |
| `StartCreate`, `CreateResumes` | `create_healthchecks` |
| `RouteFinishes` | what the two do after `persist`: runtime, then the job |
| `DeleteRemoves`, `DeleteForgets` | the two halves of `delete_healthchecks`, in a thread |
| `SetVisible` | `set_check_visibility`, in a thread |
| `LinkLost`, `LinkReturns` | `check_reachability` with `mark_offline` and the nudge |
| `UpstreamAnswers`, `UpstreamChanges` | healthchecks.io |

A route on the loop is inside `persist` while `loop` names it: the loop is
blocked, the threads are not, and that is where a deletion can slip in between
the list and the runtime.  `holds` is the object identity that `poll` and
`fetch` compare (`is not`): replacing or removing the list entry takes it away.
`of` is a ghost naming the endpoint a runtime comes from.  A check is its key;
status, names and dates are left out.  Dates of jobs are left out too: a tick
may come at any time, so a nudge and `run_now` are ticks.

### 2.4 `Heartbeat`

`Begins` is `HeartbeatService.run` up to its await and `Ended` the rest, for the
job (`Tick`, never two at once) and the manual pings (`PingNow`).  A settings
request runs in a thread as `Reads`, `Assigns`, `Dumps`, `Replaces`, `Finishes`;
a ping or a crash fits between any two.  Settings are the URL and one other field,
so that partial updates can be told from full ones.  `late` is a ghost: the status
was written by a ping of an earlier URL.

### 2.5 `LiveSockets`, `LiveServer`, `LiveClient`, `Live`

A socket has a path (free, dialling, up, cut, shut) and a channel of events on
their way to the page.  `NetGoes` loses any set of connections without a word;
the page then has only its watchdog.  The daemon's state is a version number; a
snapshot carries it.  On the server `Accepts` sends the first snapshot, `Registers`
comes after the log lines, a broadcast is a task that sends to the sockets that
were registered when it began, one at a time, overtaken freely by others.
`ThreadChange` is a change made where no loop runs: `sync_broadcast` finds none
and sends nothing.  On the client every handler is an action; `Connects` follows
the code in leaving the handlers of the last socket in place.

*Abstractions.*  The back-off delay, its jitter and the ping interval are not
numbers: a scheduled retry fires in the end.  The watchdog bites when nothing can
come any more, or, at most `MaxWakes` times, when a connection is only slow.  Log
lines and the listeners other than the snapshot are left out.  A socket that is
over and has no event left may be taken again.

### 2.6 `Hooks`

`SyncService` and `Reachability` take `dispatch` as one suspension of the task that
announces; this module opens it.

| action | code |
|---|---|
| `Announces` | a family's new address is stored and `ip_changed` dispatched, up to the first hook that waits |
| `Tells` | the dispatch of any event the router hook leaves alone |
| `RunNow` | `run_hook_now` of a router hook, with the address of the moment |
| `Notified` | a hook other than the router's returns or raises, and the loop goes on |
| `LogsIn`, `Prepares`, `Applies`, `LogsOut` | `_login`, `_prepare_ipfilter`, `_apply`, `_logout`, and `finally` between them |
| `CreateHook`, `UpdateHook`, `DeleteHook` | the list edits of the hook routes, in threads |
| `SessionExpires` | the router ends the session |

The loop is an index into the live list, as in Python: an appended hook is visited,
a replaced one is visited as it is now, and a deletion shifts what follows.  `due`
and `done` are ghosts, the hooks owed an event and those that handled it.

*Abstractions.*  The event `ip` is `ip_changed` of the family of the rule and
`other` stands for every event the router hook does not support or returns from at
once.  There is one router with one rule; router hooks differ in nothing but their
switch.  Log hooks wait for nothing and are passed over inside the step.  Of the
firmware the module takes what the source relies on: one administrator session (the
docstring of `_logout`), no write token without it, and a status of 200 with
`SessionTimeout` in place of an error (`_apply`).  Whether a login while the session
is taken is refused or takes it over is left open, and both are explored.  Any other
error the router might hide behind a 200 is not modelled.  Two edits of the list at
once are not either (section 6).

`excused` is a ghost that says when the rule may be behind: a router run logged a
failure, a hook was edited while the address was being announced, another run was
under way when it was, or no router hook was switched on.

## 3. What the runs check

Every passing run explores its whole state space.  Sizes are distinct states.

### 3.1 `SyncService`

| run | instance | checks | size |
|---|---|---|---|
| `SyncJob` | the sync job, a domain of each family, two moves of the address, two failures, and two creations or switches of domains in a thread | types; `SyncedRecordIsPushed`, `SyncedIsCurrent`, `EventsTellTruth`, `IpEventsChain`, `SuccessIsCurrent`; `Converges` under fairness | 1.2 million |
| `SyncOverlap` | two passes and a manual sync over two domains, one of whose providers is not registered | `SyncedRecordIsPushed`, `UpdatingHasTask` | 2.9 million, passes symmetric |
| `SyncRestart` | one edit of any kind, a crash at any point, `rebuild` preempted, a link that comes and goes | `SyncedWasAcked` | 1.4 million |

* `SyncedWasAcked`: *synced at an address* is shown only if the provider once
  acknowledged that address for that domain.  It holds everywhere, deletions,
  crashes and preempted rebuilds included.
* `SyncedRecordIsPushed` is stronger: acknowledged for the configuration the
  domain has now.  It holds while no domain is re-targeted, and fails otherwise (below).
* `UpdatingHasTask`: nothing is ever left in `updating`, a status no rule of
  `_sync_one` picks up again.
* `SyncedIsCurrent`: when no pass runs, an enabled domain shown as synced is at
  the current public address.  The family's membership in `changed` lives for one
  pass only, so each pass must reach every domain.
* `EventsTellTruth`: hooks were last told *error* exactly of the domains in
  error.  Events compare the outcome with the status read before the update, and
  disabled domains change status behind them.
* `IpEventsChain`, `SuccessIsCurrent`: the events of a family link up; a success
  names the address that is public.
* `Converges`: once moves and failures are over, every enabled domain comes to
  rest synced with its record at the real address.

Expected violations, each a line of the repository the code does not keep:

| run | what happens |
|---|---|
| `SyncRestartStale` | a domain flushed as `updating`, or as `synced` just after the new public address was stored, is restored so and matches no condition of `_sync_one`: the "next scheduled sync" (`runtime.py:151-152`) does not reconcile it |
| `SyncEditInFlight` | a domain re-targeted while its update is in flight is marked synced though nothing was pushed to the new record |

### 3.2 `Reachability`

| run | instance | checks | size |
|---|---|---|---|
| `ReachRestart` | one check at a time, four checks, four ticks, retention of one tick, two crashes or shutdowns | all ten properties, the refinement included | 1.2 million |
| `ReachFaults` | two overlapping checks, a crash, two failed saves or damages | `Chronological` | 849 thousand |

* `DurableUpToWidening`: at every moment of the process's life the file equals
  the window but for the widened detail of the ongoing incident.
* `CleanIsSaved`: a recorder that is not dirty has nothing to write at shutdown.
* `Chronological`: incidents are ordered and disjoint across restarts and faults.
* `HistoryIsChecks`: every check within retention lies in an incident of its own
  severity, and a healthy one lies strictly inside none.
* `RevTellsChange`: the revision moves with every change of the list, the prune at
  start included; a client that compares it misses nothing.
* `ViewsAgree`: `online`, the recorder and the published view agree.
* `EventIsTransition`: with one check at a time, an event reports a change.
* `FiguresAreCounted`: the bucket of each day, and the totals, are what counting
  instants gives, at every boundary the incidents of the run produce.

### 3.3 `Healthchecks`, `Heartbeat`, `Live` and `Hooks`

| run | instance | checks | size |
|---|---|---|---|
| `Healthchecks` | one project and one that may be created, two sites with one key, a fetch, an update and a creation at a time, two requests, one change upstream | six properties, two of them liveness | 307 thousand |
| `Heartbeat` | two URLs, a settings request, a manual ping besides the job, a crash | four properties, one of them liveness | 54 thousand |
| `Live` | two sockets, one change of state, one loss of the network, a restart, a wake-up | five properties, one of them liveness | 409 thousand |
| `LiveTwoSockets` | a wake-up while the first socket is connecting | violation of `OldSocketSchedulesNothing` | |
| `Hooks` | a router hook between two that notify and room for a fourth, a pass, a check and a manual run, three events, two edits, one exchange that raises | types; `EachHookOnce`, `SessionReleased`, `RuleFollows` | 3.1 million, addresses symmetric |

* `RuntimeTellsProject`: what is shown of a project comes from the endpoint it is
  configured with and names only checks of its list, whatever was in flight when
  either changed.  One update at a time.
* `OnlyChoiceHides`: a check that stays listed changes its visibility by the
  visibility route alone; no merge under way undoes a choice.
* `DeletedStaysForgotten`: no poll, tick or loss of the link brings a deleted
  project's runtime or job back.  A route that was inside its `persist` does.
* `DownIsPaused`, `UpIsPolled`: while the link stays as it is, the paused flag of
  every project follows it in the end, late answers and lost nudges
  notwithstanding.
* `QuietIsDurable`: an answered change of the settings is on disk.
* `StatusIsOfUrl`: the outcome shown is of the configured URL, or about to be
  cleared, or the ping was under way when the URL changed.
* `StatusSettles`: if URL and link stay, the right outcome is shown for good.
* `NeverGivesUp`: until it is stopped the page holds a socket or has a
  reconnection scheduled.
* `OpenIsWatched`: a page that says *open* has its watchdog running.
* `RegisteredOnce`: broadcasts go to greeted sockets only, and to each once.
* `ShowsCurrent`: a page that is not left shows the current state in the end.
* `OldSocketSchedulesNothing` (the docstring of `teardownSocket`) fails: a resume
  while the current socket is connecting opens a second one and leaves the
  handlers of the first in place.

* `EachHookOnce`: no hook hears twice of an event, and of the hooks that matched it
  and were left alone only the one that came next at a deletion can miss it.
* `SessionReleased`: the router's session is not left open by a run that is over.
* `RuleFollows`: the rule is at the announced address once the runs are over, unless
  one of the excuses of section 2.6 holds; in particular a run whose session was
  taken never counts as a success.

### 3.4 Bounds

*Two addresses* make every relation between old, pushed and current address
(equal, different, back again).  *Two targets of one family* are needed for an
edit to change the record without changing the family; the third target adds
the second family, the fourth the unregistered provider.  *Two moves* let an
address go and return; *two failures* (`SyncJob`) make an update fail
twice in a row, or a detection and an update; with *two edits* a domain in error
can be switched off, find its old address back and be switched on.  Edits that
re-target a domain are left to `SyncRestart` and `SyncEditInFlight` (section 5 says
why).  A link that goes only delays the next pass, which a pass may do anyway.
*Two passes* are what the scheduler admits besides
`/refresh`; more only repeat the same race.  *Two resolvers* with quorums one and
two give all three severities, widening and the switch between them.  *Four
ticks* with a retention of one let an incident open, close, expire and another
follow it, across *two* stops.  The theorems of section 4 hold
without any of these bounds; those that assume `MaxCrashes = 0` or `MaxFaults = 0`
are about one run of the process, or about a disk without faults, and say so.

In `Healthchecks` *two sites* make an endpoint change, *one check* be listed or
not, *two requests* overlap in every pair of kinds, and a project be created after
another was deleted.  In `Heartbeat` *two URLs* let a ping be late.  In `Live` *two
sockets* are what a page reaches by one wake-up, *two tasks* overtake each other,
and one version beyond the first tells a current page from a stale one; a page
starts its connection once, since `useLiveState` makes one per mount.  In `Hooks`
*three events* let a manual run begin between two announcements, and *two edits*
change what a dispatch has passed and what it has yet to reach.

The bounds are the constants `Max*`, tested in guards.  They hold back the
environment (moves, failures, edits, crashes, clock) and the number of checks,
and never a step of a task already running.  In `SyncService` the flush is
enabled only while a crash is still to come: without one nothing reads the file.
`Reachability` always lets the flush happen, and in `SyncService` the job can
always start again or the link change, and `Heartbeat` can always turn the link.
`Healthchecks`, `Live` and `Hooks` may really stop (every project deleted, the page
left, no event to come), and their runs switch off TLC's deadlock check.

### 3.5 Fairness

Weak fairness throughout, stated per action and never of the environment's
changes.  `SyncService!FairSpec`: weak fairness of each pass's start and
of its steps on the loop (the interval job fires for ever; the loop resumes what
is ready), of the answers of sources and providers (every client sets a timeout),
of a thread inside `rebuild`, of manual syncs once begun, and of the reachability
report while it would change `online` (the check job is scheduled for ever).
Nothing is assumed of users, moves of the address, failures or crashes.  In
`SyncJob` the link, once reported up, stays up: with a link that flaps for ever
the sync job may always find it down.

`Healthchecks!FairSpec`: each poll job keeps ticking (an interval job), requests
to upstream end (a 10 s timeout), and what began on the loop or in a thread goes
on.  `Heartbeat!FairSpec`: the same of its job, pings and settings threads.
`Live!FairSpec`: the network returns and an attempt to connect ends one way or
the other; the loop runs its tasks, and the check that ends in a broadcast fires
every 30 s; the browser delivers events and fires the retry timer and, on a
connection that has gone silent, the watchdog.  The broadcasts of the 30 s check
are what brings a page up to date after a change nobody broadcast.

## 4. What is proved

### 4.1 `SyncService`

`SyncServiceProofs` proves, for every set of domains, targets, addresses, passes,
manual syncs and editing threads and for all bounds:

| theorem | statement | assumes |
|---|---|---|
| `TypeCorrect` | `Spec => []TypeOK` | `SyncAssumption` |
| `SyncedIsAcknowledged` | `Spec => []SyncedWasAcked` | the same |
| `UpdatingIsInFlight` | `Spec => []UpdatingHasTask` | and `MaxCrashes = 0`, `~RebuildPreempted` |

`SyncJobProofs` proves, for every set of domains, targets, addresses and editing
threads and for all bounds:

| theorem | statement | assumes, besides `SyncAssumption` and `IdsAssumption` |
|---|---|---|
| `SyncedIsTheRecordConfigured` | `Spec => []SyncedRecordIsPushed` | no edit re-targets a domain |
| `SuccessNamesCurrentAddress` | `Spec => SuccessIsCurrent` | `OneJob` |
| `IpEventsFormAChain` | `Spec => IpEventsChain` | `OneJob`, `MaxCrashes = 0` |
| `EventsAreTruthful` | `Spec => []EventsTellTruth` | `OneJob`, `MaxCrashes = 0`, `~RebuildPreempted` |
| `ChangeReachesEveryDomain` | `Spec => []SyncedIsCurrent` | the same, and edits only create or switch domains |

`OneJob` is one run of `sync_ips` at a time and no manual sync, which is how the
daemon runs when nobody presses a button and no pass outlasts the interval.

`SyncAssumption` says what the code and the instance give: a family for each
target, distinct task names, None apart from data.

1. `TypeInv` adds to `TypeOK` what a task carries across its awaits (`Carries`):
   a domain and an address to the provider, a domain into the detection of a
   manual sync.
2. `AckInv` strengthens `SyncedWasAcked`, which is not inductive: `set_freshness`
   makes a domain synced from its stored address alone, so *every* stored address
   must have been acknowledged, whatever the status; and the same must hold of
   the two places runtimes are brought back from, the state file and what a
   thread inside `rebuild` remembers.  `Acks` says that a task whose provider
   answered well is right about what was acknowledged.
3. `BusyInv` strengthens `UpdatingHasTask` with the runtimes a thread inside
   `rebuild` keeps.  A task can leave an update only while the loop runs, and
   then no thread is inside `rebuild`; this is where `~RebuildPreempted` is used,
   without it the lost outcome of section 5 breaks the property.  A restart
   loses the tasks and keeps the statuses, hence `MaxCrashes = 0`
   (`SyncRestartStale` shows the consequence).
4. `SyncedIsTheRecordConfigured` needs to know that the list, the file, what
   `rebuild` remembers, the tasks in flight and the acknowledgements all mean the
   *same* record by an id.  `AssignedInv` says that there is an assignment of
   records to ids which all of them follow; a creation extends it at the id it
   draws, and every other step keeps it.  A domain that is re-targeted while its
   update is in flight breaks it (`SyncEditInFlight`), hence the assumption.  No
   other is needed: passes and manual syncs may overlap, `rebuild` may be preempted
   and the process may crash.
5. `PushInv`: the address that the job has taken to a provider stays the public one
   until the outcome is in, as only the job stores public addresses.  A second
   pass or a manual sync may store a newer one meanwhile, hence `OneJob`.
6. `ChainInv`: the address a pass compares with is the stored one, and the stored one is what
   was announced last.  A restart brings back an older file, while the hooks know
   the newer address; hence `MaxCrashes = 0`.
7. `EventInv` strengthens `EventsTellTruth` in two places.  `set_freshness` makes a
   pending domain that has an address synced without an event, so a pending domain
   with an address must not have been told in error either.  And `sync_ips` compares the outcome with the
   status read before the update, so that status must agree with what was told.  A
   manual sync changes a status and fires nothing, a second pass reads `updating` as
   the status before and may end between the start and the end of the first, a restart forgets statuses that
   were told, and a preempted `rebuild` puts old ones back; hence the assumptions.
   Edits may be of any kind.
8. `SyncedIsCurrent` speaks of the moments between passes.  `CurrentInv` says what
   holds inside one: a synced domain is at the public address, or lies ahead of
   the pass with its family among the changed ones (`Ahead`, `ToVisit`).
   `WalkInv` says where the pass is in the list, and that it found an address for each
   family that changed.  `ListInv` says that the domains which have no runtime
   yet are the last of the list, so that a pass which meets one, and ends there,
   leaves no other behind.  A deletion moves the list under the pass and breaks
   `WalkInv`, a re-targeting changes the family of a domain that was passed
   (section 5), hence the restriction to creations and switches.

### 4.2 `Reachability`

`ReachabilityProofs` and `UptimeProofs` (the last row) prove, for every set of
resolvers, quorums, retention, number of overlapping checks and bounds:

| theorem | statement | assumes |
|---|---|---|
| `TypeCorrect` | `Spec => []TypeOK` | `ReachabilityAssumption` |
| `IncidentsAreChronological` | `Spec => []Chronological` | the same |
| `HistoryIsDurable` | `Spec => []DurableUpToWidening` | and `MaxFaults = 0` |
| `CleanRecorderIsSaved` | `Spec => []CleanIsSaved` | and `MaxFaults = 0` |
| `RevisionTellsChange` | `Spec => RevTellsChange` | and `MaxFaults = 0` |
| `HistoryTellsChecks` | `Spec => []HistoryIsChecks` | and `MaxFaults = 0` |
| `RecorderAndRuntimeAgree` | `Spec => []ViewsAgree` | and `MaxFaults = 0` |
| `RecorderImplementsLedger` | `Spec => ImplementsLedger` | and `MaxFaults = 0` |
| `EventReportsTransition` | `Spec => EventIsTransition` | `ReachabilityAssumption`, and one check at a time |
| `FiguresCount` | `Spec => []FiguresAreCounted` | `ReachabilityAssumption`, `FiguresAssumption` |

`ReachabilityAssumption` is what the code gives: finitely many resolvers, the
quorum that means online not above the one that means healthy, and the special
values distinct from data.  `MaxFaults = 0` says no save raises and nothing else
damages the file; with faults the durability theorems are false (section 5), and
the chronology still holds.

The argument goes in layers, each using the invariant of the one below.

1. `TypeCorrect`, with one type lemma per operator (`FoldedType`, `PrunedType`).
2. `OrderInvariant`: `Chronological` is not inductive, because a start brings the
   window back from the file.  `OrderInv` adds that the file, when it parses, is
   in order too.  `FoldedOrdered` is the heart: a fold files the ongoing incident
   at `now`, after everything filed, and opens the next one there.
3. `DurabilityInvariant`: `DurInv` relates file and window while the process runs
   *and while it is down* (where the stopped window is still the one the next
   start must find), and says that a recorder that is not dirty is on disk.
   `UnsavedFold` shows that a fold that is not written changes no more than the
   detail.
4. `RevisionTellsChange` and the refinement need `StartFinds`: what a start loads
   has the core of the window that was lost, so pruning it prunes the same
   incidents.
5. `HistoryTellsChecks` is the same invariant with the observation that no check
   is in the future (`HistInv`); the cases are a check told by an incident that is
   kept, one that the fold closes, and the new one.
6. `RecorderAndRuntimeAgree` adds that a check can only have been recorded while
   the process is up.  It needs durability because the view is seeded by a start.
7. `RecorderImplementsLedger` maps `RecordResult` to `Agree` or `Turn`, `Start` to
   `Expire` or a stutter, `Tick` to `Tick` and everything else to a stutter.
8. `EventReportsTransition` rests on `AwaitsInv`: a check that waits for its answer
   runs in a daemon that is up, and the link it read before it probed is the link
   still.  With a second check it need not be (section 5).  Crashes, restarts and
   failed saves are allowed.
9. `FiguresCount` compares a *sum* over the incidents, which the page folds, with a
   *count* of seconds.  `SumCounts` is the reason they agree: over a finite set of
   incidents no two of which share a second, the fold of the overlaps is the
   cardinality of the seconds covered.  The fold is a recursive function on
   sets, so the lemma first exhibits the function (it is the count itself) and then shows
   that nothing else satisfies the recursion, by taking a smallest set on which
   another would differ.  `HistoryApart` gets from `OrderInv` that no second is
   covered twice, and `HistoryIsFinite` that there are finitely many incidents, in
   memory and in the file.  `FiguresAssumption` asks for positive lengths and a
   `None` that is no time.  Faults and overlapping checks are allowed.

### 4.3 `Healthchecks`

| theorem | statement | assumes |
|---|---|---|
| `TypeCorrect` | `Spec => []TypeOK` | `HealthchecksAssumption` |
| `DeletedStays` | `Spec => DeletedStaysForgotten` | the same |
| `ChoiceStays` | `Spec => OnlyChoiceHides` | the same |
| `RuntimeTells` | `Spec => []RuntimeTellsProject` | and one update of projects at a time |

`TypeOK` is not inductive: a fetch writes the list of the project it holds.
`HoldInv` says that a poll or a fetch that still holds its object holds that of a
listed project, and a poll that of its own; replacing or removing an entry detaches
it.  `BirthInv` says that an id under creation is neither listed nor being created
twice, so that a creation overwrites nothing.  Given these, every step that touches
the runtime of an unlisted project is a route inside `persist` (`StepForgets`), and
every step that stores a list either merges, and keeps what was known, or creates
(`StepChosen`).

`RuntimeTells` rests on `TellInv`.  `Tells`: what is shown of a project is right
unless the route inside `persist` is about to replace it.  `SavedRight`: what that
route stored is what it will record.  `AskedRight`: a poll or a fetch that still
holds its object asked the endpoint the project has now.  `ValidatesRight`: putting
the fields of an update once more into the stored endpoint gives the endpoint it
validated, since nothing but that update moves the stored one in between.  The last
part is why the theorem assumes one update at a time (section 5 has the other case).

### 4.4 `Heartbeat`

| theorem | statement | assumes |
|---|---|---|
| `TypeCorrect` | `Spec => []TypeOK` | `HeartbeatAssumption` |
| `AnsweredIsDurable` | `Spec => []QuietIsDurable` | and one settings request at a time |
| `StatusFollowsUrl` | `Spec => []StatusIsOfUrl` | and one settings request at a time |

`RequestInv` says what each stage of the request knows of memory and file: what it
read, what it assigned, what it dumped.  `StatusInv` strengthens `StatusIsOfUrl`:
a status of another URL is late, or waits for a request *whose URL changed*, which
is the one that clears it.  With two requests both fail (section 5).

### 4.5 `Live`

| theorem | statement | assumes |
|---|---|---|
| `TypeCorrect` | `Spec => []TypeOK` | `SocketsAssumption` |
| `GreetedAreRegisteredOnce` | `Spec => []RegisteredOnce` | the same |
| `TriesForEver` | `Spec => []NeverGivesUp` | the same |
| `OpenPageIsWatched` | `Spec => []OpenIsWatched` | and `MaxStarts <= 1` |

A step of the network or the daemon leaves the page alone; of the page's handlers,
each that takes the socket away schedules a retry in the same step.  A connection
started a second time would begin with the status it had when it was stopped, hence
`MaxStarts <= 1`; `Fresh` says that before the first start no handler is attached.

`RegisteredInv` strengthens `RegisteredOnce` with the life of a socket
(`Unanswered`): one that is free or still dialled has no endpoint, so it is greeted once, and
appended to the list once after that.  A broadcast takes out the sockets that failed
one by one, as `disconnect` does, with `list.remove`: `FirstRemoved` and
`RemovedAt` say what that leaves, and
`Least`, the well-foundedness of the naturals, finds the first occurrence.

### 4.6 `Hooks`

| theorem | statement | assumes |
|---|---|---|
| `TypeCorrect` | `Spec => []TypeOK` | `HooksAssumption` |
| `HooksHearOnce` | `Spec => []EachHookOnce` | the same |
| `ReleasesSession` | `Spec => []SessionReleased` | the same |
| `RuleFollowsAddress` | `Spec => []RuleFollows` | the same |

All properties of the run are proved, for any number of hooks and tasks.
`EachHookOnce` says what a dispatch is at and what it ended with; `OnceInv` adds what
lies *ahead* of its index: nothing it has handled, and everything it still owes.
That needs ids to be unique and never reused.  A deletion moves what follows one
place down (`Removed`), so the invariant survives it but for the one place the
index is about to pass.  `SessionReleased` is inductive.  `RuleInv` says that
unless something excuses it every run at the router carries the public address,
and that while the rule is behind some pass is on its way to it, or is about to log
that it failed.

### 4.7 Only model-checked

Every invariant and action property of the passing runs is stated by a theorem.
What is left to TLC is liveness under fairness (`Converges`, `StatusSettles`, `ShowsCurrent`,
`DownIsPaused`, `UpIsPolled`), which needs `ENABLED`, and the
three properties the code does not have (`RestartReconciles`,
the `SyncedRecordIsPushed` of `SyncEditInFlight`, and `OldSocketSchedulesNothing`).

Inductions over data are made by taking a least counterexample (`WFMin` with
`NatLessThanWellFounded`), for the library's induction theorems take an operator as
a parameter and cannot be instantiated here.

The restrictions in the theorems are not for the prover's sake: without any one of
them the statement is false of the code, for the reason given with the theorem or
in section 5.  For each restriction in `SyncJobProofs`, `SyncJob` with that constant
changed (another pass, a manual sync, a crash, a preempted `rebuild`, another kind
of edit) ends with a counterexample; the second pass breaks `EventsTellTruth` already
with one domain and one move.

## 5. Known behaviours not given a run

Met while modelling; the properties above are stated so as not to depend on them.

* Two overlapping passes may both announce the same change of address, because
  `refresh_public_ips` compares with values read before its awaits
  (`services/sync.py:60`).
* With overlapping passes a success event may name an address that is no longer
  public, and the provider may apply two updates in either order.  A domain in error
  that two passes update at once may end in error while the hooks were last told
  success (`services/sync.py:97`).
* A status set on the loop while a thread is between the two halves of `rebuild`
  is lost, and the domain is put back as it was (`runtime.py:173`).
* An edit persisted just before a crash meets the runtime of the old target:
  `restore` (`runtime.py:162`) takes the current file as the remembered
  configuration.  Its docstring concedes this, and leans on the same "next
  scheduled sync" as `SyncRestartStale`.
* Deleting an already visited domain shifts the list under a pass
  (`services/sync.py:118`): one domain is skipped, and if it was due for a new
  address it stays synced at the old one.
* A domain re-targeted to the other family while its update is in flight is marked
  synced at an address of its old family, and no rule of `_sync_one` visits it until
  the address of its new family moves.  Re-targeting within a family is transiently
  seen at the old address too, between the list edit and `rebuild` in the thread.
* Deleting a domain while its update fails raises `KeyError` at
  `services/sync.py:111` and ends the pass (`UpdateOfDeletedRaises`).
* Two overlapping checks: the second reports a transition from a `was_online` it
  read before the first one ended (`scheduler.py:170`).
* A save of the incidents that raises leaves the recorder changed and not dirty
  (`services/incidents.py:77`); a graceful shutdown then skips the write.
* `flush_state` compares one snapshot and writes another (`scheduler.py:136-147`):
  a change undone between the two leaves the wrong file until the next change.
* Two concurrent updates of one healthchecks project that set different fields may
  store an endpoint nobody validated, and what is shown is then of another one.
* A deletion during the `persist` of a fetch, an update or a creation leaves the
  runtime, and for the latter two the job, of a project that is gone
  (`api.py:491-494`).
* An answer that was in flight when the link went takes the paused flag away until
  the next tick.
* A ping in flight when the URL is changed or cleared overwrites the status
  (`services/heartbeat.py:32-41`); a cleared URL has no next tick to correct it.
  `run_now` finds a job that is still running, and APScheduler skips the tick.
* Two overlapping settings requests: the later assignment is built from settings
  read before the earlier one and undoes its field (`api.py:411-420`), and the
  older dump may replace the file last (`config_store.py:111-116`).
* A change between the first snapshot and the registration, or made in a thread, is
  not broadcast; the page shows it after the next check (`ws.py:49-52`).
* A socket orphaned by a resume survives `stop()`, and its opening starts timers of
  a stopped connection (`LiveTwoSockets` shows the orphan).
* A failed fetch leaves `useIncidents` with nothing until the revision or the
  connection moves (`useIncidents.ts:15`).
* A start over a damaged incident file goes on with a fresh window it does not
  write (`services/incidents.py:36`), so the next start begins yet another.

* Deleting a hook that a dispatch is at or past makes it skip the next one
  (`services/dispatch.py:21`).
* A manual run of the router hook that began before a change of address may apply
  the old address after the announcement applied the new one; the rule stays there
  until the next change (`services/dispatch.py:47`).
* A router hook that failed is not tried again until the next change of address.
* A login or logout whose answer is lost leaves the router's session open until it
  expires (`router_firewall.py:273-280`: the login is outside the `try`).

## 6. Not modelled, and why

* *What hooks do with an event*, but for the router's session and rule: Pushover and
  the log hook are I/O, and the router's payload, hashes and signature are encodings
  of one request.
* *Providers and IP sources* appear as their answers: HTTP calls that keep nothing
  between two of them.  Zone and record lookups of the Cloudflare provider are a
  suffix match over one reply.
* *Two edits of one list at once* (`api.py:340-364`, the hook routes): an index is
  found, the request validated, and the index used, all in one thread; no document promises anything
  of concurrent edits.
* *Secrets*: `mask_secrets` and `merge_secrets` are string rewriting over one
  request; the settings of `Heartbeat` carry no secret.
* *The comparison in `flush_state`*: the models let a flush write any state reached.
* *`loadConfig`, `useIncidents`, the log viewer, toasts, forms and views*: React state that does
  not outlive its view.
* *Logging, paths, schemas, the entry point*: wording, or filled once at startup.
* *`src/.github`*, the largest directory by lines, is vendored tooling for editors
  and no part of the running system, which is why the share of *all* lines that the
  map covers is small.

## 7. Plan

Done: `SyncService`, `Reachability` with `IncidentLedger`, `UptimeFigures`,
`Healthchecks`, `Heartbeat`, `Live` and `Hooks`, with the theorems of section 4.

What is left, in order:

1. An abstract specification of the sync core (a domain's record follows the public
   address) that `SyncService` with the sync job alone implements, beside the one of the
   incident history.
2. Two settings requests and two updates of a project at once, should the code come
   to guard against them.
3. `flush_state` in its two steps, and the list edits of two threads, likewise.

Runs are kept few: a component gets one run per question, and questions that need
the same instance share it.

## 8. Running

    tlc -config SyncJob.cfg MCSyncService
    tlc -config ReachRestart.cfg MCReachability
    tlapm ReachabilityProofs.tla
    tlc -config Live.cfg MCLive
    tlc -config Hooks.cfg MCHooks
    tlapm HooksProofs.tla
    tlapm SyncServiceProofs.tla
    tlapm SyncJobProofs.tla
    tlapm UptimeProofs.tla

A run that is expected to pass ends without an error; one listed as a violation
ends with a counterexample to its one property.
