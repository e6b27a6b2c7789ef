# VectorFlow: specifications, model checking and proofs

VectorFlow manages fleets of [Vector](https://vector.dev) processes. A server
(Next.js, Postgres, Redis) keeps pipelines, their versions, rollouts and
requests; an agent (Go) on every node fetches what its node should run and
supervises one Vector process per pipeline. This directory holds TLA+ models of
the parts whose difficulty is the order in which things happen, TLC runs that
check them on small instances, and TLAPS proofs that hold for all instances.

`PROJECT.json` is the index: for each definition the source lines it stands
for, the runs, the mutant of the code that each checked property detects, the
findings, the hazards with the line where each one bites, and the theorems.

    tlc -workers 2 -config MCSupervisor.cfg MCSupervisor     # one run
    tlapm SupervisorProofs.tla                               # one set of proofs

## 1. The system

| part | state | operations | talks to |
|---|---|---|---|
| **process supervisor** (`agent/internal/supervisor`) | process map, restart counts, port pool; per process a monitor goroutine and, after a crash, a `restartAfter` goroutine | Start, Stop, Restart, RestartInPlace, UpdateVersion, ShutdownAll | Vector processes (signals, exit), the agent's main goroutine, all under one mutex |
| **reconciliation** (`agent/internal/agent`) | `poller.known`, config files on disk | poll, apply the actions, validate and activate a file, self-update | config endpoint (HTTP, polled), supervisor (calls), push channel (a hint to poll early) |
| **config endpoint** (`api/agent/config`) | none of its own | GET: latest version of every deployed pipeline the node matches | versions, variables |
| **versions and deployment** (`pipeline-version.ts`, `deploy-agent.ts`) | `PipelineVersion` rows, the pipeline's graph | createVersion, deployFromVersion, deployAgent, undeployAgent | called by rollouts, requests, the editor |
| **staged rollouts** (`staged-rollout.ts`) | `Release` rows CANARY | create, broaden, roll back, health tick | versions, push |
| **auto-rollback** (`auto-rollback.ts`) | `autoRollbackEnabled` | tick | versions, rollouts |
| **requests** (`release/direct.ts`, `release/promotion.ts`, `promotion-service.ts`, git webhook) | `Release` rows DIRECT and PROMOTION | submit, approve, execute, reject, cancel; initiate, executePromotion, merge event | deployAgent, git host |
| **leader election** (`leader-election.ts`, `instrumentation.node.ts`) | one Redis key; flag and failure count per instance | start, timer, stop; start the singleton services | Redis; every poll loop that asks `isLeader` |
| **alert and webhook delivery** (`delivery-tracking.ts`, `outbound-webhook.ts`, `retry-service.ts`, `alert-deliveries.ts`) | `DeliveryAttempt` and `WebhookDelivery` rows with the time of the next retry | deliver, poll, retry by a user | channels, webhook endpoints; `isLeader` |
| **Git synchronisation** (`git-sync.ts`, `git-sync-retry.ts`, `deploy-agent.ts`) | a file per pipeline on a branch; `GitSyncJob` rows | commit (of `deployAgent` only), delete, enqueue, tick, retry by a user | Git remote; `isLeader` |
| **push** (`push-registry.ts`, `push-broadcast.ts`, `redis-pubsub.ts`, `push/client.go`) | one registry of streams per server process; the agent's stream and queue | register, unregister, send, publish; connect, receive | Redis, the network |
| **live taps** (`active-taps.ts`, `pipeline-observability.ts`, `tapper.go`) | `ActiveTap` rows; the agent's table of taps, a goroutine each | start, stop, expire, sweep; Start, Stop, time out | push |
| **event samples** (`pipeline-observability.ts`, samples and heartbeat routes, `agent.go`) | `EventSampleRequest` and `EventSample` rows; results waiting for a heartbeat | request, bind, sample, send, claim, store, finish, expire | push, polls, heartbeats |
| alert evaluation, keys, audit chain, approvals, lake, cost, authentication, backups, UI | see `components` in `PROJECT.json` | not modelled | |

### What is hard, and what makes each part correct

* **Supervisor.** Three kinds of goroutine and the operating system take the
  lock in any order. A restart goroutine wakes up when its entry may have been
  stopped, replaced or given up. Correct: one process per pipeline, none that
  nobody can stop, no crash forgotten, no restart beyond the circuit breaker,
  Stop means stopped, ports are conserved.
* **Reconciliation.** Any step of an apply may fail; the process crashes and is
  restarted from whatever file is on disk at that moment; the server changes
  its mind between poll and apply; the agent replaces itself. Correct: what the
  agent believes it applied is what runs, only valid configs run, and once
  things are quiet the deployed state is reached.
* **Rollouts.** Handlers are asynchronous functions without transactions; two
  poll loops run beside the API. Correct: a rollout's status moves legally, a
  rollback restores something older, a broadened rollout was announced, an
  expired window is reviewed in the end.
* **Requests.** Several users and a webhook act on one row, while the graph and
  the variables are edited. Correct: the YAML that is deployed is the one that
  was reviewed, nothing is deployed for a request nobody holds, a claim ends in
  a deployment or is given back.
* **Leader election.** Replies are late or lost, keys expire, processes die.
  Correct: one leader, nobody touches a key of somebody else, services resume.
* **Deliveries.** A poll loop that does not wait for its last callback claims
  rows by id; users and first deliveries work on the same rows; any query may
  fail between the claim and the outcome. Correct: attempts form one chain,
  what failed is tried to the end of the schedule, and nothing is left without
  a next time.
* **Git synchronisation.** Deployments that overlap, a deletion, the ticks of two
  processes around a change of leader and users' retries clone, commit and push
  the same branch, and a push may be refused. Correct: a job never loses its
  next time, what `deployAgent` deployed is not missing without a trace, every
  job ends.
* **Push and taps.** Nothing is acknowledged; a stream that was left swallows
  messages, two processes overtake each other through Redis, and the agent's
  only loop waits for the goroutine it stops. Correct: the live stream stays
  registered, one route keeps its order, and every tap ends on both sides.
* **Event samples.** Several nodes hear of one request by three routes, and
  results arrive by two, possibly twice. Correct: one node contributes, no
  result is lost, the request ends, and nobody who looks after the end rewrites it.

## 2. Modules

    PortPool ──▶ Supervisor ──▶ SupervisorProofs
                     │ implements
                     ▼
               ProcessTable ──▶ AgentReconcile ──▶ AgentReconcileProofs
    PipelineVersions ──▶ StagedRollout ──▶ StagedRolloutProofs
    PushChannel ──▶ Taps ──▶ TapsProofs
    ReleaseRequests ──▶ ReleaseProofs
    GitSync ──▶ GitSyncProofs             EventSamples ──▶ EventSamplesProofs
    LeaderElection, DeliveryRetry ──▶ ServiceProofs
         │ implements
         ▼
    LeaderLease
    MC<module>: symmetry, views and settings for TLC

**PortPool.** `nextPort`, `allocatePortPair`, `releasePort` as operators on a
record of the stack `freePorts` and the counter `nextSeqPort`.

**Supervisor.** A section that holds `s.mu` is one step. `main` is the calling
goroutine and the operation it is in; `stopping` are the `stopProcess` calls it
waits for, each of which can see the process exit, escalate to SIGKILL and
remove the sidecar file outside the lock. `monitor[i]` and `retry[i]` are the
goroutines of one `ProcessInfo`. `ProcessInfo` objects nothing refers to are
recycled, so `Infos` bounds what exists at once and behaviours are unbounded.
Starting a process may fail wherever the code handles it.

**ProcessTable.** What the supervisor promises: per pipeline an entry with its
status and whether a process is alive, and the few ways they change.
`Supervisor` implements it (`ImplementsProcessTable`, checked and proved);
`AgentReconcile` is built on it, so that the agent's model has no goroutines,
ports or counters.

**AgentReconcile.** `Poll` computes the actions from the served configs exactly
as `poller.go` does, including the known state it drops before a stop is
applied; `Apply` is a family of actions, one per return of `pollAndApply` and
of `activateConfigFile`, where `current` holds the file contents that may have
to be put back. `label` is what the `ProcessInfo` says, `running` what the
process was launched with; the crash restart launches from the file on disk.
`calm` becomes TRUE at an arbitrary time, after which nothing changes or fails;
convergence properties start from it. `stranded` is history: the config that was
known when an operation took the process away and then failed. A failed HTTP poll changes nothing and is
a stuttering step. A fresh agent finds no Vector processes: systemd (KillMode=mixed
in install.sh) and the container runtime kill them with the agent.

**PipelineVersions, StagedRollout.** Version rows carry the number
`createVersion` computed from the latest row; no unique constraint guards it,
so rows may have equal numbers and *latest* is then a set. A handler is a
record of its next database call and its local variables; each await is a step;
any call may fail (`CallFails`, `MarkFails`) and the server may restart.
Requests and the two poll loops begin whenever they can, so what the run shows
is what remains with every race.

**ReleaseRequests.** One source pipeline and one target name. Handlers read,
check, claim with an `updateMany` naming the expected status, and go on. `mode`
holds the environment's settings and whether the server is `reliable` (does not
stop, and can read and give back its own claims). `deployAgent` is one step
here; its own steps are in StagedRollout. A config may refer to variables
(`Referencing`), which any editor sets, changes or deletes without a review
(`EditVariables`): `Deploy` takes the reviewed YAML, resolves its references with
the values of that moment (`resolveConfigYamlVariables`; a missing one makes it
throw), and stores beside it the log level and the snapshot of the graph of that
moment. A version therefore records its config, its values and its snapshot
apart.

**LeaderElection.** Time passes in renewal intervals; the key lives `TTL` of
them. Commands of one connection are executed and answered in order; the reply
is handled in a later step. The faults of a behaviour (lost command or reply,
late timers, crash, `stop`, Redis forgetting) are picked at the start from
`FaultCases`.

**LeaderLease.** What the election promises to the loops that ask `isLeader`: a
lease with one holder that ends after `Life` intervals unless it is prolonged,
and a set of instances that lead. Commands, replies and timers are gone; that
nothing is late and that Redis forgets nothing are two flags. `LeaderElection`
implements it (`ImplementsLease`, checked and proved).

**DeliveryRetry.** One row per attempt for alerts, one row that is updated for
webhooks, as in the schema; of the time of the next retry only *never*, *later*
and *due* is kept. A worker (a callback of the poll loop, or a caller that
delivers something itself) holds what its query returned, so it acts on values
that others have changed since. What may go wrong in a behaviour is picked from
`FaultCases`, and the properties name the faults they tolerate.

**GitSync.** Versions of one pipeline are numbered; the file on the branch holds
one of them or none. A commit is a clone, which remembers the head, and a push,
which is refused when the head has moved or for any other reason. `Callers` are
requests that deploy or delete; nothing serialises them. Versions made by a
rollback, by `deployFromVersion` (rollouts and proposed changes use it too) or
without a linked repository commit nothing and make no job
(`DeployUncommitted`). Ticks run in two processes, as around a change of
leader. `requested` and `rivals` are history: the version whose commit was begun
last, and those whose commits were under way at that moment.

**PushChannel, Taps.** PushChannel has the registry of each process, the agent's
stream, the envelopes Redis has yet to hand out and the agent's bounded queue;
it is parameterised by the messages. Taps extends it with the rows, the sweep
of each process (read, delete, push), and the agent's table, goroutines and
main loop. `lost` and `overtaken` are history variables: the properties say
what holds unless a message was lost, or came before its start. A stop has
overtaken its start when it is handled while the start is still on its way to
the agent: in its queue, on the wire, or with the process that serves the
agent's stream. A copy that waits at another process is delivered to nobody.
`Connect` registers a stream at once; the route authenticates the request first
(`push/route.ts:9-18`), so that an older request that is registered after a
newer one of the same agent is outside the model.

**EventSamples.** One request, its samples and three routes to the agents: a
push bound to one node, the broadcast, and the config poll. A call of the
samples route and a heartbeat are handlers that go on query by query. `lapses`
records what the code itself gives up: a binding taken back by
`requestSamples`, and the rest of a heartbeat's results after a failing query.
`overtaken` names the heartbeats that had found the request pending after a
failure and were about to note the error when it ended. One heartbeat of a node
is handled at a time; the route answers before it has processed the results, so
that two could overlap there.

## 3. Runs

| run | question | result |
|---|---|---|
| `supervisor_one_pipeline` | goroutines of one pipeline in every order | holds: one process, no orphan, crashes retried, breaker, complete stop, sidecar outlives its process, refinement of ProcessTable |
| `supervisor_two_pipelines` | two pipelines short of ports | holds: no port lost; every call returns; every crash is resolved |
| `supervisor_shared_ports` | can two running pipelines share a port? | **violated** (finding 1) |
| `reconcile` | does the agent know and run what was deployed? | holds, including convergence (unless left behind, see below) and stopping of undeployed pipelines |
| `rollouts` | a request handler and both poll loops, call by call | holds: broadened was told, previous is older, rollbacks copy it, windows are reviewed |
| `rollout_canary_leak` | does the canary stay on its nodes? | **violated** (finding 2) |
| `leader_election` | one leader, respected key, services resume | holds, including the refinement of LeaderLease |
| `requests` | two-person rule and claims under all settings, with edits of graph and variables | holds, of the reviewed YAML; values are not reviewed |
| `deliveries` | do retries stay one chain, and does every delivery end? | holds, as far as each property says |
| `git_sync` | is what `deployAgent` deployed in the repository, overtaken or in a job, and does every job end? | holds |
| `taps` | do stops arrive in order, and does every tap end? | holds |
| `samples` | does one node answer a request, without loss, does it end, and who may rewrite the end? | holds, as far as each property says |

Findings, each quoted in `PROJECT.json` with the line it contradicts:

1. `restartAfter` returns ports that `Stop` has returned already; a pair gets
   into the free list twice and two pipelines run on it (`supervisor.go:327`).
2. The config endpoint serves the newest version to every node, canary or not;
   only the push is limited (`config/route.ts:127`).

### Known divergences and limits

What the models contain and the properties therefore do not claim. All of it
was met while modelling, most of it as a counterexample to a stronger property.

* *Reconciliation.* A Restart removes the old entry before its start fails, and
  `known` still names the old config; if the server goes back to that config
  before the next poll, no action follows and nothing runs (`agent.go:285`,
  against the comment at `poller.go:145-146`). The same is left by a pushed
  restart that fails, and by a self-update whose exec fails after ShutdownAll,
  which leaves every pipeline stopped and known (`updater.go:151-157`). These
  are what `LeftBehind` names: `KnownConverges` says that the deployed config is
  known and runs (or has ended in a way the supervisor does not answer, a clean
  exit or CRASH_LOOP), and `AppliedIsRunning` that a known pipeline has an
  entry, with that exception and no other.
* *Rollouts.* Two requests can start two rollouts (`staged-rollout.ts:188`) and
  a handler may overwrite a status it read earlier.
* *Supervisor.* A pipeline that was given up keeps its ports until it is
  stopped, although the comment at `supervisor.go:87` says they return to the
  pool.
* *Leader election.* Losing leadership does not stop the services, and the ticks
  of staged rollouts and auto-rollback never ask `isLeader`, so after a failover
  two processes run them (`staged-rollout.ts:61`). `OneLeaderPerInterval` is
  about the ends of intervals: two may believe they lead for part of one.
* *Requests.* Opening a pull request ends in an update by id alone and revives a
  request rejected meanwhile (`promotion.ts:267`). A server that dies between
  claiming a deploy request and deploying it leaves it marked as deployed;
  `ClaimsAreSettled` assumes that it does not. The comment at
  `deploy-agent.ts:127` says the reviewed YAML is deployed *as-is*, and the one
  at `direct.ts:570` that the current state of the pipeline is *not* used; yet
  its variables are resolved with the values of the moment of the deployment
  (`deploy-agent.ts:173`), and the log level, global config and node snapshot
  stored with the version are the current ones (`:190-209`). What two persons
  agree on is the YAML with the names of its variables, and that is what
  `TwoPersonRule` says. Deployments that never become a request are outside the
  rule: rollback, `deployFromVersion` and the branches that skip the approval.
* *Deliveries.* A poll that finds no alert delivery returns before it looks at
  webhooks (`retry-service.ts:80`), so webhooks wait until some alert fails;
  `DeliveriesSettle` says only that a poll that has alerts goes on to them.
  Overlapping polls both claim a row, and it is delivered twice, although the
  comment at `retry-service.ts:85-86` says otherwise; `AttemptsFormAChain`
  assumes no overlap. Retrying all deliveries of a channel
  (`alert-deliveries.ts:192-229`) revives superseded attempts, and makes last
  attempts due that no poll picks up. An exception after a claim loses the
  retry: `NoDeliveryForgotten` excludes failing queries and crashes.
* *Git.* Retrying the job of an older version puts it over a newer one, and so
  does a commit that is slower than that of a later deployment, without any job;
  `RepositoryFollows` allows both, and neither is noticed by the code. A rollback,
  a `deployFromVersion` and therefore a rollout leave the repository as it is
  (`pipeline-version.ts:113-331`), so the file may not be what is deployed. An
  exception after the claim leaves a job pending, never due, and out of reach of
  users. A failed removal of a file is ignored, and a job retried during the
  deletion of its pipeline can bring the file back. The first retry waits the
  second of `RETRY_DELAYS_MS`, never the first.
* *Taps.* A stop pushed by another process may overtake its start; the agent
  then taps without a row until its own timeout. A start the agent refuses is
  only logged, and the row stays until it expires. The comment in
  `getActiveTap` about an agent *tapping forever* predates that timeout.
* *Samples.* The heartbeat route ends a request for several components with the
  first result it stores, and drops the others (`heartbeat/route.ts:102`); a
  duplicate, which a lost answer or a poll beside a push produces, makes it
  ERROR. It may overwrite the status of a request that has ended in two ways:
  after it stored a result it asks for no status (`heartbeat/route.ts:102`), and
  after a failure it looks whether the request is pending, as the comment at
  `:111-113` explains, but the update at `:119` does not repeat the condition, so an end
  between the two is overwritten all the same. `EndsAreKept` allows these two and
  nothing else: a heartbeat that looks after the end leaves it alone. A binding
  that `requestSamples` takes back may have been used already, so that two nodes
  contribute.

### Bounds, and why they are enough

* *Supervisor.* Three `ProcessInfo` objects are a running process, one being
  stopped and a stale restart goroutine, and they are recycled. `MaxRestarts`
  = 2 passes through retry, second retry and CRASH_LOOP. Ports run out in the
  second run (three ports, two per process). `FreeBound` and `CountBound` cap
  the free stack and the restart counts, which grow without bound in the code
  (the former because of finding 1, the latter because ShutdownAll keeps them).
* *AgentReconcile.* Pipelines interact only through the order of actions, and
  each is treated alone; one pipeline with two valid configs and one invalid
  config distinguishes old, new, reverted and broken. Two versions of the same
  config tell UpdateVersion from Restart.
* *StagedRollout.* Four versions are two to roll back between, the canary and
  the rollback; two nodes are a canary and another; one request runs beside
  both poll loops; `Room` keeps handlers from starting when their rows would
  exceed `MaxRows`. One configuration is the initial one, and an edit makes one
  that is not in use: equal graphs deployed twice would hide a wrong copy.
* *ReleaseRequests.* Two users suffice for the two-person rule, two requests
  for a promotion beside a deployment, two deployments for a retry. Of the two
  configs one refers to a variable, which has a value or is missing: values
  decide only whether a deployment is refused, and are copied. The view leaves
  out what is stored and never read (snapshots, graphs of targets).
* *LeaderElection.* `TTL` = `MAX_CONSECUTIVE_FAILURES` = 3, as in the code (a
  15 s key, a 5 s timer). One unanswered command per instance is what a timer
  that waits for its reply has; the faults come in three combinations so that
  late timers meet stops, and crashes meet both losses and forgetting.

* *DeliveryRetry.* `MaxRetries` is the code's 3. One alert and one webhook share
  nothing but the poll loop; two polls are an overlap; one extra event (a retry,
  an overlap, a crash) meets every step of the others.
* *GitSync.* Two versions are an old and a new one, two callers an overlap; two
  attempts a retry and the last; two processes the old and the new leader (that
  the first of them leads first is no restriction, they are alike). At most one
  job per version exists, since every failed commit makes one. Faults come in
  three combinations: handovers with retries by users; a deletion and a lost
  repository with retries; failing queries and a crash with retries.
* *Taps.* Two processes and three streams: a message overtaken by another, a
  stream left and one entered. Requests do not share anything but the channel
  and the main loop, and a queue of two overflows. The refusal by the agent's
  limit of three taps is a free choice.
* *EventSamples.* Two components, one of which can be sampled: each outcome, and
  a request half done. Two nodes compete, and `MaxTold` = 2 lets one of them
  hear twice or both once; one failed call or query, at any place. What is
  sampled after the end of the request is left out, as both routes refuse it.

Views drop what cannot influence the future (fields of recycled objects, what
agents were served); symmetry is used only where no liveness is checked.
Deadlock checking is off where the bounds end a behaviour: rollouts, requests,
deliveries, Git jobs, taps and samples when all is done, and election after
everybody has crashed or stopped.

### Fairness

* *Supervisor*: each goroutine that can take a step does (Go's scheduler), a
  process that was sent SIGKILL ends, timers fire. Callers need not call, and
  processes need not crash.
* *AgentReconcile*: the ticker makes the agent poll, an apply that was begun
  ends, and the supervisor's goroutines run. Nothing is assumed of the server
  or of failures; the properties say *once calm*.
* *StagedRollout*: `setInterval` starts ticks; a tick goes on when its call
  returns. Strong fairness of `MarkHealthCheck` says that marking a rollout
  does not fail every time it is tried, nor is it cut short by a restart every
  time; without it a permanently broken database refutes everything.
* *LeaderElection*: timers, replies and services proceed. Strong fairness of
  execution and of the answer to `SET` says that commands are not lost for
  ever.
* *DeliveryRetry*, *GitSync*: the timers start polls, a worker or a request goes
  on when its query or call returns, time makes a retry due, and somebody leads in the end.
  That a delivery or a push succeeds is never assumed.
* *Taps*: sweeps and the main loop run, rows expire, the agent's timer fires,
  and a cancelled process ends. That a message arrives is not assumed.
* *EventSamples*: heartbeats are sent while results wait, and a call that a
  route handles goes on. Neither sampling nor the clean-up is assumed.

## 4. Proofs

`SupervisorProofs` proves, for any finite set of pipelines, any set of process
objects, any port range and any circuit-breaker limit (`SupervisorAssumption`,
`MaxPortAssumption`):

* `TypeCorrect`: the type invariant, from lemmas on the port allocator
  (`TakeType`, `ReleaseType`, `AllocateType`).
* `NoOrphanProcessHolds`, `OneProcessPerPipelineHolds`,
  `RestartsFollowCrashesHolds`, `BreakerHoldsAlways`, `NoPortLeakHolds`: the
  safety invariants of the first two runs.
* `SidecarOutlivesProcessHolds`: the action property that no sidecar file is
  removed under a running process.
* `StopIsCompleteHolds`: the action property that what was stopped is gone.
* `SupervisorRefinesProcessTable`: every step is a step of ProcessTable or
  leaves the table as it is.
* `ReconcileNeverExhausted`: an error branch of `reconcileFailedRestart` is
  unreachable.

None of the first three invariants is inductive alone. That no second process of a
pipeline appears depends on the restart goroutine finding its *own* entry in
the map, which depends on the entry still being that of a crashed process,
which depends on who may hold a process outside the map. The inductive
invariant is `TypeOK /\ Control`, where `Control` joins `MapConsistent` (an
entry belongs to its key), `CallerConsistent` (what a waiting caller holds is
out of the map, at most one process per pipeline), `NoOrphanProcess`,
`RetryOnlyAfterCrash` and `CrashedHasRetry`. `InitControl` and `ControlStep`
carry it, with one lemma per helper of the code (`SpawnControl` for
startProcess, `DetachControl` for the removal from the map, and so on); TLC
checks each part in the runs above. The refinement adds `PhaseConsistent`: the
status of a registered entry agrees with where its monitor is.

`NoPortLeak` needs one thing more. `reconcileFailedRestart` returns the ports
of the old entry, allocates a pair, and gives it to the new entry, while the
goroutine of the old one still holds its pair. Nothing is lost because the free
list is a stack: what was returned last is taken first (`TakeReleased`), so the
new entry gets the very ports the old one had. The strengthening
`RetryKeepsPorts` says so: a restart that is still wanted holds the ports of the
entry it replaces. The theorem is about ports that disappear; ports that are in
the list twice are finding 1.

`AgentReconcileProofs` proves `AppliedIsRunningHolds` and
`ChecksumDescribesProcessHolds`, for any pipelines, configs, versions, failing
steps and changes of the server. In the middle of an apply what is known and
what runs differ, because `poller.known` is written before the actions are
applied; the invariant says of every pipeline why it may still differ. It
joins `Managed` (a pipeline with an entry runs what is known of it, unless its
own action waits or is in progress), `Accounted` (one without an entry is
unknown, left behind, or in the middle of an operation), `Awaited` (a process without an entry is
awaited by the operation that stops it), `TodoOK` (what the poll saw of a
pipeline is still true when its action's turn comes), `CurrentOK` (what the
operation in progress has done so far) and `FilesAreValid` (a crash restart
finds a valid file).

`StagedRolloutProofs` proves `BroadenedWasToldHolds`, `PreviousIsOlderHolds`
and the action property `RollbacksCopyPreviousHolds`, for any nodes and any
finite set of requests, any failing calls and restarts
(`StagedRolloutAssumption`). A handler acts on rows it read some calls earlier,
and nothing makes version numbers unique, so the invariant says of every handler
what it read and still holds: `CallFits` and `ReadFits` (a row that was read is
still there and is not changed), `CreateFits`, `BroadenFits`, `RollbackFits`
(where it is in a creation, a broadening or a rollback), `ReleaseFits` (a
release points at rows of which the previous has the lower number, and a
broadened one was announced) and `Numbered` (a row's number is at most its
place in the table, and some row is the latest).
`Bounded` counts the handlers that are about to insert a row against the room
that `MaxRows` leaves.

`GitSyncProofs` and `EventSamplesProofs` are about a row that several claim and
then write by its id. `GitSyncProofs` proves `JobsAreScheduledHolds`
(`Scheduled`: a pending job without a next time is in the hand of a worker that
will write one) and `RepositoryFollowsHolds` (`ItemsStand`: what a process read
of a job is still true of it; `Owed`: while the file is none of the versions
that may stay there, the one requested last has yet to be pushed by the caller
that deployed it or for the job it left, and whoever is still committing
commits that version or a rival of it), for any number of versions, callers,
processes and attempts. `EventSamplesProofs` proves `OneNodePerRequestHolds`,
`ResultsAreKeptHolds` and the action property `EndsAreKeptHolds`, for any nodes
and components: a call updates a request by id some queries after it claimed
it, which is right because nobody else can have claimed it since
(`ClaimsStand`, `SamplesAreBound`, `CallsFinish`, `Fresh`). For `EndsAreKept` a
call that is about to finish has stored its own result (`CallsFinish`), and once
the request has ended every call that is about to overwrite it had looked before
(`LooksWereBefore`).

`ReleaseProofs` proves, for any users, configurations and settings, any number
of requests and every interleaving of their handlers (`RequestsAssumption`):

* `TwoPersonRuleHolds`: what is deployed or promoted was approved by somebody
  else, and what is deployed is the YAML that was reviewed, with some value for
  each variable it refers to, whoever edits graph and variables meanwhile.
* `DeployedWhileClaimedHolds`: a version is created by the one executor of a
  request that is claimed at that moment.
* `ClaimsAreSettledHolds`: with a reliable server, a request marked as deployed
  was deployed or is being worked on.

The rule is about what was deployed, but a handler deploys what it read some
calls earlier. The inductive invariant `Sound` therefore says of every row what
may be deployed from it (`RequestOK`), of every handler which of the checks it
made are still true (`HandlerOK`; who may approve, that a claim stands, that a
promotion is executed by its approver), that a claim has one holder
(`OneExecutor`), and of every result that its request still bears it out
(`ResultsOK`). `RowStep` is what makes the handlers independent: the review of
a request that has left PENDING, its requester and its configuration are never
changed again. Each handler's step then reduces to one of three kinds
(`HandlerMoves`, `RowMoves`, `RowAppears`).

`ServiceProofs` is about the background services: who runs them, and the
retries one of them makes. It proves `KeyIsRespectedHolds`, for any number of
instances and unanswered commands, any faults and any life of the key
(`LeaderElectionAssumption`). A release may be executed long after it was sent;
it is harmless because its sender is still on its way out, which is the
invariant `ReleasesWhenStopping`.

`OneLeaderPerIntervalHolds` has the hypothesis `MaxFailures <= TTL`: an instance
gives up after at most as many failed renewals as its key lives intervals. The
code's values are on the boundary: three failures, and a key of 15 s renewed
every 5 s. Without it the property is false, since the key expires and another
instance takes it before the first has noticed. The invariant `ElectionFits`
relates an instance's failure count to the age of the key it believes it holds,
and to the command it has under way. Like the property, it is about behaviours
whose only faults are lost commands and replies and crashes (`Quiet`).

`ElectionRefinesLease` has the same hypothesis: every step of the election is
one of LeaderLease or leaves the lease as it is, whatever goes wrong. The
invariants above say why. A lease is given back only by an instance that closes
(`ReleasesWhenStopping`); while nothing is late, a reply that makes an instance
lead is as old as the key it was given (`CallFits`); and whoever leads at the
end of an interval owns the key (`LeadersOwn`), so that nobody leads beyond the
interval in which its lease ended.

Of DeliveryRetry it proves `AttemptsFormAChainHolds` and
`NoDeliveryForgottenHolds`, for any finite sets of alerts and webhooks, any polls and
callers, any schedule and bounds, and the faults each property names. A worker
acts on what its query returned, so the invariant says first what it still
knows: the row is there with the number that was read (`ItemsRefer`), and a row
that is being sent is pending and one worker's own (`RowsFit`). The chain
(`OneChain`) holds because polls do not overlap in these behaviours (`OnePoll`)
and only the last attempt of an alert is due, in a batch, claimed or being sent
(`LastInHand`), so an attempt that fails is followed by one with the next
number. A delivery that failed has a next time, is the last of the schedule, or
is in the hand of a worker that writes what comes next (`AlertsTended` and
`HooksTended` carry this over every step).

`TapsProofs` proves `LiveStreamIsRegisteredHolds` for the push channel as it is
composed with taps, any number of processes and streams included. The invariant
adds the types of the ends of streams (`EndsOK`) and that no stream has a number
yet to be given, nor is the live one among those left (`StreamsAreNumbered`), so
that the removal of a stale stream cannot hit its successor. It also proves
`StopsAreHeardHolds` and `OneRouteKeepsOrderHolds`. Their invariant `Passing`
follows a start and its stop through the places a message can be on its way in:
a start is in one of them at most (`StartsOnce`), the stop of a tap that runs
without a row is in one (`StopIsOwed`), behind its start if one process pushed
both into one stream (`StopsFollow`), and an agent without a stream has nothing
on its way (`SilentWhileAway`). The proof changed the model:
`overtaken` used to count starts that waited at processes that do not serve the
agent, which makes no difference with the two processes of the run, but made
`OneRouteKeepsOrder` false for three.

Only model-checked:

* Liveness (`CallsReturn`, `CrashIsResolved`, `KnownConverges`,
  `UndeployedStops`, `WindowsAreReviewed`, `ServicesResume`,
  `DeliveriesSettle`, `JobsEnd`, `TapsEnd`, `SampledRequestsEnd`): a proof from
  fairness needs ENABLED, which the installed provers do not treat.

That a set of version rows has a latest one would need induction over the set;
`Numbered` carries it as part of the invariant instead.

## 5. Plan

Order: what runs data (agent) before what decides (server), before what
reports.

1. **Done**: Supervisor with its abstraction and proofs; AgentReconcile on that
   abstraction; StagedRollout; ReleaseRequests; LeaderElection; DeliveryRetry;
   GitSync; PushChannel and Taps; EventSamples.
2. **Done**: proofs of every safety invariant and action property of the passing
   runs, and of the two refinements, ProcessTable and LeaderLease.
3. **Left to TLC**: the liveness properties, for the reason given in section 4.
4. **Further**: what a push promises, as a lossy queue that keeps the order of one
   route; the relay of tapped events to browsers; a crash of the agent during a
   tap or a sample.

Runs are kept few: a run for an old question gives way to a new one once a
proof covers it, or once its answer is written down above.

## 6. What is not modelled, and why

Within the modelled parts: log capture and metrics of a process, settings and
secrets in the config answer (only that they belong to one config), config
validation itself (a set of valid configs), notifications, SSE and audit
entries of the handlers, thresholds of error rates and budgets (a free choice),
deploys by users who need no approval, bulk deploys, the import branch of the
git webhook, the protocols of notification channels, Git itself, overlapping
heartbeats of one node, an agent's push request that is registered after a later
one, the relay of tapped events and server-sent events to browsers, the log flusher of the agent (a bounded buffer
of one goroutine), a crash of the agent during a tap or a sample.

As wholes:

* *Key management* (`kms/dek-cache.ts`, `rotate-org-dek.ts`): the difficult
  operation, rotateOrgDek, has no caller outside the tests at this commit.
* *Alert evaluation and correlation*: evaluateAlerts, evaluateAlertsBatch and
  closeResolvedGroups have none either; what remains is thresholds.
* *Operator approval and audit chain*: guarded updates of one column, and
  appends under an advisory lock of the database.
* Ingestion, aggregation and queries (metrics, lake, cost, quotas), parsers and
  generators (migration, VRL, templates), authentication providers, backup and
  tenant export (external tools and long sequential jobs), the web interface
  and the CLI, packaging. They are data rather than control, or behave as the
  libraries they wrap.

`components` in `PROJECT.json` gives the reason for each one, and a note of each
modelled component says what of it is left out.
