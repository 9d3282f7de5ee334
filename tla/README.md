# IsolateX: a verification project

IsolateX gives every CTF team its own instance of a challenge. A CTFd plugin
takes the players' requests, an orchestrator keeps the rows of all instances in
Postgres and decides, worker agents start and remove containers or pods, and
Traefik routes to them. This directory holds TLA+ models of that code, the TLC
configurations that check them on small instances, and TLAPS proofs of the
properties that matter most for instances of any size.

## 1. The system

| Component | Source | State | Operations |
|---|---|---|---|
| Instance API | `orchestrator/api/instances.py` | rows of `instances` (status, team, challenge, worker, expiry, backend) | create, stop, restart, renew, get; background launch and destroy |
| TTL reaper | `orchestrator/core/scheduler.py` | the list one query returned | scan, destroy on the worker, mark destroyed |
| Worker choice | `orchestrator/core/scheduler_worker.py` | none (reads `workers`, counts rows) | `pick_worker` |
| Worker registry | `orchestrator/api/workers.py`, `worker/main.py` | rows of `workers` (active, last_seen); the agent's `registered` flag | register, heartbeat, deregister |
| Docker adapter | `worker/adapters/docker.py` | `_instances`, the gateway name; containers and networks of the Docker daemon | launch, destroy |
| kCTF and Kata adapters | `worker/adapters/kctf.py`, `kata.py` | `_instances`; pods and services of a cluster | launch, destroy |
| Challenge registry | `orchestrator/api/challenges.py` | rows of `challenges`, which instance rows refer to | create, update, delete, detect the protocol |
| Settings | `orchestrator/api/settings.py` | the default ttl | get and set |
| Gateway configuration | `orchestrator/api/traefik.py`, `core/router.py` | none (derived from the rows at each poll); Traefik's routers | `GET /traefik/config`, forward-auth |
| CTFd plugin | `ctfd-plugin/__init__.py` | CTFd's own tables; nothing of its own | launch, stop, restart, renew for a team; authz; administration |
| Player panel | `ctfd-plugin/assets/isolatex.js` | the instance shown, a countdown, refresh timers | refresh, launch, restart, renew, stop |
| Import of challenges | `scripts/import-challenges.py`, `upload-challenge-files.py` | what it listed when it began; CTFd's challenges and files | list, create, register, attach |
| Build and set-up scripts | `scripts/*.sh`, `setup.sh` | none | build images, set up |

The parts meet in four places. The plugin calls the orchestrator over HTTP and
always looks up "the active instance" first and acts on its id afterwards. The
orchestrator calls the worker agents (`/launch`, `/ready`, `/destroy`) with
timeouts and reports none of their failures to the caller. The agents call the
orchestrator to register and send heartbeats. Traefik and the orchestrator
share only the rows. All orchestrator code runs in one asyncio process: between
two `await`s nothing else runs, and at every `await` anything may.

### What is hard here

* Check-then-act over several statements without locks or constraints: the
  duplicate check of create, the status checks of stop, restart and renew, the
  choice of a worker.
* Background tasks that live only in memory: a crash, or an exception between a
  commit and the response, loses a launch or a destruction for good.
* Blind writes: every `UPDATE` is by primary key, so a late launch overwrites a
  stop, a late renewal another one, the reaper a renewal.
* Worker calls that time out while the worker goes on, or fail unheard.
* A reaper that works off a list as old as the calls before it took.
* On the worker, launches and destroys of one id that interleave at each
  subprocess, and an in-memory map a restart of the agent forgets.
* Snapshots: Traefik routes by rows read up to a poll ago, the importer skips by
  lists read once, the plugin acts on an id it looked up, the page shows answers
  in the order they arrive.
* Scripts that write to two systems in turn, may die anywhere and are run again.

## 2. The modules

| Module | Models | EXTENDS / INSTANCE |
|---|---|---|
| `Instances` | the instance lifecycle: requests, background launches and destroys, the reaper, `pick_worker`, the workers as the orchestrator sees them | instances `AdapterContract` |
| `InstancesClaims` | "1 team = 1 instance", and what gives a team a second one, with a history of the causes | extends `Instances` |
| `InstancesProofs` | the theorems about `Instances` | extends `Instances`, `TLAPS` |
| `ClaimsProofs` | the bound of the overcommitment, the causes of a second instance | extends `InstancesClaims`, `InstancesProofs` |
| `AdapterContract` | what the orchestrator relies on a worker for, whatever the runtime | |
| `DockerAdapter` | a worker agent with the Docker adapter and the Docker daemon | instances `AdapterContract` |
| `DockerProofs` | the theorems about `DockerAdapter` | extends `DockerAdapter`, `TLAPS` |
| `K8sAdapter` | a worker agent with the kCTF or the Kata adapter and a cluster | instances `AdapterContract` |
| `K8sProofs` | the theorems about `K8sAdapter` | extends `K8sAdapter`, `TLAPS` |
| `WorkerRegistry` | an agent's registration, heartbeats and shutdown against the orchestrator's handlers | |
| `RegistryProofs` | the theorems about `WorkerRegistry` | extends `WorkerRegistry`, `TLAPS` |
| `Lifecycle` | what the rest of the system may assume of the instance lifecycle | instanced by `Instances` |
| `Gateway` | Traefik's polls, the wait of a launch for its route, forward-auth | extends `Lifecycle` |
| `GatewayProofs` | the theorems about `Gateway` | extends `Gateway`, `TLAPS` |
| `PlayerPanel` | the page of a player, the plugin's player routes behind it | extends `Lifecycle` |
| `PanelProofs` | the theorem about `PlayerPanel` | extends `PlayerPanel`, `TLAPS` |
| `ChallengeRegistry` | the challenges table, its handlers, the plugin's administration calls, instances that refer to it | |
| `ChallengeImport` | the import and upload scripts beside all of that | extends `ChallengeRegistry` |
| `ChallengeProofs` | the theorems about both | extends `ChallengeImport`, `TLAPS` |
| `MC*` | capacities, owners and symmetry sets for TLC | extend the module they check |

`Lifecycle` is the joint on the other side: three variables (`status`, `backend`,
`launch`) and the steps they may take, a launch that outlives a stop included.
`Instances` is shown to implement it under every fault (`ImplementsLifecycle`,
model-checked and proved), with `launch` mapped to where the row's background
task is. `Gateway` and `PlayerPanel` are composed with it instead of `Instances`,
so they are checked against everything the orchestrator may do to a row, at a
fraction of the states.

`AdapterContract` is the joint: `Instances` is shown to use the workers within
it (`UsesContract`), `DockerAdapter` and `K8sAdapter` are shown to stay within it
(`KeepsContract`), all three model-checked and proved. Its parameter `Leftover` says
whether a launch that raises may leave its container behind. The Docker adapter
cleans up in its `except` branch and needs the weak form only when one of its
unchecked commands fails; the Kubernetes adapters have no such branch and need
it whenever an API call fails.

### Instances

A step is one database transaction or one worker call. The orchestrator is an
asyncio process: between two `await`s nothing else runs, so code between them
is one action, and at every `await` every other action may happen.

| State | In the code |
|---|---|
| `status`, `owner`, `host`, `expires`, `backend` | columns of `instances`; `absent` is no row, `backend` is the set of ids with `backend_host` and `backend_port` |
| `ttl` | what `_effective_ttl` would return now |
| `call`, `boxes` | the worker's side of `/launch`, and which ids have a container |
| `pc`, `reqKey`, `oldId`, `newId`, `picked`, `seen` | a request task: where it is and its locals |
| `reapList`, `reapId` | the reaper's list and the row between worker call and write |
| `lost` | history, see below |

| Actions | In the code |
|---|---|
| `CreateCheck`, `PickWorker`/`PickRefused`, `InsertRow` | `create_instance`: duplicate check, worker, insert, three statements |
| `StopFetch`, `WriteDestroyed`, `DestroyOnWorker` | `stop_instance` and its background task |
| `RestartFetch`, `PickWorker`, `WriteDestroyed`, `InsertRow`, `DestroyOnWorker`, `PostLaunch`, ... | `restart_instance`: the worker is chosen first, the old row committed, the new one inserted; the destruction and the launch run one after the other in the background |
| `RenewFetch`, `RenewWrite`, `RenewRefused` | `renew_instance` |
| `PostLaunch`, `RecordBackend`, `MarkRunning`, `MarkError` | `_launch_on_worker` |
| `WorkerCreates`, `WorkerAnswers`, `WorkerRaises` | the agent's `/launch`, which runs on when the caller has gone |
| `ReaperScan`, `ReaperDestroys`, `ReaperMarks` | `reap_expired`, `_destroy_instance` |
| `Crash`, `DatabaseFails`, `ReaperFails` | the process dies; a statement raises outside every `try`, or the write of `_launch_on_worker`'s `except` branch does; `run_reaper` catches |

Every `UPDATE` of the code is by primary key without a condition, and so is
every write of the model: `MarkRunning` sets `running` whatever the row holds.

A request is answered when its handler returns, before its background work has
begun: create at `InsertRow`, stop at `WriteDestroyed`, restart at its own
`InsertRow`. A task of the model is both in turn, so a client that waits for every
answer meets its own earlier launches and destructions, as other tasks that are past
their answer. `InstancesClaims` therefore counts as overlapping only requests
that are not answered yet (`Inserting`).

`lost` collects the ids whose background work a fault cut short: a crash during
a launch, a worker call that did not get through, a launch whose answer was not
awaited or not recorded, a failed launch whose error could not be written either, a
launch that raised and left its pod. Nothing in the
code retries any of these. The safety properties speak of the other ids; what a
fault costs is therefore written down in the actions, and no property holds
merely because the interesting ids are exempt: without faults `lost` is empty,
and stops during launches, stale reaper lists and overtaking destroys all
happen without faults.

### DockerAdapter and K8sAdapter

A step is one `docker` command or one API call, which is where the agent's
coroutines interleave. State: the in-memory map (`known`), what the daemon or
the cluster has (`boxes`, `nets`, `joined`; `pods`, `svcs`), and where each call
is. `Restart` empties the map and keeps the rest. Unchecked commands may do
nothing (`Slips`), network removal refuses a network with something attached
(`WithoutNetwork`), the gateway may not be found. Four history variables carry
the properties: `made`, `torn`, `raced` (a launch and a destroy overlapped) and
`hurt` (a fault left something unfinished); a destroy that runs alone clears the
last two, so the properties also say that such a destroy repairs what earlier
races and faults left.

### WorkerRegistry

One worker, since no handler touches another's row. A tick is 5 s. The handlers
are a read and a later write, because an ORM update writes the attributes that
changed since the read: a registration that read `active = true` does not write
it. A handler takes the time for `last_seen` when it has read the row and commits it
later (`workers.py:27`, `:30`, `:45`): `stamp` counts the ticks since, and the commit
makes that the row's `age` (`Seen`), over a newer `last_seen` as well. The model
counts from the read, which is at least as long as from the clock reading behind it.
A request whose client has timed out, was cancelled or crashed stays in the
orchestrator and is served later, with its old time; that is what makes the
interesting orders. `CommitLimit` is the longest a commit may take. No code sees to
it, so it is an assumption, stated where a result needs it.

### Gateway

| State | In the code |
|---|---|
| `status`, `backend`, `launch` | `Lifecycle` |
| `mode`, `keyed` | the deployment: local, plain or TLS; whether polls carry the key |
| `polled`, `answer` | an answer of `GET /traefik/config` under way |
| `routes`, `loaded` | Traefik's routers in force; whether it has any configuration |
| `wait` | how `_wait_for_http_route` ended for each launch |
| `ended`, `leftSince`, `leftBefore` | history: what has ended, ever, since the answer was read, since the configuration was read |

`PollRead` is the handler, `PollApply`, `PollFails` and `TraefikRestarts` are
Traefik's (external). `RouteFound` and `RouteTimeout` end the wait of an http
launch between `Recorded` and `CameUp`. `CanReach` combines the router with the
forward-auth check, which a local deployment does not attach.

### PlayerPanel

The page's state is what it shows (`shown`, `shownId`), which buttons there are
and whether they can be clicked (`visible`, `enabled`), the countdown (`timer`)
and the refreshes timeouts have yet to start (`polls`). A request is at its
look-up, its action, the insert of a restart, or answered. `Render` draws an
answer however old it is; `RefreshFails`, `LaunchFails` and `ActionEnds` are
what each kind of request does at its end. Team mates, the reaper and launches
are `Lifecycle` steps. The browser's clock is not the server's, so the countdown
may ring at any time; the challenge stays registered while the page is open.

### ChallengeRegistry and ChallengeImport

A handler is a select and a later commit: `PostSelect`/`PostInsert`,
`PatchSelect`/`PatchUpdate`, `DeleteSelect`/`DeleteRemove`, and `Refresh`, which
reads the row back before the answer. `base` is what the select read, because an
ORM update writes the attributes that differ from it (`Changes`) and nothing if none
does, into whatever the row holds by then. A row has any number of attributes, a
body names some of them, and an attribute the body leaves out keeps its value, in a
new row the default (`Merged`). `met` is the history of a call: for which attributes
what it asks for has held at some moment. `refs` are the challenges some instance row
refers to, ended ones included, since no row is ever removed. The plugin's register-or-update is a `POST` that goes on as a `PATCH` on 409
(`FallsBack`).

The importer is one more client of these handlers (`Importer`). It lists the names
CTFd has and the ids the orchestrator has once, goes through its challenges
(`ImportOne`), and hands over to the upload (`SyncBegins`), which uploads through
CTFd's API or, when it cannot log in, writes content and row into CTFd's
containers by two commands (`WriteContent`, `InsertFileRow`). It may die at any
point (`ImporterDies`, `CreateIsLost`, `UploadFails`), its last request being
served or not, and be run again. A rerun begins when that request has ended.

## 3. The runs

| Run | Question | Instance | Size |
|---|---|---|---|
| `instances_faults` | Is anything ever forgotten that no fault touched? Which steps can a status take? | 2 ids, 2 tasks, 1 worker of capacity 1, 2 lifetimes, all faults | 523 thousand states |
| `instances_claims` | How far beyond `max_instances` can a worker be loaded? What gives a team a second active row? | 3 ids, 1 team, 2 tasks, 2 workers of capacity 1, no faults | 493 thousand |
| `instances_live` | Does every launch, expiry and clean-up come to an end? | 2 ids, 2 tasks, worker faults, `FairSpec` | 177 thousand |
| `instances_duplicate` | A documented rule, violated | 3 ids, 1 team, 2 tasks, 1 worker of capacity 2 | |
| `docker_faults` | Do container, network and connection come and go together? Is the contract kept? | 2 ids, 2 calls, all faults | 448 thousand |
| `k8s_faults` | The same for pod and service | 2 ids, 2 calls, all faults | 58 thousand |
| `registry_faults` | Does `pick_worker` see exactly the workers it should? | the configured times, commits up to 25 s late, 2 open requests, 2 losses | 543 thousand |
| `registry_late` | Does a late deregistration do lasting harm? Violated | the same times, prompt commits | |
| `gateway` | Who reaches what through stale routes? Does every route come and go in the end? | 2 ids of 2 teams, one tcp, every deployment, `FairGatewaySpec` | 60 thousand |
| `challenges` | What does an answer of success mean? Whose updates are lost? | 1 challenge of 2 attributes, 2 administrators | 62 thousand |
| `admin` | What do reruns of the import leave? | 1 challenge of 2 attributes, 1 administrator, the importer, 1 file | 443 thousand |
| `panel` | Is the player ever stuck, or shown what is over? | 2 ids, 2 open requests, `FairPanelSpec` | 284 thousand |

**Bounds.** Two tasks are the smallest number with a race, and two rows the
smallest with a restart; the overcommitment needs a third row, because two
concurrent creates may pass the check together only if a slot was free, and a
second worker leaves a team room for two instances, so that only the duplicate
check forbids them. `instances_claims` is without faults, because with crashes it
is eight times as large; its two properties are proved under every fault.
`Horizon` bounds the clock: one tick is enough for an instance to expire, and two
lifetimes, of which only one runs out, for an administrator's change to matter. `IdLeft` starts a request that inserts a row only
while an unused id is left; ids are `uuid4` and each is used once.
`MaxLosses` bounds lost requests in `WorkerRegistry`, `Calls` those open at the
same time. `MaxPolls` is the largest number of due refreshes the panel tells
apart; at the bound a refresh may leave it there, so it stands for any larger
number. Two requests of one page are the smallest number that can overtake each
other. `MaxCopies` bounds the copies of a challenge or file at two, the first
number that is wrong. One challenge is enough for the registry, whose handlers
touch one row each, and two attributes of two values are the smallest that make a
mixture. For the import one challenge is tight, and so is one administrator beside
it, of whom `challenges` has two; the proofs cover any number of both.
`CommitLimit` is the largest that `PromptCommits` allows in `registry_faults`; with one
tick more TLC finds a behaviour in which `RegisteredIsEligible` fails. The proofs have no bounds.

**Fairness.** `Instances`: a task that has begun goes on (asyncio schedules
every ready coroutine, every worker call has a timeout), the worker's calls end,
the reaper's `while True` loop returns to its query, time passes. No request,
administrator's step or fault is fair. `WorkerRegistry`: the agent's loop and
the handlers go on, a commit takes `CommitLimit` at most, time passes; `Start`, `Shutdown`, `Crash`, `Forget` and
`Lose` are not fair. `Gateway`: a launch goes on (its calls and its wait have
timeouts), Traefik polls every 5 s (weak fairness of the read), and a poll that
keeps being answered is applied in the end although each single one may be lost
(strong fairness of `PollApply`, without which a gateway cut off for good would
have to be assumed to route). `PlayerPanel`: the browser runs its timeouts and
intervals, each request ends with an answer or without, launches end; no click
is fair and no request has to succeed. The other runs state safety only.

**What the violations say.** Each is a disagreement between the code and a line
of its documentation, quoted in `PROJECT.json`:

* `OneActivePerTeam`: two creates pass the duplicate check together. It is not the
  only way: a launch that completes after its instance was stopped or restarted
  brings the row back, beside the one its team has got since. That takes one client
  only, which waits for every answer: create, restart before the launch has ended,
  and both rows run. `DuplicateHasCause` says that there is no third way; with
  the second cause left out of `excused`, TLC finds this behaviour. Every look-up of the team then raises on two rows (`scalar_one_or_none`), so the
  plugin answers 500 to refresh, stop, restart and renew until one row ends.
* `UpBecomesEligible`: a deregistration commits after the restarted agent has
  registered; heartbeats never set `active` again.

**What was met without a run of its own.** In the instance lifecycle: a launch
that completes after a stop sets `running` on a destroyed row (`ComeUp` of
`Lifecycle`), against `docs/api-reference.md:85`. After a crash during a
launch the row stays `pending` for good, because the reaper selects `running`
rows only (`ExpiredIsEnded` is checked without crashes). A destroy that overtakes
`docker run` leaves the container, which `AllOrNothing` and `DestroyTearsDown`
except as `raced`. A worker that cannot be reached when an instance is stopped or
reaped keeps the container, and nobody asks it again (`lost`). The reaper destroys
an instance renewed after its query. Of two renewals around a change of the ttl the
later write may shorten the expiry, against `docs/api-reference.md:57`: both have
read the old expiry, the one with the longer ttl commits first, and the other
compares with what it has read.
`max_ttl_seconds` is documented as a cap of renewals and read nowhere, and
neither the page nor the plugin has the two-hour cap their headers mention
(`isolatex.js:11`, `ctfd-plugin/__init__.py:13`). `GET /workers` lists crashed
workers as active. A launch repeated after a restart of the agent fails at
`docker network create`; the orchestrator never repeats one.

At the gateway: `traefik.yml` sends no key, so in every deployment but a local one
the polls are refused with 403 unless something adds the header (`keyed`). With
TLS the route probe goes to port 80 and the routers are on port 443, so every
http launch waits out its 10 s. Outside a local deployment a tcp endpoint has
an http router only. When no instance is left the answer has an empty `routers`
object; the model lets Traefik apply it like any other, and a Traefik that refuses
it would keep its last routes (forward-auth closes them outside a local
deployment).

In the administration: disabling a challenge is said to let instances finish
(`ctfd-plugin/__init__.py:600`) and is refused with 500 by the foreign key as soon
as one was ever created. Every save detects the protocol anew and takes http
when no worker answers. Two concurrent updates may each be answered with success
while the row mixes their attributes: each writes only what differs from what it
read, so two that read the same row, each changing what the other keeps, leave
both changes, and the body of the later one has never held as a whole. `OkMeansApplied` is
therefore about each attribute at a moment of its own. No document promises more;
that an update leaves alone what it does not name (`docs/api-reference.md:147`) is
`OnlyProvidedChange`, and holds. The import registers without a protocol,
hence as http, and exits with 0 when registrations or the upload failed. The
upload is said to be safe to re-run (`upload-challenge-files.py:7`); it uploads
again what visitors may not list, and every file whose name CTFd changed, which
is why `ImportedOnce` is about `Plain` files and excepts `blind` ones.

On the page: a refresh that fails while the instance is pending starts no
further one and leaves the buttons disabled under the message that says to
refresh, the exception in `NoDeadPanel`. A failed launch shows "No instance
running." without a look. The message of a failed stop or restart is erased by
the refresh that follows. An old answer "none" that overtakes a newer "running" is
shown until the player acts. Each render of an expired instance schedules two
refreshes, so they multiply until the reaper has run. The branches for
`error` and `destroyed` are never reached: the look-up returns active rows only.

## 4. The proofs

The theorems hold for every value of the constants: any number of ids, keys,
workers, tasks, teams, requests, challenges and files, every set of faults, an
unbounded clock.

| Module | Theorem | Statement |
|---|---|---|
| `InstancesProofs` | `TypeCorrect` | `Spec => []TypeOK` |
| | `Inductive` | `Spec => []IInv` |
| | `NoOrphans` | `Spec => []NoOrphan` |
| | `NoAbandonedPending` | `Spec => []PendingHasLauncher` |
| | `LegalStatusSteps` | `Spec => StatusSteps` |
| | `ImplementsContract` | `Spec => UsesContract` |
| | `ImplementsAbstractLifecycle` | `Spec => ImplementsLifecycle` |
| `GatewayProofs` | `GatewayInductive` | `GatewaySpec => []GatewayInv` |
| | `NoOldRoutes` | `GatewaySpec => []RoutesAreRecent` |
| | `EndedStaysClosed` | `GatewaySpec => []EndedIsClosed` |
| | `RunningStaysReached` | `GatewaySpec => []RunningIsReached` |
| `ChallengeProofs` | `RegistryInductive` | `RegistrySpec => []RegistryInv` |
| | `InstancesKeepChallenges` | `RegistrySpec => []InstanceHasChallenge` |
| | `OkIsHonest` | `RegistrySpec => []OkMeansApplied` |
| | `UpdatesAreKept` | `RegistrySpec => OnlyProvidedChange` |
| | `ImportInductive` | `ImportSpec => []ImportInv` |
| | `AttachedFilesExist`, `NothingTwice`, `CleanReportsAreComplete` | `ImportSpec => []AttachedIsStored`, `[]ImportedOnce`, `[]CleanImportIsComplete` |
| | `RowsAreKept` | `ImportSpec => ImportKeepsRows` |
| `PanelProofs` | `NeverDead` | `PanelSpec => [](TypeOK /\ NoDeadPanel)` |
| `DockerProofs` | `Inductive` | `Spec => []IInv` |
| | `WholeOrGone` | `Spec => []AllOrNothing` |
| | `DestroysTearDown` | `Spec => []DestroyTearsDown` |
| | `ImplementsContract` | `Spec => KeepsContract` |
| `K8sProofs` | `Inductive` | `Spec => []IInv` |
| | `PodsHaveServices` | `Spec => []PodWithService` |
| | `DestroysTearDown` | `Spec => []DestroyTearsDown` |
| | `ImplementsContract` | `Spec => KeepsContract` |
| `RegistryProofs` | `TypesHold` | `Spec => []TypeOK` |
| | `Inductive` | no late request: `Spec => []IInv` |
| | `RegisteredWorkersAreEligible` | no late request, `PromptCommits`: `Spec => []RegisteredIsEligible` |
| `ClaimsProofs` | `OvercommitIsBounded` | finitely many ids and tasks: `Spec => []OvercommitBounded` |
| | `ClaimsInductive` | `ClaimsSpec => []ClaimsInv` |
| | `DuplicatesHaveCauses` | `ClaimsSpec => []DuplicateHasCause` |

The assumptions are those the modules declare. `Instances`: `Null` is no id, key
or worker, capacities and lifetimes are naturals, `Faults` is a set of known
faults. `Gateway`: every instance has a team. `ChallengeRegistry` and
`ChallengeImport`: the default protocol is one, every file belongs to a challenge,
the importer is a client. `PlayerPanel`: `MaxPolls` is positive.
`WorkerRegistry`: times are naturals.

Two hypotheses are stated with the theorems that need them, and TLC refutes these
without. Those about the registry assume `"late" \notin Faults`: on the
configuration of `registry_late`, where a deregistration is served after the
restart of its agent, `RegisteredIsEligible` is violated as `UpBecomesEligible` is.
`RegisteredWorkersAreEligible` also assumes `PromptCommits`: what a handler takes
from its clock reading to its commit, what the agent waits for the answer, the
sleep and what it waits for the next heartbeat add up to `Timeout` at most. With the
defaults (60 s against 20 s for a registration, 10 s for a heartbeat and 15 s
between two) a commit may take 25 s; with 30 s `registry_faults` fails.
The count of `OvercommitBounded` means something for finitely many ids and tasks
only, and it is about at least one task.

### Instances

`NoOrphan` is not inductive. A step that ends a task's responsibility for a
container must know what it leaves: `MarkError` that no container exists after a
refused launch, `ReaperMarks` that its own destroy has removed it, `Crash` that
what it drops is recorded. `IInv` adds the missing parts. `OneLauncher`: one task
at most launches a row, and that row is pending or was stopped meanwhile.
`OpenCallHasCaller`: the worker has an open `/launch` only for an id some task
awaits. `NoBoxWithoutLaunch`: a container stands for a launch that got that far.
`RunningWasLaunched`: a running row has an answered launch behind it, as do the
rows in the reaper's list. `ReapedHasNoBox`: the row the reaper is about to mark
has none left. `AbsentIsFresh` and `TaskLocals`: unused ids have left no trace, and
tasks work on rows that exist. Each action is one step of the proof, with one
leaf per part it can disturb; the parts it leaves alone go together.
`StatusSteps` follows from `OneLauncher` and `RunningWasLaunched`, and the
contract from `TaskLocals` and `OpenCallHasCaller`. The refinement maps the
`launch` of an id to where the tasks that launch it are; that two tasks never
launch one id (`OneLauncher`) makes each of their steps one step of `Lifecycle`.

### Gateway

`RoutesAreRecent` is not inductive, because what is applied was read earlier.
`Snapshots` says what an answer under way was when it was read, up to what has
left since. `RouteStays` says that a router once in force and not yet ended is in
every answer read later: an answer under way is at least as new as the
configuration, since only one poll is open at a time. `EndedIsClosed` follows from
`RoutesAreRecent` and the check of the status in `Authorized`, `RunningIsReached`
from `RouteStays`.

### ChallengeRegistry and ChallengeImport

`OkMeansApplied` speaks of a past moment. `CallInOrder` follows each call to it: a
call at its `Refresh` has its effect behind it, and so has an update for the
attributes it read as its body asks. `OnlyProvidedChange` needs the types only:
`PatchUpdate` alone changes a row that stays. `InstanceHasChallenge` needs nothing else, because insert
and removal look at the reference in the same statement. For the import,
`SeesChallenges` says that nobody but the importer adds challenges to CTFd, so
what it listed stays true for what it has yet to handle, `SeesFiles` the same for
files, and `HandledIsThere` accounts for every challenge and file it has been
through: it is there, or its request is open, or a failure has been noted or has
yet to be read.

### Overcommitment and second instances

`OvercommitBounded` says nothing of the tasks that have chosen a worker and not
yet inserted their row, nor of the stopped rows a late launch will bring back.
`SlotsBounded` counts both (`OwesSlot`) beside the active rows of a worker. Then
`InsertRow` and `MarkRunning` turn what a task owes into a row, every other
step adds nothing, and only `PickWorker` adds: it does so when the worker has a
free slot, and the tasks that may owe one are the chooser and the others. The
cardinalities are compared through three lemmas about subsets, so that each
action is a statement about sets.

For `DuplicateHasCause`, `TeamIsFree` carries the duplicate check to the insert: a
team about to get a row has no active one but, in a restart, the one that is
being ended. That needs `OneInserting`, for a second inserting request of the team
would not know of the row. Both speak of teams that are not `excused`, which only
an overlap and a late `MarkRunning` change: by `OneLauncher` of `IInv` the row a
launch brings up is pending, hence counted already, or destroyed, hence a
cause. `ClaimsSpec` is `Spec` with a history variable, so the theorem about
`IInv` carries over. `ClaimsInv` and `SlotsBounded` were checked by TLC on the
configuration of `instances_claims`.

### DockerAdapter and K8sAdapter

`AllOrNothing` and `PodWithService` look at settled instances only, so they say
nothing while a call is under way, and `IInv` has to. `LaunchedOnce`: an instance
has one launch at most, and where it stands tells what it has made. `OnlyMade`:
nothing exists that no launch made, which the restarts of the agent do not
change since they forget only the map. `LaunchesAlone`: a launch that no destroy
overlaps is alone, and nothing has torn its instance down since. `StepsBuildUp`
is the core: outside `raced` and `hurt`, each step finds exactly what the one
before it left. For Docker that includes that a network to be removed has nothing
attached (`removeNet`), without which the daemon would refuse.

The refinement maps `reply` and `made` to the `call` of the contract
(`callView`): an open launch is `starting` until its container or pod is made.
Each action is one lemma: it changes the view of its own instance as the contract
allows, or nothing the contract sees. `Leftover` is computed from the faults, so the
strong form of the contract is proved for a Docker daemon whose commands do not
slip, and for clusters whose API calls do not fail.

### WorkerRegistry

`RegisteredIsEligible` relates the agent's flag to the row at the orchestrator and
to the age of `last_seen`, and none of them changes in one step with another.
`TakenStaysActive` begins before the flag is set, at the moment the registration
is served (`RowTaken`), where a registration that found the row active and writes
nothing counts as served. `NoLateDeregister` is what the absence of late requests
is for: an agent that is up has no open deregistration. `SeenLately` bounds the
age by where the loop stands. A request that was answered has left a `last_seen`
of at most `CommitLimit`, and so has every other commit, of requests given up long
ago too; so after any commit the age is `CommitLimit` at most, and what the agent
may have waited for the answer is added before it sleeps: `CommitLimit + CallLimit +
wait` asleep, one `Interval` more while the next heartbeat is open, or `CommitLimit +
RegisterLimit + wait` for the heartbeat that follows a registration at once.
`InTime` bounds `wait`, and `PromptCommits` closes the argument: the call has ended
and the flag is down before `pick_worker` would drop the worker. The number of lost
calls does not matter.

### Only model-checked

Everything temporal under fairness (`LaunchesEnd`, `ExpiredIsEnded`,
`ContainersCollected`, `UpBecomesEligible`, `EndedLosesRoute`,
`RunningGetsRoute`, `StaleHeals`, `PanelSettles`), which is out of the prover's
reach. Every invariant and every action property of the runs is proved.

## 5. Not modelled

* Reads without effect (`GET /instances`, lists), logging, and the endpoint
  strings of `core/router.py`.
* The worker's readiness probe ends by success or timeout; the two are not told
  apart. (It reads Docker metadata, `worker/main.py:94`: with the Kubernetes adapters
  it never succeeds and every launch waits out its 30 s.) The wait for the route is modelled in `Gateway` only.
* Flags: an HMAC, no state.
* Graceful termination of pods: a deleted pod is gone at once. Instance ids
  never come back, so a name is not reused while its pod terminates.
* Two workers on one Docker daemon, and the 16-character names of two ids that
  collide.
* The key-value table of the settings. Two first writes at once make one of them
  fail on the primary key with a 500, after which it can be repeated; nothing
  else depends on it.
* Of the plugin: the list of challenges for the administration page, the runtime
  capabilities and the stored defaults, which only read, render or store single
  values. Finding and injecting panels into a page of CTFd.
* Of the import: `SKIP_FILE_UPLOAD`, files missing on disk, the pages of a
  listing, the heuristics that choose the files of a directory. Reruns while an
  earlier import still runs.
* Host names, certificates and the nginx alternative to Traefik.
* The build, set-up and smoke-test scripts and the deployment files: one-shot
  steps of an operator without protocol.

## 6. Plan

Every module of section 2 is written, and every safety property of the runs is
proved. What is left:

1. The contract from both sides at once: that `Instances` and an adapter, run
   together over one `AdapterContract`, leave no container behind, as a theorem
   about the two specifications instead of about each.
2. The type invariants of the remaining abstract modules (`Lifecycle`,
   `AdapterContract`) as theorems of their own.
3. The hazards without a property, listed in `PROJECT.json`, as far as their state
   enters the models: the reaper's list against a renewal, and the cap
   `max_ttl_seconds` that nothing reads.
