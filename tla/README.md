# Formal model of the cluster life cycle in jenkins-ansible

The repository provisions machines on GCP and runs a Kubernetes cluster on
them with a vendored Kubespray. Its own logic, and most of what can go wrong in
it, is in Ansible: playbooks that take a cluster through bootstrap, growth,
upgrade, recovery and removal, host by host, while the cluster serves. The
hazards are those of a distributed protocol whose coordinator may stop between
any two steps: facts read early and used late, a batch in which one host fails,
runs that are interrupted and repeated, quorums that must survive a rolling
restart. Beside the playbooks stand a few programs: the Ansible module for
Kubernetes resources, the script that keeps the checksums of the downloads, and
scripts that clean up and list cloud resources. They are smaller, but they meet
the same things: other clients, answers that are old when they are used, calls
that fail in the middle of a loop.

In this document a *playbook run* is one execution of `ansible-playbook` (the
variable `runs` counts them), a *check* is one execution of TLC on a `.cfg`.
`K` stands for `src/k8s-setup/kubespray-backup`.

Contents: [files](#files), [inventory](#inventory), [how Ansible is
modelled](#how-ansible-is-modelled), the seven modelled components
([graceful upgrade](#graceful-upgrade-rollingupgrade), [growth of
etcd](#bootstrap-and-growth-of-etcd-etcdjoin), [restart of
etcd](#upgrade-and-restart-of-etcd-etcdrestart), [kube
module](#kube-module-kubemodule), [hash
update](#component-hash-update-hashupdate), [OpenStack
cleanup](#openstack-cleanup-openstackcleanup), [Terraform
inventory](#dynamic-inventory-of-terraform-states-terraforminventory)), [what each check
shows](#checks), [what is proved](#proofs), [where the code and its comments
disagree](#disagreements-found), [what is left out](#abstractions-and-limits),
[plan](#plan).

## Files

| module | what it is |
|---|---|
| `RollingUpgrade` | the three serial plays of `upgrade_cluster.yml` with the roles pre-upgrade and post-upgrade |
| `StagedRollout` | abstract specification: what an upgrade promises about versions and windows |
| `RollingUpgrade_proofs` | theorems about `RollingUpgrade`: versions, batches, the end of a run, and that it implements `StagedRollout` |
| `RollingUpgrade_cordons` | theorems about the cordons, drains, the rescue section and the fallback of `RollingUpgrade` |
| `EtcdJoin` | roles/etcd: configure.yml, refresh_config.yml, join_etcd_member.yml |
| `EtcdJoin_proofs` | theorems about `EtcdJoin` |
| `EtcdRestart` | roles/etcd: install_*.yml, clean_v2_store.yml, the handlers of `Restart etcd` |
| `EtcdRestart_proofs` | theorems about `EtcdRestart` |
| `KubeModule`, `KubeModule_proofs` | plugins/modules/kube.py with its retries, other hosts and other clients; theorems about it |
| `HashUpdate`, `HashUpdate_proofs` | scripts/component_hash_update with upstream and the maintainer; theorems about it |
| `OpenStackCleanup`, `OpenStackCleanup_proofs` | scripts/openstack-cleanup/main.py with a project that others use; theorems about it |
| `TerraformInventory`, `TerraformInventory_proofs` | contrib/terraform/terraform.py beside runs of terraform; theorems about it |
| `MC*` | the instances: inventories, calls, files, fault sets, symmetry |

`tlc -config <name>.cfg MC<module>.tla`, with `<name>` one of the checks below,
repeats a check; `tlapm` on a module of theorems repeats a proof. The modules do not
use recursion, so everything that is checked can also be proved about.

## Inventory

Each row: the state the component keeps, its operations, whom it interacts
with, what makes it hard, and what would make it correct. The status is in
`PROJECT.json`.

### Modelled

| component | state | operations | interactions | hard behaviour | correct when |
|---|---|---|---|---|---|
| graceful upgrade of nodes (`K/playbooks/upgrade_cluster.yml`, roles upgrade/*) | versions, cordon and Ready condition of each node; facts `needs_cordoning`, registers, position in the plays | read, cordon, drain, fallback drain, rescue, upgrade, uncordon, next batch, fail | scheduler, kubelets, an administrator with kubectl, earlier runs | facts read at the start of a batch and used at its end; one host of a batch fails; a run stops anywhere; `serial` rounding | control plane first, one batch out, cordons of the administrator respected, drained before upgraded, given back |
| etcd bootstrap and growth (`K/roles/etcd/tasks/configure.yml` and what it includes) | member list, data directories, processes, `/etc/etcd.env` of each host | health check, write file, start, member check, add, join, refresh | etcd itself, systemd, earlier runs | one health check decides new or existing for all hosts; adding and starting a member are two steps | never two clusters; hosts join one at a time; after a success all are members |
| etcd upgrade and restart (`K/roles/etcd/tasks/install_*.yml`, `clean_v2_store.yml`, `K/roles/etcd/handlers`) | installed and running version, processes, backups, pending notifications | version query, cleanup of the v2 store, install, backup, throttled restart, wait, removal of old backups | etcd, systemd units of two kinds, earlier runs | notifications die with the run; the throttle counts tasks, the quorum counts members | quorum kept; backup before restart; a success means all run the new version |
| kube module (`K/plugins/modules/kube.py`) | objects of an API server, the call each host is in | apply, delete, stop, exists; retry | kubectl, other hosts' calls, other clients | the lookup and the command are two calls; a command over several objects stops half-way; a lookup that fails reads as "does not exist" | a success can be believed; a failure has a cause outside the module |
| component hash update (`K/scripts/component_hash_update`) | `checksums.yml`, the contents a run works on, its requests | read, query, fetch, write | GitHub, the upstream files, the maintainer | upstream changes between two requests; what counts as newer per component; the file is truncated before it is written | complete entries never change; only later patches are added; a run is thorough |
| OpenStack cleanup (`K/scripts/openstack-cleanup/main.py`) | resources of a project, the loop the script is in | delete what is old, kind by kind; two repairs | OpenStack, other users | a conflict leaves the loop; servers go late; the repairs fail silently | nothing young is lost; a run that ends left nothing old |
| dynamic inventory of Terraform states (`K/contrib/terraform/terraform.py`) | state files, floating IPs by port, hosts | two passes over all files, answer | terraform apply | the passes see different contents; the first in the text runs second | no host has another's address; an undisturbed answer is complete |

### Planned

| component | state | operations | hard behaviour | correct when |
|---|---|---|---|---|
| etcd certificates (`K/roles/etcd/tasks/check_certs.yml`, `gen_certs_script.yml`) | certificates on each host, facts `gen_certs`, `sync_certs`, `etcd_secret_changed` | look, generate on the first host, gather, distribute, restart | a handler sets a fact that a task before it reads; the next run resets it | a host that got a new certificate is restarted with it |
| recovery of a control plane (`K/playbooks/recover_control_plane.yml`, roles recover_control_plane) | member list, healthy and broken members, snapshot | health, remove broken members, or restore a snapshot on the first host | `has_quorum` compares healthy and unhealthy lines with `>=`; a loop that removes members one by one | a snapshot is restored only when the quorum is lost, a broken member is removed only when it is not |
| removal of nodes (`K/playbooks/remove_node.yml`, roles remove_node, remove-node) | node objects, pods, member list, packages | drain, remove member, reset, delete node | several nodes side by side, no `any_errors_fatal` | quorum kept; nothing reset that still has pods |
| kubeadm control plane (`K/roles/kubernetes/control-plane`) | manifests and certificates per node, certificate key, token | init with one retry, upload certificates, join one at a time, upgrade first then others | a run that stops between init and join; a key or token that is older than the cluster | one cluster, every control plane node in it |
| provisioning on GCP (`src/ansible-related/laC`) | disks, addresses, instances, the inventory file | create control plane, create workers, destroy | appending to the inventory is not idempotent | the inventory names the machines that exist, once |
| download (`K/roles/download`) | files and images per host and in the cache | download on a delegate, copy back, distribute | the delegate downloads while the others wait; caches of earlier runs | every host has the file with the wanted checksum |

### Not modelled

Reset of a node, inventory validation and dynamic groups, bootstrap of hosts,
container engines, network plugins and add-ons: sequences of idempotent tasks on
one host, or manifests applied in order, without interaction of their own
(the assumptions of the modules state what they need from the inventory). The
AWS inventory turns tags into JSON in one pass, the offline image scripts and
`upload2artifactory.py` copy files one after the other, `galaxy_version.py`
rewrites one line: I/O without a state that two steps could disagree on.
`scale.yml` and `cluster.yml` compose the roles
above; what they do to etcd is `EtcdJoin`. Labs, Helm charts, manifests and
`autoAddSubDomain.sh` are examples and declarative data.

## How Ansible is modelled

The three specifications of playbooks (`RollingUpgrade`, `EtcdJoin`,
`EtcdRestart`) share one model of the engine, written out in each because the
components use different parts of it.

* `task` is the task the hosts are at, `pending` the hosts that still have to
  run it, `failed` those on which it failed. A task is one action with the host
  as parameter; hosts run it in any order (the linear strategy runs them side
  by side), `TaskDone` moves all of them to the next task (`NextTask`, a
  conditional task is one with no target hosts: `Targets`, `RunsOn`). All plays
  modelled set `any_errors_fatal`, so a failed host ends the task for the batch
  and then the run, or takes the whole batch to the rescue section of the block.
* A task that visits hosts in the order of the inventory (`run_once`,
  `delegate_to` the first host, a loop over `groups['etcd']`) is modelled with
  any order: the properties then hold for every inventory order.
* Registers and facts (`sawReady`, `needsCordoning`, `healthy`, `inCluster`,
  `older`, `notified`) are variables, written where the task writes them and
  read where a later task reads them. This is what makes stale facts visible.
* `StartRun` starts a playbook run (at most `MaxRuns`), `Interrupt` ends it at
  any point; what is on the hosts stays, what is in the run (facts,
  notifications) is lost.
* What may go wrong is a constant `Faults`; a task whose fault is in the set
  has both outcomes (`Outcomes`).

## Graceful upgrade: `RollingUpgrade`

| variable | code |
|---|---|
| `kubelet`, `api`, `net` | version of a node's kubelet and container engine; of its static control plane pods; of its network plugin |
| `ready`, `unschedulable`, `pods` | condition Ready, `.spec.unschedulable`, whether there are pods a drain would evict |
| `held` | an administrator's cordon is in force (the administrator's own view) |
| `play`, `limit`, `remaining`, `batch` | position in the three plays; `--limit`; hosts not taken yet; the current batch of `serial` |
| `task`, `pending`, `failed`, `tries` | engine; `tries` is the retry loop of the drain tasks |
| `sawReady`, `needsCordoning`, `undrained` | registers and facts of pre-upgrade: `kubectl_node_ready`, `needs_cordoning`, `result.rc` |
| `stranded` | history: nodes that were out of service on the playbook's account when the run started |

The tasks, in order, with their actions: the two reads with
`failed_when: false` (`ReadReady`, `ReadSchedulable`, which also sets
`needs_cordoning`), the block (`Cordon`, `Drain`, `DrainFallback`), its rescue
(`EnterRescue`, `RescueUncordon`, `FailAfterRescue`), the roles in between
(`UpgradeControlPlane`, `UpgradeNetwork`, `UpgradeNode`: each replaces a version
and may fail half-way, with the version replaced or not), post-upgrade
(`WaitBeforeUncordon`, `Uncordon`). `BatchSize` is the truncating percentage
with a minimum of one of `serial`, `Batches` the batches that can come next,
and `NextPlay` the order of the plays. The environment: `Schedule` puts a pod
on a schedulable node, `ReadyChanges`, `AdminCordon`, `AdminUncordon`.

`AdminWindow` says when the administrator acts. `needs_cordoning` is read at
the beginning of a batch and used at its end, so a cordon set *during* the
batch of its node is lifted by the playbook; that is inherent in the design and
is why `AdminCordonKept` is checked with an administrator who leaves the nodes
of the current batch alone (`outside_batch`), and why the theorems about cordons
and drains assume it too. Those about the order of versions, the batches and the
refinement hold for an administrator who acts at any time. `Unsteady` names the
nodes whose condition Ready changes by itself.

`StagedRollout` is the promise: windows are opened over control plane nodes, or,
once all API servers are new, over at most the serial percentage of workers, and
only what is inside the window changes its version. The refinement maps
`window` to the batch of the two plays that upgrade nodes.

## Bootstrap and growth of etcd: `EtcdJoin`

| variable | code |
|---|---|
| `members`, `data`, `up` | external: the member list of each of the two possible clusters, the cluster a data directory belongs to, the running processes |
| `enabled` | units with `enabled: true`, which systemd restarts |
| `env` | `ETCD_INITIAL_CLUSTER_STATE` and `ETCD_INITIAL_CLUSTER` in `/etc/etcd.env` |
| `healthy`, `inCluster` | registers `etcd_cluster_is_healthy` and `etcd_member_in_cluster` |
| `joining` | the hosts the loop over `groups['etcd']` still has to join |

One run is: health check (`CheckHealthy`), environment file (`RefreshConfig`,
whose state is `existing` exactly when the check returned 0), start
(`LaunchByTask`, `StartReturns`; the failure of the start is ignored when the
cluster is healthy), wait (`WaitHealthy`), membership of each host
(`CheckMember`), then for every host that is not a member `AddMember`,
`JoinConfig`, `EnsureMember`, `JoinLaunch`/`JoinStarted`, and the last refresh
of the files (`roles/etcd/tasks/main.yml:100`). etcd itself is external and
modelled from the way these tasks use it: a host without data and a file that
says `new` bootstraps a cluster of the hosts it lists; with `existing` it joins
if its list is the member list; a member counts for the quorum from the moment
it is listed. `Events = TRUE` selects the etcd-events variants of the tasks,
which differ in three places: the condition under which a failed start is
ignored is the opposite one (`configure.yml:96` against 85); an answer "Peer URLs
already exists" is a success in `join_etcd_member.yml:5-6` only (`AddSucceeds`);
and the membership check after a join is retried in that file only. The last is
not visible in the model, where `JoinBlocked` is a task that has failed for good,
after its retries if it has any.

The clusters are called `old` (there before the first run) and `fresh`
(bootstrapped by a run). When no host runs etcd at first, the cluster that is
built is `fresh`.

## Upgrade and restart of etcd: `EtcdRestart`

| variable | code |
|---|---|
| `setting` | `etcd_deployment_type` and whether the upgrade crosses 3.6 |
| `installed`, `current` | hosts whose binary (or launch script) is new; processes started from it |
| `up`, `synced`, `stopped` | process runs; member serves; unit stopped on purpose (systemd leaves it alone) |
| `v2store` | data directory has a v2 store |
| `limited`, `versioned`, `existing` | `/etc/etcd.env`: hosts whose file has the settings of the cleanup; names the new version (first line); has the cluster state `existing` |
| `backups`, `snapshots` | backup directories by run; those with a complete snapshot |
| `inflight` | hosts on which the restart is at work, at most `throttle` |
| `notified`, `older`, `healthy` | pending notifications; `etcd_current_version` known and below 3.6; health register |

Role tasks: `ReadVersion` (the host variant asks the *installed binary*, the
docker variant the *running container*), the cleanup of the v2 store
(`LimitStore`, `StopForCleanup`, `LaunchByTask`), `Install`, `CheckHealthy`,
`RefreshConfig`, start and wait, and `RefreshConfig` once more (`main.yml:77` and
100; tasks `config` and `refresh`). A refresh notifies the handlers whenever the
file changes (`UpToDate`): when it takes the settings of the cleanup back, names
another version than before, or the health check had another outcome. At the end of the play the handlers run on the
notified hosts: `CreateBackupDirectory`, `BackupData`, the restart
(`RestartStop`, `RestartLaunch`, `RestartReturns`, `RestartFails`) with
`throttle: groups['etcd'] | length // 2`, `WaitUp`, `CleanupBackups`.

The difference between the units matters: the host unit is `Type=notify`, so the
restart task returns when the member serves; the docker unit is not, and the
task returns when the process exists (`StartDone`). `Ready` is the member
catching up, which needs a majority of processes; `AutoRestart` is
`Restart=always`.

## Kube module: `KubeModule`

| variable | code |
|---|---|
| `cluster` | external: each object is missing, as the definition files say (`ours`), or otherwise (`other`) |
| `call` | parameters of the module: `state`, how the objects are named (`files`, name, label, all, type alone), `force` |
| `pc`, `todo`, `missed` | where the module is; what the running kubectl command has not come to; whether it found something missing |
| `result`, `tries`, `broken` | result of the call; attempts of Ansible; kubectl commands that failed |
| `gone`, `current` | history: objects that were missing, or as the files say, at some time of the attempt |

`LooksFirst` is which states ask whether the resource exists before the command:
`delete` and `stop` without `force`, never `create` and `replace`, which `main`
calls with `check=False`. `Lookup` is `exists` with `_execute_nofail`, whose
failure is the answer "no" (`LookFails`); `Command`, `Apply`, `Replace`,
`Delete`, `Finish` are one kubectl command, object by object; `Rejected` are the
calls for which kubectl has no such command or the module builds an incomplete
one; `Strict` is when a missing object is an error (`--ignore-not-found` is
given with `force` and without files only). `Retry` is `until`/`retries` of the
tasks that use the module.

`AbsentMeansAbsent` states which successes of `state=absent` can be believed:
forced ones, and those without files whose lookups worked. Outside that, see
[below](#disagreements-found). "At some time of the attempt" is the most that
can be said beside other clients.

## Component hash update: `HashUpdate`

| variable | code |
|---|---|
| `file`, `torn` | `checksums.yml`: the entries by component, architecture, version and type of the key; truncated and not yet written |
| `pc`, `selected`, `data` | step of `main`; the components of the call; the dictionary read from the file |
| `seen`, `todo` | versions GitHub listed; requests still to make |
| `release`, `build` | external: which versions are published, and of which build their files are |

`Infos` is what `components.py` says of a component, as far as it decides
something: releases or tags, one file for all architectures or one each, numbers
or dates for versions. `NewVersions` and `ZeroVersions` are the selection of
`download.py` (later than the last one of its line in the *first* architecture;
an entry that is 0 in any), `Requests` the calls of `download_hash`, of which
`functools.cache` makes one when the file is shared. `Fetch` fills the entries of
one request. The script takes a key for a version with `Version(str(k))` (213,
220) but writes under `str(version)` (253-255): `Keys` tells the two types of keys
apart, text and, for a version of two parts or a date that is not quoted
(`Numbers`), a number. `Filled` writes the entry under the text, so a 0 under a
number stays beside it. `Fail` ends the run before the file is touched, `Truncate` and
`Dump` are `open("w")` and the dump, `Interrupt` the end between them,
`Exit` what the end of a process forgets, `Restore` is git. `Publish` and `Edit` are the upstream projects and the
maintainer; both act at any time of a run.

## OpenStack cleanup: `OpenStackCleanup`

| variable | code |
|---|---|
| `alive`, `deleting` | external: the resources of the project, and servers whose deletion was accepted and not yet done |
| `pc`, `todo` | the loop of `main` that runs, and the items of its listing it has not come to |
| `dry` | `--dry-run` |
| `runs`, `faults` | bounds |

The loops and their order are the functions `KindOf` and `After`; where a
`ConflictException` leads is `Handler`: from the ports to the two repairs (take
the subnets off the routers, delete the floating IPs) and the ports once more,
from the security groups to a second pass over ports and groups, from anywhere
else to the end of the script. `Chosen` is `fn_if_old`. `Refused` and `Gone` say
what OpenStack refuses to delete and what it deletes along; `Detach` is
`remove_interface_from_router`, whose failure is only logged. `Create` is
another user, who may put a young resource on an old one.

## Dynamic inventory of Terraform states: `TerraformInventory`

| variable | code |
|---|---|
| `files` | the state files below the root, each one of a set of contents (`version` 0: half written) |
| `pc`, `left` | the pass that runs, or how it was answered (`answered`: from all files, `found`: `--host` at the first host of the name), and the files it has not read |
| `ips`, `hosts` | `dict(iterips(...))`; the hosts of the generator `iterhosts` after `iter_host_ips`, as one table per file in the order of reading, from the place of a host in the file to the host |
| `changed`, `own` | history: a file changed since the start; every address a state file has given a port |

`hosts` in `main` is a generator, so its files are read when a query asks for
them, after the floating IPs: `Begin`, `ReadIps`, `SecondPass`, `ReadHosts`.
`OpenstackHost`, `EquinixMetalDevice` and `IterIps` are the parsers, `HostIp` is
what `iter_host_ips` overwrites, `Updated` the `dict()` over the files,
`QueryList` the answer over the places in the order of reading. `QueryHost` is a
step of its own in the second pass, because it leaves the loop at the first host
of the name (379-382): an unreadable file or a device after it does not matter,
one before it does. `TerraformApply` replaces the contents of a file at any time;
a half-written file has the resources it will have, so an answer that leaves it
out would be incomplete.

## Checks

All are exhaustive. *States* are distinct states.

| check | instance | properties | shows |
|---|---|---|---|
| `RollingUpgrade_faults` | 1+2 nodes, `serial` 50 %, the fallback drain, all faults but failing reads, one worker whose condition Ready changes, an administrator outside the batch, 2 runs, limits: all, control plane, each worker; 830 k states | `TypeOK`, `ControlPlaneFirst`, `OneBatchOut`, `AdminCordonKept`, `EndedMeansUpgraded`, `DisruptOnlyDrained`, `ImplementsStagedRollout` | version order and window size survive failed, interrupted and limited runs; a run that comes to its end has upgraded every host of its limit; the playbook never lifts a cordon it did not set; exactly which nodes it upgrades under running pods |
| `RollingUpgrade_drain` | 1+3 nodes, `serial` 67 % (batches of two and one), `upgrade_node_always_cordon`, failing drains with a retry and failing reads, 2 runs; 113 k | `NothingStranded`, `EventuallyGivenBack`, `RunUpgradesAll`, `EveryUpgradeDrained` | the rescue gives the whole batch back; every node returns; a run reaches every host or fails; with that setting the exceptions of `DisruptOnlyDrained` are gone |
| `EtcdJoin_faults` | 2 members and 1 new host, failing health check, stopped members, interruptions, 3 runs; 16 k | `TypeOK`, `NoSplitBrain` | two clusters never serve at once |
| `EtcdJoin_scale` | 5 hosts, none or 3 of them running, interruptions, 3 runs; 11 k | `DoneMeansJoined`, `OneAtATime`, `EventuallyJoined` | what a success establishes, and that a rerun completes what interrupted runs left |
| `EtcdRestart_upgrade` | 3 hosts, both deployments, within a release and across 3.6, failing backups and starts, interruptions, retention 1, 2 runs; 140 k | `TypeOK`, `HostStaysAvailable`, `RerunCompletes`, `HostCleansBeforeUpgrade`, `BackupBeforeRestart`, `LastBackupKept`, `EventuallyServing` | quorum, backups, completeness and cleanup |
| `KubeModule` | 2 hosts, 2 objects, ten calls (apply, delete, stop, look; by files, name, label, type), two attempts, two failing commands, one step of another client; 2.1 M | `TypeOK`, `AbsentMeansAbsent`, `AppliedMeansCurrent`, `FailsForAReason` | what a success of the module says of the cluster, and why a call may fail |
| `HashUpdate` | a component with a shared file and two lines, one with dates and unquoted keys; two architectures, three versions, one edit, two steps upstream; 239 k | `TypeOK`, `OneBuild`, `CompletePinned`, `OnlyLaterPatches`, `WrittenMeansFilled` | which entries may change, which versions come in, and what a run that wrote the file leaves undone: a 0 under a number, beside its sums |
| `OpenStackCleanup` | an old network with server, floating IP, router and an interface that is stray, six young resources that may come, two runs, one failing call; 113 k | `TypeOK`, `TwoRunsClean`, `YoungKept`, `DryRunKeepsAll`, `DoneMeansClean` | nothing young is lost, and what one run and two runs leave |
| `TerraformInventory` | two files, eight contents of which one is half written, two applies; 72 k | `TypeOK`, `NoForeignAddress`, `QuietListComplete` | a host gets no address that was never its own while terraform runs; an undisturbed `--list` is complete, and `--host` right |
| `RollingUpgrade_fallback`, `EtcdJoin_events`, `EtcdRestart_rerun` | | one each, violated | [below](#disagreements-found) |

**Why the bounds are enough.** `MaxRuns` 2 is the least that has a run start on
what another left, and the properties relate at most two runs; `EtcdJoin` has 3,
because an interrupted run, one that lists another member, and one that
completes are needed there. One control plane node and two workers give two
batches at 50 % and one at 100 %; three workers at 67 % give a full and an
incomplete batch. Three etcd hosts are the smallest group in which a throttle
of 1 differs from none; five hosts, three of them running, let two new members
be listed in sequence. `KubeModule` needs two
hosts for calls side by side, two objects for a command that stops half-way and
two failing commands for a call whose attempts all fail. In `HashUpdate` three
versions make a line with a later patch beside a line of its own, and two
upstream steps let a version appear and be rebuilt between two requests.
`OpenStackCleanup` starts from projects in which each handler is reached, with
and without the floating IP that makes a repair fail; two runs are what
`TwoRunsClean` is about. The two files of `TerraformInventory` and its contents
are an address that moves, one that is given up, a replaced instance, a name used
twice and a device. The numbers of nodes, batch sizes, objects, versions and
runs are arbitrary in the theorems.

**Symmetry** (control plane nodes, workers whose condition Ready is steady; the
hosts of `KubeModule`) is used only in checks without liveness.

**Deadlock** checking is off in the checks of the playbooks only: when the bound
on the runs is used up and the last run has ended, the system really stops. The
programs can always be started again, and their checks look for deadlocks.

**Fairness.** `WF(Playbook)`: Ansible goes on with the next host or task while
there is one; runs may still fail, and an interruption ends the run, so a
property over a run is stated for a run that is not interrupted (checks
without that fault, the last run, or a disjunct for failure). `WF(Systemd)` in
the etcd modules: `Restart=always` starts an enabled unit
that died, and a member that can reach a majority catches up. There is no
fairness for the operator, the administrator, the scheduler or a fault, and none
in the four models of programs: kubectl, GitHub and OpenStack are called without
a timeout, so nothing in the code makes a run end.

**Preconditions worth knowing.** `DisruptOnlyDrained` excepts nodes that the
playbook saw not Ready, nodes the administrator holds and nodes an earlier run
left cordoned: all three are upgraded under their pods, as pre-upgrade/tasks
decides; `EveryUpgradeDrained` is the check without the exceptions, in the
instance with `upgrade_node_always_cordon` and no interruptions (the theorem
`AlwaysCordonDrains` covers runs with them). `AbsentMeansAbsent` leaves out the
calls by files with a failed lookup or a missing file, which delete nothing.
`OneAtATime` stops at the first run: a run that follows an interrupted one can
list a second member that has not started. `EventuallyServing` leaves out the
docker variant across 3.6, where a container stopped by an interrupted run reads
as no version and the cleanup is skipped. `NoSplitBrain` says "serve", not
"exist": after a health check that fails, a new host *does* bootstrap a cluster
of its own and stays without a quorum. `OnlyLaterPatches` and
`WrittenMeansFilled` speak of what had a sum when the step was taken, because the
maintainer may edit the file while a run goes on. `CompletePinned` leaves out a
version with a 0 under a number beside its sums: every run fetches those anew.
`NoForeignAddress` says that an address was the host's own once: one that
terraform has moved to another host since the first pass is still given out.
`TwoRunsClean` leaves out
projects in which something young stands on something old (`Stuck`): these are
never cleaned, [below](#disagreements-found).

## Proofs

Each theorem is for all values of the constants that satisfy the named
assumptions of the module (finite non-empty groups, ranges of the settings).

| theorem | statement | argument |
|---|---|---|
| `RollingUpgrade_proofs!TypeCorrect` | `Spec => []TypeOK` | `TypeOK` is inductive; one step per action |
| `ControlPlaneUpgradedFirst` | `[]ControlPlaneFirst` | `RolloutOrder`, below |
| `AtMostOneBatchOut` | `[]OneBatchOut` | `CapacityByTask`, on top of `RolloutOrder` |
| `PlaybookImplementsRollout` | `Spec => ImplementsStagedRollout` | initial states map to initial states; each step maps to an abstract step or a stutter (`RolloutStep`), with `RolloutOrder` and lemmas on the rounding (`PercentOfMonotonic`, `WorkerBatchSize`) |
| `EndedRunsAreComplete` | `[]EndedMeansUpgraded` | `Upgraded`, on top of `RolloutOrder` |
| `EveryStepAdvances` | `RunAdvances` (action property) | `TriesBounded`, `RolloutOrder` |
| `RunsAreFinite` | `IsWellFoundedOn(LessOfRun, LeftOfRun)`, and each step of the playbook leaves less in that order while no other leaves more | `RunAdvances` as a lexicographic order on finite sets |
| `AdminCordonsRespected` | `LooksBeforeCordon => (Spec => []AdminCordonKept)` | `CordonsApart` |
| `OnlyExceptionsDisrupted` | `DrainsOrFails => (Spec => DisruptOnlyDrained)` | `ServiceByTask` |
| `AlwaysCordonDrains` | `DrainsOrFails /\ AlwaysCordon => (Spec => EveryUpgradeDrained)` | `ServiceByTask` |
| `RescueLeavesNothing` | `RescueSucceeds => (Spec => []NothingStranded)` | `GivenBack`, on top of `CapacityByTask` |
| `FallbackBeforeRescue` | `DrainRetries = 0 => (Spec => RescueOnlyAfterFallback)` | `DrainNotFailed` |
| `FallbackNeverRuns` | `DrainRetries # 0 => (Spec => []FallbackIdle)` | `Undrained` |
| `EtcdJoin_proofs!TypeCorrect` | `[]TypeOK` | inductive |
| `MinorityCannotSplit` | `NewHostsMinority => (Spec => []NoSplitBrain)` | `FreshNeedsAll`, then two quorums of overlapping groups |
| `OneJoinsAtATime` | `[]OneAtATime` | `WaitingByTask` |
| `SuccessMeansJoined` | `NewHostsMinority /\ MembersStay => (Spec => []DoneMeansJoined)` | `JoinedByTask`, with `FreshNeedsAll` |
| `ScalingOfEtcdProceeds` | `~Events => (Spec => ScalingProceeds)` | `StartsIgnored` |
| `EtcdRestart_proofs!TypeCorrect` | `[]TypeOK` | strengthened by: between runs nothing is pending or in flight |
| `OddClusterStaysAvailable` | for an odd group of at least three, `[]HostStaysAvailable` | `RestartInv`, then arithmetic on the throttle |
| `BackedUpBeforeRestart` | `BackupBeforeRestart` (action property) | `BackedUp` |
| `StoresCleanBeforeUpgrade` | `[]HostCleansBeforeUpgrade` | `CleanInv` |
| `BackupsKept` | `Retention # 0 => (Spec => LastBackupKept)` | `ArchivedByTask` |
| `CompleteRuns` | `[]RerunCompletes` | `DeployedInv` |
| `KubeModule_proofs!TypeCorrect` | `[]TypeOK` | part of `Inv`, below |
| `AbsentIsAbsent`, `AppliedIsCurrent` | `[]AbsentMeansAbsent`, `[]AppliedMeansCurrent` | `Removed`, `Written` |
| `FailuresHaveReasons` | `[]FailsForAReason` | `Steps`, `Counted` |
| `HashUpdate_proofs!TypeCorrect` | `[]TypeOK` | inductive |
| `SumsOfOneBuild` | `[]OneBuild` | `OneBuildOf` for the file and for the run |
| `CompleteStays` | `CompletePinned` | `Untouched` |
| `AddsLaterPatches` | `OnlyLaterPatches` | `AddsLater`, with `Fresh` |
| `RunsAreThorough` | `WrittenMeansFilled` | `Thorough`, with `Fresh` |
| `OpenStackCleanup_proofs!TypeCorrect` | `[]TypeOK` | inductive |
| `YoungSafe`, `DryRunSafe` | `YoungKept`, `DryRunKeepsAll` | one case per action, from the types |
| `DoneIsClean` | `DoneMeansClean` | `Remaining`, below |
| `TwoRunsSuffice` | `YoungOnTheirOwn => (Spec => []TwoRunsClean)` | `RunByRun`, with `Closed`, below |
| `TerraformInventory_proofs!TypeCorrect` | `[]TypeOK` | `Typed` |
| `AddressesOwn` | `[]NoForeignAddress` | one case per action, on top of `Typed` |
| `QuietListsComplete` | `[]QuietListComplete` | `Quiet`, below |

*Control plane first.* `ControlPlaneFirst` alone is not inductive: nothing in it
says that the worker play starts from an upgraded control plane.
`RolloutOrder` adds, for the first play, that every control plane host that is
no longer in `remaining` or in the batch is new, and for the batch how far the
task has come (`ControlPlanePlay`); that the later plays find all API servers
new (`LaterPlays`); and that no batch is half open between plays
(`BetweenBatches`). The step that needs the most is a run with `--limit`: it is
where `DocumentedLimit` (docs/operations/upgrades.md) is used.

*Capacity.* `CapacityByTask` says, task by task, which nodes can be out of
service on the playbook's account: nobody before the block, the hosts with
`needs_cordoning` from the block on, and at the uncordon only those that have not
run it yet.

*The end of a run.* `RunUpgradesAll` is a liveness property; what of it does not
need fairness is proved. `EndedMeansUpgraded` is the safety half: a run that has
come to the end of its last play has upgraded every host of its limit.
`UpgradedByPlay` keeps account of the hosts a play is through with and of what
the earlier plays of the run had to do, `UpgradedByTask` of how far the batch
is; that no failed host is lost between them is `any_errors_fatal` (`Abort`).
`RunAdvances` is the descent: with every step of the playbook there are fewer plays
to come, or fewer hosts of the play, or fewer tasks of the batch, or fewer
attempts at the current task, the earlier of these deciding, and no step of the
cluster or the administrator adds to them. It needs that the attempts stay
within the retries (`TriesBounded`). `RunsAreFinite` puts the four into finite sets
under the lexicographic product of their strict inclusions, which is
well-founded, so a run has no endless sequence of steps. What is left to TLC is
that there is a next step while a run has not ended (ENABLED) and that Ansible
takes it (the fairness), which `RunUpgradesAll` checks.

*Cordons and drains.* `needs_cordoning` is read once and used twice, so both
invariants speak of `Decided`, the hosts of the batch whose fact is of this
batch, and of `Taken`, those of them the playbook takes out of service.
`CordonsApart` says that no node it took is held by the administrator, from the
read to the uncordon; that needs a playbook that looks (`LooksBeforeCordon`:
`upgrade_node_always_cordon` off, no failing reads) and an administrator who
stays out of the batch. `ServiceByTask` says task by task that a node it took is
cordoned, and from the drain on empty or failed, and that a node it did not take
is one of the exceptions of `DisruptOnlyDrained`; that needs that nodes are
drained and that a failed drain fails the host (`DrainsOrFails`, with the same
administrator). Both stand on `CapacityByTask` and `RolloutOrder`. With
`upgrade_node_always_cordon` every node is taken, and no exception is left.

*The rescue.* `RescueSucceeds` is the default of
`upgrade_node_uncordon_after_drain_failure`, and that only drains and reads fail.
It is as weak as the code allows: a failed uncordon, a cordon that fails after
another host's succeeded and whose rescue then fails, a node upgrade that fails
(`upgrade_cluster.yml` has no rescue around it) and an interruption each end a run
with nodes out of service. `GivenBack` follows the nodes of the batch through the
rescue section, and says that a task with a failed host is one whose failure
passes it. Retries, batch sizes, the fallback and the administrator are arbitrary.

*The fallback.* `FallbackBeforeRescue` and `FallbackNeverRuns` settle the first
[disagreement](#disagreements-found) for every setting: with `drain_retries: 0`
a failed drain does not fail its host when the fallback is enabled
(`DrainNotFailed`), so the rescue comes after it only; with any other value a
host whose drain left `result.rc` non-zero has failed (`UndrainedByTask`), so the
batch never comes to the fallback with a host that has to run it.
`UndrainedByPlay` is needed because the register outlives its batch: no later
batch of the run meets a host of `undrained` again before its own drain.

*No split brain.* The hosts of the old cluster never lose their data
(`OldKept`), and any file that says `new` lists the whole group, so a fresh
cluster needs a majority of the group, of which `NewHostsMinority` (at most half
of the hosts are new) leaves it too few. The hypothesis is needed: a group that
more than doubles at once can split, when the health check fails. The
role does not check it.

*One at a time.* `WaitingByTask` follows the members that are listed and have not
started: none before a member is added, the joining host alone from there to its
start, and at the end of the first run whoever was left, which is at most one.

*Success means joined.* `JoinedByTask` follows a run: from the wait for a healthy
cluster on the one possible cluster serves, but for the moment after a member
was added; every host is a member or still in the loop; and the last refresh
rewrites every file with the group. `NewHostsMinority` is needed as for
`NoSplitBrain`, `MembersStay` because `DoneMeansJoined` says that the cluster
serves *now*, which a member that stops by itself can undo. Failing checks and
interruptions of earlier runs are allowed. `ScalingOfEtcdProceeds` is the other
side of the second [disagreement](#disagreements-found): in the etcd variant a
start over a healthy cluster never fails its host (`StartsIgnored`).

*Availability.* In the host variant, with no failed start, from the last refresh
of the files to the restart, a host that does not serve is in flight (`OnlyInflightDown`), and at most N div 2 are (`Throttled`);
for odd N the rest is a majority. For even N the formula of the throttle gives
half of the group, which is not a majority; the theorem says so in its
hypothesis (the inventory validation of Kubespray asks for an odd group).

*Clean stores.* `CleanByTask` follows the store through the role: every host
whose binary is still old is known as older, then limited, then stopped, then
started and thereby clean, before any host installs the new binary. `Install`
is the only step that could break it, and there all of these hold.

*Backups kept.* From the snapshot on, the directory and the snapshot of this run,
the latest there is, exist on every notified host (`ArchivedByTask`), and the
hosts that pass the wait for etcd serve. The cleanup keeps the latest
`etcd_backup_retention_count`, so with any count but zero this run's stays; zero
removes all of them, which is why the theorem excludes it.

*Complete runs.* A member that runs the new version got it from the installed
binary, so it runs nothing else again (`InstalledByTask`). `RestartedByTask`
says that a host whose restart has returned runs it when it is up, and
`OthersCurrent` that a host which is not notified runs it already: in docker
because the container was asked, in a first run because nothing was installed
before it. A later run of the host variant asks the binary instead, and there the
promise fails ([below](#disagreements-found)).

*Kube module.* The properties speak of the end of a call, so the invariant says
the same of its middle, host by host: every object the command has finished with
is in the history (`Removed`, `Written`), a call that looks for nothing has seen
all its objects missing, or a lookup has failed (`Removed`), a missing object is
an error only for the calls that are strict (`Steps`), and each attempt that
failed counted a failing command (`Counted`). Since the history only grows in an
attempt, other hosts and clients cannot break it.

*Checksums.* All five properties compare the file with what the run read from it.
`Untouched` says that a complete version in the file read is complete with the
same sums in `data`, `Fresh` that the maintainer's edits since then only turned
empty entries to 0, and `AddsLater` and `Thorough` what is in `data` or still in
`todo`: of a version with a 0 each architecture has its sum under the text, or is
still to be asked. Nothing removes the 0 of a number key, so `WrittenMeansFilled`
is as strong as the code allows. The maximum of a line exists because every non-empty set of versions has
a latest one, which is the assumption on `Versions`.

*Cleanup.* `DoneMeansClean` says that the last step of a run leaves nothing old;
`Remaining` says it loop by loop: when a run has come to a loop, the kinds of the
loops before it are clean, or in deletion, and in the loop itself what is old and
there is still in `todo`. `LoopOrder` is the order of the loops. It holds with
repairs because a handler only goes back to kinds that are cleaned again.

*Two runs.* `TwoRunsClean` needs to know what a first run that ends on a conflict
has nevertheless done. `RunByRun` says it: after a run without a failing call the
old floating IPs or the old ports are gone (`RepairDone`), so that nothing keeps
the interfaces when the next run takes the subnets off their routers; and after
two runs the project is clean, or something young stands on something old and
stays there (`Blocked`). `Closed` says that what a port
uses is there, which is OpenStack's own rule (`UsesAssumption`).
`YoungOnTheirOwn`, no young resource belongs to an old server, is needed: without
it TLC finds a young port, plugged into an old server and standing on an old
subnet, that blocks both runs and then goes with the server, after which the
project is neither clean nor stuck. The instance satisfies it.

*Inventory.* An address comes to a host from its own instance or from `ips` at its
port, and both are in `own`, the history of what the files gave: `OwnKnown` for
the files as they are, `TypeOK` for `ips`, wherever terraform comes in between.
`QuietListComplete` is about a reading nothing disturbed: `Quiet` says, pass by
pass, that `ips` has exactly the ports of the files read and an address a file
gives for each (`AddressesRead`), that the tables are those of the files read
(`TablesRead`), and that a host `--host` has found is one of a file, at its
address (`FoundRead`). That there is a last association of a port
is the well-foundedness of inclusion (`LastPlace`), since the library's
induction theorems cannot be used here.

**Assumptions on the constants.** Finite, non-empty groups and ranges of the
settings; the data model of OpenStack (`UsesAssumption`: what uses what, and that
what is there has what it uses); bounds on runs, edits, applies and failing
commands are arbitrary numbers. The hypotheses of single theorems are named above with
the reason. For a property of a passing check its instance satisfies them;
`FallbackBeforeRescue` and `ScalingOfEtcdProceeds` are about the settings in which
the violated properties hold.

**Only model-checked.** All liveness (`EventuallyGivenBack`, `RunUpgradesAll`,
`EventuallyJoined`, `EventuallyServing`): the prover does
not do fairness and ENABLED. Every safety invariant and action property that a
passing check states has a theorem.

## Disagreements found

With a check that shows them:

1. **The fallback drain is never reached** (`RollingUpgrade_fallback`).
   `K/roles/upgrade/pre-upgrade/tasks/main.yml:64-68` excuses a failed drain in
   `failed_when` when `drain_fallback_enabled` is set, so that the fallback can
   follow; but the task has `until` and `retries`, and a retry loop that runs
   out of attempts fails the task whatever `failed_when` says. With the default
   of three retries a failed drain goes to the rescue. (With
   `drain_retries: 0` the fallback is reached; `RollingUpgrade_faults` covers
   it. `FallbackNeverRuns` and `FallbackBeforeRescue` prove both halves. The drain in `K/roles/remove_node/pre_remove` repeats its excuse in
   `until` and does not have the problem.)
2. **etcd-events cannot grow** (`EtcdJoin_events`). The failed start of a new
   host is ignored when the cluster is *not* healthy
   (`K/roles/etcd/tasks/configure.yml:96`), the opposite of the etcd variant
   (line 85) and of the comment at line 90; for that variant
   `ScalingOfEtcdProceeds` proves that growth goes on.
3. **A lost notification is never made up for** (`EtcdRestart_rerun`).
   `K/roles/etcd/tasks/install_host.yml` notifies the restart by comparing with
   the binary that it then replaces, and the env file, which names the version
   and the cluster state (`etcd.env.j2:1,5`), notifies when it changes, in the same
   run. If that run ends after the files are refreshed and before the handlers,
   the next one finds binary and file as they should be and succeeds with every
   member on the old version. `CompleteRuns` proves the promise for first runs and for docker.

Met while modelling; the models behave as the code does, and no check is spent
on them:

* *Order of the components.* `K/docs/operations/upgrades.md:350-359` lists the
  network plugin before the API server; `upgrade_cluster.yml` (44-76) has its
  play after the control plane's.
* *The throttle does not protect the docker variant.*
  `K/roles/etcd/handlers/main.yml:12-14` says the cluster keeps its quorum; the
  docker unit is not `Type=notify`, its start returns before the member serves,
  so a second member of three is stopped too early. `HostStaysAvailable` is
  therefore stated for the host variant.
* *kube.py, `force`.* Documented as off by default (lines 53-58), but `create`
  and `replace` always pass it (172, 194): every apply may delete an object and
  create it again (`Replace`).
* *kube.py, `absent` by files.* A single missing file, or a lookup that fails,
  reads as "does not exist": the call succeeds and deletes nothing.
* *kube.py, `stopped`* always fails when there is something to stop, kubectl
  has no such command any more (the comment at line 277 knows). *`changed`* is
  always false (line 332).
* *Checksums.* The help text (`download.py:282-297`) has the maintainer enter a
  version unquoted with the value 0 and run the script. For a version that YAML
  reads as a number (two parts or a date: `1.18: 0`, `20260301.0: 0`) the sum goes
  to a second entry under the text (253-255) and the 0 stays for good; every later
  run finds it and fetches the sums of that version anew. An unquoted `1.30` is
  even taken for 1.3. The file is truncated before it is written, and what the
  maintainer adds to it during a run is lost.
* *OpenStack cleanup.* A young port on an old subnet, or an old router interface
  on a young subnet, ends the script in every run, and later kinds are never
  cleaned. Floating IPs are deleted only when a port is in conflict. The first
  run may end on an interface that a floating IP keeps; the second comes through
  (`TwoRunsClean`).
* *Terraform inventory.* `contrib/terraform/openstack/README.md:554-563` sets
  `prefer_ipv6 = true`, the code compares with `"1"` (line 306). The comment at
  line 453 calls the pass over the floating IPs the second; it runs first. With
  a floating IP below the root, an Equinix Metal device ends the script: it has
  no `port_id` (line 360).

## Abstractions and limits

* `RollingUpgrade`: the roles between pre-upgrade and post-upgrade are one step
  per node; `upgrade_node_confirm` and the pauses are not modelled; `serial` is
  a percentage (not a number or a list); `any_errors_fatal: false` and
  unreachable hosts (`ignore_unreachable`) are not modelled; the plays before
  the control plane play (download, container engine of the etcd hosts, etcd)
  and after the workers' play (add-ons, resolv.conf) are not modelled. Truncation
  of the percentage is integer arithmetic.
* `EtcdJoin`: certificates and binaries are in place; the etcd-events cluster is
  modelled on its own, not beside the main one; leadership, log and data of
  etcd are not modelled, a cluster serves when a majority of its listed members
  has started.
* `EtcdRestart`: the v2 backup and the v3 snapshot are one step that may fail;
  the events variants of the handlers (without backup) and the assertion on
  versions below 3.5.26 are not modelled; a member that starts always catches
  up if a majority of processes is there; with a start that fails the throttle
  promises nothing, and neither does the property.
* A retention of 0, allowed by the code, removes the snapshot of the same run;
  `LastBackupKept` is checked for 1.
* `KubeModule`: kubectl goes through its objects in any order; whether it
  compares or changes an object is not told apart, `changed` is always false;
  `exists` as a state answers nothing that a task uses; a resource whose type
  kubectl does not know is a failing command.
* `HashUpdate`: the formats of the checksum files are abstracted to the entries
  an answer fills; the log of skipped versions and the commit messages are left
  out; versions are numbers in the order of `packaging.version`. A sum (not a 0)
  under a number key, and a number that reads as another version than the one
  meant (`1.30` as 1.3), are not modelled.
* `OpenStackCleanup`: a listing is taken when its loop begins (the library reads
  it page by page); key pairs are listed with their details in one step; ages do
  not change during a run.
* `TerraformInventory`: the variables of a host other than its addresses and
  groups, and `--hostfile` (406-414), which prints the hosts of the same pass.
* The numbers of retries and delays are abstracted to "runs out or not", except
  in the drain, where the retry loop is the subject.

## Plan

In order; each with its instances, the abstract specification worth stating and
the theorem worth proving. To keep the checks few, `EtcdJoin_faults` and
`EtcdJoin_scale` will become one as the new modules arrive.

1. `EtcdRecover`: health, `has_quorum`, removal of broken members or restoration
   of a snapshot; 3 and 5 members, any set of them broken. Safety: a snapshot
   replaces the data only when no majority is left. Abstract: a
   cluster whose acknowledged data is lost only with its majority. Theorem: the
   `>=` of `has_quorum` is sound for odd groups whose members all answer.
2. `RemoveNode`: drain, member removal and reset of several nodes side by side;
   5 members, up to 3 removed at once. Theorem: a removed member is never
   reset before it is out of the member list.
3. `EtcdCerts`: certificates, the facts of `check_certs.yml` and the missing
   restart; composed with the notifications of `EtcdRestart`.
4. `ControlPlane`: kubeadm init, retry, upload of certificates, join with
   throttle 1, upgrade; runs that are interrupted. Abstract: one cluster that
   only grows.
5. `Provisioning`: GCP resources against the inventory file; create, create
   more, destroy, repeated.
6. `Download`: the delegate that downloads once, its cache, and the copies.
7. Proofs: the theorems of the modules above; for `RollingUpgrade`, that a node
   which is out of service has its uncordon or the rescue still to come, the
   safety half of `EventuallyGivenBack`; for `EtcdJoin`, what a rerun finds
   after an interruption, the safety half of `EventuallyJoined`; for
   `EtcdRestart`, the descent of a run as in `RunsAreFinite`.
