# Verification of rdo-infra/ci-config

ci-config holds the programs that run the RDO CI infrastructure. The one with a
state worth a proof is the **promoter** (`src/ci-scripts/dlrnapi_promoter`): it
decides which build of RDO Trunk becomes `current-tripleo` (and the like) and
moves containers, images and the DLRN label to it. Around it stand smaller
programs that keep state in other systems: files, quay.io, OpenStack, Zuul, a
test bed. This directory models both in TLA+, checks the models with TLC and
proves the most important results with TLAPS.

In the text, P stands for `src/ci-scripts/dlrnapi_promoter`.

## 1. Inventory

| Component | State it keeps | Operations | Talks to |
|---|---|---|---|
| Label promotion (`P/logic.py`, `P/dlrn_client.py`) | `required_jobs` (the criteria set of the loaded configuration), the table of examined hashes; at DLRN: histories of labels, votes | `select_candidates`, `promote_label_to_label` | DLRN API |
| Promoter runs (`P/logic.py`, `P/dlrnapi_promoter.py`, `P/common.py`, the service script) | the lock (a Unix socket), `named_hashes_map` | `promote-all`, `force-promote`, `check_named_hashes_unchanged` | all clients |
| Registries client (`P/registries_client.py`) and the container push role (`src/ci-scripts/container-push/roles/containers-promote`) | tags in registries | start the playbook: pull, tag, push, manifests | registries |
| Qcow and dockerfile clients (`P/qcow_client.py`, `P/dockerfile_client.py`) | two symbolic links per label | `promote`, `validate_qcows`, `rollback` (never called) | image server (sftp or local) |
| DLRN client (`P/dlrn_client.py`, `P/dlrn_hash.py`) | `named_hashes_map`; during a batch, `promotion_parameters_list` | fetch and promote hashes, aggregate promotion as a batch, `vote` | DLRN API, trunk server |
| Repository client (`P/repo_client.py`) | the name of its release and the prefix of containers, for a whole run | versions.csv, lists of containers, exclude list | trunk server, GitHub |
| Configuration (`P/config.py`) | layers of settings | look-up through CLI, environment, files and defaults | files |
| Staging (`P/stage*.py`) and integration checks | the stage info file, a DLRN server, directories, registries of a test bed | set-up, teardown, assertions | local system |
| Artifact promoter (`src/ci-scripts/infra-setup/roles/artifact_promoter`) | files and one link per label on a file server | `promote`, `rollback` | sftp |
| Tenant cleanup (`src/ci-scripts/infra-cleanup/tenant_cleanup`) | OpenStack resources | delete stale stacks, servers, ports, networks in order | OpenStack |
| Node holder (`src/ci-scripts/node_holder`) | autohold requests | add and remove holds | Zuul, Gerrit |
| copy-quay, copy-containers (`src/ci-scripts/infra-setup/roles/copy_container`) | repositories and tags | copy, tag, every two hours | quay.io, DLRN |
| DLRN trigger (`src/ci-scripts/dlrnapi_trigger`) | none | decide from the votes whether a job is launched | DLRN API |
| Vote dashboard (`ruck_rover.py` of the role rrcockpit) | none | jobs of a hash: passed, failed, pending, still to promote | DLRN API |
| Build diff (`diff_builds.py` of the role rrcockpit) | none | packages that differ between two builds | logs of the builds |
| Dashboards, bots, inventories, Zuul jobs, Ansible roles | configuration | - | - |

**How they interact.** The component pipeline gives builds a candidate label
(`tripleo-ci-testing`), CI jobs vote on them. A service
(`dlrn-promoter-service.sh.j2`) starts the promoter of each release in an
endless loop, under timeout(1) and a lock. A run fetches the current hash of
every target label, then for each target selects the candidates younger than
whatever the target has ever held, goes through them from the newest to the
oldest, compares votes with criteria (a job may be replaced by an alternative
job) and promotes the first one that misses nothing. Promoting means to call
registries, qcow and DLRN clients in that order; before each, the run checks
that no target label has moved by another hand. An operator can call
`force-promote` (same lock), anybody with an account can promote with dlrnapi
(no lock), and the containers by hand with `manual_push.sh` (no lock either).

**What is hard.**
- Votes, builds and outside promotions arrive between any two calls of a run.
- A run can fail or be killed between any two calls, and nothing is rolled
  back: the next run, which remembers nothing, must repair what it finds.
- The only safeguard of consumers is the order of the clients.
- Criteria are a mutable set that outlives the candidate it was changed for.
- Timestamps take part in the comparison of hashes, and a candidate's timestamp
  is that of its candidate label, not that of the promotion.
- The history the server returns is bounded, and old-format hashes are dropped
  after the bound was applied.
- The smaller programs list something first and act on the list call by call,
  while jobs, colleagues, cron and the other system go on; most of them log a
  failed call and continue, and none remembers what an earlier run left behind.
- Several programs read the same votes and must agree on what they mean.

**What makes each component correct** is stated as properties in sections 3
to 5; the hazards behind them, each at its line, are in `PROJECT.json`.

## 2. Modules

| Module | Models |
|---|---|
| `DlrnPromotions` | histories of labels; what fetching and selecting return |
| `JobCriteria` | criteria and alternatives of a target label; what examining a candidate leaves of them |
| `LabelPromotion` | one label pair, over many runs, with the loop over candidates and the criteria in full detail |
| `Promoter` | whole runs over chained labels: lock, interference check, clients, failures, kills |
| `ImageClient` | abstract: what a promotion may do to the link of a label |
| `ImageLinks` | the qcow/dockerfile client call by call; implements `ImageClient` |
| `ContainerClient` | abstract: what a promotion may do to the containers of a label |
| `ContainerPush` | the registries client and its playbook task by task; implements `ContainerClient` |
| `ArtifactPromoter` | files and label over SFTP, call by call, with the rollback |
| `TenantCleanup` | the lists and deletions of a cleanup against Heat and the jobs |
| `NodeHolder` | several engineers' additions and deletions of autohold requests |
| `CopyQuay` | copy and overlapping tag runs against builds and promotions |
| `Staging` | set-up and teardown of the test bed, cut off anywhere |
| `AggregatePromotion` | the promotion of an aggregate: downloads, batches, previous label |
| `VoteReaders` | promoter, dashboard and trigger reading the votes of one hash |
| `Settings` | layers of settings, the release file read twice, validation, `api_url` |
| `ContainerList` | the containers of each promotion of a run |
| `BuildDiff` | the comparison of two builds node by node |
| `MCTools` | one behaviour of one of these ten, chosen at the start |
| `MC...` | constants of the instances for TLC |
| `DlrnPromotionsProofs`, `LabelPromotionProofs`, `PromoterProofs`, `ImageLinksProofs`, `ContainerPushProofs` | theorems and proofs of the module in the name |
| `OperationsProofs` | those of `ArtifactPromoter`, `TenantCleanup`, `NodeHolder`, `CopyQuay`, `Staging`, `AggregatePromotion` |
| `ToolsProofs` | those of `VoteReaders`, `Settings`, `ContainerList`, `BuildDiff`, and the types of all ten |
| `InductionFacts` | least elements, induction over the passes of a loop, functions defined by recursion |

`LabelPromotion` and `Promoter` extend `DlrnPromotions` and `JobCriteria`. They are two
views of one program: `LabelPromotion` reduces `promote` to its outcome, `Promoter`
reduces the loop over the candidates to one step (`Select`). The image and the
registries client are two steps each in `Promoter`; what those steps may do is
what the abstract `ImageClient` and `ContainerClient` allow, and `ImageLinks` and
`ContainerPush`, which have every call, are shown to implement these (`INSTANCE ...
WITH` a mapping from program points to phases, and from the tags of all
registries to one value: a hash, nothing, or a mixture).

The ten programs from `ArtifactPromoter` on share no state with each other, nor
with the main loop except through the abstractions named in their sections, so
they are composed by choice and not by interleaving: in `MCTools` the variable
`tool` picks one, and the others stay in one initial state (`Only`). The theorems
about them are about each program's own specification (`NodeHolderSpec` and the
like) and need nothing of this composition; `ToolsType` and `ToolsAreSafe` are about
the specification that TLC explores.

Definitions called "Mutant of X" are plausible wrong versions of X, no part of
any specification; replacing X by one of them must make a property fail.

### 2.1 DlrnPromotions and JobCriteria

A history is a set of promotions `[hash, ts, user]`; the order of the server's
list is the order of `ts`. `Newest` is the server's answer under a limit,
`FetchPromotions` drops old-format hashes afterwards, as `hashes_to_hashes`
does. `SelectCandidates` is the cut of the candidates' list at the first hash
that the target has ever held.

`JobCriteria` has the inner loop of `promote_label_to_label`: `SwitchOut` is the set
`required_jobs` after one candidate was examined, `MeetsCriteria` what the committed
criteria and their alternatives promise of a hash.

### 2.2 LabelPromotion

| Code | Model |
|---|---|
| DLRN server | `candidates`, `target`, `clock`, `votes` |
| `select_candidates`, first call | `FetchCandidates` -> `fetched` |
| ... second call and the slice | `Select` -> `todo` |
| one turn of the loop over candidates | `Examine`: fetches votes, switches alternatives out **in the set of the configuration** (`required`), adds a row to `report` |
| `promote` | `PromoteSucceeds`, `PromoteFails` |
| timeout(1) | `Kill` |
| builds, votes, `force-promote` | `NewCandidate`, `Vote`, `ForcePromote` |

`dry_run`, which examines every candidate and promotes none, is left out.
`CriteriaAssumption` says that no alternative has alternatives itself, as in all
configurations under `P/config_environments`; the loop of the code iterates
over a copy, so the order of jobs does not matter then.

### 2.3 Promoter

| Code | Model |
|---|---|
| DLRN server | `labels`, `previous` (the "previous-" labels), `clock`, `votes` |
| registries, image server | `containers`, `images` |
| `promote_all`, lock taken | `StartPromoteAll` -> `stored` (`named_hashes_map`) |
| `force_promote` | `StartForcePromote`, with any non-empty set of clients |
| `select_candidates` | `Selected` |
| `required_jobs` in the loop over the candidates | `RequiredJobs`: for each candidate, what the examination of the newer ones has left |
| `promote_label_to_label` | `Eligible`, `Select`, `NextTarget` |
| `check_named_hashes_unchanged` | `CheckUnchanged`; HashChangedError ends the run |
| order of the clients | `Order`, `IsNext`, `ClientDone` |
| `RegistriesClient.promote` | `PushContainers` (some containers), `FinishContainers` |
| `QcowClient.promote` | `UnlinkImages`, `LinkImages`, each with the failure that is not raised |
| `DlrnClient.promote` | `FetchIncumbent`, `SavePrevious`, `PostPromotion` |
| PromotionError of a client | `ClientFails` |
| other exception, timeout | `Crash` |
| dlrnapi by hand | `OutsidePromotion` |

The loop over the candidates is one step, `Select`. `RequiredJobs` goes from the newest
candidate to the oldest and hands the criteria set on, with what was switched out for
the newer ones, as the code does; `Eligible` are those that miss nothing of what they
find. One step loses nothing: the votes of a candidate are read once, votes for
different hashes do not depend on each other, and one that comes after its hash was
examined, or a build that comes after the list was fetched, can be placed after the
whole loop. The criteria start afresh in each run and for each target, since a process
loads its configuration and visits each target once. `Vote` needs a hash that a label
gives to the jobs.

The fetch of the current hashes of all targets is one step. This loses nothing:
if a promotion from outside fell between two fetches, the step can be placed
before the first fetch or after the last one of the labels concerned. The
aggregate promotion is one call to the server. Hashes are compared with their
timestamp, as `DlrnHash.__eq__` does; a candidate of `force-promote` has none.

### 2.4 ImageLinks and ImageClient

One action per call to the file server: `Stat`, `ReadTarget`, `RemoveTarget`,
`ReadPrevious`, `RemovePrevious`, `LinkPrevious`, `LinkTarget`. A failing read
passes for "no link", a failing last link is swallowed, the other failures are
raised (`Abort`, which also stands for a kill). `MoveLabel` is the DLRN client
that follows. The variables `failed`, `clean` and `before` are history variables
the properties need. `ImageClient` tells only what followers of a link see.

### 2.5 ContainerPush and ContainerClient

| Code | Model |
|---|---|
| images under `full_hash`, images under `named_label` | `images`, `named`, per registry |
| build jobs | `Build`, one container at a time |
| `prepare_extra_vars`, start of the playbook | `Start` |
| `generate_list.sh`, "Fail if there are missing containers" | `Inspect`, without the base images |
| pull; tag and push at the source | `Pull`, `LabelSource` |
| "Tag and push images to registry" | `PushTarget` |
| "Check if images were pushed" | `CheckTarget`, which looks at the **last** target registry |
| the `always` part, and the return code | `CleanUp` |

A task is one step. An Ansible loop goes on after an item that fails, so a failing
task may have done any subset of its items; that also covers a kill in the middle.
Local images are left out: a run that gets past the tagging task has pulled and
tagged all of them itself. `manifest_push` (off by default) and the switches that
skip target registries are left out. `failed` and `missing` are history variables.

### 2.6 ArtifactPromoter

One action per SFTP call of `promote_file_artifact`: `Stat`, `Create`, `Write`,
`Readlink`, `Unlink`, `Symlink`; `CallRefused`, `ReadlinkRefused` and
`SymlinkRefused` are the `except EnvironmentError` branches, `RollbackFiles` and
`RollbackLink` are `rollback()`, `PromoteDies` is a kill or a lost connection, which
no handler takes. `StartPromote` covers both types, compose and file: they differ
in where the name comes from, before anything is changed. `interrupted` is a
history variable.

### 2.7 TenantCleanup

| Code | Model |
|---|---|
| stacks in Heat, and their resources | `stack`, `expired`, `resource` (kinds left) |
| `main()`, list by list | `ListStacks`, `CheckStack`, `DeleteStack`, `Deleted`, with `round` |
| `delete_individual_resources` | `Sweep`, one kind for one stack per step, in `SweepOrder`; the loop over stacks is unordered |
| an exception of the API | `SweepRaises` (some of the resources found), `CleanupRaises` |
| `--stack` | `StartCleanup` with `chosen` |
| jobs and Heat | `Cloud` |

`NameHas` says whose resource names contain an identifier: that of the stack, and
whatever the naming scheme adds (1 and 11). Ports are found by subnet and go with
it. A dry run changes nothing and is left out.

### 2.8 NodeHolder, CopyQuay

`NodeHolder`: `ListForPatch` and `ListForId` are the list and the match,
`RemoveHold` one `autohold_delete`, `RemoveRaises` the answer that ends the run;
`JobToHold` is the choice of the job from the layout. `asked` and `listedUpTo` are
history variables. An engineer runs one command at a time.

`CopyQuay`: a hash is the number of its build. `buildLog` is the images that the log of
the latest good build names; each build may have others. `StartCopy` reads that log,
`CopyImage` and `CopyFails` are one image; `StartTag` reads the promoted hash, with the
empty string as `NoHash`, and takes the images from the log of the **latest** build
(`tag.go:61`), which need not be the promoted one; `ImageManifest` is what quay.io lists for it;
`TagImage` and `TagFails` are one image. Copying has one run at a time, as two runs
of it only add tags; tag runs overlap. `unknownHash` is a history variable.

### 2.9 Staging

A command is a sequence of steps (`SetupSteps`, `TeardownSteps`); each step is an
action on the server (`dlrnServer`), the staged commits, the directories and
registries that stand, and the info file. A scene that is not configured is a
step that changes nothing. `CommandCutOff` is a kill; the exceptions of Docker, of
`check_port`, of the DLRN server and of `rmtree` are disjuncts of their steps.
`dlrnServer = "killed"` is a server that still listens after pkill. `tornDown`,
`cutOff` and `respawned` are history variables.

### 2.10 AggregatePromotion

`Promoter` has the promotion of an aggregate as one call; this module opens it up.
An aggregate hash is a digest of what it holds, and is modelled by the build of
each component. `DownloadRepo` is delorean.repo, `GetHashFromComponent` one
commit.yaml, `PostBatch` the batch; the previous label comes first, with the
incumbent. `PromoteComponent` moves the candidate label meanwhile. A batch changes
the components it names only (`Promoted`); that DLRN takes it as a whole is an
assumption, the client sends it in one call.

### 2.11 VoteReaders

`ciVotes` is the sequence of votes in the order they came; `ApiResponse` is the
server's list, oldest or newest first, as nothing in the repository fixes it.
`FetchJobs`, `CheckTriggerCondition` and `GetDlrnResults` are the three readers. The
trigger keeps nothing between two calls, so `TriggerJob` may be taken whenever the votes
allow it; `launched` counts the launched jobs that have not reported yet, in the
environment. `ToPromote` is the last column of the dashboard. `FirstRecord` is where a job first
occurs in the answer; `Keep` is one turn of the loop of `get_dlrn_results`, which is
a recursive function of the turns.

### 2.12 Settings, ContainerList, BuildDiff

`Settings`: a layer is a function from names to values, `SearchLayers` looks into
the first that has the setting (`FirstLayer`). `GetLogFile` and `LoadRelease` read
the release file at two times, `Deploy` may replace it in between. Templates in values are left out,
and so are the constructors that only put settings together as `api_url` does.

`ContainerList`: the calls of `prepare_extra_vars`, twice in a run, on one client
whose `release` and `containerPrefix` the first leaves changed for the second.

`BuildDiff`: `GetTheNodes` finds the kinds of nodes, `GetLogs` what a build logged
for one, `Packages` what is compared, `FindHighestVersion` any rpm that no other is
higher than, since the code goes through a Python set; rpmvercmp and toolchest
are external and modelled by the comparison of version and release.

## 3. Runs

| Run | Instance | Shows |
|---|---|---|
| `selection` | 2 hashes, 3 jobs (one is an alternative), 4 promotions by the environment, 1 failure; 0.7M states | `PromotedMeetsCriteria`, `NoRepromotion`, `NewestFirst`, `OnlyForward` |
| `selection_live` | 3 hashes, one in the old format, list of 2 candidates, 3 promotions, 1 failure | `QualifiedIsPromoted` |
| `selection_alternatives` | as `selection` | **violated**: `PassedOverMissesCriteria` |
| `promoter` | 2 chained labels, 2 hashes, 2 jobs (one is an alternative), 2 promotions by the environment (from outside or not), 1 force-promote, 2 failures; 3.1M states | `ContainersFirst`, `InterferenceDetected`, `PreviousIsFallback` |
| `promoter_live` | 2 chained labels, 3 hashes, list of 2 candidates, 3 jobs (one is an alternative), 3 promotions and 4 votes by the environment, none of them from outside, 1 failure; 0.6M states | `AllPromoted`, `Converges` |
| `promoter_spurious_abort` | 3 promotions, no failure | **violated**: `AbortedByInterference` |
| `promoter_promoted_again` | force-promote twice | **violated**: `NeverPromotedAgain` |
| `image_links` | 3 hashes, failures without bound; 20k states | `NoDanglingLink`, `LinkHeals`, `FallbackHeals`, `ImplementsImageClient` |
| `image_links_success` | 2 hashes | **violated**: `SuccessMeansLinked` |
| `container_push` | 2 hashes, 2 containers and a base image, 1 target registry, failures without bound; 0.24M states | `SuccessMeansPushed`, `PublishedIsBuilt`, `FailureFreeSucceeds`, `ImplementsContainerClient` |
| `container_push_registries` | 2 target registries | **violated**: `FailureFreeSucceeds` |
| `tools` | two composes and 3 faults; 2 stacks, one name within the other; 2 engineers, 2 patches, 2 holds; 1 image, in the logs of some builds, 2 builds, 2 tag runs, 2 failed requests; all choices of scenes, 2 commands cut off; 2 components with 2 builds, 1 fault; 4 jobs, 4 votes; 67 release files; 43 templates, 16 exclude lists; 3 containers, 4 rpms; 0.27M states | `LabelNeverDangles`, `PartialOnlyAfterInterruption`, `LabelReturns`; `LiveStackIsWhole`; `DeletionHitsOnlyWhatItListed`; `CurrentWasPromoted`, `TagsSettle`; `TeardownIsComplete`, `AnnouncedStageServes`, `TeardownFindsDirectories`; `LabelsHoldTestedAggregates`; `DashboardAgreesWithPromoter`; `StartsWithItsRelease`, `ApiUrlLeadsToServer`; `SameListForEachLabel`; `ReportTellsBuildsApart` |

**Bounds.** `MaxClock` bounds the promotions made by the environment, never those
made by the promoter: with 4, an operator can go a step forward and two back
between candidates, and a hash can become a candidate twice. `MaxFaults` bounds
failures and kills; two are needed for a run that fails after one that failed.
Two hashes are enough for everything that relates a hash to the one before it;
with three, `ImageLinks` has an old, a failed and a new one. Two target labels
are the chain of the configurations. `LatestHashesCount` is 2, so that a third
candidate pushes the oldest out of reach (`selection_live`, and `promoter_live`,
where the candidate of a run that failed can leave the list). `MaxReports` bounds the
votes, `MaxOutside` the promotions from outside: with four votes, one build can meet
the criteria and a newer one pass an alternative only, which is the case the exceptions
of `AllPromoted` and `Converges` are about. `PromotionsLimit`
is larger than any history of an instance; see section 6. In `tools`, two faults
allow a failure during the repair of an earlier one (three where the rollback can
fail as well); two tag runs and two builds are a run that overtakes another with
an older hash; images of `CopyQuay` do not influence each other, so one is enough.
Four votes let a job fail, pass and fail again beside the vote of another.
Deadlock is checked in every run but `tools`, where a cleanup, a start, a list, a
diff and the votes of a hash come to their end. Hashes are symmetric
in `promoter`, a safety run; the liveness runs use no symmetry.

**Fairness.** `StartPromoteAll` (or `FetchCandidates`) is weakly fair since the
service runs the promoter for ever, every ten minutes; a step of the promoter is
weakly fair (in `Promoter` in one condition with the start, as they are never enabled
together) since a process that runs takes its next step, and a call that hangs
is ended by timeout(1), a `Crash`. In `tools` the two liveness properties need the
artifact job and cron's copy and tag runs to go on (`ArtifactNext`, `CopyStep`,
`TagStep`): they are scheduled again and again, and their calls return or fail.
Builds and promotions need not come. Nothing is assumed of operators, builds, jobs
or dlrnapi. That failures stop is not fairness but the bound on them: a promoter
that fails for ever promotes nothing.

## 4. What is proved

For every set of hashes, labels and jobs, every criteria and every bound:

| Theorem | Statement |
|---|---|
| `LabelPromotionProofs!TypeCorrect` | types |
| `PromotedMeets` | a hash the promoter put on the target label passed each committed job or an alternative of it |
| `NewestExaminedFirst` | a candidate is promoted past newer ones only after each of them was examined and missed a job |
| `NeverPromotedBack`, `MovesForward` | as long as the server returns the whole history of the target: the label never gets back from the promoter what it has held, and what it gets is younger than all that |
| `PromoterProofs!RunTypeCorrect` | types |
| `ContainersBeforeLabel` | promote-all moves a label only to a hash whose containers all have the label |
| `InterferenceStopsTheRun` | no client is called once somebody else has promoted a target that the run knows, if no hash has the old format |
| `FallbackIsKept` | the previous label names the hash before the current one (or the current one after a run that was cut), if only the promoter moves the label and no hash has the old format |
| `ImageLinksProofs!LinksTypeCorrect`, `LinksNotDangling` | types; no link to a missing directory |
| `LinkIsRepaired`, `FallbackIsRepaired` | one promotion without failure repairs the link, two the previous link |
| `LinksImplementImageClient` | `ImageLinks` implements `ImageClient` |
| `ContainerPushProofs!PushTypeCorrect`, `SuccessIsComplete` | types; a success leaves all containers labelled at all registries |
| `OnlyBuiltIsPublished` | nothing of an incomplete build reaches a target registry |
| `OneTargetSucceeds` | with one target registry, a run without failing calls succeeds |
| `PushImplementsContainerClient` | `ContainerPush` implements `ContainerClient` |
| `OperationsProofs!ArtifactLabelLeads` | the label of an artifact leads to a file that is there |
| `LabelledIsComplete` | ... and to a whole one, unless a run was cut off or could not clean up |
| `LabelsNameVotedAggregates` | target and previous label hold aggregates that were tested as a whole |
| `LiveStacksKeepResources` | a cleanup hits live stacks only by a shared identifier or on demand |
| `DeletionKeepsToItsList` | a deletion of holds only aims at what was there, and matched, when it listed |
| `CurrentIsPromoted` | `current-tripleo` is on a copied image, of a promoted hash unless a run went on without one |
| `TeardownLeavesNothing` | a teardown that ends leaves nothing, however many commands were cut off before |
| `AnnouncedIsServed`, `TeardownMeetsDirectories` | what a stage info file announces is served, and its teardown can end, unless a command was cut off (or a killed server was met) |
| `ToolsProofs!DashboardShowsPromoterView` | dashboard and promoter agree on what is left to pass, where the property says so |
| `ReleaseIsLoaded` | a promoter that starts has the password and the valid promotions of its release, whatever is deployed meanwhile |
| `ApiUrlIsTheServers` | `api_url` leads to the scheme, host and port of the settings, whatever layers they are in |
| `LabelsGetOneList` | the promotions of a run push the same containers: those of the template that are not excluded |
| `ReportIsOfTheNewest` | the build diff reports a package exactly if the newest rpms differ, in whatever order they are compared |
| `ToolsType`, `ToolsAreSafe` | `MCTools` as a whole: the types, and all safety properties of the ten programs |

*LabelPromotion.* None of the properties is inductive. `IInv` adds: timestamps
are positive and at most the clock; while the loop runs there is a candidate
left; the set `required` **stands for** the committed criteria, that is,
whatever contains `required` meets them, which `SwitchOut` preserves (lemma
`SwitchOutStandsForCommitted`: the core of the argument, a switched-out job is
represented by an alternative for ever); votes only grow (`MeetsMonotonic`);
and every candidate of the run that is neither waiting nor current has been
examined and missed a job (`NoGap`), which needs that the selection is closed
upwards and that `Latest` is a maximum (`DlrnPromotionsProofs`).

`NeverPromotedBack` and `MovesForward` rest on a second invariant, `HistoryInv`,
under the assumption `WindowCovers` (the list of promotions of the target that
the server returns is the whole history): what is to be examined, or being
promoted, is younger than every fetched candidate the target has held
(`YoungerThanHeld`). The selection establishes it since fetched candidates never
have the old format, so the filter hides none of their promotions; nobody moves
the target during a run, which holds the lock. The assumption cannot go: with a
window of one, TLC finds a repromotion.

*Promoter.* `IInv` adds: histories have distinct timestamps not later than the
clock; the shape of a run at each `pc`; the containers of the target are those
of the candidate once the registries client has left the set of clients that
remain (`ContainersReady`: the reason `ContainersFirst` holds for promote-all
and not for a force-promote that leaves the registries out); and what a run has stored
was there when it started, or has the old timestamp of a candidate
(`StoredIsOld`). The last part is why the check cannot be fooled even by a
promotion back to the same hash. `FallbackInv` is a second invariant, for
`FallbackIsKept`: promotions of a label have distinct timestamps, so that the
list of one holds the latest (`Newest1IsLatest`); what is saved as previous is
the latest promotion until the label moves, unless somebody else promotes; and
only the label at work, between its two calls, or a label whose run was cut,
may have its current hash as the previous one.

*ImageLinks.* `IInv` adds what each program point knows about the two links in a
promotion without failure, and that the hash read from the link is the label's.
The refinement is a step simulation under the same invariant.

*ContainerPush.* `IInv` says which registries are complete at each task, that no
task has failed while the block runs, and that what is pushed is built.
`OneTargetSucceeds` adds that every failure has a failing call or a missing
container to blame; its assumption is what the second run violates.

*ArtifactPromoter.* `ArtifactIInv` adds which file exists at each call (`FileInv`), that a
run only undoes its own file, which the label is not on, and the link it removed,
which led to another file that is there (`RollbackInv`), and that an incomplete
file is the one at work or that of a run that was cut off (`PartialInv`).

*AggregatePromotion.* `AggregateIInv` adds that whatever the labels hold was voted for
(`VotedInv`), that component by component previous is at most target and target
at most the candidate, as builds only go forward (`OrderInv`), and that the batch
agrees with its aggregate when it is posted (`BatchInv`). Then posting it sets the
label to just that aggregate (lemma `PromotedIsBatch`), although a batch leaves
alone what it does not name.

*Operations.* The stacks on a list are beyond use for good, so that it does not
matter how old the list is (`CleanupListInv`). Ids of holds are never used twice,
and those found belong to what was asked (`HolderIdInv`, `HolderListInv`). A tag run
has a hash promoted when it started, or none (`QuayHashInv`). A teardown has taken
down what lies before its step (`StageLeftInv`) and, if no command was cut off,
still has what lies after it (`TreesInv`); a setup has made what lies before its
step (`ServesInv`).

*Loops.* What a loop of the code leaves is modelled as a recursive function over its
passes. The library's induction theorems take an operator as a parameter, which the
installed provers cannot instantiate, so `InductionFacts` states induction over
sets: that a set of naturals has a least element follows from the inclusion of
finite sets being well-founded (`LeastNatural`), induction over an interval from that
(`IntervalInduction`), and that a loop has a function at all from an induction over
its prefixes (`LoopIsFunction`). Everything the loops below compute is proved with
these three.

*VoteReaders.* `DashboardShowsPromoterView` needs what the loop
of the dashboard keeps: only votes (`KeptAreVotes`), of each job at most one
(`OneRecordOfEach`), and, oldest first, a success once there was one
(`SuccessIsKept`): by then each later vote has the later timestamp, and a later
failure never replaces it.

*Settings.* `SearchIsOverride` says that the search layer by layer finds what the
layers, as dictionaries that override one another, hold; `api_url` follows by cases of
the port. `SettingsIInv` adds to the types that a promoter that is ready has been
validated, with the layers it still has. `SettingsAssumption` says that neither
defaults file has promotions, as is the case in `P/config_environments`: without it a
promoter whose release file broke could start on the defaults' promotions.

*ContainerList.* What `list.remove` and the filters return is shown by induction
(`RemoveFirstOf`, `ExcludingOf`, `UnprefixedOf`). `ContainerListIInv` says what is true of
each list that is done, and of the one at work before its excludes are removed
(`ListDoneInv`, `ListStepInv`): it is a function (`Expected`) of template and exclude
list, unless the release has been renamed meanwhile; so two of them are the same.

*BuildDiff.* The highest rpm of a package exists since logs are finite
(`SomeRpmIsNewest`), and is one rpm since version and release order them
(`NewestIsOne`); the rpm that is kept is the newest one that was logged, whatever the
order of the set, unless only containers that do not count have it (`HighestIsNewest`).
For cpaas the same holds of versions alone.

*All ten.* `ToolsIInv` is the conjunction of the types and the inductive invariants of
the ten programs; a step of `MCTools` is a step of one of them, or leaves it alone
(`ToolsStepOfEach`). Types alone are not inductive: those of `TenantCleanup` need
`CleanupIInv`, those of `Staging` need `StageIInv`, that a command's next step exists,
those of `ContainerList` that a run has another promotion to go.

**Only model-checked**: the liveness properties `QualifiedIsPromoted`,
`AllPromoted`, `Converges`, `LabelReturns` and `TagsSettle`, which need fairness and
ENABLED and are out of TLAPS's reach. Every other property of a passing run is a
theorem. The named assumptions of the modules, on which the theorems rest besides what
they state themselves, are evaluated by TLC on each instance.

## 5. Findings

1. *Criteria leak between candidates* (`P/logic.py:257`, run
   `selection_alternatives`). Switching an alternative in changes the criteria of
   all later candidates: one that passed the committed job is passed over.
   Nothing unqualified is promoted (`PromotedMeets`), but qualified candidates
   are missed, which is why `selection_live` has no alternatives.
2. *A run takes its own promotion for interference* (`P/dlrn_client.py:579`, run
   `promoter_spurious_abort`). After promoting the first label of a chain, the
   next check raises HashChangedError. The next run goes on, so the labels of the
   chain still come to an end of what can be promoted, one per run (`AllPromoted`).
   The exceptions stay: what finding 1 passes over, what newer builds have pushed
   out of the list, and what is older than a hash the label has held.
3. *The current hash can be promoted again* (`P/dlrn_client.py:352`, run
   `promoter_promoted_again`). The guard compares timestamps that never agree.
4. *Images without a link are a success* (`P/qcow_client.py:274`, run
   `image_links_success`).
5. *The check of one registry looks at another* (`generate_list.sh.j2:7` of the
   container push role, run `container_push_registries`). With two target
   registries no new hash can be promoted.

## 6. Limits found while modelling

- `NoRepromotion` needs the server to return the whole history of the target.
  With a window of one promotion TLC finds a repromotion after an operator's
  step back. The server's limit is not in this repository.
- `Converges` excludes builds that get their candidate label twice: if containers
  of a hash were half pushed and the run was killed, and then the target's
  current hash becomes the newest candidate, the selection is empty and nothing
  repairs the containers until a new build qualifies.
- `Converges` has one more exception, `Stranded`: runs that attempted a candidate
  failed, and before the next run newer builds that do not qualify push the
  candidate out of the `latest_hashes_count` newest, or make it passed over
  (finding 1). Then no run comes back to it: some or all of its containers keep the
  label, and DLRN stays behind, until a newer build qualifies. Without the exception
  TLC finds this in `promoter_live`.
- `InterferenceDetected` is about the check. A promotion from outside between the
  check and the calls of the client that follows is seen by nobody; previous may
  then name another hash than the one replaced (`PreviousIsFallback` is about
  labels that only the promoter moves).
- An old-format hash as the newest promotion of a label hides the label from the
  check (the list of one is empty after the filter); hence the assumption of
  `InterferenceStopsTheRun`.
- After a partial failure of the push, the label may be on an image that the
  registry lacks under its hash, although the loops push hashes first: Ansible
  goes on after a failed item. A later success repairs it (`SuccessMeansPushed`).
- `FallbackHeals` allows a missing previous link: promote never makes one that
  is not there, so a run killed between removing and making it loses it until an
  operator makes it by hand.

In the smaller programs, met while modelling them; the properties say what holds
in spite of it:

- *Artifact promoter.* `rollback` removes the label before it links the old file
  again, so after a failed symlink there is no label to remove, the removal
  raises, and the label stays away until a later run (`LabelReturns`).
- *Tenant cleanup.* An identifier is looked for anywhere in a name: the resources
  of a live stack whose name contains that of a dead one go too; `LiveStackIsWhole`
  names this exception. Stacks stuck in DELETE_IN_PROGRESS count as success.
- *Node holder.* A change number is looked for in the same way.
- *copy-quay.* Without an answer from DLRN the promoted hash is empty and the run
  goes on; quay.io then lists all tags and an arbitrary image becomes
  `current-tripleo`, until the next run with a hash. A request that gets no
  response at all ends the program in the error message (`quayapi.go:98`). A hash
  promoted while it is not copied is not tagged. The images to tag are those of the
  latest good build: an image of the promoted build that the latest one lacks is not
  tagged, and keeps an older hash under `current-tripleo` (`TagsSettle` is about the
  images of the latest build).
- *Staging.* `check_port` with mode "closed" returns at once, so a setup may meet
  the server of the stage before. Registries started for the containers only are
  never stopped. After a teardown cut behind a scene's directory, every teardown
  raises until a new setup. `AnnouncedStageServes`, `TeardownIsComplete` and
  `TeardownFindsDirectories` name these cases.
- *Configuration.* A release file that breaks between the two times it is read
  is dropped silently; what saves the run is that the promotions, which only that
  file has, are validated. The port of an `http` URL with 443 is dropped.
- *Repository client.* Loading the exclude list renames the release, and a list
  that cannot be fetched excludes nothing.
- *DLRN trigger.* It tells from the votes whether the job was triggered ("if job is not
  already trigger", `dlrnapi_trigger.py:67`), and a launched job has no vote before it
  reports: asked again meanwhile, the script answers True again. `VoteReaders` has such
  second launches; no property excludes them.
- *Dashboard.* If the server lists the newest vote first, a later failure is shown
  over an earlier success: the dashboard calls a job failed that the promoter counts. Only the integration line knows alternatives.
- *Build diff.* The first container of a list is dropped, keys lose their last
  character, and the highest of several versions depends on the order of a set.

Limits of the models themselves:

- The ten programs of `MCTools` do not act on each other. Where one depends on
  another (copy-quay on the promoter's label), the other is an unrestrained
  environment.
- `CopyQuay` has one image in its run, which the log of a build names or not; images
  do not share state but for the promoted hash and the builds. Failed requests are bounded by `MaxQuayFaults`.
- That DLRN applies a batch as a whole, and never gives a hold's id twice, is
  taken from how the programs use these services.
- `ImageManifest` and the comparison of versions are modelled as far as the
  programs tell their results apart.

## 7. Not modelled

- *Manifests* of the container role (`manifest-push.yml`, off by default): a second push of the
  images under another tag, and documents over them.
- *Templates* in the settings, and the constructors of the configuration that put
  settings together in the way of `api_url`.
- *Promoter integration checks*: assertions of a CI job over a finished run; what
  they look at is stated by `SuccessMeansPushed` and `SuccessMeansLinked`.
- *Dashboards, bots, inventories, Zuul and molecule configuration, roles*: no state
  of their own. `zuulv3_job_builds.py` asks Zuul and prints.
- Logging, mail and report formats, command lines, the contents of repositories,
  and the DLRN server, registries, Heat, Zuul and quay.io themselves, which are
  modelled as the programs use them.
