# Formal model of the yamlwrangler app-dashboard operator

TLA+ modules, TLC runs and TLAPS proofs for the controllers under `src/controllers`. Every
definition is translated from the Go source; `PROJECT.json` maps each one to its lines.

## 1. The system

The operator is one process (`src/main.go`) that runs six controllers of controller-runtime. Each
controller has one worker, all of them run concurrently, and they never call each other: they
interact only through Kubernetes objects, and through the watch events their writes cause.

| Part | State it keeps | Operations | Talks to |
| --- | --- | --- | --- |
| NamespaceReconciler, NSR (`namespace_controller.go`, `live_state_import.go`) | none; writes `dashboard-config-<ns>` ConfigMaps and imported DashboardNamespaceConfigs | discover the apps of a labelled namespace, generate or merge its ConfigMap, import annotated deployments | watches Namespaces, Deployments, Routes |
| ConfigMapReconciler, CMR (`configmap_controller.go`, `live_state_import.go`) | none | import a namespace ConfigMap into a DashboardNamespaceConfig and DashboardLinks, annotate deployments; import a standalone custom-link ConfigMap into a DashboardLink | watches ConfigMaps |
| DashboardNamespaceConfigReconciler, DNCR | status of the operand | label the namespace, overlay the operand on the namespace ConfigMap | watches its operand |
| DashboardLinkReconciler, DLR | finalizer and status of the link | upsert or remove the link in the namespace ConfigMap, or mirror it into its standalone ConfigMap | watches its operand |
| DashboardAppGroupReconciler, AGC | status, 5 minute requeue | label the namespace, create its ConfigMap, select deployments and make them members | watches its operand |
| AppDashboardReconciler, ADC | status | install the console plugin: namespace, account, nginx config, service, deployment, ConsolePlugin, ConsoleLink, Console | watches its operand |
| Discovery by naming (`isDatabase`, `guessCategory`, `titleCase`, `findRouteForDeployment`) | none | guess an entry from the name of a deployment | called by NSR, DNCR, DLR |
| Console plugin (`AppDashboardPage.tsx`) | browser state | group the enabled deployments into cards | watches deployments, routes, custom-link ConfigMaps |

What makes the controllers hard to get right:

* reads come from informer caches that lag behind the server; writes race with users and with the
  other controllers; an Update from an outdated copy is refused, a Create may meet an existing
  object, a Delete is unconditional, a merge patch meets whatever is there;
* the same facts live in several objects (the ConfigMap, the imported operands, deployment
  annotations) and are copied in both directions, with no record of which side changed;
* finalization and installation take several calls, each of which may fail; the process may restart
  between any two;
* some errors are logged and not returned, so nothing retries them;
* deployments are not watched by the group controller: a timer makes up for it;
* what a user sees is made of three places (the ConfigMap, a label, annotations) that change one at a
  time, and of lists that a console loads one after the other and in any order.

What has to hold, part by part:

* **Namespace pipeline (NSR, CMR, DNCR, DLR on one namespace).** Entries of the ConfigMap survive
  discovery; nothing declared in an imported operand is missing from the ConfigMap at rest; operands
  of users are theirs; every deployment gets an entry; every error is retried until the status is
  true; imported links and the ConfigMap agree at rest; deleted links go.
* **Standalone custom links.** The ConfigMap and the link made from it agree at rest; the status is
  about the current spec; links of users are not touched; deletion ends.
* **Links of both kinds.** Whatever is written from copies of any age, a link has one life after
  another (absent, new, kept, going, absent): no deletion is called off, no finalizer dropped, what a
  user has made or adopted follows no ConfigMap.
* **App groups.** The empty ConfigMap never replaces a real one; a deployment that is claimed joins.
  A live import agrees with the deployments it was made from, and its groups go by deployment names.
* **Console install.** A plugin is loaded only when all of it is installed; other plugins keep their
  place in the Console; the install ends, and its status is about the current generation. Seen from
  the console it is a registry to which parts are only added.
* **Discovery and dashboard.** A database joins the app it is named after; each enabled deployment is
  on exactly one card; once CMR is through and all is loaded the cards are those of the ConfigMap, but
  for deployments whose update was refused, and a refused update costs no other deployment anything; a
  card opens the route that is declared; what CMR does not pass over reaches the console in the end.

## 2. Modules

| Module | Models | Uses |
| --- | --- | --- |
| `ApiObjects` | one object at the API server, its informer cache, the copies that reconcilers hold | |
| `CustomLinkSync` | CMR and DLR on one custom-link ConfigMap and the link imported from it | `ApiObjects` |
| `NamespaceConfig` | the content of a namespace ConfigMap: merge, overlay, import, links | |
| `NamespaceCluster` | the objects of one namespace, caches, queues, users, errors, restarts | `ApiObjects`, `NamespaceConfig` |
| `NamespaceController`, `ConfigMapController`, `OperandController`, `LinkController` | NSR, CMR, DNCR, DLR, each with one action per call that reads or writes | `NamespaceCluster` |
| `NamespacePipeline` | the four together, and the properties of the namespace | the four |
| `GroupController` | AGC with its timer and its clock | `NamespaceCluster` |
| `GroupPipeline` | the pipeline with app groups | `NamespacePipeline`, `GroupController` |
| `ConsoleInstall` | ADC, the objects it installs, and the Console that others write too | `ApiObjects` |
| `PluginRegistry` | the abstract specification that `ConsoleInstall` implements | |
| `LinkLifecycle` | the abstract specification of DashboardLinks that `CustomLinkSync` and `NamespacePipeline` implement | |
| `Discovery` | what NSR makes of the names of deployments and routes | `NamespaceConfig` |
| `DashboardPage` | the cards that the console plugin makes of a list of deployments and routes | `Discovery` |
| `DashboardView` | discovery, the ConfigMap, the deployments and the console that watches them | `DashboardPage` |
| `MC*` | values of the constants for TLC | |
| `ApiObjectsTheorems`, `NamespaceConfigTheorems` | lemmas about the operators, for whoever proves with them | the module they are about |
| `CustomLinkSyncProofs`, `NamespacePipelineProofs`, `NamespaceQuiescenceProofs`, `GroupPipelineProofs`, `ConsoleInstallProofs`, `DashboardViewProofs` | invariants, theorems and proofs | the specification, the two above |

How state corresponds to code:

* An object is `[obj, seen, fresh]`: what the server stores, what the cache answers, and which copies
  are at the server's resourceVersion. A controller can learn of a version only whether an Update is
  refused, so `fresh` replaces the counter. `Save` is the get, compare, Create-or-Update sequence that
  most writes use; `Put` is a write the server accepts; `Deliver` is the watch event, which may skip
  versions.
* A worker is a record with a `pc` and what Reconcile holds in local variables between two calls. A
  read from the cache and the write that follows from it are one action where no other read comes
  between: the refusal of an outdated Update makes a later write from the same copy equivalent.
* A workqueue is a set of keys (controller-runtime deduplicates them) or a flag where there is one
  key. A reconcile that returns an error or a refused write puts its key back. RequeueAfter is the
  set `tdag` of running timers.
* Everybody else is a *disturbance*: an edit by a user, a failing call, a resync, a restart. A
  behaviour has `MaxDisturbances` of them, of the kinds that the run names. Steps of the operator
  leave `budget` alone, which is how action properties tell the two apart.
* A name is a sequence of words (`WordsOf`), and which keywords a word contains is a constant
  (`KeywordsIn`): that is all that `isDatabase`, `guessCategory` and the suffixes of routes look at.
* `DashboardView` has the objects without caches, and errors where nothing makes up for them. An error
  that is returned is retried, which is in `NamespacePipeline`; that of a deployment is logged, and the
  deployment passed over (`configmap_controller.go:91`). So CMR handles a deployment by `Apply` or by
  `PassOver`, any deployment at any time and as often as it likes, because others write workloads all
  the time and the cached copy is then outdated; `passed` remembers whom it passed over when it last had
  them to write. Deployments are written one by one, users, rollouts and owners act between any two
  writes, and a console reads at any moment. The page takes the first of a list that fits, and what is
  said of the cards is said of every order in `Ranks`.
* Names, texts, URLs and routes are elements of small sets; a regular expression is the set of apps it
  matches; a time is "now" (this second), "past" or "never"; the content of an installed object is the
  generation that wrote it.

Definitions marked `(mutant)` stand in front of the definition they distort. They say what a
plausible bug would look like, and each property is known to fail for the one that `PROJECT.json`
names.

## 3. Runs

| Run | Question | Answer |
| --- | --- | --- |
| `links_safety` | two contents, two disturbances: do a custom-link ConfigMap and its link agree at rest, is the status honest, are links of users left alone, is it the life that `LinkLifecycle` describes? | yes |
| `links_deletion` | does a deleted link ever hang on its finalizer? | no |
| `links_Converges` | do both sides settle after a single edit? | **no**, section 6 |
| `namespace_config` | NSR, CMR, DNCR on a namespace that was just labelled, or whose deployment was annotated before, with one edit of the ConfigMap or the operand, error, restart or resync: are entries kept and declarations applied, every error retried, every operand of a user kept, does a live import left alone come to rest on what the deployments and the ConfigMap say? | yes |
| `namespace_deployments` | the same three on two deployments, one of which names its group by the display name of the other, or which are displayed by one name, or are rolled out in a labelled namespace; with one rollout, label change, error or restart: do groups go by deployment names at any moment, do import and ConfigMap agree at rest (where names are apart), is every deployment listed? | yes |
| `namespace_links` | two targets, one edit on either side: do imported links agree with the ConfigMap, is it the life that `LinkLifecycle` describes? | yes |
| `namespace_deletion` | does a deleted link go, with two edits, deletions or errors? | yes |
| `namespace_AnnotationsImported` | do deployments that were annotated before the operator came keep what they say? | **no**, section 6 |
| `namespace_DeploymentsConfigured` | are edits of the ConfigMap applied to deployments? | **no**, section 6 |
| `groups` | NSR, CMR and AGC on one namespace: is a ConfigMap ever replaced by the empty one, does a deployment join its group? | no; yes |
| `install` | two names, two disturbances: is a plugin loaded before it is installed, is another one lost, does the install end, is it the registry of `PluginRegistry`? | no, no, yes, yes |
| `dashboard` | discovery, edits, refused updates, rollouts, routes, lost labels, reloads: is every app on one card, do cards follow the ConfigMap but for apps whose last update was refused, do they follow names whatever was refused, do they open what is declared, does what CMR does not pass over get there? | yes |

All runs set `CHECK_DEADLOCK FALSE`: an operator that has nothing to do and a user who has done
everything the budget allows is the state a run ends in.

**Bounds, and why they are enough.** The controllers treat apps, links and groups key by key, and
every decision compares two values of one key; what goes wrong needs two values of something and a
cache between old and new. So there is one app, one link name and two contents, except where apps
are compared with each other, and the number of
disturbances is what gives depth: two where the state space allows it (`links_*`,
`namespace_deletion`, `install`, `dashboard`). Every reordering of events and every pair of concurrent reconciles
is in. `groups` has one field, since fields are merged independently; `namespace_config` has the
two that depend on each other (a group may be a display name): a deployment
that was annotated before is in the group of its own name. Names of groups depend on other apps, so
`namespace_deployments` has two. The second is in the group of the first, and calls it by the display
name of the first, which an import looks up. If the names are apart there is one answer; the run starts
with such a pair in a namespace without label and ConfigMap, the longest way to go. If both are displayed
by one name, the import may take it for either, anew each time, and annotations, operand and ConfigMap
chase each other; there the run starts with the ConfigMap written, the groups in it named by displays
or by deployments, which keeps the states few enough for disturbances. Four more starts have any of
the two deployments in a labelled namespace, for `DeploymentsListed`. `dashboard` has the three fields
that the page looks at for a card (category, route, group), an app
and a database named after it, whose names have a suffix that routes lack, either order of the list,
and a deployment of another namespace in a group of the same name; refused updates are unbounded. `groups` checks a group that selects by each of the three selectors, and one whose pattern does not
compile. `install` has two of the five steps that read from the cache (the other three are the same
action with another kind), one whose object depends on the name only and one that depends on the
whole spec; edits of the spec are numbered, so none takes back an earlier one, which excludes a
known weakness of CreateOrPatch on a stale cache (section 6).

**Fairness, and why the code justifies it.** A watch that has an event delivers it, and a worker whose
queue is not empty works: weak fairness of each `Deliver` and of each controller (`Nsr`, `Cmr`, ...).
A timer that runs fires. Where a queue holds several keys, each key is taken in the end although
other keys keep coming back, because the workqueue is first in first out: strong fairness of
`DlrGet(k)`, `AgcGet(g)` and `Get(d)`. In `DashboardView` each deployment that CMR has to write is
handled, that is written or passed over (`Handled`): fairness never chooses the write, and no property
assumes that it goes through. A call of NSR is answered, and both watches of the console deliver. Users, errors, restarts, resyncs and the passing of a second
(`GroupTick`) are never fair: no liveness property rests on any of them.

## 4. Proofs

TLC checks the instances above; the following hold for all values of the constants, under the
ASSUMEs of the modules (the constants have their types, and `Absent` is not a value of any object).

* `NamespaceConfigTheorems`. `CompletedKeeps`: completing a config with discovered apps keeps every
  flag, text and link it has. `OverlayContains`: after an overlay the config says all that was
  declared. `ImportRoundTrip`: importing a config without incomplete links and overlaying it again
  changes nothing, which is why the two directions of the pipeline can come to rest at all.
* `CustomLinkSyncProofs`. `TypeCorrect`, `AgreementWhenQuiescent`, `ReportWhenQuiescent`,
  `UserLinksKept`, `LinkHasLifecycle`. Agreement at rest is not inductive: the invariant `IInv` adds what happens on the
  way there. `CopiesTell`: a copy that is fresh equals the object. `OutdatedRequeued`: a worker whose
  copy is outdated will be run again. `AgreeOrPending` and `ReportedOrPending`: whenever the two sides
  differ, or a status is not up to date, some event, queued key or running reconcile is on its way to
  repair it. At rest there is none, hence agreement. `LinkHasLifecycle` is the refinement: what any step
  makes of the link is one of a few writes (`LinkSteps`), and each of them is a step of `LinkLifecycle`
  or none (`LifecycleStep`). It needs that a link under deletion has its finalizer (`MarkedStep`).
* `NamespacePipelineProofs`. `TypeCorrect`: `TypeOK` is not inductive, because a status update copies
  what the cache has and a worker uses what it holds. `IInv` adds that a delivered cache equals the
  server's object (`Coherent`), and that a worker in the middle of a reconcile holds an object and not
  `Absent`. From it follow `EntriesAreKept` (a step of NSR writes the merge of the object it saw, which
  is the object there is, or the write is refused; then `CompletedKeeps`) and `UserOperandsKept` (only
  three actions write a spec, and each looks at the source in the copy it updates from).

* `GroupPipelineProofs`. `GroupsTypeCorrect` and `ConfigMapIsKept`. The invariant `GInv` is that of the
  pipeline with the types of the groups: a step of the four controllers is one of `Next` and keeps it
  by `StepIInv`, so what is left to prove is that AGC's writes keep it too. `ConfigMapIsKept` assumes
  that DNCR and DLR do not run, as in the run `groups`, because the two rewrite entries on purpose
  (DNCR's `Replace` even drops them); then they stay idle (`WritersStayIdle`), what NSR writes is the
  merge of what was there (`NsrConfigKeeps`), and AGC's Create is refused where there is a ConfigMap.
* `ConsoleInstallProofs`. `TypeCorrect`, `LoadedPluginsInstalled`, `OthersKept`. The invariant `IInv`
  adds to the types that a cached part exists on the server, and `Behind`: the steps that the worker
  has behind it are installed, because no step takes anything away. A name is put into the Console's
  list only after all of them, and from a copy of the list that is the current one. `InstallIsRegistry`
  is the refinement: each step of the worker, the caches and the users maps to a step of
  `PluginRegistry` or to none (`RegistryStep`), because a step installs at most one part (`OnePart`).
* `DashboardViewProofs`. `CardsPartition` is about the page alone, for any list: peers are an
  equivalence among the enabled, and all of a class have the same card (`PeersShareCard`). The state
  needs `IInv`: `Settled`, that a deployment that CMR need not write and has not passed over says either
  nothing or what the config says of it, up to a lost label; and `GroupsByName`, that an app no user has
  regrouped is in the group of its name. With the groups of the config never blank on a deployment
  (`AppliedTextIs`), equal groups are equal cards (`TogetherAsListed`): hence `CardsFollowConfig`, which
  leaves out the apps that were passed over, for they may show anything older. `DatabasesJoinTheirApps`
  does not: it holds at any moment and whatever is refused, because of an app that no user has regrouped
  the config, the deployment and every page, however old, say either nothing or one group
  (`GroupsWritten`), the one its name tells (`NamedAfterParent`: the keyword that decides is the suffix,
  since no other keyword but postgres comes before one that contains it). `DeclaredRoutesOpen` holds since whoever alone declares a
  route is the main one in any order. The assumptions on names are in `NamingAssumption`: names are
  told apart by their words and are closed under dropping the last.

* What is known at rest. `Reported`, `OperandApplied`, `ImportedLinksAgree`, `DeploymentsListed` and
  `Installed` say what two objects have in common when nothing is left to do, and all have proofs of
  one pattern. The inductive invariant says of every state that the two agree *or that work is pending
  which will look at both*; each step either leaves both objects and the pending work alone, or makes
  new work pending (a write unsettles the object that it changes, an event enqueues its key), or is the
  step that finishes the work, and then one has to show that they agree. At rest no work is pending.
  * `NamespaceQuiescenceProofs`: the invariant is `QInv`. What counts as work is in `OperandPending`,
    `ConfigPending`, `LinkPending`, `LinkToImport` and `ListPending`. That the step which finishes does
    so on the objects there are is `InStep` (what a worker holds is what the cache has, unless its key
    is queued anew) with `SettledIsSeen` (what the cache has, no event being on its way, is what the
    server has); `SavedInVain` is the case where it finds nothing to write. `CopyHeld` is about the one
    copy that a worker keeps across two writes, that of a link, and about finalizers. `EntriesStay` says
    that no entry is in the cached ConfigMap which the server's has lost: NSR would take a deployment
    for listed.
  * `LinksHaveLifecycle` and `GroupsAreNormalized` are in the same module because they use that
    invariant. The first is the refinement of `LinkLifecycle` by the pipeline. `LinkWrites` lists what a
    step may make of a link: an Update from a copy goes through only if the copy is the link
    (`CurrentCopies`, `CopyHeld`), so that what it writes is the link with one part changed; a Delete is
    unconditional, but its list is made of imports, which only have names of imports (`OriginHeld`).
    `WritesLive` maps each write to a step of the abstract specification. For the second, `NormalHeld`
    says of the operand on the server and of the one in the cache that no app is grouped by the display
    name of another: one import makes it so (`LiveSpecNamed`: names are looked up before groups are
    replaced), and a status is written on the cached operand.
  * `ConsoleInstallProofs`, from `HInv`: specs reach the cache and the worker in order (`InOrder`,
    `HasSpec`), so that no part is newer than what the worker patches in (`NothingNewer`). That is why
    a patch that a lagging cache calls superfluous is superfluous (`PatchDoes`), and why all that the
    worker has behind it is done and stays done (`BehindIsDone`). The status reports a generation that it
    reads anew; a newer one than the worker has is queued (`HasSpec`).

Out of the prover's reach, and checked by TLC only: liveness (fairness and ENABLED), that is
`DeletionEnds`, `LinkDeletionEnds`, `MembersJoin`, `InstallEnds` and `AppsFollowConfig`.

One invariant is checked by TLC only as well, `LiveStateAgrees`: it is a property of the instances and
not of all constants, so there is no theorem to state. It holds for one deployment that a user's entry does
not hide, annotated as in `namespace_config` (and with any of its annotations missing, checked without
disturbances in an instance that is not kept), and for the two of `namespace_deployments` with names of
their own; it is false when two deployments are displayed by one name or by each other's, which
`NamesOfTheirOwn` leaves out, and when the only app that is shown becomes hidden (section 6). Where it holds, the reason is not
that two objects agree "or have work pending". What NSR, CMR and DNCR write goes round in a ring (annotations,
operand, ConfigMap, annotations), and a write that a lagging cache calls superfluous is left out although
it is not. That this never hides a difference for good rests on each field having two values at most on
the way round, the one that was annotated and the one that was guessed, so that the cache which hides one
boundary between them leaves only one other, which moves. Groups that are renamed bring in a third.

## 5. What is not modelled, and why

* **Pipeline:** routes of links (a link has a URL, none, or one that is not complete); ConfigMaps that lack the label or
  `config.yaml`; renamed links; the category of a link; `observedGeneration` and `appCount`; the order
  of links in a list. None of them decides which call comes next in the parts that are modelled.
* **Links:** two operands of one namespace. DNCR writes one ConfigMap per namespace; the model has the
  one operand that carries the name the import uses.
* **Groups:** the display name, which AGC does not use. `MatchLabels` selects a constant set, since the
  operator writes no label that a user would select by but its own.
* **Install:** the content of objects beyond its generation; that two AppDashboards may have one name
  is in the module (`LoadedPluginsInstalled` and `InstallIsRegistry` are proved for such, `Installed` for
  names apart), the run has one AppDashboard.
* **Discovery by naming:** what a name is in title case and the sentence about a database (constants);
  names with a keyword that has its suffix cut across words do not exist, keywords having no hyphens.
  In the pipeline discovery is a constant per deployment.
* **Console plugin frontend:** search, sorting, favourites, the switch for private apps, the cards of
  custom links and all layout. `TopologyView.tsx` is not used by the page, which imports a type of it.
  API types, CRDs, scripts, manifests and
  backups are data. Leader election, metrics and probes are I/O.

## 6. Where code and documentation part

Found while modelling, and shown by runs:

* `links_Converges` (`live_state_import.go:228`). An edit that arrives while its import is being
  finished leaves CMR with the old content of the ConfigMap and DLR with the new content of the link,
  or the other way round; each copies its own over the other, and each write is the event that starts
  the next exchange. `src/manifests/samples/README.md:156-159` says that both are kept in sync.
* `namespace_AnnotationsImported` (`live_state_import.go:66`). The first live import makes DNCR label the
  namespace; the label starts discovery, whose guesses CMR may write over the annotations before DNCR
  has overlaid the import; the next import reads the guesses. `src/README.md:286` promises an import
  "with their current dashboard annotations".
* `namespace_DeploymentsConfigured` (`configmap_controller.go:91`). A refused update of a deployment is
  logged and not returned, although `namespace_controller.go:257` promises in every ConfigMap that the
  operator applies its changes.

Seen in the models, without a run of their own:

* An import that races with the deletion of its link creates the link again from the ConfigMap copy it
  holds, and the link then creates the ConfigMap again (`live_state_import.go:142`), although
  `src/README.md:250` says that deleting an imported link removes what is behind it.
* The operand imported from a ConfigMap is overlaid on it again, whatever users have changed in between
  (`dashboardnamespaceconfig_controller.go:88`); finishing an import replaces the whole of
  `configMap.Data` (`live_state_import.go:229`). `src/.Bob/INSTRUCTIONS.md:5` and `:35` ask that
  entries and data of users be preserved.
* The status of an operand and of an AppDashboard claims the generation that a second read returns
  (`dashboardnamespaceconfig_controller.go:136`, `appdashboard_controller.go:415`), while
  `appdashboard_types.go:78` calls it the most recent one reconciled. `Installed` holds because the
  newer one is queued.
* CreateOrPatch compares with a cache: an AppDashboard edited there and back keeps the edit in between
  (`appdashboard_controller.go:226`).
* The status of a group says that what matched was labelled when `autoLabel` is off, or when a
  deployment was passed over (`dashboardappgroup_controller.go:110`, `:209`), and its time of day makes
  every reconcile the event that starts another one (`:103`).
* NSR looks for entries in the ConfigMap of its cache (`namespace_controller.go:185`) and is not called by
  later events of the ConfigMap (`:389`). With an operand of mode Replace: a deployment goes, DNCR drops
  its entry, the deployment is rolled out again before the cache has that write; NSR finds the entry in
  the cache and adds none, DNCR rests, and the deployment has no entry until some other event. Three
  disturbances; `EntriesLeft` leaves it out of `DeploymentsListed`, which fails with it.
* `OperandApplied` leaves incomplete links out: the import drops a link that has no name, or neither a
  URL nor a route (`live_state_import.go:306`), which stays in the ConfigMap.
* AppDashboards that leave their names out share the default one (`appdashboard_controller.go:144`): each
  overwrites what the others install, and all report Ready.
* `src/README.md:286` says that deployments "labeled or annotated" are imported; only labelled ones are
  listed (`live_state_import.go:80`), while the dashboard shows either (`AppDashboardPage.tsx:343`).
* Whether DNCR has to write is decided against a cache that may be older than its own last write
  (`dashboardnamespaceconfig_controller.go:87`): an operand edited from A to B and back to A may leave B
  in the ConfigMap, with Ready=True and nothing queued.
* A user's link for an entry that has a link of that name already is undone by the import of the old one:
  DLR reconciles the imported link from its copy after the user's link has been written, and both are
  Ready (`dashboardlink_controller.go:123`), while `:140` reports "Dashboard link is reconciled".
* CMR lists the imported links of the cache and deletes those that the ConfigMap does not have, by name and
  without precondition (`configmap_controller.go:192`): one that a user has adopted in between goes too.
  `HasLifecycle` allows it, for links under the names of imports.
* With NSR, CMR and DNCR on one live import, two values of a field may chase each other from
  annotations to operand to ConfigMap and back, for ever under weak fairness. If they come to rest, the
  operand says what the annotations say and the ConfigMap has it (`LiveStateAgrees`), unless somebody
  deletes the ConfigMap. The last app that is hidden stays in the live operand, which is not imported
  when none is shown (`:81`); an app that stands alone, being in the group of its own name, is grouped
  under another one whose display name is that name (`:92`).
* `src/README.md:279` has users group an app by the key of its parent. CMR writes that key into the
  annotation, from which the next live import reads it and takes it for a display name if some app is
  displayed so (`live_state_import.go:95`); DNCR then overlays the other group on the ConfigMap, with
  nobody acting. It takes two apps, one of which is displayed by the name of the other's parent.
* Two deployments that are displayed by each other's names: each import renames every group to the other
  deployment, and the ConfigMap brings it back to the next import. DNCR that reads the one spelling
  while its cache of the ConfigMap still has the same from before writes nothing
  (`dashboardnamespaceconfig_controller.go:87`), and all come to rest with one group in the operand and
  the other in the ConfigMap. `LiveStateAgrees` fails there after 65 steps with nobody acting. The same
  happens if both are displayed by one name and one of them is grouped under it: which of the two is meant
  depends on the order of the list (`live_state_import.go:92`) and may change from one import to the next.
* What is at rest need not be what the deployments have. A route that NSR has added to the ConfigMap
  while the cached deployment was outdated reaches no annotation, because the refused update is passed
  over (`configmap_controller.go:91`); nor, with two apps, a group that an import has normalized: since
  every import normalizes again (`live_state_import.go:92`), nothing looks different to it, and nothing
  calls CMR. `LiveStateAgrees` speaks of the operand and the ConfigMap for that reason.
* Links by route are resolved when CMR applies the ConfigMap, and skipped if that fails
  (`configmap_controller.go:307`): nothing calls CMR when the route comes later.
* `isDatabase` is said to return a parent "when it is a database" (`namespace_controller.go:293`); for
  x-postgresql it returns none, because -postgres is tried first. Grouping is one level deep: x-db-redis
  is grouped under x-db, not x. A route that is taken out of the ConfigMap stays in the annotation.
* The page (`AppDashboardPage.tsx`) does not wait for deployments (`:640`) and says for a moment that there
  are none; favourites are kept by the name of the card, which changes with its group; a custom-link
  ConfigMap without `displayName` makes the sort fail (`:522`); a route that is declared and does not
  exist leaves a group without a link although another member has one.

## 7. Plan

Done: the object model; custom links, the namespace pipeline, groups and install, each with proofs;
the install as a refinement of a registry and both kinds of links as refinements of their lifecycle;
discovery by naming and the dashboard, with proofs.

1. Links by route in the pipeline, and links that are renamed or moved to another app.
2. `LiveStateAgrees` as a theorem for names apart: the ring of section 4 as an invariant, field by field.
3. An abstract specification of what a mirror promises (two copies of one value, an edit on either
   side, one step that makes them equal) and `CustomLinkSync` shown to implement it while users edit
   one side only.
