--------------------------- MODULE ConsoleInstall ---------------------------
(***************************************************************************)
(* AppDashboardReconciler (ADC): installs the console plugin that an       *)
(* AppDashboard describes, step by step, has the console load it, and      *)
(* reports.                                                                *)
(*                                                                         *)
(* What a spec says beyond names and switches is one number, increased by  *)
(* every edit: it is the generation of the spec as well. So no edit takes  *)
(* back an earlier one, in whole or in part.                               *)
(***************************************************************************)
EXTENDS ApiObjects, Integers, Sequences

CONSTANTS
  Dashboards,      \* AppDashboards
  PluginNames,     \* names of a plugin and of all that is installed for it
  OtherPlugins,    \* plugins that others have the console load
  Workload,        \* the steps on objects that are read from the cache, in order
  UserSpecs,       \* the specs that users write, for each AppDashboard
  Kinds,           \* the kinds of disturbances allowed in a behaviour
  MaxDisturbances  \* and how many

ASSUME InstallAssumption ==
  /\ MaxDisturbances \in Nat
  /\ PluginNames \cap OtherPlugins = {}
  /\ Workload \in Seq({"namespace", "account", "nginx", "service", "deployment"})

Generations == 1 .. (MaxDisturbances + 1)

\* What is installed, in this order: in the code, Workload has all five kinds. The
\* last two are read from the server.
Steps == Workload \o <<"plugin", "link">>
CachedKinds == {Workload[i] : i \in DOMAIN Workload}
PartKinds == CachedKinds \cup {"plugin", "link"}

\* href: where the console link is to point to, if there is to be one. For a
\* path one must know the host of the console's route.
Hrefs == {"none", "url", "path"}
Specs == [name : PluginNames, gen : Generations, enable : BOOLEAN, href : Hrefs]
AppDashboards ==
  [spec : Specs, observed : Generations \cup {0}, ready : {"Unknown", "True", "False"}]

\* What a part of kind k says for spec s: the namespace and the account have
\* labels only, and these depend on the name alone.
Says(k, s) == IF k \in {"namespace", "account"} THEN 0 ELSE s.gen

ASSUME InstallSpecsAssumption ==
  /\ UserSpecs \in [Dashboards -> SUBSET Specs]
  /\ Absent \notin AppDashboards \cup Generations \cup {0}
  /\ \A S \in SUBSET (PluginNames \cup OtherPlugins) : Absent # S

VARIABLES
  dash,     \* the AppDashboards
  parts,    \* what is installed, by kind and name
  console,  \* the plugins in spec.plugins of the Console; its copy is the worker's
  route,    \* has the console's route a host?
  queue,    \* AppDashboards in the workqueue
  worker,   \* the step it is at, and what it reconciles
  budget    \* disturbances still allowed

vars == <<dash, parts, console, route, queue, worker, budget>>

Idle == [pc |-> "idle", step |-> 0, key |-> Absent, spec |-> Absent]
NewDashboard(s) == [spec |-> s, observed |-> 0, ready |-> "Unknown"]

Init ==
  /\ \E s \in [Dashboards -> {t \in Specs : t.gen = 1}] :
       /\ \A d \in Dashboards : s[d] \in UserSpecs[d]
       /\ dash = [d \in Dashboards |-> Listed(NewDashboard(s[d]))]
  /\ parts = [kn \in PartKinds \X PluginNames |-> Listed(Absent)]
  /\ \E ps \in SUBSET OtherPlugins : console = Listed(ps)
  /\ route \in BOOLEAN
  /\ queue = Dashboards
  /\ worker = Idle
  /\ budget = MaxDisturbances

----------------------------------------------------------------------------
(* The worker *)

Key == worker.key
Name == worker.spec.name
Goto(pc) == worker' = [worker EXCEPT !.pc = pc]

\* (mutant) an AppDashboard that is gone is worked with
GetMissing(d) ==
  /\ d \in queue /\ worker = Idle
  /\ queue' = queue \ {d}
  /\ worker' = [pc |-> "install", step |-> 1, key |-> d,
                spec |-> IF dash[d].seen = Absent THEN Absent ELSE dash[d].seen.spec]
  /\ UNCHANGED <<dash, parts, console, route, budget>>

Get(d) ==
  /\ d \in queue /\ worker = Idle
  /\ queue' = queue \ {d}
  /\ worker' = IF dash[d].seen = Absent THEN Idle
               ELSE [pc |-> "install", step |-> 1, key |-> d, spec |-> dash[d].seen.spec]
  /\ UNCHANGED <<dash, parts, console, route, budget>>

\* The step is done: on to the next, then to the Console, if it is to be enabled.
NextStep ==
  worker' = IF worker.step < Len(Steps) THEN [worker EXCEPT !.step = worker.step + 1]
            ELSE [worker EXCEPT !.pc = IF worker.spec.enable THEN "console" ELSE "accept"]

\* controllerutil.CreateOrPatch, on the copy that is read: a merge patch meets
\* whatever the server has, Create meets nothing.
Patched(o, copy, b) ==
  IF copy = b \/ (copy = Absent) # (o.obj = Absent) THEN o ELSE Put(o, b)
PatchWorks(o, copy, b) == copy = b \/ (copy = Absent) = (o.obj = Absent)

\* (mutant) the error is logged and the next step taken
InstallStepRegardless ==
  LET k == Steps[worker.step]
      o == parts[<<k, Name>>]
      copy == IF k \in CachedKinds THEN o.seen ELSE o.obj
      written == Patched(o, copy, Says(k, worker.spec))
  IN  /\ worker.pc = "install"
      /\ IF k = "link" /\ worker.spec.href = "path" /\ ~route
           THEN NextStep /\ UNCHANGED parts
           ELSE /\ parts' = [parts EXCEPT ![<<k, Name>>] =
                     IF k = "link" /\ worker.spec.href = "none" THEN o
                     ELSE IF k \in CachedKinds THEN written ELSE Deliver(written)]
                /\ NextStep
      /\ UNCHANGED <<dash, console, route, queue, budget>>

\* (mutant) a plugin that is not to be enabled is withdrawn, part by part
InstallStepWithdrawing ==
  LET k == Steps[worker.step]
      o == parts[<<k, Name>>]
  IN  /\ worker.pc = "install"
      /\ parts' = [parts EXCEPT ![<<k, Name>>] =
           Put(o, IF worker.spec.enable THEN Says(k, worker.spec) ELSE Absent)]
      /\ NextStep
      /\ UNCHANGED <<dash, console, route, queue, budget>>

\* One of reconcileNamespace .. reconcileConsoleLink.
InstallStep ==
  LET k == Steps[worker.step]
      o == parts[<<k, Name>>]
      copy == IF k \in CachedKinds THEN o.seen ELSE o.obj
      written == Patched(o, copy, Says(k, worker.spec))
  IN  /\ worker.pc = "install"
      /\ IF k = "link" /\ worker.spec.href = "none"
           THEN NextStep /\ UNCHANGED parts
         ELSE IF k = "link" /\ worker.spec.href = "path" /\ ~route
           THEN Goto("reject") /\ UNCHANGED parts
           ELSE /\ parts' = [parts EXCEPT ![<<k, Name>>] =
                     IF k \in CachedKinds THEN written ELSE Deliver(written)]
                /\ IF PatchWorks(o, copy, Says(k, worker.spec)) THEN NextStep ELSE Goto("reject")
      /\ UNCHANGED <<dash, console, route, queue, budget>>

\* enableConsolePlugin: the Console is read, and updated unless it has the plugin.
ReadConsole ==
  /\ worker.pc = "console"
  /\ console' = Deliver(console)
  /\ Goto(IF Name \in console.obj THEN "accept" ELSE "enable")
  /\ UNCHANGED <<dash, parts, route, queue, budget>>

\* (mutant) the list is patched in, whatever the server has by now
EnablePluginByPatch ==
  /\ worker.pc = "enable"
  /\ console' = Put(console, console.seen \cup {Name})
  /\ Goto("accept")
  /\ UNCHANGED <<dash, parts, route, queue, budget>>

EnablePlugin ==
  /\ worker.pc = "enable"
  /\ console' = IF Current(console, "cache") THEN Put(console, console.seen \cup {Name}) ELSE console
  /\ Goto(IF Current(console, "cache") THEN "accept" ELSE "reject")
  /\ UNCHANGED <<dash, parts, route, queue, budget>>

\* setStatus, on the AppDashboard read again: it reports on the generation that
\* it reads.
SetStatus(ready) ==
  /\ dash' = [dash EXCEPT ![Key] =
       IF Current(dash[Key], "cache")
         THEN Put(dash[Key], [spec |-> dash[Key].seen.spec, observed |-> dash[Key].seen.spec.gen,
                              ready |-> ready])
         ELSE dash[Key]]
  /\ worker' = Idle

Accept ==
  /\ worker.pc = "accept"
  /\ SetStatus("True")
  /\ queue' = IF Current(dash[Key], "cache") THEN queue ELSE queue \cup {Key}
  /\ UNCHANGED <<parts, console, route, budget>>

\* A best-effort status, then the error.
Reject ==
  /\ worker.pc = "reject"
  /\ SetStatus("False")
  /\ queue' = queue \cup {Key}
  /\ UNCHANGED <<parts, console, route, budget>>

Adc == (\E d \in Dashboards : Get(d)) \/ InstallStep \/ ReadConsole \/ EnablePlugin \/ Accept \/ Reject

----------------------------------------------------------------------------
(* Informers and disturbances *)

DeliverDashboard(d) ==
  /\ ~Settled(dash[d])
  /\ dash' = [dash EXCEPT ![d] = Deliver(dash[d])] /\ queue' = queue \cup {d}
  /\ UNCHANGED <<parts, console, route, worker, budget>>

\* Nothing is enqueued: the controller watches AppDashboards only.
DeliverPart(k, n) ==
  /\ ~Settled(parts[<<k, n>>])
  /\ parts' = [parts EXCEPT ![<<k, n>>] = Deliver(parts[<<k, n>>])]
  /\ UNCHANGED <<dash, console, route, queue, worker, budget>>

Informers ==
  \/ \E d \in Dashboards : DeliverDashboard(d)
  \/ \E k \in PartKinds, n \in PluginNames : DeliverPart(k, n)

Disturb(kind) == kind \in Kinds /\ budget > 0 /\ budget' = budget - 1

\* (mutant) a step that fails is logged, and the next one taken
ApiErrorPassedOver ==
  /\ Disturb("error")
  /\ worker # Idle
  /\ IF worker.pc = "install" THEN NextStep /\ UNCHANGED queue
     ELSE worker' = Idle /\ queue' = queue \cup {Key}
  /\ UNCHANGED <<dash, parts, console, route>>

\* (mutant) the error is logged and not returned
ApiErrorSwallowed ==
  /\ Disturb("error")
  /\ worker # Idle
  /\ worker' = Idle
  /\ UNCHANGED <<dash, parts, console, route, queue>>

\* A failing call: an error with a status before it, or the status itself.
ApiError ==
  /\ Disturb("error")
  /\ worker # Idle
  /\ IF worker.pc \in {"install", "console", "enable"}
       THEN Goto("reject") /\ UNCHANGED queue
       ELSE worker' = Idle /\ queue' = queue \cup {Key}
  /\ UNCHANGED <<dash, parts, console, route>>

\* A user renames, switches or changes an AppDashboard, or deletes it for good.
UserEdits == \E d \in Dashboards :
  /\ Disturb("edit")
  /\ dash[d].obj # Absent
  /\ \/ \E s \in {t \in UserSpecs[d] : t.gen = dash[d].obj.spec.gen + 1} :
          dash' = [dash EXCEPT ![d] = Put(dash[d], [dash[d].obj EXCEPT !.spec = s])]
     \/ dash' = [dash EXCEPT ![d] = Put(dash[d], Absent)]
  /\ UNCHANGED <<parts, console, route, queue, worker>>

\* Another plugin is enabled or disabled in the Console.
OthersEditConsole == \E p \in OtherPlugins :
  /\ Disturb("console")
  /\ \/ console' = Put(console, console.obj \cup {p})
     \/ console' = Put(console, console.obj \ {p})
  /\ UNCHANGED <<dash, parts, route, queue, worker>>

RouteChanges ==
  /\ Disturb("route")
  /\ route' = ~route
  /\ UNCHANGED <<dash, parts, console, queue, worker>>

Resync ==
  /\ Disturb("resync")
  /\ queue' = queue \cup {d \in Dashboards : dash[d].seen # Absent}
  /\ UNCHANGED <<dash, parts, console, route, worker>>

Restart ==
  /\ Disturb("restart")
  /\ dash' = [d \in Dashboards |-> Listed(dash[d].obj)]
  /\ parts' = [kn \in PartKinds \X PluginNames |-> Listed(parts[kn].obj)]
  /\ queue' = {d \in Dashboards : dash[d].obj # Absent}
  /\ worker' = Idle
  /\ UNCHANGED <<console, route>>

Disturbances == ApiError \/ UserEdits \/ OthersEditConsole \/ RouteChanges \/ Resync \/ Restart

Next == Adc \/ Informers \/ Disturbances

Spec == Init /\ [][Next]_vars

\* Watches deliver, and the worker works.
Fairness ==
  /\ WF_vars(Adc)
  /\ \A d \in Dashboards : WF_vars(DeliverDashboard(d)) /\ SF_vars(Get(d))
  /\ \A k \in PartKinds, n \in PluginNames : WF_vars(DeliverPart(k, n))

FairSpec == Spec /\ Fairness

----------------------------------------------------------------------------
(* Properties *)

TypeOK ==
  /\ dash \in [Dashboards -> ObjectType(AppDashboards, {"cache"})]
  /\ parts \in [PartKinds \X PluginNames -> ObjectType(Generations \cup {0}, {"cache"})]
  /\ console \in ObjectType(SUBSET (PluginNames \cup OtherPlugins), {"cache"})
  /\ route \in BOOLEAN
  /\ queue \subseteq Dashboards
  /\ worker = Idle \/
     worker \in [pc : {"install", "console", "enable", "accept", "reject"}, step : 1..Len(Steps),
                 key : Dashboards, spec : Specs]
  /\ budget \in 0..MaxDisturbances

Quiescent ==
  /\ queue = {} /\ worker = Idle
  /\ \A d \in Dashboards : Settled(dash[d])
  /\ \A kn \in PartKinds \X PluginNames : Settled(parts[kn])

\* All of spec s that is to be installed is.
Complete(s) ==
  /\ \A k \in PartKinds \ {"link"} : parts[<<k, s.name>>].obj = Says(k, s)
  /\ s.href # "none" => parts[<<"link", s.name>>].obj = Says("link", s)
  /\ s.enable => s.name \in console.obj

\* Do AppDashboards have names of their own? The installs of two that share one
\* overwrite each other.
NamesApart ==
  \A d, e \in Dashboards : d # e => \A s \in UserSpecs[d], t \in UserSpecs[e] : s.name # t.name

\* When nothing is left to do, what an AppDashboard says is installed, and it
\* says so of its current generation.
Installed ==
  Quiescent /\ NamesApart => \A d \in Dashboards : dash[d].obj # Absent =>
    /\ dash[d].obj.ready = "True" /\ dash[d].obj.observed = dash[d].obj.spec.gen
    /\ Complete(dash[d].obj.spec)

\* The console never loads a plugin of which a part is missing.
LoadedIsInstalled ==
  \A n \in PluginNames : n \in console.obj =>
    \A k \in PartKinds \ {"link"} : parts[<<k, n>>].obj # Absent

\* Enabling a plugin, however it races with others, enables or disables no other,
\* and what is enabled once stays so.
OtherPluginsKept ==
  [][budget' = budget =>
       /\ console'.obj \cap OtherPlugins = console.obj \cap OtherPlugins
       /\ console.obj \subseteq console'.obj]_vars

\* The install is a registry of plugins: the cached and uncached reads, the merge
\* patches, the errors, conflicts and restarts between two steps, and the edits of
\* the AppDashboards amount to its steps, or to none.
Registry == INSTANCE PluginRegistry WITH
  Own <- PluginNames, Others <- OtherPlugins, Parts <- PartKinds \ {"link"},
  there <- [n \in PluginNames |-> {k \in PartKinds \ {"link"} : parts[<<k, n>>].obj # Absent}],
  loaded <- console.obj
IsRegistry == Registry!Spec

\* An AppDashboard is installed and says so in the end, unless it is deleted or
\* the host it needs is missing.
InstallEnds ==
  \A d \in Dashboards :
    dash[d].obj # Absent ~>
      \/ dash[d].obj = Absent
      \/ dash[d].obj.ready = "True" /\ dash[d].obj.observed = dash[d].obj.spec.gen
      \/ dash[d].obj.spec.href = "path" /\ ~route
=============================================================================
