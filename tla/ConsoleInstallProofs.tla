------------------------ MODULE ConsoleInstallProofs ------------------------
(***************************************************************************)
(* Safety of the console install for any AppDashboards, names, other       *)
(* plugins, any list of cached steps and any number of disturbances.       *)
(***************************************************************************)
EXTENDS ConsoleInstall, ApiObjectsTheorems

Plugins == SUBSET (PluginNames \cup OtherPlugins)
Contents == Generations \cup {0}
Keys == PartKinds \X PluginNames

\* Objects whose cached copy, when no event is on its way, is the server's.
Coherent(o) == "cache" \in o.fresh => o.seen = o.obj

DashboardObjects == {o \in ObjectType(AppDashboards, {"cache"}) : Coherent(o)}
\* There is a Console always; nothing that is installed is ever removed.
ConsoleObjects ==
  {o \in [obj : Plugins, seen : Plugins, fresh : SUBSET {"cache"}] : Coherent(o)}
PartObjects ==
  {o \in ObjectType(Contents, {"cache"}) : o.seen # Absent => o.obj # Absent}

Workers ==
  [pc : {"install", "console", "enable", "accept", "reject"}, step : 1 .. Len(Steps),
   key : Dashboards, spec : Specs]

Typed ==
  /\ dash \in [Dashboards -> DashboardObjects]
  /\ parts \in [Keys -> PartObjects]
  /\ console \in ConsoleObjects
  /\ route \in BOOLEAN
  /\ queue \in SUBSET Dashboards
  /\ worker \in {Idle} \cup Workers
  /\ budget \in 0 .. MaxDisturbances

There(k, n) == parts[<<k, n>>].obj # Absent

\* The steps that the worker has behind it are installed, the link aside.
Behind ==
  /\ worker.pc = "install" =>
       \A i \in 1 .. (worker.step - 1) : Steps[i] # "link" => There(Steps[i], Name)
  /\ worker.pc \in {"console", "enable", "accept"} =>
       \A k \in PartKinds \ {"link"} : There(k, Name)

\* The inductive invariant. That the console loads complete plugins only is
\* because the worker enables one after all of its steps, and a step that was
\* taken once stays taken: there is nothing that removes a part.
IInv == Typed /\ Behind /\ LoadedIsInstalled

----------------------------------------------------------------------------
(* Lemmas *)

LEMMA StepsAre ==
  /\ Len(Steps) \in Nat /\ Len(Steps) >= 2
  /\ \A i \in 1 .. Len(Steps) : Steps[i] \in PartKinds
  /\ \A k \in PartKinds : \E i \in 1 .. Len(Steps) : Steps[i] = k
<1>. DEFINE K == {"namespace", "account", "nginx", "service", "deployment"}
<1>1. Workload \in Seq(K) /\ Len(Workload) \in Nat /\ DOMAIN Workload = 1 .. Len(Workload)
  BY InstallAssumption
<1>2. /\ Len(Steps) = Len(Workload) + 2
      /\ \A i \in 1 .. Len(Workload) : Steps[i] = Workload[i]
      /\ Steps[Len(Workload) + 1] = "plugin" /\ Steps[Len(Workload) + 2] = "link"
  BY <1>1 DEF Steps
<1>3. \A i \in 1 .. Len(Steps) :
        i \in 1 .. Len(Workload) \/ i = Len(Workload) + 1 \/ i = Len(Workload) + 2
  BY <1>1, <1>2
<1>4. \A i \in 1 .. Len(Steps) : Steps[i] \in PartKinds
  BY <1>1, <1>2, <1>3 DEF PartKinds, CachedKinds
<1>5. ASSUME NEW k \in PartKinds PROVE \E i \in 1 .. Len(Steps) : Steps[i] = k
  <2>1. CASE k \in CachedKinds
    <3>1. PICK i \in 1 .. Len(Workload) : Workload[i] = k
      BY <1>1, <2>1 DEF CachedKinds
    <3>. QED
      BY <1>1, <1>2, <3>1
  <2>2. CASE k = "plugin" \/ k = "link"
    <3>1. Len(Workload) + 1 \in 1 .. Len(Steps) /\ Len(Workload) + 2 \in 1 .. Len(Steps)
      BY <1>1, <1>2
    <3>. QED
      BY <1>2, <2>2, <3>1
  <2>. QED
    BY <2>1, <2>2 DEF PartKinds
<1>. QED
  BY <1>1, <1>2, <1>4, <1>5

LEMMA ContentsAre ==
  /\ \A k, s : s \in Specs => Says(k, s) \in Contents
  /\ Absent \notin Contents /\ Absent \notin AppDashboards
BY InstallSpecsAssumption DEF Says, Specs, Contents

LEMMA DashboardOps ==
  ASSUME NEW o \in DashboardObjects, NEW b \in AppDashboards \cup {Absent}
  PROVE  /\ Listed(b) \in DashboardObjects
         /\ Put(o, b) \in DashboardObjects
         /\ Deliver(o) \in DashboardObjects
         /\ o.obj \in AppDashboards \cup {Absent} /\ o.seen \in AppDashboards \cup {Absent}
         /\ Current(o, "cache") => o.seen = o.obj /\ o.seen \in AppDashboards
BY DEF DashboardObjects, ObjectType, Coherent, Listed, Put, Deliver, Current

LEMMA ConsoleOps ==
  ASSUME NEW o \in ConsoleObjects, NEW b \in Plugins
  PROVE  /\ Listed(b) \in ConsoleObjects
         /\ Put(o, b) \in ConsoleObjects /\ Put(o, b).obj = b
         /\ Deliver(o) \in ConsoleObjects /\ Deliver(o).obj = o.obj
         /\ o.obj \in Plugins /\ o.seen \in Plugins
         /\ Current(o, "cache") => o.seen = o.obj
BY DEF ConsoleObjects, Coherent, Listed, Put, Deliver, Current

\* Patching takes nothing away, and a patch that works leaves the object there.
LEMMA PartOps ==
  ASSUME NEW o \in PartObjects, NEW b \in Contents, NEW copy \in {o.seen, o.obj}
  PROVE  /\ Patched(o, copy, b) \in PartObjects
         /\ Deliver(Patched(o, copy, b)) \in PartObjects
         /\ Deliver(Patched(o, copy, b)).obj = Patched(o, copy, b).obj
         /\ o.obj # Absent => Patched(o, copy, b).obj # Absent
         /\ PatchWorks(o, copy, b) => Patched(o, copy, b).obj # Absent
BY ContentsAre DEF PartObjects, ObjectType, Patched, PatchWorks, Put, Deliver

LEMMA PartReads ==
  ASSUME NEW o \in PartObjects
  PROVE  /\ Deliver(o) \in PartObjects /\ Deliver(o).obj = o.obj
         /\ Listed(o.obj) \in PartObjects /\ Listed(o.obj).obj = o.obj
         /\ Listed(Absent) \in PartObjects
BY DEF PartObjects, ObjectType, Deliver, Listed

LEMMA IdleIs == Idle.pc = "idle" /\ Idle \notin Workers
BY DEF Idle, Workers

LEMMA IInvImpliesTypeOK == Typed => TypeOK
<1>. SUFFICES ASSUME Typed PROVE TypeOK
  OBVIOUS
<1>1. dash \in [Dashboards -> ObjectType(AppDashboards, {"cache"})]
  BY DEF Typed, DashboardObjects
<1>2. parts \in [PartKinds \X PluginNames -> ObjectType(Generations \cup {0}, {"cache"})]
  BY DEF Typed, PartObjects, Contents, Keys
<1>3. console \in ObjectType(SUBSET (PluginNames \cup OtherPlugins), {"cache"})
  BY DEF Typed, ConsoleObjects, Plugins, ObjectType
<1>4. worker = Idle \/ worker \in Workers
  BY DEF Typed
<1>. QED
  BY <1>1, <1>2, <1>3, <1>4 DEF Typed, TypeOK, Workers

----------------------------------------------------------------------------
(* The invariant is inductive *)

LEMMA InitIInv == Init => IInv
<1>. SUFFICES ASSUME Init PROVE IInv
  OBVIOUS
<1>1. dash \in [Dashboards -> DashboardObjects]
  <2>1. PICK s \in [Dashboards -> {t \in Specs : t.gen = 1}] :
          dash = [d \in Dashboards |-> Listed(NewDashboard(s[d]))]
    BY DEF Init
  <2>2. \A d \in Dashboards : NewDashboard(s[d]) \in AppDashboards
    BY <2>1, InstallSpecsAssumption DEF NewDashboard, AppDashboards
  <2>. QED
    BY <2>1, <2>2 DEF DashboardObjects, ObjectType, Coherent, Listed
<1>2. parts \in [Keys -> PartObjects]
  BY DEF Init, Keys, PartObjects, ObjectType, Listed
<1>3. console \in ConsoleObjects /\ console.obj \in SUBSET OtherPlugins
  BY DEF Init, ConsoleObjects, Coherent, Listed, Plugins
<1>4. worker = Idle /\ Behind
  BY IdleIs DEF Init, Behind
<1>5. budget \in 0 .. MaxDisturbances
  BY InstallAssumption DEF Init
<1>6. LoadedIsInstalled
  BY <1>3, InstallAssumption DEF LoadedIsInstalled
<1>. QED
  BY <1>1, <1>2, <1>3, <1>4, <1>5, <1>6 DEF Init, IInv, Typed

LEMMA DisturbTyped == Typed => \A kind : Disturb(kind) => budget' \in 0 .. MaxDisturbances
BY InstallAssumption DEF Typed, Disturb

\* What a worker in the middle of a reconcile holds.
LEMMA WorkerHolds ==
  Typed => (worker # Idle <=> worker \in Workers) /\ (worker.pc # "idle" => worker \in Workers)
BY IdleIs DEF Typed

LEMMA GotoTyped ==
  ASSUME worker \in Workers, NEW pc \in {"install", "console", "enable", "accept", "reject"},
         Goto(pc)
  PROVE  /\ worker' \in Workers /\ worker'.pc = pc
         /\ worker'.spec = worker.spec /\ worker'.key = worker.key
BY DEF Workers, Goto

\* After the last step all are behind the worker.
LEMMA NextStepEffect ==
  ASSUME worker \in Workers, worker.pc = "install", NextStep
  PROVE  /\ worker' \in Workers /\ worker'.spec = worker.spec /\ worker'.key = worker.key
         /\ \/ worker'.pc = "install" /\ worker'.step = worker.step + 1
            \/ worker'.pc \in {"console", "accept"} /\ worker.step = Len(Steps)
<1>1. worker.step \in 1 .. Len(Steps) /\ Len(Steps) \in Nat
  BY StepsAre DEF Workers
<1>2. CASE worker.step < Len(Steps)
  BY <1>1, <1>2 DEF NextStep, Workers
<1>3. CASE ~(worker.step < Len(Steps))
  <2>1. worker.step = Len(Steps)
    BY <1>1, <1>3
  <2>. QED
    BY <1>1, <1>3, <2>1 DEF NextStep, Workers
<1>. QED
  BY <1>2, <1>3

\* Setting the status keeps the AppDashboards typed.
LEMMA SetStatusTyped ==
  ASSUME Typed, worker \in Workers, NEW r \in {"True", "False"}, SetStatus(r)
  PROVE  dash' \in [Dashboards -> DashboardObjects] /\ worker' = Idle
<1>1. Key \in Dashboards /\ dash[Key] \in DashboardObjects
  BY DEF Key, Workers, Typed
<1>2. CASE Current(dash[Key], "cache")
  <2>1. dash[Key].seen \in AppDashboards
    BY <1>1, <1>2, DashboardOps
  <2>2. [spec |-> dash[Key].seen.spec, observed |-> dash[Key].seen.spec.gen, ready |-> r]
          \in AppDashboards
    BY <2>1 DEF AppDashboards, Specs
  <2>. QED
    BY <1>1, <1>2, <2>2, DashboardOps DEF SetStatus, Typed
<1>3. CASE ~Current(dash[Key], "cache")
  BY <1>1, <1>3 DEF SetStatus, Typed
<1>. QED
  BY <1>2, <1>3

\* A step of the install leaves the part there, or skips the link, or fails;
\* nothing else goes.
LEMMA InstallStepEffect ==
  ASSUME Typed, InstallStep
  PROVE  /\ worker \in Workers /\ worker.pc = "install"
         /\ parts' \in [Keys -> PartObjects]
         /\ \A kn \in Keys : parts[kn].obj # Absent => parts'[kn].obj # Absent
         /\ \/ Goto("reject")
            \/ NextStep /\ (Steps[worker.step] # "link" =>
                              parts'[<<Steps[worker.step], Name>>].obj # Absent)
<1>. DEFINE k == Steps[worker.step]
            key == <<k, Name>>
            copy == IF k \in CachedKinds THEN parts[key].seen ELSE parts[key].obj
            b == Says(k, worker.spec)
            written == Patched(parts[key], copy, b)
<1>1. worker \in Workers /\ worker.pc = "install"
  BY WorkerHolds DEF InstallStep
<1>2. worker.step \in 1 .. Len(Steps) /\ worker.spec \in Specs
  BY <1>1 DEF Workers
<1>3. key \in Keys /\ parts[key] \in PartObjects /\ parts \in [Keys -> PartObjects]
  BY <1>2, StepsAre DEF Keys, Typed, Name, Specs
<1>4. b \in Contents /\ copy \in {parts[key].seen, parts[key].obj}
  BY <1>2, ContentsAre
<1>5. CASE UNCHANGED parts /\ (Goto("reject") \/ (NextStep /\ k = "link"))
  BY <1>1, <1>3, <1>5
<1>6. CASE /\ parts' = [parts EXCEPT ![key] = IF k \in CachedKinds THEN written ELSE Deliver(written)]
           /\ IF PatchWorks(parts[key], copy, b) THEN NextStep ELSE Goto("reject")
  <2>. HIDE DEF copy, b, key
  <2>1. /\ written \in PartObjects /\ Deliver(written) \in PartObjects
        /\ Deliver(written).obj = written.obj
        /\ parts[key].obj # Absent => written.obj # Absent
        /\ PatchWorks(parts[key], copy, b) => written.obj # Absent
    BY <1>3, <1>4, PartOps
  <2>2. PICK new \in {written, Deliver(written)} : parts' = [parts EXCEPT ![key] = new]
    BY <1>6
  <2>3. parts' \in [Keys -> PartObjects] /\ parts'[key] = new
        /\ \A kn \in Keys : kn # key => parts'[kn] = parts[kn]
    BY <1>3, <2>1, <2>2
  <2>. QED
    BY <1>1, <1>6, <2>1, <2>2, <2>3 DEF key
<1>. QED
  BY <1>5, <1>6 DEF InstallStep

\* What a step does to the parts: a worker at an install step patches one, the
\* informers read, a restart lists. None goes.
LEMMA PartsStep ==
  ASSUME Typed, Next
  PROVE  /\ parts' \in [Keys -> PartObjects]
         /\ \A kn \in Keys : parts[kn].obj # Absent => parts'[kn].obj # Absent
<1>1. parts \in [Keys -> PartObjects]
  BY DEF Typed
<1>2. CASE UNCHANGED parts
  BY <1>1, <1>2
<1>3. CASE InstallStep
  BY <1>3, InstallStepEffect
<1>4. CASE \E k \in PartKinds, n \in PluginNames : DeliverPart(k, n)
  <2>1. PICK kn \in Keys : parts' = [parts EXCEPT ![kn] = Deliver(parts[kn])]
    BY <1>4 DEF DeliverPart, Keys
  <2>. QED
    BY <1>1, <2>1, PartReads
<1>5. CASE Restart
  <2>1. parts' = [kn \in Keys |-> Listed(parts[kn].obj)]
    BY <1>5 DEF Restart, Keys
  <2>. QED
    BY <1>1, <2>1, PartReads
<1>. QED
  BY <1>2, <1>3, <1>4, <1>5
  DEF Next, Adc, Get, ReadConsole, EnablePlugin, Accept, Reject, Informers, DeliverDashboard,
      Disturbances, ApiError, UserEdits, OthersEditConsole, RouteChanges, Resync

\* The Console: what the worker adds is its own plugin, to the list there is.
LEMMA ConsoleStep ==
  ASSUME Typed, Next
  PROVE  /\ console' \in ConsoleObjects
         /\ \/ console'.obj = console.obj
            \/ EnablePlugin /\ console'.obj = console.obj \cup {Name} /\ Name \in PluginNames
            \/ OthersEditConsole /\ console'.obj \ OtherPlugins = console.obj \ OtherPlugins
<1>1. console \in ConsoleObjects /\ console.obj \in Plugins /\ console.seen \in Plugins
  BY DEF Typed, ConsoleObjects
<1>2. CASE UNCHANGED console
  BY <1>1, <1>2
<1>3. CASE ReadConsole
  BY <1>1, <1>3, ConsoleOps DEF ReadConsole
<1>4. CASE EnablePlugin
  <2>1. worker \in Workers
    BY <1>4, WorkerHolds DEF EnablePlugin
  <2>2. Name \in PluginNames
    BY <2>1 DEF Workers, Specs, Name
  <2>3. console.seen \cup {Name} \in Plugins
    BY <1>1, <2>2 DEF Plugins
  <2>4. CASE Current(console, "cache")
    BY <1>1, <1>4, <2>2, <2>3, <2>4, ConsoleOps DEF EnablePlugin
  <2>5. CASE ~Current(console, "cache")
    BY <1>1, <1>4, <2>5 DEF EnablePlugin
  <2>. QED
    BY <2>4, <2>5
<1>5. CASE OthersEditConsole
  <2>1. PICK p \in OtherPlugins : \/ console' = Put(console, console.obj \cup {p})
                                  \/ console' = Put(console, console.obj \ {p})
    BY <1>5 DEF OthersEditConsole
  <2>2. console.obj \cup {p} \in Plugins /\ console.obj \ {p} \in Plugins
    BY <1>1 DEF Plugins
  <2>3. PICK b : /\ b = console.obj \cup {p} \/ b = console.obj \ {p}
                 /\ console' = Put(console, b)
    BY <2>1
  <2>4. console' \in ConsoleObjects /\ console'.obj = b
    <3>1. b \in Plugins
      BY <2>2, <2>3
    <3>2. Put(console, b) \in ConsoleObjects /\ Put(console, b).obj = b
      BY <1>1, <3>1, ConsoleOps
    <3>. QED
      BY <2>3, <3>2
  <2>5. console'.obj \ OtherPlugins = console.obj \ OtherPlugins
    BY <2>3, <2>4
  <2>. QED
    BY <1>5, <2>4, <2>5
<1>. QED
  BY <1>2, <1>3, <1>4, <1>5
  DEF Next, Adc, Get, InstallStep, Accept, Reject, Informers, DeliverDashboard, DeliverPart,
      Disturbances, ApiError, UserEdits, RouteChanges, Resync, Restart

\* The AppDashboards: the worker writes its status, users write specs.
LEMMA DashboardStep ==
  ASSUME Typed, Next
  PROVE  dash' \in [Dashboards -> DashboardObjects]
<1>1. dash \in [Dashboards -> DashboardObjects]
  BY DEF Typed
<1>2. CASE UNCHANGED dash
  BY <1>1, <1>2
<1>3. CASE Accept \/ Reject
  <2>1. worker \in Workers
    BY <1>3, WorkerHolds DEF Accept, Reject
  <2>2. PICK r \in {"True", "False"} : SetStatus(r)
    BY <1>3 DEF Accept, Reject
  <2>. QED
    BY <2>1, <2>2, SetStatusTyped
<1>4. CASE \E d \in Dashboards : DeliverDashboard(d)
  <2>1. PICK d \in Dashboards : dash' = [dash EXCEPT ![d] = Deliver(dash[d])]
    BY <1>4 DEF DeliverDashboard
  <2>2. Deliver(dash[d]) \in DashboardObjects
    BY <1>1, DashboardOps
  <2>. QED
    BY <1>1, <2>1, <2>2
<1>5. CASE UserEdits
  <2>1. PICK d \in Dashboards :
          /\ dash[d].obj # Absent
          /\ \/ \E s \in UserSpecs[d] :
                  dash' = [dash EXCEPT ![d] = Put(dash[d], [dash[d].obj EXCEPT !.spec = s])]
             \/ dash' = [dash EXCEPT ![d] = Put(dash[d], Absent)]
    BY <1>5 DEF UserEdits
  <2>2. dash[d] \in DashboardObjects /\ dash[d].obj \in AppDashboards
    BY <1>1, <2>1, DashboardOps
  <2>3. \A s \in UserSpecs[d] : [dash[d].obj EXCEPT !.spec = s] \in AppDashboards
    BY <2>2, InstallSpecsAssumption DEF AppDashboards
  <2>4. \A b \in AppDashboards \cup {Absent} : Put(dash[d], b) \in DashboardObjects
    BY <2>2, DashboardOps
  <2>5. PICK b \in AppDashboards \cup {Absent} : dash' = [dash EXCEPT ![d] = Put(dash[d], b)]
    BY <2>1, <2>3
  <2>. QED
    BY <1>1, <2>4, <2>5
<1>6. CASE Restart
  <2>1. dash' = [d \in Dashboards |-> Listed(dash[d].obj)]
    BY <1>6 DEF Restart
  <2>2. \A d \in Dashboards : Listed(dash[d].obj) \in DashboardObjects
    BY <1>1, DashboardOps
  <2>. QED
    BY <2>1, <2>2
<1>. QED
  BY <1>2, <1>3, <1>4, <1>5, <1>6
  DEF Next, Adc, Get, InstallStep, ReadConsole, EnablePlugin, Informers, DeliverPart,
      Disturbances, ApiError, OthersEditConsole, RouteChanges, Resync

\* The worker: what it holds stays typed, and what it has behind it is installed.
LEMMA WorkerStep ==
  ASSUME Typed, Behind, Next
  PROVE  worker' \in {Idle} \cup Workers /\ Behind'
<1>1. \A kn \in Keys : parts[kn].obj # Absent => parts'[kn].obj # Absent
  BY PartsStep
<1>2. worker \in Workers => Name \in PluginNames /\ worker.step \in 1 .. Len(Steps)
  BY DEF Workers, Specs, Name
<1>stay. ASSUME worker' \in Workers, worker \in Workers, worker'.spec = worker.spec,
                \/ worker'.pc = worker.pc /\ worker'.step = worker.step
                \/ worker'.pc = "reject"
                \/ {worker.pc, worker'.pc} \subseteq {"console", "enable", "accept"}
         PROVE  Behind'
  <2>1. Name' = Name /\ Name \in PluginNames
    BY <1>2, <1>stay DEF Name
  <2>2. ASSUME worker'.pc = "install", NEW i \in 1 .. (worker'.step - 1), Steps[i] # "link"
        PROVE  There(Steps[i], Name)'
    <3>1. worker.pc = "install" /\ worker'.step = worker.step /\ worker.step \in 1 .. Len(Steps)
      BY <1>2, <1>stay, <2>2
    <3>2. i \in 1 .. Len(Steps) /\ i \in 1 .. (worker.step - 1)
      BY <2>2, <3>1, StepsAre
    <3>3. There(Steps[i], Name)
      BY <2>2, <3>1, <3>2 DEF Behind
    <3>4. Steps[i] \in PartKinds
      BY <3>2, StepsAre
    <3>. QED
      BY <1>1, <2>1, <3>3, <3>4 DEF There, Keys
  <2>3. ASSUME worker'.pc \in {"console", "enable", "accept"}, NEW k \in PartKinds \ {"link"}
        PROVE  There(k, Name)'
    <3>1. worker.pc \in {"console", "enable", "accept"}
      BY <1>stay, <2>3
    <3>2. There(k, Name)
      BY <2>3, <3>1 DEF Behind
    <3>. QED
      BY <1>1, <2>1, <3>2 DEF There, Keys
  <2>. QED
    BY <2>2, <2>3, StepsAre DEF Behind
<1>idle. ASSUME worker' = Idle PROVE worker' \in {Idle} \cup Workers /\ Behind'
  BY <1>idle, IdleIs DEF Behind
<1>goto. ASSUME worker \in Workers,
                \/ Goto("reject")
                \/ worker.pc = "console" /\ (Goto("accept") \/ Goto("enable"))
                \/ worker.pc = "enable" /\ Goto("accept")
         PROVE  worker' \in {Idle} \cup Workers /\ Behind'
  BY <1>stay, <1>goto, GotoTyped
<1>3. CASE UNCHANGED worker
  BY <1>3, <1>stay, <1>idle DEF Typed
<1>4. CASE \E d \in Dashboards : Get(d)
  <2>1. PICK d \in Dashboards : Get(d)
    BY <1>4
  <2>2. CASE dash[d].seen = Absent
    BY <1>idle, <2>1, <2>2 DEF Get
  <2>3. CASE dash[d].seen # Absent
    <3>1. dash[d].seen \in AppDashboards
      BY <2>3 DEF Typed, DashboardObjects, ObjectType
    <3>2. worker' = [pc |-> "install", step |-> 1, key |-> d, spec |-> dash[d].seen.spec]
      BY <2>1, <2>3 DEF Get
    <3>3. worker' \in Workers
      BY <3>1, <3>2, StepsAre DEF Workers, AppDashboards
    <3>. QED
      BY <3>2, <3>3 DEF Behind
  <2>. QED
    BY <2>2, <2>3
<1>5. CASE InstallStep
  <2>1. worker \in Workers /\ worker.pc = "install"
    BY <1>5, InstallStepEffect
  <2>2. CASE Goto("reject")
    BY <1>goto, <2>1, <2>2
  <2>3. CASE NextStep /\ (Steps[worker.step] # "link" =>
                            parts'[<<Steps[worker.step], Name>>].obj # Absent)
    <3>1. /\ worker' \in Workers /\ Name' = Name /\ Name \in PluginNames
          /\ worker.step \in 1 .. Len(Steps) /\ Len(Steps) \in Nat
          /\ \/ worker'.pc = "install" /\ worker'.step = worker.step + 1
             \/ worker'.pc \in {"console", "accept"} /\ worker.step = Len(Steps)
      BY <1>2, <2>1, <2>3, NextStepEffect, StepsAre DEF Name
    <3>2. ASSUME NEW i \in 1 .. worker.step, Steps[i] # "link"
          PROVE  There(Steps[i], Name)'
      <4>1. CASE i = worker.step
        BY <2>3, <3>1, <3>2, <4>1 DEF There
      <4>2. CASE i # worker.step
        <5>1. i \in 1 .. (worker.step - 1) /\ i \in 1 .. Len(Steps)
          BY <3>1, <4>2
        <5>2. There(Steps[i], Name) /\ Steps[i] \in PartKinds
          BY <2>1, <3>2, <5>1, StepsAre DEF Behind
        <5>. QED
          BY <1>1, <3>1, <5>2 DEF There, Keys
      <4>. QED
        BY <4>1, <4>2
    <3>3. ASSUME worker'.pc = "install", NEW i \in 1 .. (worker'.step - 1), Steps[i] # "link"
          PROVE  There(Steps[i], Name)'
      <4>1. i \in 1 .. worker.step
        BY <3>1, <3>3
      <4>. QED
        BY <3>2, <3>3, <4>1
    <3>4. ASSUME worker'.pc \in {"console", "enable", "accept"}, NEW k \in PartKinds \ {"link"}
          PROVE  There(k, Name)'
      <4>1. PICK i \in 1 .. Len(Steps) : Steps[i] = k
        BY StepsAre
      <4>. QED
        BY <3>1, <3>2, <3>4, <4>1
    <3>. QED
      BY <3>1, <3>3, <3>4 DEF Behind
  <2>. QED
    BY <1>5, <2>2, <2>3, InstallStepEffect
<1>6. CASE ReadConsole \/ EnablePlugin
  <2>1. worker \in Workers
    BY <1>6, WorkerHolds DEF ReadConsole, EnablePlugin
  <2>. QED
    BY <1>6, <1>goto, <2>1 DEF ReadConsole, EnablePlugin
<1>7. CASE Accept \/ Reject \/ Restart
  BY <1>7, <1>idle DEF Accept, Reject, Restart, SetStatus
<1>8. CASE ApiError
  <2>1. worker \in Workers
    BY <1>8, WorkerHolds DEF ApiError
  <2>. QED
    BY <1>8, <1>goto, <1>idle, <2>1 DEF ApiError
<1>. QED
  BY <1>3, <1>4, <1>5, <1>6, <1>7, <1>8
  DEF Next, Adc, Informers, DeliverDashboard, DeliverPart, Disturbances, UserEdits,
      OthersEditConsole, RouteChanges, Resync

\* Queue, route and budget.
LEMMA RestStep ==
  ASSUME Typed, Next
  PROVE  queue' \in SUBSET Dashboards /\ route' \in BOOLEAN /\ budget' \in 0 .. MaxDisturbances
<1>1. queue \in SUBSET Dashboards /\ route \in BOOLEAN /\ budget \in 0 .. MaxDisturbances
  BY DEF Typed
<1>2. \A kind : Disturb(kind) => budget' \in 0 .. MaxDisturbances
  BY DisturbTyped
<1>3. worker # Idle \/ worker.pc # "idle" => Key \in Dashboards
  BY WorkerHolds DEF Key, Workers
<1>4. CASE Adc
  BY <1>1, <1>3, <1>4 DEF Adc, Get, InstallStep, ReadConsole, EnablePlugin, Accept, Reject
<1>5. CASE Informers
  BY <1>1, <1>5 DEF Informers, DeliverDashboard, DeliverPart
<1>6. CASE Disturbances
  <2>1. budget' \in 0 .. MaxDisturbances
    BY <1>2, <1>6 DEF Disturbances, ApiError, UserEdits, OthersEditConsole, RouteChanges, Resync,
       Restart
  <2>2. queue' \in SUBSET Dashboards
    BY <1>1, <1>3, <1>6 DEF Disturbances, ApiError, UserEdits, OthersEditConsole, RouteChanges,
       Resync, Restart
  <2>3. route' \in BOOLEAN
    BY <1>1, <1>6 DEF Disturbances, ApiError, UserEdits, OthersEditConsole, RouteChanges, Resync,
       Restart
  <2>. QED
    BY <2>1, <2>2, <2>3
<1>. QED
  BY <1>4, <1>5, <1>6 DEF Next

LEMMA LoadedStep ==
  ASSUME IInv, Next
  PROVE  LoadedIsInstalled'
<1>1. \A kn \in Keys : parts[kn].obj # Absent => parts'[kn].obj # Absent
  BY PartsStep DEF IInv
<1>2. SUFFICES ASSUME NEW n \in PluginNames, n \in console'.obj, NEW k \in PartKinds \ {"link"}
               PROVE  There(k, n)'
  BY DEF LoadedIsInstalled, There
<1>3. CASE n \in console.obj
  BY <1>1, <1>2, <1>3 DEF IInv, LoadedIsInstalled, There, Keys
<1>4. CASE n \notin console.obj
  <2>1. EnablePlugin /\ n = Name
    BY <1>2, <1>4, ConsoleStep, InstallAssumption DEF IInv
  <2>2. There(k, Name)
    BY <1>2, <2>1 DEF IInv, Behind, EnablePlugin
  <2>. QED
    BY <1>1, <1>2, <2>1, <2>2 DEF There, Keys
<1>. QED
  BY <1>3, <1>4

LEMMA StepIInv == IInv /\ [Next]_vars => IInv'
<1>1. IInv /\ UNCHANGED vars => IInv'
  BY DEF vars, IInv, Typed, Behind, LoadedIsInstalled, There, Name
<1>2. IInv /\ Next => IInv'
  BY DashboardStep, PartsStep, ConsoleStep, WorkerStep, RestStep, LoadedStep DEF IInv, Typed
<1>. QED
  BY <1>1, <1>2

----------------------------------------------------------------------------
LEMMA Strengthened == Spec => []IInv
BY InitIInv, StepIInv, PTL DEF Spec

\* Every variable holds the kind of value the code gives it, for any number of
\* AppDashboards that may share their names.
THEOREM TypeCorrect == Spec => []TypeOK
<1>1. IInv => TypeOK
  BY IInvImpliesTypeOK DEF IInv
<1>. QED
  BY <1>1, Strengthened, PTL

\* However steps fail, restart and interleave with edits, the console loads no
\* plugin of which the operator has yet to install a part.
THEOREM LoadedPluginsInstalled == Spec => []LoadedIsInstalled
<1>1. IInv => LoadedIsInstalled
  BY DEF IInv
<1>. QED
  BY <1>1, Strengthened, PTL

\* The read, extend and write of the list of plugins loses none that others
\* enable meanwhile, and brings back none that they disable.
THEOREM OthersKept == Spec => OtherPluginsKept
<1>. DEFINE Kept ==
       budget' = budget =>
         /\ console'.obj \cap OtherPlugins = console.obj \cap OtherPlugins
         /\ console.obj \subseteq console'.obj
<1>1. ASSUME IInv, [Next]_vars PROVE [Kept]_vars
  <2>1. CASE UNCHANGED vars
    BY <2>1
  <2>2. CASE Next
    <3>1. SUFFICES ASSUME budget' = budget PROVE Kept
      OBVIOUS
    <3>2. ~OthersEditConsole
      <4>1. budget \in Int
        BY <1>1, InstallAssumption DEF IInv, Typed
      <4>2. ~Disturb("console")
        BY <3>1, <4>1 DEF Disturb
      <4>. QED
        BY <4>2, Zenon DEF OthersEditConsole
    <3>. QED
      BY <1>1, <2>2, <3>2, ConsoleStep, InstallAssumption DEF IInv
  <2>. QED
    BY <1>1, <2>1, <2>2
<1>2. Spec => [][Kept]_vars
  BY <1>1, Strengthened, PTL DEF Spec
<1>. QED
  BY <1>2 DEF OtherPluginsKept

----------------------------------------------------------------------------
(* The registry of plugins *)

RegistryKinds == PartKinds \ {"link"}
ThereOf(n) == {k \in RegistryKinds : There(k, n)}

\* A step of the install adds at most the one part of its plugin; the others read.
LEMMA OnePart ==
  ASSUME Typed, Next
  PROVE  \/ \A kn \in Keys : parts'[kn].obj = parts[kn].obj
         \/ \E k \in PartKinds, n \in PluginNames :
              /\ InstallStep
              /\ \A kn \in Keys : kn # <<k, n>> => parts'[kn].obj = parts[kn].obj
<1>1. parts \in [Keys -> PartObjects]
  BY DEF Typed
<1>2. CASE UNCHANGED parts
  BY <1>2
<1>3. CASE InstallStep
  <2>1. worker \in Workers /\ worker.step \in 1 .. Len(Steps) /\ worker.spec \in Specs
    BY <1>3, InstallStepEffect DEF Workers
  <2>2. Steps[worker.step] \in PartKinds /\ Name \in PluginNames
    BY <2>1, StepsAre DEF Specs, Name
  <2>3. <<Steps[worker.step], Name>> \in Keys
    BY <2>2 DEF Keys
  <2>4. \A kn \in Keys : kn # <<Steps[worker.step], Name>> => parts'[kn] = parts[kn]
    BY <1>1, <1>3, <2>3 DEF InstallStep
  <2>. QED
    BY <1>3, <2>2, <2>4
<1>4. CASE \E k \in PartKinds, n \in PluginNames : DeliverPart(k, n)
  <2>1. PICK kn \in Keys : parts' = [parts EXCEPT ![kn] = Deliver(parts[kn])]
    BY <1>4 DEF DeliverPart, Keys
  <2>. QED
    BY <1>1, <2>1, PartReads
<1>5. CASE Restart
  <2>1. parts' = [kn \in Keys |-> Listed(parts[kn].obj)]
    BY <1>5 DEF Restart, Keys
  <2>. QED
    BY <1>1, <2>1, PartReads
<1>. QED
  BY <1>2, <1>3, <1>4, <1>5
  DEF Next, Adc, Get, ReadConsole, EnablePlugin, Accept, Reject, Informers, DeliverDashboard,
      Disturbances, ApiError, UserEdits, OthersEditConsole, RouteChanges, Resync

\* Every step is one of the registry's, or none.
LEMMA RegistryStep ==
  ASSUME IInv, Next
  PROVE  \/ Registry!Next
         \/ UNCHANGED <<[n \in PluginNames |-> ThereOf(n)], console.obj>>
<1>. DEFINE there == [n \in PluginNames |-> ThereOf(n)]
<1>1. \A kn \in Keys : parts[kn].obj # Absent => parts'[kn].obj # Absent
  BY PartsStep DEF IInv
<1>2. CASE console'.obj = console.obj /\ \A kn \in Keys : parts'[kn].obj = parts[kn].obj
  <2>1. \A n \in PluginNames : ThereOf(n)' = ThereOf(n)
    BY <1>2 DEF ThereOf, There, Keys, RegistryKinds
  <2>. QED
    BY <1>2, <2>1
<1>3. CASE InstallStep
  <2>1. console' = console
    BY <1>3 DEF InstallStep
  <2>2. CASE \A kn \in Keys : parts'[kn].obj = parts[kn].obj
    BY <1>2, <2>1, <2>2
  <2>3. CASE \E k \in PartKinds, n \in PluginNames :
              \A kn \in Keys : kn # <<k, n>> => parts'[kn].obj = parts[kn].obj
    <3>1. PICK k \in PartKinds, n \in PluginNames :
            \A kn \in Keys : kn # <<k, n>> => parts'[kn].obj = parts[kn].obj
      BY <2>3
    <3>2. \A m \in PluginNames : m # n => ThereOf(m)' = ThereOf(m)
      BY <3>1 DEF ThereOf, There, Keys, RegistryKinds
    <3>3. \/ ThereOf(n)' = ThereOf(n)
          \/ k \in RegistryKinds /\ ThereOf(n)' = ThereOf(n) \cup {k} /\ k \notin ThereOf(n)
      BY <1>1, <3>1 DEF ThereOf, There, Keys, RegistryKinds
    <3>4. CASE ThereOf(n)' = ThereOf(n)
      BY <2>1, <3>2, <3>4
    <3>5. CASE k \in RegistryKinds /\ ThereOf(n)' = ThereOf(n) \cup {k} /\ k \notin ThereOf(n)
      <4>1. there' = [there EXCEPT ![n] = there[n] \cup {k}] /\ k \in RegistryKinds \ there[n]
        BY <3>2, <3>5
      <4>2. Registry!Install(n)
        BY <2>1, <4>1 DEF Registry!Install, ThereOf, There, RegistryKinds
      <4>. QED
        BY <4>2 DEF Registry!Next
    <3>. QED
      BY <3>3, <3>4, <3>5
  <2>. QED
    BY <2>2, <2>3, OnePart DEF IInv
<1>4. CASE ~InstallStep
  <2>1. \A kn \in Keys : parts'[kn].obj = parts[kn].obj
    BY <1>4, OnePart DEF IInv
  <2>2. there' = there
    BY <2>1 DEF ThereOf, There, Keys, RegistryKinds
  <2>3. CASE console'.obj = console.obj
    BY <1>2, <2>1, <2>3
  <2>4. CASE EnablePlugin /\ console'.obj = console.obj \cup {Name} /\ Name \in PluginNames
    <3>1. there[Name] = RegistryKinds
      BY <2>4 DEF IInv, Behind, EnablePlugin, ThereOf, There, RegistryKinds
    <3>2. Registry!Load(Name)
      BY <2>2, <2>4, <3>1 DEF Registry!Load, ThereOf, There, RegistryKinds
    <3>. QED
      BY <2>4, <3>2 DEF Registry!Next
  <2>5. CASE OthersEditConsole
    <3>1. PICK p \in OtherPlugins : console' \in
            {Put(console, console.obj \cup {p}), Put(console, console.obj \ {p})}
      BY <2>5 DEF OthersEditConsole
    <3>2. console'.obj \in {console.obj \cup {p}, console.obj \ {p}}
      BY <3>1 DEF Put
    <3>3. Registry!OthersChoose
      BY <2>2, <3>2 DEF Registry!OthersChoose, ThereOf, There, RegistryKinds
    <3>. QED
      BY <3>3 DEF Registry!Next
  <2>. QED
    BY <2>3, <2>4, <2>5, ConsoleStep DEF IInv
<1>. QED
  BY <1>3, <1>4

\* Through stale caches, failing steps, conflicts, restarts and renamed plugins, the
\* install shows the behaviour of a registry of plugins and no other.
THEOREM InstallIsRegistry == Spec => IsRegistry
<1>1. Init => Registry!Init
  <2>1. SUFFICES ASSUME Init PROVE Registry!Init
    OBVIOUS
  <2>2. console.obj \in SUBSET OtherPlugins
    BY <2>1 DEF Init, Listed
  <2>3. \A k \in PartKinds, n \in PluginNames : parts[<<k, n>>].obj = Absent
    BY <2>1 DEF Init, Listed
  <2>. QED
    BY <2>2, <2>3 DEF Registry!Init
<1>2. ASSUME IInv, [Next]_vars
      PROVE  [Registry!Next]_<<[n \in PluginNames |-> ThereOf(n)], console.obj>>
  <2>1. CASE UNCHANGED vars
    BY <2>1 DEF vars, ThereOf, There
  <2>2. CASE Next
    BY <1>2, <2>2, RegistryStep
  <2>. QED
    BY <1>2, <2>1, <2>2
<1>3. ASSUME IInv, [Next]_vars
      PROVE  [Registry!Next]_<<[n \in PluginNames |->
                {k \in PartKinds \ {"link"} : parts[<<k, n>>].obj # Absent}], console.obj>>
  BY <1>2, <1>3 DEF ThereOf, There, RegistryKinds
<1>. QED
  BY <1>1, <1>3, Strengthened, PTL DEF Spec, IsRegistry, Registry!Spec

----------------------------------------------------------------------------
(* What is installed at rest *)

Busy(d) == worker # Idle /\ Key = d
Names(d) == {s.name : s \in UserSpecs[d]}
AtMost(o, k, s) == o = Absent \/ o <= Says(k, s)
IsDone(k, s) == parts[<<k, s.name>>].obj = Says(k, s)

\* Specs are those that users write, and come to the cache in order.
InOrder == \A d \in Dashboards :
  /\ dash[d].obj # Absent => dash[d].obj.spec \in UserSpecs[d]
  /\ dash[d].seen # Absent => dash[d].seen.spec \in UserSpecs[d]
  /\ dash[d].obj # Absent =>
       dash[d].seen # Absent /\ dash[d].seen.spec.gen <= dash[d].obj.spec.gen

\* The worker has the spec that the cache has, or will be called again.
HasSpec == worker # Idle =>
  /\ worker.spec \in UserSpecs[Key]
  /\ dash[Key].seen # Absent => worker.spec.gen <= dash[Key].seen.spec.gen
  /\ Key \in queue \/ (dash[Key].seen # Absent /\ worker.spec = dash[Key].seen.spec)

\* No part says more than the cached spec, or than the one that is worked with; the
\* cache is behind the server.
NothingNewer ==
  /\ \A kn \in Keys : parts[kn].seen # Absent => parts[kn].seen <= parts[kn].obj
  /\ \A d \in Dashboards : \A k \in PartKinds, n \in Names(d) :
       /\ dash[d].seen # Absent => AtMost(parts[<<k, n>>].obj, k, dash[d].seen.spec)
       /\ Busy(d) => AtMost(parts[<<k, n>>].obj, k, worker.spec)

\* The steps that the worker has behind it did what they are for.
BehindIsDone ==
  /\ worker.pc = "install" =>
       \A i \in 1 .. (worker.step - 1) :
         Steps[i] # "link" \/ worker.spec.href # "none" => IsDone(Steps[i], worker.spec)
  /\ worker.pc \in {"console", "enable", "accept"} =>
       \A k \in PartKinds : k # "link" \/ worker.spec.href # "none" => IsDone(k, worker.spec)
  /\ worker.pc = "accept" /\ worker.spec.enable => Name \in console.obj

IsInstalled(d) ==
  /\ dash[d].obj.ready = "True" /\ dash[d].obj.observed = dash[d].obj.spec.gen
  /\ Complete(dash[d].obj.spec)

\* An AppDashboard is installed, or the worker will look at it, or is at it.
InstalledOrPending == \A d \in Dashboards :
  dash[d].obj # Absent => ~Settled(dash[d]) \/ d \in queue \/ Busy(d) \/ IsInstalled(d)

HInv ==
  /\ IInv /\ InOrder /\ HasSpec
  /\ NamesApart => NothingNewer /\ BehindIsDone /\ InstalledOrPending
LEMMA NumbersAre ==
  /\ \A c \in Contents : c \in Int
  /\ \A k, s : s \in Specs => Says(k, s) \in Contents /\ s.gen \in Int
  /\ \A k, s, t : s \in Specs /\ t \in Specs /\ s.gen <= t.gen => Says(k, s) <= Says(k, t)
<1>1. Contents \subseteq Int
  BY InstallAssumption DEF Contents, Generations
<1>2. \A s \in Specs : s.gen \in Generations
  BY DEF Specs
<1>3. \A k, s : s \in Specs => Says(k, s) \in Contents /\ s.gen \in Int
  BY <1>1, <1>2 DEF Says, Contents
<1>4. \A k, s, t : s \in Specs /\ t \in Specs /\ s.gen <= t.gen => Says(k, s) <= Says(k, t)
  BY DEF Says
<1>. QED
  BY <1>1, <1>3, <1>4

\* What an AppDashboard has and the worker holds is one of the specs.
LEMMA SpecsHeld ==
  ASSUME Typed
  PROVE  /\ \A d \in Dashboards :
              /\ dash[d] \in DashboardObjects
              /\ dash[d].obj # Absent => dash[d].obj \in AppDashboards /\ dash[d].obj.spec \in Specs
              /\ dash[d].seen # Absent => dash[d].seen \in AppDashboards /\ dash[d].seen.spec \in Specs
         /\ worker # Idle => /\ worker \in Workers /\ Key \in Dashboards /\ worker.spec \in Specs
                             /\ Name \in PluginNames /\ worker.step \in 1 .. Len(Steps)
<1>1. \A d \in Dashboards : dash[d] \in DashboardObjects
  BY DEF Typed
<1>2. \A b \in AppDashboards : b.spec \in Specs
  BY DEF AppDashboards
<1>3. worker # Idle => worker \in Workers
  BY DEF Typed
<1>. QED
  BY <1>1, <1>2, <1>3 DEF DashboardObjects, ObjectType, Workers, Key, Name, Specs

\* What a step does to an AppDashboard: nothing, or the worker reports on it, or the
\* cache has it and its key is enqueued, or a user edits or deletes it.
LEMMA DashboardChange ==
  ASSUME Typed, Next, NEW d \in Dashboards
  PROVE  \/ dash'[d] = dash[d]
         \/ /\ Busy(d) /\ (Accept \/ Reject) /\ dash'[d].seen = dash[d].seen
            /\ dash[d].obj # Absent /\ dash'[d].obj # Absent /\ dash[d].seen = dash[d].obj
            /\ dash'[d].obj.spec = dash[d].obj.spec
         \/ /\ dash'[d].obj = dash[d].obj /\ dash'[d].seen = dash[d].obj
            /\ dash[d].obj # Absent => d \in queue'
            /\ DeliverDashboard(d) \/ Restart
         \/ /\ UserEdits /\ dash'[d].seen = dash[d].seen /\ dash[d].obj # Absent
            /\ \/ dash'[d].obj = Absent
               \/ /\ dash'[d].obj # Absent /\ dash'[d].obj.spec \in UserSpecs[d] /\ ~Settled(dash'[d])
                  /\ dash'[d].obj.spec.gen = dash[d].obj.spec.gen + 1
<1>1. /\ dash \in [Dashboards -> DashboardObjects]
      /\ dash[d].obj # Absent => dash[d].obj \in AppDashboards /\ dash[d].obj.spec \in Specs
  BY SpecsHeld DEF Typed
<1>2. CASE UNCHANGED dash
  BY <1>2
<1>3. CASE Accept \/ Reject
  <2>1. worker # Idle /\ Key \in Dashboards
    BY <1>3, WorkerHolds, IdleIs DEF Accept, Reject, Key, Workers
  <2>2. PICK r \in {"True", "False"} : SetStatus(r)
    BY <1>3 DEF Accept, Reject
  <2>3. CASE d # Key \/ ~Current(dash[Key], "cache")
    BY <1>1, <2>1, <2>2, <2>3 DEF SetStatus
  <2>4. CASE d = Key /\ Current(dash[Key], "cache")
    <3>1. dash[d].seen = dash[d].obj /\ dash[d].seen # Absent /\ dash[d].seen \in AppDashboards
      BY <1>1, <2>4 DEF Current, DashboardObjects, Coherent, ObjectType
    <3>2. PICK b : /\ b = [spec |-> dash[d].seen.spec, observed |-> dash[d].seen.spec.gen, ready |-> r]
                   /\ dash' = [dash EXCEPT ![d] = Put(dash[d], b)]
      BY <2>2, <2>4 DEF SetStatus
    <3>3. b \in AppDashboards /\ b.spec = dash[d].obj.spec
      BY <3>1, <3>2 DEF AppDashboards, Specs
    <3>4. b # Absent
      BY <3>3, ContentsAre
    <3>5. dash'[d].obj = b /\ dash'[d].seen = dash[d].seen
      BY <1>1, <3>2 DEF Put
    <3>. QED
      BY <1>3, <2>1, <2>4, <3>1, <3>3, <3>4, <3>5 DEF Busy
  <2>. QED
    BY <2>3, <2>4
<1>4. CASE \E e \in Dashboards : DeliverDashboard(e)
  <2>1. PICK e \in Dashboards : DeliverDashboard(e)
    BY <1>4
  <2>3. dash' = [dash EXCEPT ![e] = Deliver(dash[e])] /\ queue' = queue \cup {e}
    BY <2>1 DEF DeliverDashboard
  <2>4. CASE d = e
    <3>1. dash'[d] = Deliver(dash[d])
      BY <1>1, <2>3, <2>4
    <3>. QED
      BY <2>1, <2>3, <2>4, <3>1 DEF Deliver
  <2>. QED
    BY <1>1, <2>3, <2>4
<1>5. CASE UserEdits
  <2>1. PICK e \in Dashboards :
          /\ dash[e].obj # Absent
          /\ \/ \E s \in {t \in UserSpecs[e] : t.gen = dash[e].obj.spec.gen + 1} :
                  dash' = [dash EXCEPT ![e] = Put(dash[e], [dash[e].obj EXCEPT !.spec = s])]
             \/ dash' = [dash EXCEPT ![e] = Put(dash[e], Absent)]
    BY <1>5 DEF UserEdits
  <2>2. CASE d # e
    BY <1>1, <2>1, <2>2
  <2>3. CASE d = e /\ dash' = [dash EXCEPT ![e] = Put(dash[e], Absent)]
    BY <1>1, <1>5, <2>1, <2>3 DEF Put
  <2>4. CASE d = e /\ \E s \in {t \in UserSpecs[e] : t.gen = dash[e].obj.spec.gen + 1} :
                dash' = [dash EXCEPT ![e] = Put(dash[e], [dash[e].obj EXCEPT !.spec = s])]
    <3>1. PICK s \in {t \in UserSpecs[e] : t.gen = dash[e].obj.spec.gen + 1} :
            dash' = [dash EXCEPT ![e] = Put(dash[e], [dash[e].obj EXCEPT !.spec = s])]
      BY <2>4
    <3>2. PICK b : b = [dash[d].obj EXCEPT !.spec = s]
      OBVIOUS
    <3>3. s \in Specs /\ b \in AppDashboards /\ b.spec = s
      BY <1>1, <2>1, <2>4, <3>1, <3>2, InstallSpecsAssumption DEF AppDashboards
    <3>4. s.gen # dash[d].obj.spec.gen /\ b # Absent
      BY <1>1, <2>1, <2>4, <3>1, <3>3, NumbersAre, ContentsAre
    <3>5. dash'[d] = Put(dash[d], b) /\ b # dash[d].obj
      BY <1>1, <2>4, <3>1, <3>2, <3>3, <3>4
    <3>. QED
      BY <1>5, <2>1, <2>4, <3>1, <3>3, <3>4, <3>5 DEF Put, Settled
  <2>. QED
    BY <2>1, <2>2, <2>3, <2>4
<1>6. CASE Restart
  BY <1>1, <1>6 DEF Restart, Listed
<1>. QED
  BY <1>2, <1>3, <1>4, <1>5, <1>6
  DEF Next, Adc, Get, InstallStep, ReadConsole, EnablePlugin, Informers, DeliverPart,
      Disturbances, ApiError, OthersEditConsole, RouteChanges, Resync


\* The worker drops what it is at, takes up an AppDashboard from the cache, or goes on
\* with what it has. It drops an AppDashboard that it has not reported on only to
\* come back to it.
LEMMA WorkerChange ==
  ASSUME Typed, Next
  PROVE  /\ \/ worker' = Idle
            \/ \E d \in Dashboards : Get(d) /\ worker = Idle /\ dash[d].seen # Absent
                 /\ worker'.key = d /\ worker'.spec = dash[d].seen.spec /\ worker' # Idle
            \/ /\ worker' # Idle /\ worker # Idle
               /\ worker'.key = worker.key /\ worker'.spec = worker.spec
         /\ \A d \in queue : d \in queue' \/ Get(d) \/ Restart
         /\ worker # Idle /\ worker' = Idle => Key \in queue' \/ Accept \/ Restart
<1>1. worker # Idle => worker \in Workers
  BY WorkerHolds
<1>2. \A pc : worker \in Workers /\ pc \in {"install", "console", "enable", "accept", "reject"} /\ Goto(pc)
        => worker' \in Workers /\ worker'.key = worker.key /\ worker'.spec = worker.spec
  BY DEF Goto, Workers
<1>3. CASE UNCHANGED worker /\ queue \subseteq queue'
  BY <1>3
<1>4. CASE \E d \in Dashboards : Get(d)
  <2>1. PICK d \in Dashboards : Get(d)
    BY <1>4
  <2>2. worker = Idle /\ queue' = queue \ {d}
    BY <2>1 DEF Get
  <2>3. CASE dash[d].seen = Absent
    BY <2>1, <2>2, <2>3 DEF Get
  <2>4. CASE dash[d].seen # Absent
    <3>1. worker' = [pc |-> "install", step |-> 1, key |-> d, spec |-> dash[d].seen.spec]
      BY <2>1, <2>4 DEF Get
    <3>2. worker' # Idle
      BY <3>1, IdleIs
    <3>. QED
      BY <2>1, <2>2, <2>4, <3>1, <3>2
  <2>. QED
    BY <2>3, <2>4
<1>5. CASE InstallStep
  <2>1. worker \in Workers /\ worker.pc = "install" /\ (Goto("reject") \/ NextStep)
    BY <1>5, InstallStepEffect
  <2>2. worker' \in Workers /\ worker'.key = worker.key /\ worker'.spec = worker.spec
    BY <1>2, <2>1, NextStepEffect
  <2>3. queue' = queue
    BY <1>5 DEF InstallStep
  <2>. QED
    BY <2>1, <2>2, <2>3, IdleIs
<1>6. CASE ReadConsole \/ EnablePlugin
  <2>1. worker \in Workers /\ queue' = queue
    BY <1>6, WorkerHolds DEF ReadConsole, EnablePlugin
  <2>2. worker' \in Workers /\ worker'.key = worker.key /\ worker'.spec = worker.spec
    BY <1>2, <1>6, <2>1 DEF ReadConsole, EnablePlugin
  <2>. QED
    BY <2>1, <2>2, IdleIs
<1>7. CASE Accept \/ Reject
  BY <1>7 DEF Accept, Reject, SetStatus
<1>8. CASE ApiError
  <2>1. worker \in Workers
    BY <1>1, <1>8 DEF ApiError
  <2>2. CASE Goto("reject") /\ UNCHANGED queue
    BY <1>2, <2>1, <2>2, IdleIs
  <2>3. CASE worker' = Idle /\ queue' = queue \cup {Key}
    BY <2>3
  <2>. QED
    BY <1>8, <2>2, <2>3 DEF ApiError
<1>9. CASE Restart
  BY <1>9 DEF Restart
<1>. QED
  BY <1>3, <1>4, <1>5, <1>6, <1>7, <1>8, <1>9
  DEF Next, Adc, Informers, DeliverDashboard, DeliverPart, Disturbances, UserEdits,
      OthersEditConsole, RouteChanges, Resync

LEMMA InOrderStep ==
  ASSUME Typed, InOrder, Next
  PROVE  InOrder'
<1>. SUFFICES ASSUME NEW d \in Dashboards
     PROVE  /\ dash'[d].obj # Absent => dash'[d].obj.spec \in UserSpecs[d]
            /\ dash'[d].seen # Absent => dash'[d].seen.spec \in UserSpecs[d]
            /\ dash'[d].obj # Absent =>
                 dash'[d].seen # Absent /\ dash'[d].seen.spec.gen <= dash'[d].obj.spec.gen
  BY DEF InOrder
<1>1. /\ dash[d].obj # Absent => dash[d].obj.spec \in UserSpecs[d]
      /\ dash[d].seen # Absent => dash[d].seen.spec \in UserSpecs[d]
      /\ dash[d].obj # Absent =>
           dash[d].seen # Absent /\ dash[d].seen.spec.gen <= dash[d].obj.spec.gen
  BY DEF InOrder
<1>2. /\ dash[d].obj # Absent => dash[d].obj.spec.gen \in Int
      /\ dash[d].seen # Absent => dash[d].seen.spec.gen \in Int
  BY SpecsHeld, NumbersAre
<1>. QED
  BY <1>1, <1>2, DashboardChange

LEMMA HasSpecStep ==
  ASSUME Typed, InOrder, HasSpec, Next
  PROVE  HasSpec'
<1>. SUFFICES ASSUME worker' # Idle
     PROVE  /\ worker'.spec \in UserSpecs[worker'.key]
            /\ dash'[worker'.key].seen # Absent
                 => worker'.spec.gen <= dash'[worker'.key].seen.spec.gen
            /\ \/ worker'.key \in queue'
               \/ dash'[worker'.key].seen # Absent /\ worker'.spec = dash'[worker'.key].seen.spec
  BY DEF HasSpec, Key
<1>1. CASE worker = Idle
  <2>1. PICK d \in Dashboards : Get(d) /\ dash[d].seen # Absent
          /\ worker'.key = d /\ worker'.spec = dash[d].seen.spec
    BY <1>1, WorkerChange
  <2>2. dash' = dash
    BY <2>1 DEF Get
  <2>3. dash[d].seen.spec \in UserSpecs[d] /\ dash[d].seen.spec.gen \in Int
    BY <2>1, SpecsHeld, NumbersAre DEF InOrder
  <2>. QED
    BY <2>1, <2>2, <2>3
<1>2. CASE worker # Idle
  <2>1. PICK d \in Dashboards : d = Key
    BY <1>2, SpecsHeld
  <2>2. worker'.key = d /\ worker'.spec = worker.spec
    BY <1>2, <2>1, WorkerChange DEF Get, Key
  <2>3. /\ worker.spec \in UserSpecs[d]
        /\ dash[d].seen # Absent => worker.spec.gen <= dash[d].seen.spec.gen
        /\ d \in queue \/ (dash[d].seen # Absent /\ worker.spec = dash[d].seen.spec)
    BY <1>2, <2>1 DEF HasSpec
  <2>4. d \in queue => d \in queue'
    BY <1>2, WorkerChange DEF Get, Restart
  <2>5. CASE dash'[d].seen = dash[d].seen
    BY <2>2, <2>3, <2>4, <2>5
  <2>6. CASE DeliverDashboard(d) /\ dash'[d].seen = dash[d].obj
    <3>1. d \in queue'
      BY <2>6 DEF DeliverDashboard
    <3>2. dash[d].obj # Absent =>
            /\ worker.spec.gen <= dash[d].seen.spec.gen /\ dash[d].seen.spec.gen <= dash[d].obj.spec.gen
            /\ worker.spec.gen \in Int /\ dash[d].seen.spec.gen \in Int /\ dash[d].obj.spec.gen \in Int
      BY <1>2, <2>3, SpecsHeld, NumbersAre DEF InOrder
    <3>. QED
      BY <2>2, <2>3, <2>6, <3>1, <3>2
  <2>. QED
    BY <2>5, <2>6, DashboardChange DEF Restart
<1>. QED
  BY <1>1, <1>2


\* A name tells whose it is.
LEMMA OwnName ==
  ASSUME NamesApart, Typed, HasSpec, worker # Idle
  PROVE  Name \in Names(Key) /\ \A d \in Dashboards : Name \in Names(d) => d = Key
BY SpecsHeld DEF NamesApart, HasSpec, Names, Name

\* A patch that works leaves what is to be there, for all that the cache lags behind:
\* the part is not newer than the patch.
LEMMA PatchDoes ==
  ASSUME NEW o \in PartObjects, NEW b \in Contents, NEW copy \in {o.seen, o.obj},
         o.seen # Absent => o.seen <= o.obj, o.obj = Absent \/ o.obj <= b
  PROVE  /\ PatchWorks(o, copy, b) => Patched(o, copy, b).obj = b
         /\ ~PatchWorks(o, copy, b) => Patched(o, copy, b).obj = o.obj
         /\ Patched(o, copy, b).seen = o.seen
<1>1. b # Absent /\ b \in Int /\ (o.obj # Absent => o.obj \in Int) /\ (o.seen # Absent => o.obj # Absent)
  BY ContentsAre, NumbersAre DEF PartObjects, ObjectType
<1>2. copy = b => o.obj = b
  <2>1. CASE copy = o.seen
    BY <1>1, <2>1
  <2>. QED
    BY <2>1
<1>. QED
  BY <1>1, <1>2 DEF PatchWorks, Patched, Put

\* What a step of the install does: it has its part say what the spec says, or skips
\* the link, or fails.
LEMMA InstallStepDoes ==
  ASSUME NamesApart, Typed, InOrder, HasSpec, NothingNewer, InstallStep
  PROVE  LET k == Steps[worker.step]
             key == <<k, Name>>
         IN  /\ worker \in Workers /\ worker.pc = "install" /\ k \in PartKinds /\ key \in Keys
             /\ \A kn \in Keys \ {key} : parts'[kn] = parts[kn]
             /\ \/ parts'[key].obj = parts[key].obj /\ Goto("reject")
                \/ parts'[key].obj = parts[key].obj /\ NextStep /\ k = "link" /\ worker.spec.href = "none"
                \/ parts'[key].obj = Says(k, worker.spec) /\ NextStep
             /\ parts'[key].seen \in {parts[key].seen, parts[key].obj, parts'[key].obj}
<1>. DEFINE k == Steps[worker.step]
            key == <<k, Name>>
            o == parts[key]
            copy == IF k \in CachedKinds THEN o.seen ELSE o.obj
            b == Says(k, worker.spec)
            written == Patched(o, copy, b)
<1>1. worker \in Workers /\ worker.pc = "install" /\ worker # Idle
  BY InstallStepEffect, IdleIs
<1>2. k \in PartKinds /\ Name \in PluginNames /\ worker.spec \in Specs /\ Key \in Dashboards
  BY <1>1, SpecsHeld, StepsAre
<1>3. key \in Keys /\ o \in PartObjects /\ parts \in [Keys -> PartObjects]
  BY <1>2 DEF Keys, Typed
<1>4. b \in Contents /\ copy \in {o.seen, o.obj}
  BY <1>2, ContentsAre
<1>5. (o.seen # Absent => o.seen <= o.obj) /\ (o.obj = Absent \/ o.obj <= b)
  <2>1. o.seen # Absent => o.seen <= o.obj
    BY <1>3 DEF NothingNewer
  <2>2. Name \in Names(Key) /\ Busy(Key)
    BY <1>1, OwnName DEF Busy
  <2>3. AtMost(o.obj, k, worker.spec)
    BY <1>2, <2>2 DEF NothingNewer
  <2>. QED
    BY <2>1, <2>3 DEF AtMost
<1>6. CASE UNCHANGED parts /\ (Goto("reject") \/ (NextStep /\ k = "link" /\ worker.spec.href = "none"))
  BY <1>1, <1>2, <1>3, <1>6
<1>7. CASE /\ parts' = [parts EXCEPT ![key] = IF k \in CachedKinds THEN written ELSE Deliver(written)]
           /\ IF PatchWorks(o, copy, b) THEN NextStep ELSE Goto("reject")
  <2>. HIDE DEF copy, b, key
  <2>1. /\ PatchWorks(o, copy, b) => written.obj = b
        /\ ~PatchWorks(o, copy, b) => written.obj = o.obj
        /\ written.seen = o.seen
    BY <1>3, <1>4, <1>5, PatchDoes
  <2>2. PICK new \in {written, Deliver(written)} : parts' = [parts EXCEPT ![key] = new]
    BY <1>7
  <2>3. new.obj = written.obj /\ new.seen \in {written.seen, written.obj}
    BY <2>2 DEF Deliver
  <2>4. parts'[key] = new /\ \A kn \in Keys : kn # key => parts'[kn] = parts[kn]
    BY <1>3, <2>2
  <2>. QED
    BY <1>1, <1>2, <1>3, <1>7, <2>1, <2>3, <2>4 DEF b, key
<1>. QED
  BY <1>6, <1>7 DEF InstallStep

\* Apart from that the parts are read only.
LEMMA PartChange ==
  ASSUME Typed, Next
  PROVE  \/ InstallStep
         \/ \A kn \in Keys : /\ parts'[kn].obj = parts[kn].obj
                             /\ parts'[kn].seen \in {parts[kn].seen, parts[kn].obj}
<1>1. parts \in [Keys -> PartObjects]
  BY DEF Typed
<1>2. CASE UNCHANGED parts
  BY <1>2
<1>3. CASE \E k \in PartKinds, n \in PluginNames : DeliverPart(k, n)
  <2>1. PICK kn \in Keys : parts' = [parts EXCEPT ![kn] = Deliver(parts[kn])]
    BY <1>3 DEF DeliverPart, Keys
  <2>. QED
    BY <1>1, <2>1 DEF Deliver
<1>4. CASE Restart
  <2>1. parts' = [kn \in Keys |-> Listed(parts[kn].obj)]
    BY <1>4 DEF Restart, Keys
  <2>. QED
    BY <1>1, <2>1 DEF Listed
<1>. QED
  BY <1>2, <1>3, <1>4
  DEF Next, Adc, Get, ReadConsole, EnablePlugin, Accept, Reject, Informers, DeliverDashboard,
      Disturbances, ApiError, UserEdits, OthersEditConsole, RouteChanges, Resync

\* The Console keeps the plugins of the operator.
LEMMA ConsoleKeeps ==
  ASSUME Typed, Next, NEW n \in PluginNames, n \in console.obj
  PROVE  n \in console'.obj
BY ConsoleStep, InstallAssumption

LEMMA NothingNewerStep ==
  ASSUME NamesApart, Typed, InOrder, HasSpec, NothingNewer, Next
  PROVE  NothingNewer'
<1>0. /\ \A kn \in Keys : /\ parts[kn].obj # Absent => parts[kn].obj \in Int
                          /\ parts[kn].seen # Absent => parts[kn].seen \in Int /\ parts[kn].obj # Absent
      /\ worker # Idle => worker.spec \in Specs /\ Key \in Dashboards
  BY SpecsHeld, NumbersAre DEF Typed, PartObjects, ObjectType
<1>1. ASSUME NEW kn \in Keys PROVE parts'[kn].seen # Absent => parts'[kn].seen <= parts'[kn].obj
  <2>1. parts[kn].seen # Absent => parts[kn].seen <= parts[kn].obj
    BY DEF NothingNewer
  <2>2. CASE parts'[kn].obj = parts[kn].obj /\ parts'[kn].seen \in {parts[kn].seen, parts[kn].obj}
    BY <1>0, <2>1, <2>2
  <2>3. CASE InstallStep
    <3>. DEFINE k == Steps[worker.step]
                key == <<k, Name>>
    <3>1. /\ \A ln \in Keys \ {key} : parts'[ln] = parts[ln]
          /\ parts'[key].obj = parts[key].obj \/ parts'[key].obj = Says(k, worker.spec)
          /\ parts'[key].seen \in {parts[key].seen, parts[key].obj, parts'[key].obj}
          /\ k \in PartKinds /\ worker \in Workers
      BY <2>3, InstallStepDoes
    <3>2. CASE kn = key
      <4>1. worker # Idle /\ Name \in Names(Key) /\ Busy(Key)
        BY <3>1, IdleIs, OwnName DEF Busy
      <4>2. AtMost(parts[key].obj, k, worker.spec)
        BY <1>0, <3>1, <4>1 DEF NothingNewer
      <4>3. Says(k, worker.spec) \in Int
        BY <1>0, <4>1, NumbersAre
      <4>. QED
        BY <1>0, <2>1, <3>1, <3>2, <4>2, <4>3 DEF AtMost
    <3>3. CASE kn # key
      BY <2>1, <3>1, <3>3
    <3>. QED
      BY <3>2, <3>3
  <2>. QED
    BY <2>2, <2>3, PartChange
<1>2. ASSUME NEW d \in Dashboards, NEW k \in PartKinds, NEW n \in Names(d)
      PROVE  /\ dash'[d].seen # Absent => AtMost(parts'[<<k, n>>].obj, k, dash'[d].seen.spec)
             /\ Busy(d)' => AtMost(parts'[<<k, n>>].obj, k, worker'.spec)
  <2>. DEFINE kn == <<k, n>>
  <2>1. n \in PluginNames /\ kn \in Keys
    BY InstallSpecsAssumption DEF Names, Specs, Keys
  <2>2. /\ dash[d].seen # Absent => AtMost(parts[kn].obj, k, dash[d].seen.spec)
        /\ Busy(d) => AtMost(parts[kn].obj, k, worker.spec)
    BY DEF NothingNewer
  <2>3. ASSUME NEW s \in Specs, NEW t \in Specs, s.gen <= t.gen, AtMost(parts[kn].obj, k, s)
        PROVE  AtMost(parts[kn].obj, k, t)
    BY <1>0, <2>1, <2>3, NumbersAre DEF AtMost
  <2>4. CASE parts'[kn].obj = parts[kn].obj
    <3>1. ASSUME dash'[d].seen # Absent PROVE AtMost(parts[kn].obj, k, dash'[d].seen.spec)
      <4>1. CASE dash'[d].seen = dash[d].seen
        BY <2>2, <3>1, <4>1
      <4>2. CASE dash'[d].seen = dash[d].obj
        BY <2>2, <2>3, <3>1, <4>2, SpecsHeld DEF InOrder
      <4>. QED
        BY <4>1, <4>2, DashboardChange
    <3>2. ASSUME Busy(d)' PROVE AtMost(parts[kn].obj, k, worker'.spec)
      <4>1. CASE worker # Idle
        BY <2>2, <3>2, <4>1, WorkerChange DEF Busy, Key, Get
      <4>2. CASE worker = Idle
        BY <2>2, <3>2, <4>2, WorkerChange DEF Busy, Key
      <4>. QED
        BY <4>1, <4>2
    <3>. QED
      BY <2>4, <3>1, <3>2
  <2>5. CASE parts'[kn].obj # parts[kn].obj
    <3>1. InstallStep
      BY <2>1, <2>5, PartChange
    <3>2. /\ kn = <<Steps[worker.step], Name>> /\ parts'[kn].obj = Says(Steps[worker.step], worker.spec)
          /\ worker \in Workers /\ worker # Idle
      BY <2>1, <2>5, <3>1, InstallStepDoes, IdleIs
    <3>3. n = Name /\ k = Steps[worker.step] /\ parts'[kn].obj = Says(k, worker.spec)
      BY <3>2
    <3>4. d = Key
      BY <3>2, <3>3, OwnName
    <3>5. AtMost(parts'[kn].obj, k, worker.spec)
      BY <1>0, <3>2, <3>3, NumbersAre DEF AtMost
    <3>6. dash' = dash
      BY <3>1 DEF InstallStep
    <3>7. dash[d].seen # Absent => AtMost(parts'[kn].obj, k, dash[d].seen.spec)
      BY <1>0, <3>2, <3>3, <3>4, SpecsHeld, NumbersAre DEF AtMost, HasSpec
    <3>8. Busy(d)' => worker'.spec = worker.spec
      BY <3>2, WorkerChange DEF Busy
    <3>. QED
      BY <3>5, <3>6, <3>7, <3>8
  <2>. QED
    BY <2>4, <2>5
<1>. QED
  BY <1>1, <1>2 DEF NothingNewer, Names


\* What the worker has behind it stays done, and a step that works adds to it.
LEMMA BehindIsDoneStep ==
  ASSUME NamesApart, Typed, InOrder, HasSpec, NothingNewer, BehindIsDone, Next
  PROVE  BehindIsDone'
<1>. DEFINE Meant(k) == k # "link" \/ worker.spec.href # "none"
<1>1. worker \in Workers => /\ Name \in PluginNames /\ worker.step \in 1 .. Len(Steps)
                            /\ worker # Idle /\ worker.spec \in Specs
  BY SpecsHeld, IdleIs
<1>idle. ASSUME worker' = Idle PROVE BehindIsDone'
  BY <1>idle, IdleIs DEF BehindIsDone
<1>stay. ASSUME ~InstallStep, worker \in Workers, worker'.spec = worker.spec,
                \/ worker'.pc = worker.pc /\ worker'.step = worker.step
                \/ worker'.pc = "reject"
                \/ /\ {worker.pc, worker'.pc} \subseteq {"console", "enable", "accept"}
                   /\ worker'.pc = "accept" => Name \in console'.obj
         PROVE  BehindIsDone'
  <2>1. \A k \in PartKinds : IsDone(k, worker.spec) => IsDone(k, worker.spec)'
    <3>1. \A k \in PartKinds : parts'[<<k, Name>>].obj = parts[<<k, Name>>].obj
      BY <1>1, <1>stay, PartChange DEF Keys
    <3>. QED
      BY <1>stay, <3>1 DEF IsDone, Name
  <2>2. ASSUME worker'.pc = "install", NEW i \in 1 .. (worker'.step - 1), Meant(Steps[i])
        PROVE  IsDone(Steps[i], worker.spec)'
    <3>1. worker.pc = "install" /\ worker'.step = worker.step /\ i \in 1 .. (worker.step - 1)
      BY <1>stay, <2>2
    <3>2. Steps[i] \in PartKinds
      BY <1>1, <1>stay, <3>1, StepsAre
    <3>3. IsDone(Steps[i], worker.spec)
      BY <2>2, <3>1 DEF BehindIsDone
    <3>. QED
      BY <2>1, <3>2, <3>3
  <2>3. ASSUME worker'.pc \in {"console", "enable", "accept"}, NEW k \in PartKinds, Meant(k)
        PROVE  IsDone(k, worker.spec)'
    <3>1. worker.pc \in {"console", "enable", "accept"}
      BY <1>stay, <2>3
    <3>. QED
      BY <2>1, <2>3, <3>1 DEF BehindIsDone
  <2>4. ASSUME worker'.pc = "accept", worker.spec.enable PROVE Name \in console'.obj
    BY <1>1, <1>stay, <2>4, ConsoleKeeps DEF BehindIsDone
  <2>5. Name' = Name
    BY <1>stay DEF Name
  <2>. QED
    BY <1>stay, <2>2, <2>3, <2>4, <2>5 DEF BehindIsDone, IsDone
<1>2. CASE UNCHANGED worker /\ ~InstallStep
  BY <1>2, <1>stay, <1>idle DEF Typed
<1>3. CASE \E d \in Dashboards : Get(d)
  <2>1. PICK d \in Dashboards : Get(d)
    BY <1>3
  <2>2. CASE dash[d].seen = Absent
    BY <1>idle, <2>1, <2>2 DEF Get
  <2>3. CASE dash[d].seen # Absent
    <3>1. worker' = [pc |-> "install", step |-> 1, key |-> d, spec |-> dash[d].seen.spec]
      BY <2>1, <2>3 DEF Get
    <3>. QED
      BY <3>1 DEF BehindIsDone
  <2>. QED
    BY <2>2, <2>3
<1>4. CASE InstallStep
  <2>. DEFINE key == <<Steps[worker.step], Name>>
  <2>1. /\ worker \in Workers /\ worker.pc = "install" /\ Steps[worker.step] \in PartKinds
        /\ \A kn \in Keys \ {key} : parts'[kn] = parts[kn]
        /\ \/ parts'[key].obj = parts[key].obj /\ Goto("reject")
           \/ parts'[key].obj = parts[key].obj /\ NextStep /\ ~Meant(Steps[worker.step])
           \/ parts'[key].obj = Says(Steps[worker.step], worker.spec) /\ NextStep
    BY <1>4, InstallStepDoes
  <2>2. CASE Goto("reject")
    BY <2>1, <2>2, GotoTyped DEF BehindIsDone
  <2>3. CASE NextStep /\ (Meant(Steps[worker.step]) =>
                            parts'[key].obj = Says(Steps[worker.step], worker.spec))
    <3>1. /\ worker'.spec = worker.spec /\ Name' = Name
          /\ worker.step \in 1 .. Len(Steps) /\ Len(Steps) \in Nat
          /\ \/ worker'.pc = "install" /\ worker'.step = worker.step + 1
             \/ worker'.pc \in {"console", "accept"} /\ worker.step = Len(Steps)
      BY <1>1, <2>1, <2>3, NextStepEffect, StepsAre DEF Name
    <3>2. ASSUME NEW i \in 1 .. worker.step, Meant(Steps[i])
          PROVE  IsDone(Steps[i], worker.spec)'
      <4>1. Steps[i] \in PartKinds /\ <<Steps[i], Name>> \in Keys
        BY <1>1, <2>1, <3>1, StepsAre DEF Keys
      <4>2. CASE Steps[i] = Steps[worker.step]
        BY <2>3, <3>1, <3>2, <4>2 DEF IsDone, Name
      <4>3. CASE Steps[i] # Steps[worker.step]
        <5>1. i \in 1 .. (worker.step - 1)
          BY <3>1, <4>3
        <5>2. IsDone(Steps[i], worker.spec)
          BY <2>1, <3>2, <5>1 DEF BehindIsDone
        <5>3. parts'[<<Steps[i], Name>>] = parts[<<Steps[i], Name>>]
          BY <2>1, <4>1, <4>3
        <5>. QED
          BY <3>1, <5>2, <5>3 DEF IsDone, Name
      <4>. QED
        BY <4>2, <4>3
    <3>3. ASSUME worker'.pc = "install", NEW i \in 1 .. (worker'.step - 1), Meant(Steps[i])
          PROVE  IsDone(Steps[i], worker.spec)'
      <4>1. i \in 1 .. worker.step
        BY <3>1, <3>3
      <4>. QED
        BY <3>2, <3>3, <4>1
    <3>4. ASSUME worker'.pc \in {"console", "enable", "accept"}, NEW k \in PartKinds, Meant(k)
          PROVE  IsDone(k, worker.spec)'
      <4>1. PICK i \in 1 .. Len(Steps) : Steps[i] = k
        BY StepsAre
      <4>. QED
        BY <3>1, <3>2, <3>4, <4>1
    <3>5. worker'.pc = "accept" => ~worker.spec.enable
      BY <2>1, <2>3 DEF NextStep, Workers
    <3>. QED
      BY <3>1, <3>3, <3>4, <3>5 DEF BehindIsDone, IsDone
  <2>. QED
    BY <2>1, <2>2, <2>3
<1>5. CASE ReadConsole \/ EnablePlugin
  <2>1. worker \in Workers /\ worker.pc \in {"console", "enable"} /\ parts' = parts /\ ~InstallStep
    BY <1>5, WorkerHolds DEF ReadConsole, EnablePlugin, InstallStep
  <2>2. PICK pc \in {"enable", "accept", "reject"} : Goto(pc)
    BY <1>5 DEF ReadConsole, EnablePlugin
  <2>3. worker'.spec = worker.spec /\ worker'.pc = pc
    BY <2>1, <2>2, GotoTyped
  <2>4. worker'.pc = "accept" => Name \in console'.obj
    <3>1. CASE ReadConsole
      BY <1>1, <2>1, <3>1, <2>2, <2>3, GotoTyped DEF ReadConsole, Deliver
    <3>2. CASE EnablePlugin
      <4>1. CASE Current(console, "cache")
        <5>1. console.seen \cup {Name} \in Plugins
          BY <1>1, <2>1 DEF Typed, ConsoleObjects, Plugins
        <5>2. console'.obj = console.seen \cup {Name}
          BY <3>2, <4>1, <5>1, ConsoleOps DEF EnablePlugin, Typed
        <5>. QED
          BY <5>2
      <4>2. CASE ~Current(console, "cache")
        BY <2>1, <2>3, <3>2, <4>2, GotoTyped DEF EnablePlugin
      <4>. QED
        BY <4>1, <4>2
    <3>. QED
      BY <1>5, <3>1, <3>2
  <2>. QED
    BY <1>stay, <2>1, <2>2, <2>3, <2>4
<1>6. CASE Accept \/ Reject \/ Restart
  BY <1>6, <1>idle DEF Accept, Reject, Restart, SetStatus
<1>7. CASE ApiError
  <2>1. worker \in Workers
    BY <1>7, WorkerHolds DEF ApiError
  <2>2. CASE Goto("reject")
    BY <2>1, <2>2, GotoTyped DEF BehindIsDone
  <2>. QED
    BY <1>7, <1>idle, <2>2 DEF ApiError
<1>. QED
  BY <1>2, <1>3, <1>4, <1>5, <1>6, <1>7
  DEF Next, Adc, Informers, DeliverDashboard, DeliverPart, Disturbances, UserEdits,
      OthersEditConsole, RouteChanges, Resync

\* What is installed stays, as long as the worker is elsewhere.
LEMMA CompleteStays ==
  ASSUME NamesApart, Typed, InOrder, HasSpec, NothingNewer, Next,
         NEW d \in Dashboards, NEW s \in UserSpecs[d], Complete(s),
         InstallStep => ~Busy(d)
  PROVE  Complete(s)'
<1>1. s \in Specs /\ s.name \in PluginNames /\ s.name \in Names(d)
  BY InstallSpecsAssumption DEF Names, Specs
<1>2. ASSUME NEW k \in PartKinds PROVE parts'[<<k, s.name>>].obj = parts[<<k, s.name>>].obj
  <2>1. <<k, s.name>> \in Keys
    BY <1>1 DEF Keys
  <2>2. CASE ~InstallStep
    BY <2>1, <2>2, PartChange
  <2>3. CASE InstallStep
    <3>1. worker \in Workers /\ worker # Idle
      BY <2>3, InstallStepDoes, IdleIs
    <3>2. s.name # Name
      BY <1>1, <2>3, <3>1, OwnName DEF Busy
    <3>. QED
      BY <2>1, <2>3, <3>2, InstallStepDoes
  <2>. QED
    BY <2>2, <2>3
<1>3. s.enable => s.name \in console'.obj
  BY <1>1, ConsoleKeeps DEF Complete
<1>. QED
  BY <1>2, <1>3 DEF Complete, PartKinds

LEMMA InstalledOrPendingStep ==
  ASSUME NamesApart, Typed, InOrder, HasSpec, NothingNewer, BehindIsDone, InstalledOrPending, Next
  PROVE  InstalledOrPending'
<1>. SUFFICES ASSUME NEW d \in Dashboards, dash'[d].obj # Absent,
                     Settled(dash'[d]), d \notin queue', ~Busy(d)'
              PROVE  IsInstalled(d)'
  BY DEF InstalledOrPending
<1>1. CASE dash[d].obj = Absent
  BY <1>1, DashboardChange
<1>2. CASE dash[d].obj # Absent
  <2>1. /\ dash[d].seen # Absent /\ dash[d].obj.spec \in UserSpecs[d]
        /\ dash[d].obj \in AppDashboards /\ dash[d] \in DashboardObjects
    BY <1>2, SpecsHeld DEF InOrder
  <2>2. ~Restart
    BY <1>2 DEF Restart
  <2>3. CASE Busy(d)
    <3>1. worker' = Idle /\ Key = d /\ Accept
      BY <2>2, <2>3, WorkerChange DEF Busy, Key, Get
    <3>2. Current(dash[d], "cache") /\ d \notin queue
      BY <3>1 DEF Accept
    <3>3. dash[d].seen = dash[d].obj /\ worker.spec = dash[d].obj.spec
      BY <2>1, <2>3, <3>1, <3>2 DEF HasSpec, Busy, Current, DashboardObjects, Coherent
    <3>4. Complete(dash[d].obj.spec)
      BY <3>1, <3>3 DEF BehindIsDone, Accept, Complete, IsDone, Name, PartKinds
    <3>5. ~InstallStep
      BY <3>1 DEF Accept, InstallStep
    <3>6. PICK s : s = dash[d].obj.spec /\ Complete(s)'
      BY <2>1, <3>4, <3>5, CompleteStays
    <3>7. PICK b : /\ b = [spec |-> dash[d].seen.spec, observed |-> dash[d].seen.spec.gen, ready |-> "True"]
                   /\ dash' = [dash EXCEPT ![d] = Put(dash[d], b)]
      BY <3>1, <3>2 DEF Accept, SetStatus
    <3>8. dash'[d].obj = b
      BY <3>7 DEF Put, Typed
    <3>9. /\ dash'[d].obj.spec = s /\ dash'[d].obj.ready = "True"
          /\ dash'[d].obj.observed = s.gen
      BY <3>3, <3>6, <3>7, <3>8
    <3>. QED
      BY <3>6, <3>9 DEF IsInstalled, Complete
  <2>4. CASE ~Busy(d)
    <3>1. d \notin queue
      <4>1. ASSUME Get(d) PROVE FALSE
        <5>1. worker' = [pc |-> "install", step |-> 1, key |-> d, spec |-> dash[d].seen.spec]
          BY <2>1, <4>1 DEF Get
        <5>. QED
          BY <5>1, IdleIs DEF Busy, Key
      <4>. QED
        BY <2>2, <4>1, WorkerChange
    <3>2. dash'[d] = dash[d]
      BY <2>2, <2>4, <1>2, DashboardChange DEF DeliverDashboard
    <3>3. IsInstalled(d)
      BY <1>2, <2>4, <3>1, <3>2 DEF InstalledOrPending
    <3>4. PICK s : s = dash[d].obj.spec /\ Complete(s)'
      BY <2>1, <2>4, <3>3, CompleteStays DEF IsInstalled
    <3>. QED
      BY <3>2, <3>3, <3>4 DEF IsInstalled, Complete
  <2>. QED
    BY <2>3, <2>4
<1>. QED
  BY <1>1, <1>2

LEMMA InitHInv == Init => HInv
<1>. SUFFICES ASSUME Init PROVE HInv
  OBVIOUS
<1>1. IInv
  BY InitIInv
<1>2. PICK s \in [Dashboards -> {t \in Specs : t.gen = 1}] :
        /\ \A d \in Dashboards : s[d] \in UserSpecs[d]
        /\ dash = [d \in Dashboards |-> Listed(NewDashboard(s[d]))]
  BY DEF Init
<1>3. \A d \in Dashboards : NewDashboard(s[d]) # Absent /\ NewDashboard(s[d]).spec = s[d]
  <2>1. \A d \in Dashboards : NewDashboard(s[d]) \in AppDashboards
    BY <1>2 DEF NewDashboard, AppDashboards
  <2>. QED
    BY <2>1, ContentsAre DEF NewDashboard
<1>4. InOrder
  BY <1>2, <1>3 DEF InOrder, Listed
<1>5. worker = Idle /\ queue = Dashboards
  BY DEF Init
<1>6. HasSpec /\ BehindIsDone /\ InstalledOrPending
  BY <1>5, IdleIs DEF HasSpec, BehindIsDone, InstalledOrPending
<1>7. NothingNewer
  <2>1. \A kn \in Keys : parts[kn].obj = Absent /\ parts[kn].seen = Absent
    BY DEF Init, Keys, Listed
  <2>2. \A d \in Dashboards : \A n \in Names(d) : n \in PluginNames
    BY InstallSpecsAssumption DEF Names, Specs
  <2>. QED
    BY <2>1, <2>2 DEF NothingNewer, AtMost, Keys
<1>. QED
  BY <1>1, <1>4, <1>6, <1>7 DEF HInv

LEMMA StepHInv == HInv /\ [Next]_vars => HInv'
<1>1. HInv /\ UNCHANGED vars => HInv'
  <2>1. SUFFICES ASSUME HInv, UNCHANGED vars PROVE HInv'
    OBVIOUS
  <2>2. IInv'
    BY <2>1, StepIInv DEF HInv
  <2>3. InOrder' /\ HasSpec'
    BY <2>1 DEF vars, HInv, InOrder, HasSpec, Key
  <2>4. NamesApart => NothingNewer' /\ BehindIsDone'
    BY <2>1 DEF vars, HInv, NothingNewer, BehindIsDone, IsDone, Busy, Key, Name
  <2>5. NamesApart => InstalledOrPending'
    BY <2>1 DEF vars, HInv, InstalledOrPending, IsInstalled, Complete, Busy, Key
  <2>. QED
    BY <2>2, <2>3, <2>4, <2>5 DEF HInv
<1>2. HInv /\ Next => HInv'
  <2>1. SUFFICES ASSUME HInv, Next PROVE HInv'
    OBVIOUS
  <2>2. IInv' /\ Typed
    BY <2>1, StepIInv DEF HInv, IInv
  <2>3. InOrder' /\ HasSpec'
    BY <2>1, <2>2, InOrderStep, HasSpecStep DEF HInv
  <2>4. NamesApart => NothingNewer' /\ BehindIsDone' /\ InstalledOrPending'
    BY <2>1, <2>2, NothingNewerStep, BehindIsDoneStep, InstalledOrPendingStep DEF HInv
  <2>. QED
    BY <2>2, <2>3, <2>4 DEF HInv
<1>. QED
  BY <1>1, <1>2

\* Whatever fails, restarts, lags behind or is edited meanwhile: when nothing is left to
\* do, all that an AppDashboard says is installed, and its status says so.
THEOREM InstalledAtRest == Spec => []Installed
<1>1. HInv => Installed
  BY DEF HInv, InstalledOrPending, IsInstalled, Installed, Quiescent, Busy
<1>2. Spec => []HInv
  BY InitHInv, StepHInv, PTL DEF Spec
<1>. QED
  BY <1>1, <1>2, PTL
=============================================================================
