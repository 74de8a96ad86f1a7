------------------------------- MODULE Startup -------------------------------
(***************************************************************************)
(* How a run of ecofloc comes to its engine: run() in main.go up to        *)
(* NewEngine. Defaults, configuration file and flags are merged            *)
(* (core/config.go), the result is validated, the target is looked up in a *)
(* process table that changes meanwhile (core/process.go), and the enabled *)
(* modules and outputs are instantiated (core/*_registry.go).              *)
(*                                                                         *)
(* pc is what run() does next; "engine" is the call of Engine.Run, which   *)
(* Engine.tla continues, "failed" an error that run() returns, "panic" a   *)
(* panic. A value that may be missing (a flag that is not set, a key that  *)
(* the file does not have) is a set with at most one element.              *)
(***************************************************************************)
EXTENDS Integers, Sequences, FiniteSets, Functions

CONSTANTS
  RegisteredModules,  \* names with a creator in the module registry
  RegisteredOutputs,
  ModuleNames,        \* names a file or a flag may hold, registered or not
  OutputNames,
  MethodNames,
  Methods,            \* Methods[m]: those registered for module m
  Names,              \* names of programs
  Pids,
  Inputs,             \* command line, configuration file and process table
  MaxChurn            \* bound: changes of the process table during the scan

NoName == ""
DefaultMethod == "metrics"

Maybe(S) == {opt \in SUBSET S : \A x, y \in opt : x = y}
Process  == [comm : Names, exe : Names \cup {NoName}]

\* modules: the module flags set to true, off: those set to false; m: the pairs of
\* -m, a malformed one having an empty part; o: the names in -o.
Command ==
  [modules : SUBSET RegisteredModules, off : SUBSET RegisteredModules,
   o : Maybe((SUBSET OutputNames) \ {{}}),
   m : Maybe(Seq((ModuleNames \cup {NoName}) \X (MethodNames \cup {NoName}))),
   t : Maybe(Int), i : Maybe(Int), p : Maybe(Int), n : Maybe(Names \cup {NoName})]

\* The file: its maps as what they enable; nil: those it gives as null. A run
\* without -c is one with a file that holds nothing.
Maps == {"modules", "outputs", "methods"}
File ==
  [ok : BOOLEAN, SamplingTime : Maybe(Int), Interval : Maybe(Int),
   PID : Maybe(Int), AppName : Maybe(Names \cup {NoName}),
   Modules : Maybe(SUBSET ModuleNames), Outputs : Maybe(SUBSET OutputNames),
   MeasurementMethods : Maybe([ModuleNames -> MethodNames \cup {NoName}]),
   nil : SUBSET Maps]

\* Modules and Outputs: what is enabled; nil: the maps that are nil.
Config ==
  [SamplingTime : Int, Interval : Int, PID : Int, AppName : Names \cup {NoName},
   Modules : SUBSET ModuleNames, Outputs : SUBSET OutputNames,
   MeasurementMethods : [ModuleNames -> MethodNames \cup {NoName}],
   nil : SUBSET Maps]

ASSUME StartupAssumption ==
  /\ IsFiniteSet(RegisteredModules) /\ RegisteredModules \subseteq ModuleNames
  /\ IsFiniteSet(RegisteredOutputs) /\ RegisteredOutputs \subseteq OutputNames
  /\ NoName \notin ModuleNames \cup MethodNames \cup Names
  /\ Methods \in [ModuleNames -> SUBSET MethodNames]
  /\ Pids \subseteq Nat \ {0}
  /\ \A in \in Inputs :
       /\ in.args \in Command /\ in.args.modules \cap in.args.off = {}
       /\ in.file \in File /\ in.procs \in [Pids -> Maybe(Process)]
  /\ MaxChurn \in Nat

VARIABLES
  input,     \* the member of Inputs this behaviour is about
  pc,
  cfg,       \* a Config; a module without a method has NoName
  procs,     \* procs[p]: the process with that pid, if any
  churn,     \* changes of procs
  scan,      \* findPIDByName: pids to visit, pid being read, best so far
  matched,   \* history of the scan: pids that have had the name at some time
             \* (ever), as comm all the time, as exe all the time
  todo,      \* what is left of the map InstantiateEnabled... ranges over
  mods,      \* activeModules
  outs       \* activeOutputs

table == <<procs, churn>>
made  == <<todo, mods, outs>>
vars  == <<input, pc, cfg, table, scan, matched, made>>

args == input.args
file == input.file

Given(opt) == opt # {}
Or(opt, default) == IF Given(opt) THEN CHOOSE x \in opt : TRUE ELSE default

DefaultConfig ==
  [SamplingTime |-> 1000, Interval |-> 0, PID |-> 0, AppName |-> NoName,
   Modules |-> {}, Outputs |-> {},
   MeasurementMethods |-> [m \in ModuleNames |-> NoName], nil |-> {}]

NoScan  == [todo |-> {}, at |-> 0, best |-> 0]
NoMatch == [ever |-> {}, comm |-> {}, exe |-> {}]

Init ==
  /\ input \in Inputs
  /\ pc = "file"
  /\ cfg = DefaultConfig
  /\ procs = input.procs /\ churn = 0
  /\ scan = NoScan /\ matched = NoMatch
  /\ todo = {} /\ mods = <<>> /\ outs = <<>>

-------------------------------------------------------------------------------
(***************************************************************************)
(* The configuration: file over defaults, flags over file.                 *)
(***************************************************************************)
\* The next statement, with the configuration as it is now.
Configure(next, c) ==
  /\ pc' = next /\ cfg' = c
  /\ UNCHANGED <<input, table, scan, matched, made>>

Leave(how) == Configure(how, cfg)

\* A write to a nil map panics.
WritesNil(map, S) == map \in cfg.nil /\ S # {}

LoadConfigFile ==
  /\ pc = "file" /\ file.ok
  /\ Configure("modules",
       [SamplingTime |-> Or(file.SamplingTime, cfg.SamplingTime),
        Interval |-> Or(file.Interval, cfg.Interval),
        PID |-> Or(file.PID, cfg.PID),
        AppName |-> Or(file.AppName, cfg.AppName),
        Modules |-> Or(file.Modules, cfg.Modules),
        Outputs |-> Or(file.Outputs, cfg.Outputs),
        MeasurementMethods |-> Or(file.MeasurementMethods, cfg.MeasurementMethods),
        nil |-> file.nil])

\* The file cannot be read or is not the JSON it should be.
LoadConfigFileFails == pc = "file" /\ ~file.ok /\ Leave("failed")

\* A flag that is set enables its module, whatever it is set to.
SetFlags == args.modules \cup args.off

ModuleFlags ==
  /\ pc = "modules"
  /\ IF WritesNil("modules", SetFlags)
       THEN Leave("panic")
       ELSE Configure("outputs", [cfg EXCEPT !.Modules = @ \cup SetFlags])

\* -o: registered outputs are disabled first; others the file enables stay.
NamedOutputs_Added(enabled, named) == enabled \cup named
NamedOutputs(enabled, named) == (enabled \ RegisteredOutputs) \cup named

OutputFlag ==
  /\ pc = "outputs"
  /\ LET named == Or(args.o, {}) IN
     CASE ~Given(args.o) -> Leave("methods")
       [] Given(args.o) /\ WritesNil("outputs", RegisteredOutputs) -> Leave("panic")
       [] Given(args.o) /\ ~WritesNil("outputs", RegisteredOutputs) ->
            IF named \subseteq RegisteredOutputs
              THEN Configure("methods",
                     [cfg EXCEPT !.Outputs = NamedOutputs(cfg.Outputs, named)])
              ELSE Leave("failed")

\* ParseMethodPairs: the last pair of a module counts.
Malformed(pairs) == \E k \in DOMAIN pairs : NoName \in {pairs[k][1], pairs[k][2]}
Selected(pairs)  == {pairs[k][1] : k \in DOMAIN pairs}
Selection(pairs, m) ==
  LET last == CHOOSE k \in DOMAIN pairs :
                /\ pairs[k][1] = m
                /\ \A j \in DOMAIN pairs : pairs[j][1] = m => j <= k
  IN  pairs[last][2]

\* -m: the selected pairs come in the order of a map range, so that whether an
\* unsupported method or the write to a nil map comes first is open.
MethodFlag ==
  /\ pc = "methods"
  /\ LET pairs     == Or(args.m, <<>>)
         supported == {m \in Selected(pairs) : Selection(pairs, m) \in Methods[m]}
     IN \/ /\ \/ Malformed(pairs)
              \/ ~Malformed(pairs) /\ supported # Selected(pairs)
           /\ Leave("failed")
        \/ /\ ~Malformed(pairs) /\ WritesNil("methods", supported)
           /\ Leave("panic")
        \/ /\ ~Malformed(pairs) /\ supported = Selected(pairs)
           /\ ~WritesNil("methods", supported)
           /\ Configure("values",
                [cfg EXCEPT !.MeasurementMethods =
                   [m \in ModuleNames |-> IF m \in supported THEN Selection(pairs, m)
                                                             ELSE @[m]]])

\* -t, -i, -n and -p: a pid given by flag clears a name given by file.
ValueFlags ==
  /\ pc = "values"
  /\ IF Given(args.n) /\ Given(args.p)
       THEN Leave("failed")
       ELSE Configure("validate",
              [cfg EXCEPT !.Interval = Or(args.t, @), !.SamplingTime = Or(args.i, @),
                          !.PID = Or(args.p, @),
                          !.AppName = IF Given(args.p) THEN NoName ELSE Or(args.n, @)])

Valid_NoInterval ==
  /\ cfg.SamplingTime >= 0 /\ cfg.PID >= 0
  /\ cfg.Modules # {}
Valid ==
  /\ cfg.SamplingTime >= 0 /\ cfg.Interval >= 0 /\ cfg.PID >= 0
  /\ cfg.Modules # {}

Validate ==
  /\ pc = "validate"
  /\ Leave(IF Valid THEN "resolve" ELSE "failed")

-------------------------------------------------------------------------------
(***************************************************************************)
(* ResolveTarget.                                                          *)
(***************************************************************************)
\* Who has the name in process table t.
Comms(t) == {p \in Pids : \E x \in t[p] : x.comm = cfg.AppName}
Exes(t)  == {p \in Pids : \E x \in t[p] : x.exe = cfg.AppName}

\* InstantiateEnabledModules begins.
ToModules ==
  /\ pc' = "create modules"
  /\ todo' = cfg.Modules

NoTarget ==
  /\ pc = "resolve" /\ cfg.AppName = NoName /\ cfg.PID = 0
  /\ ToModules
  /\ UNCHANGED <<input, cfg, table, scan, matched, mods, outs>>

\* os.Stat of /proc/<pid>.
CheckPid ==
  /\ pc = "resolve" /\ cfg.AppName = NoName /\ cfg.PID # 0
  /\ cfg.PID \in Pids /\ procs[cfg.PID] # {}
  /\ ToModules
  /\ UNCHANGED <<input, cfg, table, scan, matched, mods, outs>>

CheckPidFails ==
  /\ pc = "resolve" /\ cfg.AppName = NoName /\ cfg.PID # 0
  /\ ~(cfg.PID \in Pids /\ procs[cfg.PID] # {})
  /\ Leave("failed")

\* os.ReadDir of /proc. It lists whoever lives from its beginning to its end:
\* one that starts or exits meanwhile did so just before or just after.
ListProcesses ==
  /\ pc = "resolve" /\ cfg.AppName # NoName
  /\ matched' = [ever |-> Comms(procs) \cup Exes(procs),
                 comm |-> Comms(procs), exe |-> Exes(procs)]
  /\ scan' = [NoScan EXCEPT !.todo = {p \in Pids : procs[p] # {}}]
  /\ pc' = "scan"
  /\ UNCHANGED <<input, cfg, table, made>>

ListProcessesFails ==
  /\ pc = "resolve" /\ cfg.AppName # NoName
  /\ Leave("failed")

Better_Later(p) == p
Better(p) == IF scan.best = 0 \/ p < scan.best THEN p ELSE scan.best

\* procMatchesName reads comm and then, if that is not the name, cmdline; a
\* file of a process that is gone cannot be read.
ReadComm(p) ==
  /\ pc = "scan" /\ scan.at = 0 /\ p \in scan.todo
  /\ scan' = IF p \in Comms(procs)
               THEN [scan EXCEPT !.todo = @ \ {p}, !.best = Better(p)]
               ELSE [scan EXCEPT !.todo = @ \ {p}, !.at = p]
  /\ UNCHANGED <<input, pc, cfg, table, matched, made>>

ReadCmdline ==
  /\ pc = "scan" /\ scan.at # 0
  /\ scan' = IF scan.at \in Exes(procs)
               THEN [scan EXCEPT !.at = 0, !.best = Better(scan.at)]
               ELSE [scan EXCEPT !.at = 0]
  /\ UNCHANGED <<input, pc, cfg, table, matched, made>>

Scanned == pc = "scan" /\ scan.at = 0 /\ scan.todo = {}

TargetFound ==
  /\ Scanned /\ scan.best # 0
  /\ cfg' = [cfg EXCEPT !.PID = scan.best]
  /\ ToModules
  /\ UNCHANGED <<input, table, scan, matched, mods, outs>>

TargetNotFound == Scanned /\ scan.best = 0 /\ Leave("failed")

\* Meanwhile a process starts, exits, or takes other names by exec or prctl.
ProcessChanges(p) ==
  /\ pc = "scan" /\ churn < MaxChurn
  /\ churn' = churn + 1
  /\ \E x \in Maybe(Process) \ {procs[p]} : procs' = [procs EXCEPT ![p] = x]
  /\ matched' = [ever |-> matched.ever \cup Comms(procs') \cup Exes(procs'),
                 comm |-> matched.comm \cap Comms(procs'),
                 exe |-> matched.exe \cap Exes(procs')]
  /\ UNCHANGED <<input, pc, cfg, scan, made>>

-------------------------------------------------------------------------------
(***************************************************************************)
(* The registries. A map is ranged over in any order.                      *)
(***************************************************************************)
\* CPUCreator and NICCreator.
MethodOf(m) == IF cfg.MeasurementMethods[m] = NoName THEN DefaultMethod
                                                     ELSE cfg.MeasurementMethods[m]

Creatable(m) == m \in RegisteredModules /\ MethodOf(m) \in Methods[m]

CreateModule(m) ==
  /\ pc = "create modules" /\ m \in todo /\ Creatable(m)
  /\ mods' = Append(mods, m)
  /\ todo' = todo \ {m}
  /\ UNCHANGED <<input, pc, cfg, table, scan, matched, outs>>

\* An unknown module, an unknown method, or an error of the creator.
CreateModuleFails(m) ==
  /\ pc = "create modules" /\ m \in todo
  /\ Leave("failed")

AllModulesMade ==
  /\ pc = "create modules" /\ todo = {}
  /\ IF mods = <<>>
       THEN pc' = "failed" /\ todo' = {}
       ELSE pc' = "create outputs" /\ todo' = cfg.Outputs
  /\ UNCHANGED <<input, cfg, table, scan, matched, mods, outs>>

CreateOutput(o) ==
  /\ pc = "create outputs" /\ o \in todo
  /\ o \in RegisteredOutputs
  /\ outs' = Append(outs, o)
  /\ todo' = todo \ {o}
  /\ UNCHANGED <<input, pc, cfg, table, scan, matched, mods>>

\* The outputs made before it are dropped as they are.
CreateOutputFails(o) ==
  /\ pc = "create outputs" /\ o \in todo
  /\ Leave("failed")

\* NewAggregator, NotifyContext, NewEngine and the call of Run.
AllOutputsMade ==
  /\ pc = "create outputs" /\ todo = {}
  /\ Leave("engine")

Configuring == \/ LoadConfigFile \/ LoadConfigFileFails \/ ModuleFlags
               \/ OutputFlag \/ MethodFlag \/ ValueFlags \/ Validate
Resolving   == \/ NoTarget \/ CheckPid \/ CheckPidFails
               \/ ListProcesses \/ ListProcessesFails
               \/ ReadCmdline \/ TargetFound \/ TargetNotFound
               \/ \E p \in Pids : ReadComm(p)
Creating    == \/ \E m \in ModuleNames : CreateModule(m) \/ CreateModuleFails(m)
               \/ \E o \in OutputNames : CreateOutput(o) \/ CreateOutputFails(o)
               \/ AllModulesMade \/ AllOutputsMade

Next == \/ Configuring \/ Resolving \/ Creating
        \/ \E p \in Pids : ProcessChanges(p)

Spec == Init /\ [][Next]_vars

-------------------------------------------------------------------------------
(***************************************************************************)
(* Properties.                                                             *)
(***************************************************************************)
Steps == {"file", "modules", "outputs", "methods", "values", "validate",
          "resolve", "scan", "create modules", "create outputs",
          "engine", "failed", "panic"}

\* Every variable has its type; no unknown name is ever instantiated.
TypeOK ==
  /\ input \in Inputs /\ pc \in Steps /\ cfg \in Config
  /\ procs \in [Pids -> Maybe(Process)] /\ churn \in 0..MaxChurn
  /\ scan \in [todo : SUBSET Pids, at : Pids \cup {0}, best : Pids \cup {0}]
  /\ matched \in [ever : SUBSET Pids, comm : SUBSET Pids, exe : SUBSET Pids]
  /\ todo \in SUBSET (ModuleNames \cup OutputNames)
  /\ mods \in Seq(RegisteredModules) /\ outs \in Seq(RegisteredOutputs)

\* main.go:72-73: flags override the file, the file overrides the defaults, in
\* what the engine, the methods and the outputs really get. Of a module whose
\* flag is set to false it says nothing: ModuleFlagsWin does.
FlagsWin ==
  pc = "engine" =>
    /\ Range(mods) \ args.off = (args.modules \cup Or(file.Modules, {})) \ args.off
    /\ Range(outs) = Or(args.o, Or(file.Outputs, {}))
    /\ cfg.SamplingTime = Or(args.i, Or(file.SamplingTime, 1000))
    /\ cfg.Interval = Or(args.t, Or(file.Interval, 0))
    /\ \A m \in Range(mods) :
         LET pairs  == Or(args.m, <<>>)
             byFile == IF Given(file.MeasurementMethods)
                         THEN Or(file.MeasurementMethods, <<>>)[m] ELSE NoName
         IN MethodOf(m) = CASE m \in Selected(pairs) -> Selection(pairs, m)
                            [] m \notin Selected(pairs) /\ byFile # NoName -> byFile
                            [] m \notin Selected(pairs) /\ byFile = NoName -> DefaultMethod
    /\ Given(args.p) => cfg.PID = Or(args.p, 0) /\ cfg.AppName = NoName
    /\ Given(args.n) => cfg.AppName = Or(args.n, NoName)

\* What main.go:72-73 says of the module flags themselves: no module runs that a
\* flag switches off. The code enables it (main.go:76-81).
ModuleFlagsWin == pc = "engine" => Range(mods) \cap args.off = {}

\* findPIDByName, while processes start, exit and change their names: a target
\* found by name did have the name during the scan, and no process with a lower
\* pid had it all the time; one not found means that nobody had it all the time.
SteadyMatches == matched.comm \cup matched.exe

LowestMatchFound ==
  /\ scan.best # 0 /\ pc # "scan" =>
       /\ scan.best = cfg.PID /\ scan.best \in matched.ever
       /\ \A p \in SteadyMatches : scan.best <= p
  /\ scan.best = 0 /\ pc = "failed" => SteadyMatches = {}

\* What run() hands to the engine is an initial state of Engine: all that is
\* assumed there of the configuration, the modules and the outputs is seen to
\* here. In milliseconds, as MeasurementDuration and SamplingCadence convert.
E == INSTANCE Engine WITH
  Modules <- RegisteredModules, Outputs <- RegisteredOutputs,
  SamplingTimes <- Nat, Intervals <- Nat, MaxTicks <- 0, MaxRounds <- 0,
  cfg <- [SamplingTime |-> cfg.SamplingTime, Interval |-> 1000 * cfg.Interval],
  pc <- "start", mi <- 1, oi <- 1, nStarted <- 0,
  mstate <- [m \in RegisteredModules |-> "idle"], closed <- {},
  tick <- FALSE, ticks <- 0, deadlineHit <- FALSE, cancelled <- FALSE,
  rounds <- 0, sampledUpTo <- 0, emitted <- <<>>,
  offered <- [o \in RegisteredOutputs |-> <<>>], result <- "running"

HandsOverEngineInit == pc = "engine" => E!Init
===============================================================================
