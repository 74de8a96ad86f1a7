---------------------------- MODULE Startup_proofs ----------------------------
(***************************************************************************)
(* Proofs about Startup, for any registries, command lines, configuration  *)
(* files and process tables.                                               *)
(***************************************************************************)
EXTENDS Startup, FiniteSetTheorems, TLAPS

-------------------------------------------------------------------------------
(***************************************************************************)
(* Values that may be missing, and sequences that grow.                    *)
(***************************************************************************)
LEMMA OrType ==
  ASSUME NEW S, NEW opt \in Maybe(S), NEW d \in S
  PROVE  Or(opt, d) \in S
BY DEF Or, Given, Maybe

LEMMA RangeAppend ==
  ASSUME NEW S, NEW s \in Seq(S), NEW x \in S
  PROVE  Range(Append(s, x)) = Range(s) \cup {x}
<1>1. DOMAIN Append(s, x) = 1..(Len(s) + 1) /\ DOMAIN s = 1..Len(s)
  OBVIOUS
<1>2. \A i \in 1..(Len(s) + 1) :
        Append(s, x)[i] = IF i = Len(s) + 1 THEN x ELSE s[i]
  OBVIOUS
<1>3. Len(s) \in Nat
  OBVIOUS
<1> QED BY <1>1, <1>2, <1>3 DEF Range

-------------------------------------------------------------------------------
(***************************************************************************)
(* Types.                                                                  *)
(***************************************************************************)
LEMMA InputType ==
  ASSUME input \in Inputs
  PROVE  args \in Command /\ file \in File /\ input.procs \in [Pids -> Maybe(Process)]
BY StartupAssumption DEF args, file

LEMMA FromFile ==
  ASSUME input \in Inputs, cfg \in Config
  PROVE  [SamplingTime |-> Or(file.SamplingTime, cfg.SamplingTime),
          Interval |-> Or(file.Interval, cfg.Interval),
          PID |-> Or(file.PID, cfg.PID),
          AppName |-> Or(file.AppName, cfg.AppName),
          Modules |-> Or(file.Modules, cfg.Modules),
          Outputs |-> Or(file.Outputs, cfg.Outputs),
          MeasurementMethods |-> Or(file.MeasurementMethods, cfg.MeasurementMethods),
          nil |-> file.nil] \in Config
<1>1. file \in File
  BY InputType
<1>2. Or(file.SamplingTime, cfg.SamplingTime) \in Int
  BY <1>1, OrType DEF File, Config
<1>3. Or(file.Interval, cfg.Interval) \in Int
  BY <1>1, OrType DEF File, Config
<1>4. Or(file.PID, cfg.PID) \in Int
  BY <1>1, OrType DEF File, Config
<1>5. Or(file.AppName, cfg.AppName) \in Names \cup {NoName}
  BY <1>1, OrType DEF File, Config
<1>6. Or(file.Modules, cfg.Modules) \in SUBSET ModuleNames
  BY <1>1, OrType DEF File, Config
<1>7. Or(file.Outputs, cfg.Outputs) \in SUBSET OutputNames
  BY <1>1, OrType DEF File, Config
<1>8. Or(file.MeasurementMethods, cfg.MeasurementMethods)
        \in [ModuleNames -> MethodNames \cup {NoName}]
  BY <1>1, OrType DEF File, Config
<1>9. file.nil \in SUBSET Maps
  BY <1>1 DEF File
<1> QED BY <1>2, <1>3, <1>4, <1>5, <1>6, <1>7, <1>8, <1>9 DEF Config

LEMMA TypeInit == Init => TypeOK
<1> SUFFICES ASSUME Init PROVE TypeOK
  OBVIOUS
<1>1. DefaultConfig \in Config
  BY DEF DefaultConfig, Config
<1>2. procs \in [Pids -> Maybe(Process)]
  BY InputType DEF Init
<1>3. mods \in Seq(RegisteredModules) /\ outs \in Seq(RegisteredOutputs)
  BY DEF Init
<1>4. NoScan \in [todo : SUBSET Pids, at : Pids \cup {0}, best : Pids \cup {0}]
  BY DEF NoScan
<1>5. NoMatch \in [ever : SUBSET Pids, comm : SUBSET Pids, exe : SUBSET Pids]
  BY DEF NoMatch
<1> QED BY <1>1, <1>2, <1>3, <1>4, <1>5, StartupAssumption DEF Init, TypeOK, Steps

\* A statement of the merge keeps the types if it makes a Config.
LEMMA ConfigureType ==
  ASSUME TypeOK, NEW next \in Steps, NEW c \in Config, Configure(next, c)
  PROVE  TypeOK'
BY DEF TypeOK, Configure, table, made

LEMMA LeaveType ==
  ASSUME TypeOK, NEW next \in Steps, Leave(next)
  PROVE  TypeOK'
BY ConfigureType DEF Leave, TypeOK

LEMMA ConfiguringType == TypeOK /\ Configuring => TypeOK'
<1> SUFFICES ASSUME TypeOK, Configuring PROVE TypeOK'
  OBVIOUS
<1>a. input \in Inputs /\ cfg \in Config /\ args \in Command
  BY InputType DEF TypeOK
<1>b. {"modules", "outputs", "methods", "values", "validate", "resolve",
       "failed", "panic"} \subseteq Steps
  BY DEF Steps
<1>1. CASE LoadConfigFile
  BY <1>a, <1>b, <1>1, FromFile, ConfigureType DEF LoadConfigFile
<1>2. CASE LoadConfigFileFails
  BY <1>b, <1>2, LeaveType DEF LoadConfigFileFails
<1>3. CASE ModuleFlags
  <2>1. [cfg EXCEPT !.Modules = @ \cup SetFlags] \in Config
    BY <1>a, StartupAssumption DEF Config, Command, SetFlags
  <2> QED BY <1>b, <1>3, <2>1, LeaveType, ConfigureType DEF ModuleFlags
<1>4. CASE OutputFlag
  <2> DEFINE named == Or(args.o, {})
  <2>1. named \subseteq RegisteredOutputs =>
          [cfg EXCEPT !.Outputs = NamedOutputs(cfg.Outputs, named)] \in Config
    BY <1>a, StartupAssumption DEF Config, NamedOutputs
  <2> HIDE DEF named
  <2>2. \/ Leave("methods") \/ Leave("panic") \/ Leave("failed")
        \/ /\ named \subseteq RegisteredOutputs
           /\ Configure("methods",
                [cfg EXCEPT !.Outputs = NamedOutputs(cfg.Outputs, named)])
    BY <1>4 DEF OutputFlag, named
  <2> QED BY <1>b, <2>1, <2>2, LeaveType, ConfigureType
<1>5. CASE MethodFlag
  <2> DEFINE pairs == Or(args.m, <<>>)
             supported == {m \in Selected(pairs) : Selection(pairs, m) \in Methods[m]}
             c == [cfg EXCEPT !.MeasurementMethods =
                     [m \in ModuleNames |-> IF m \in supported THEN Selection(pairs, m)
                                                               ELSE @[m]]]
  <2>1. c \in Config
    <3>1. \A m \in ModuleNames : m \in supported => Selection(pairs, m) \in MethodNames
      BY StartupAssumption
    <3> HIDE DEF supported, pairs
    <3> QED BY <1>a, <3>1 DEF Config
  <2>2. Leave("failed") \/ Leave("panic") \/ Configure("values", c)
    BY <1>5 DEF MethodFlag
  <2> HIDE DEF c
  <2> QED BY <1>b, <2>1, <2>2, LeaveType, ConfigureType
<1>6. CASE ValueFlags
  <2> DEFINE c == [cfg EXCEPT !.Interval = Or(args.t, @), !.SamplingTime = Or(args.i, @),
                              !.PID = Or(args.p, @),
                              !.AppName = IF Given(args.p) THEN NoName ELSE Or(args.n, @)]
  <2>1. /\ Or(args.t, cfg.Interval) \in Int
        /\ Or(args.i, cfg.SamplingTime) \in Int
        /\ Or(args.p, cfg.PID) \in Int
        /\ Or(args.n, cfg.AppName) \in Names \cup {NoName}
    <3>1. Or(args.t, cfg.Interval) \in Int
      BY <1>a, OrType DEF Command, Config
    <3>2. Or(args.i, cfg.SamplingTime) \in Int
      BY <1>a, OrType DEF Command, Config
    <3>3. Or(args.p, cfg.PID) \in Int
      BY <1>a, OrType DEF Command, Config
    <3>4. Or(args.n, cfg.AppName) \in Names \cup {NoName}
      BY <1>a, OrType DEF Command, Config
    <3> QED BY <3>1, <3>2, <3>3, <3>4
  <2>2. c \in Config
    BY <1>a, <2>1 DEF Config
  <2>3. Leave("failed") \/ Configure("validate", c)
    BY <1>6 DEF ValueFlags
  <2> HIDE DEF c
  <2> QED BY <1>b, <2>2, <2>3, LeaveType, ConfigureType
<1>7. CASE Validate
  <2>1. Leave("resolve") \/ Leave("failed")
    BY <1>7 DEF Validate
  <2> QED BY <1>b, <2>1, LeaveType
<1> QED BY <1>1, <1>2, <1>3, <1>4, <1>5, <1>6, <1>7 DEF Configuring

LEMMA FoundType ==
  ASSUME cfg \in Config, scan.best \in Pids \cup {0}
  PROVE  [cfg EXCEPT !.PID = scan.best] \in Config
<1>1. \A p \in Pids \cup {0} : p \in Int
  BY StartupAssumption
<1>2. scan.best \in Int
  BY <1>1
<1> QED BY <1>2 DEF Config

LEMMA ResolvingType == TypeOK /\ Resolving => TypeOK'
<1> SUFFICES ASSUME TypeOK, Resolving PROVE TypeOK'
  OBVIOUS
<1> USE StartupAssumption DEF TypeOK, table, made, ToModules
<1>a. "create modules" \in Steps /\ "scan" \in Steps /\ "failed" \in Steps
  BY DEF Steps
<1>b. cfg.Modules \in SUBSET (ModuleNames \cup OutputNames)
  BY DEF Config
<1>1. CASE NoTarget
  BY <1>a, <1>b, <1>1 DEF NoTarget
<1>2. CASE CheckPid
  BY <1>a, <1>b, <1>2 DEF CheckPid
<1>3. CASE CheckPidFails
  BY <1>a, <1>3, LeaveType DEF CheckPidFails
<1>4. CASE ListProcesses
  BY <1>a, <1>4 DEF ListProcesses, Comms, Exes, NoScan
<1>5. CASE ListProcessesFails
  BY <1>a, <1>5, LeaveType DEF ListProcessesFails
<1>6. CASE ReadCmdline
  BY <1>6 DEF ReadCmdline, Exes, Better
<1>7. CASE TargetFound
  <2>1. [cfg EXCEPT !.PID = scan.best] \in Config
    BY FoundType
  <2> QED BY <1>a, <1>b, <1>7, <2>1 DEF TargetFound
<1>8. CASE TargetNotFound
  BY <1>a, <1>8, LeaveType DEF TargetNotFound
<1>9. ASSUME NEW p \in Pids, ReadComm(p) PROVE TypeOK'
  BY <1>9 DEF ReadComm, Better
<1> QED BY <1>1, <1>2, <1>3, <1>4, <1>5, <1>6, <1>7, <1>8, <1>9 DEF Resolving

LEMMA CreatingType == TypeOK /\ Creating => TypeOK'
<1> SUFFICES ASSUME TypeOK, Creating PROVE TypeOK'
  OBVIOUS
<1> USE DEF TypeOK, table
<1>a. {"create outputs", "engine", "failed"} \subseteq Steps
  BY DEF Steps
<1>1. ASSUME NEW m \in ModuleNames, CreateModule(m) PROVE TypeOK'
  <2>1. mods' \in Seq(RegisteredModules)
    <3>1. m \in RegisteredModules /\ mods' = Append(mods, m)
      BY <1>1 DEF CreateModule, Creatable
    <3> QED BY <3>1
  <2> QED BY <1>1, <2>1 DEF CreateModule
<1>2. ASSUME NEW m \in ModuleNames, CreateModuleFails(m) PROVE TypeOK'
  BY <1>a, <1>2, LeaveType DEF CreateModuleFails
<1>3. CASE AllModulesMade
  <2>1. cfg.Outputs \in SUBSET (ModuleNames \cup OutputNames)
    BY DEF Config
  <2> QED BY <1>a, <1>3, <2>1 DEF AllModulesMade
<1>4. ASSUME NEW o \in OutputNames, CreateOutput(o) PROVE TypeOK'
  <2>1. outs' \in Seq(RegisteredOutputs)
    <3>1. o \in RegisteredOutputs /\ outs' = Append(outs, o)
      BY <1>4 DEF CreateOutput
    <3> QED BY <3>1
  <2> QED BY <1>4, <2>1 DEF CreateOutput
<1>5. ASSUME NEW o \in OutputNames, CreateOutputFails(o) PROVE TypeOK'
  BY <1>a, <1>5, LeaveType DEF CreateOutputFails
<1>6. CASE AllOutputsMade
  BY <1>a, <1>6, LeaveType DEF AllOutputsMade
<1> QED BY <1>1, <1>2, <1>3, <1>4, <1>5, <1>6 DEF Creating

LEMMA ProcessChangesType ==
  ASSUME TypeOK, NEW p \in Pids, ProcessChanges(p)
  PROVE  TypeOK'
BY StartupAssumption DEF TypeOK, ProcessChanges, made, Comms, Exes

\* Every variable of the start-up keeps its type; in particular only modules and
\* outputs that have a creator are ever instantiated.
THEOREM TypeCorrect == Spec => []TypeOK
<1>1. TypeOK /\ [Next]_vars => TypeOK'
  <2>1. TypeOK /\ UNCHANGED vars => TypeOK'
    BY DEF TypeOK, vars, table, made
  <2> QED BY <2>1, ConfiguringType, ResolvingType, CreatingType, ProcessChangesType
          DEF Next
<1> QED BY <1>1, TypeInit, PTL DEF Spec

-------------------------------------------------------------------------------
(***************************************************************************)
(* The scan for the name.                                                  *)
(***************************************************************************)
BeforeScan == {"file", "modules", "outputs", "methods", "values", "validate", "resolve"}

\* The history says of the processes as they are now what it is meant to say.
History ==
  /\ matched.comm \subseteq Comms(procs) /\ matched.exe \subseteq Exes(procs)
  /\ Comms(procs) \cup Exes(procs) \subseteq matched.ever

\* A process that has had the name all the time is still to be read, or lacks only
\* its cmdline, or is no better than the best so far.
Accounted ==
  \A p \in SteadyMatches :
    \/ p \in scan.todo
    \/ p = scan.at /\ p \notin matched.comm
    \/ scan.best # 0 /\ scan.best <= p

ScanInv ==
  /\ pc \in BeforeScan => scan = NoScan /\ matched = NoMatch
  /\ pc = "scan" => History /\ Accounted
  /\ scan.best # 0 => scan.best \in matched.ever
  /\ pc \notin BeforeScan \cup {"scan"} =>
       /\ scan.best # 0 => scan.best = cfg.PID /\ \A p \in SteadyMatches : scan.best <= p
       /\ scan.best = 0 => SteadyMatches = {}

LEMMA ScanInvGives == ScanInv => LowestMatchFound
BY DEF ScanInv, LowestMatchFound, BeforeScan, NoScan

LEMMA PidsPositive == \A p \in Pids : p \in Int /\ p > 0
BY StartupAssumption

\* The better of a pid and the best so far is no worse than either.
LEMMA BetterIsLower ==
  ASSUME TypeOK, NEW p \in Pids
  PROVE  /\ Better(p) # 0 /\ Better(p) <= p
         /\ \A q \in Int : scan.best # 0 /\ scan.best <= q => Better(p) <= q
         /\ Better(p) \in {p, scan.best}
<1>1. scan.best \in Pids \cup {0}
  BY DEF TypeOK
<1> QED BY <1>1, PidsPositive DEF Better

\* A statement outside the scan, after which nobody scans, leaves its outcome.
LEMMA ConfiguringKeepsScan == ScanInv /\ Configuring => ScanInv'
<1> SUFFICES ASSUME ScanInv, Configuring PROVE ScanInv'
  OBVIOUS
<1>1. pc \in BeforeScan
  BY DEF Configuring, LoadConfigFile, LoadConfigFileFails, ModuleFlags, OutputFlag,
         MethodFlag, ValueFlags, Validate, BeforeScan
<1>2. UNCHANGED <<scan, matched>>
  BY DEF Configuring, LoadConfigFile, LoadConfigFileFails, ModuleFlags, OutputFlag,
         MethodFlag, ValueFlags, Validate, Leave, Configure
<1>3. pc' # "scan"
  BY DEF Configuring, LoadConfigFile, LoadConfigFileFails, ModuleFlags, OutputFlag,
         MethodFlag, ValueFlags, Validate, Leave, Configure
<1> QED BY <1>1, <1>2, <1>3 DEF ScanInv, NoScan, NoMatch, SteadyMatches

LEMMA CreatingKeepsScan == ScanInv /\ Creating => ScanInv'
<1> SUFFICES ASSUME ScanInv, Creating PROVE ScanInv'
  OBVIOUS
<1>1. pc \in {"create modules", "create outputs"}
  BY DEF Creating, CreateModule, CreateModuleFails, CreateOutput, CreateOutputFails,
         AllModulesMade, AllOutputsMade
<1>2. UNCHANGED <<cfg, scan, matched>>
  BY DEF Creating, CreateModule, CreateModuleFails, CreateOutput, CreateOutputFails,
         AllModulesMade, AllOutputsMade, Leave, Configure
<1>3. pc' \in {"create modules", "create outputs", "engine", "failed"}
  BY DEF Creating, CreateModule, CreateModuleFails, CreateOutput, CreateOutputFails,
         AllModulesMade, AllOutputsMade, Leave, Configure
<1> QED BY <1>1, <1>2, <1>3 DEF ScanInv, BeforeScan, SteadyMatches

LEMMA ResolvingKeepsScan == TypeOK /\ ScanInv /\ Resolving => ScanInv'
<1> SUFFICES ASSUME TypeOK, ScanInv, Resolving PROVE ScanInv'
  OBVIOUS
<1>a. "create modules" \notin BeforeScan /\ "failed" \notin BeforeScan
      /\ "scan" \notin BeforeScan /\ "resolve" \in BeforeScan
  BY DEF BeforeScan
<1>b. /\ matched.comm \subseteq Pids /\ matched.exe \subseteq Pids
      /\ scan.at \in Pids \cup {0} /\ scan.best \in Pids \cup {0}
  BY DEF TypeOK
\* Without a name nobody is looked for.
<1>1. ASSUME pc = "resolve", UNCHANGED <<scan, matched>>,
             pc' \in {"create modules", "failed"}
      PROVE  ScanInv'
  <2>1. scan = NoScan /\ matched = NoMatch
    BY <1>a, <1>1 DEF ScanInv
  <2>2. scan'.best = 0 /\ SteadyMatches' = {}
    BY <1>1, <2>1 DEF NoScan, NoMatch, SteadyMatches
  <2>3. pc' \notin BeforeScan /\ pc' # "scan"
    BY <1>1 DEF BeforeScan
  <2> QED BY <2>2, <2>3 DEF ScanInv
<1>2. CASE NoTarget \/ CheckPid
  BY <1>1, <1>2 DEF NoTarget, CheckPid, ToModules
<1>3. CASE CheckPidFails \/ ListProcessesFails
  BY <1>1, <1>3 DEF CheckPidFails, ListProcessesFails, Leave, Configure
<1>4. CASE ListProcesses
  <2>1. /\ scan' = [NoScan EXCEPT !.todo = {p \in Pids : procs[p] # {}}]
        /\ matched' = [ever |-> Comms(procs) \cup Exes(procs),
                       comm |-> Comms(procs), exe |-> Exes(procs)]
        /\ pc' = "scan" /\ procs' = procs /\ cfg' = cfg
    BY <1>4 DEF ListProcesses, table
  <2>2. Comms(procs) \cup Exes(procs) \subseteq {p \in Pids : procs[p] # {}}
    BY DEF Comms, Exes
  <2>3. History'
    BY <2>1 DEF History, Comms, Exes
  <2>4. Accounted'
    BY <2>1, <2>2 DEF Accounted, SteadyMatches, NoScan
  <2>5. scan'.best = 0
    BY <2>1 DEF NoScan
  <2> QED BY <1>a, <2>1, <2>3, <2>4, <2>5 DEF ScanInv
<1>5. ASSUME NEW p \in Pids, ReadComm(p) PROVE ScanInv'
  <2>1. pc = "scan" /\ pc' = "scan" /\ scan.at = 0 /\ UNCHANGED <<cfg, procs, matched>>
    BY <1>5 DEF ReadComm, table
  <2>2. History /\ Accounted /\ (scan.best # 0 => scan.best \in matched.ever)
    BY <2>1 DEF ScanInv
  <2>3. History'
    BY <2>1, <2>2 DEF History, Comms, Exes
  <2>4. CASE p \in Comms(procs)
    <3>1. scan'.todo = scan.todo \ {p} /\ scan'.best = Better(p) /\ scan'.at = 0
      BY <1>5, <2>1, <2>4 DEF ReadComm, TypeOK
    <3>2. p \in matched.ever
      BY <2>2, <2>4 DEF History
    <3>3. Accounted'
      BY <1>b, <2>1, <2>2, <3>1, BetterIsLower, PidsPositive
         DEF Accounted, SteadyMatches
    <3> QED BY <1>a, <2>1, <2>2, <2>3, <3>1, <3>2, <3>3, BetterIsLower DEF ScanInv
  <2>5. CASE p \notin Comms(procs)
    <3>1. scan'.todo = scan.todo \ {p} /\ scan'.best = scan.best /\ scan'.at = p
      BY <1>5, <2>5 DEF ReadComm, TypeOK
    <3>2. p \notin matched.comm
      BY <2>2, <2>5 DEF History
    <3>3. Accounted'
      BY <1>b, <2>1, <2>2, <3>1, <3>2, PidsPositive DEF Accounted, SteadyMatches
    <3> QED BY <1>a, <2>1, <2>2, <2>3, <3>1, <3>3 DEF ScanInv
  <2> QED BY <2>4, <2>5
<1>6. CASE ReadCmdline
  <2>1. pc = "scan" /\ pc' = "scan" /\ scan.at # 0 /\ UNCHANGED <<cfg, procs, matched>>
    BY <1>6 DEF ReadCmdline, table
  <2>2. History /\ Accounted /\ (scan.best # 0 => scan.best \in matched.ever)
    BY <2>1 DEF ScanInv
  <2>3. History'
    BY <2>1, <2>2 DEF History, Comms, Exes
  <2>4. scan.at \in Pids
    BY <1>b, <2>1
  <2>5. CASE scan.at \in Exes(procs)
    <3>1. scan'.todo = scan.todo /\ scan'.best = Better(scan.at)
      BY <1>6, <2>5 DEF ReadCmdline, TypeOK
    <3>2. scan.at \in matched.ever
      BY <2>2, <2>5 DEF History
    <3>3. Accounted'
      BY <1>b, <2>1, <2>2, <2>4, <3>1, BetterIsLower, PidsPositive
         DEF Accounted, SteadyMatches
    <3> QED BY <1>a, <2>1, <2>2, <2>3, <2>4, <3>1, <3>2, <3>3, BetterIsLower DEF ScanInv
  <2>6. CASE scan.at \notin Exes(procs)
    <3>1. scan'.todo = scan.todo /\ scan'.best = scan.best
      BY <1>6, <2>6 DEF ReadCmdline, TypeOK
    <3>2. scan.at \notin matched.exe
      BY <2>2, <2>6 DEF History
    <3>3. Accounted'
      BY <2>1, <2>2, <3>1, <3>2 DEF Accounted, SteadyMatches
    <3> QED BY <1>a, <2>1, <2>2, <2>3, <3>1, <3>3 DEF ScanInv
  <2> QED BY <2>5, <2>6
<1>7. ASSUME Scanned PROVE /\ pc = "scan"
                           /\ \A p \in SteadyMatches : scan.best # 0 /\ scan.best <= p
  BY <1>b, <1>7, PidsPositive DEF Scanned, ScanInv, Accounted, SteadyMatches
<1>8. CASE TargetFound
  <2>1. scan.best # 0 /\ UNCHANGED <<scan, matched>> /\ pc' = "create modules"
    BY <1>8 DEF TargetFound, ToModules
  <2>2. cfg' = [cfg EXCEPT !.PID = scan.best]
    BY <1>8 DEF TargetFound
  <2>3. cfg'.PID = scan.best
    BY <2>2 DEF TypeOK, Config
  <2>4. Scanned
    BY <1>8 DEF TargetFound
  <2>5. scan.best \in matched.ever
    BY <2>1 DEF ScanInv
  <2> QED BY <1>a, <1>7, <2>1, <2>3, <2>4, <2>5 DEF ScanInv, SteadyMatches
<1>9. CASE TargetNotFound
  <2>1. Scanned /\ scan.best = 0 /\ UNCHANGED <<scan, matched>> /\ pc' = "failed"
    BY <1>9 DEF TargetNotFound, Leave, Configure
  <2> QED BY <1>a, <1>7, <2>1 DEF ScanInv, SteadyMatches
<1> QED BY <1>2, <1>3, <1>4, <1>5, <1>6, <1>8, <1>9 DEF Resolving

\* A process that changes can only leave those that have had the name all the time.
LEMMA ChangeKeepsScan ==
  ASSUME ScanInv, NEW p \in Pids, ProcessChanges(p)
  PROVE  ScanInv'
<1>1. pc = "scan" /\ UNCHANGED <<pc, cfg, scan>>
  BY DEF ProcessChanges
<1>2. matched' = [ever |-> matched.ever \cup Comms(procs') \cup Exes(procs'),
                  comm |-> matched.comm \cap Comms(procs'),
                  exe |-> matched.exe \cap Exes(procs')]
  BY DEF ProcessChanges
<1>3. Comms(procs)' = Comms(procs') /\ Exes(procs)' = Exes(procs')
  BY <1>1 DEF Comms, Exes
<1>4. History'
  BY <1>2, <1>3 DEF History
<1>5. Accounted'
  BY <1>1, <1>2 DEF ScanInv, Accounted, SteadyMatches
<1>6. scan'.best # 0 => scan'.best \in matched'.ever
  BY <1>1, <1>2 DEF ScanInv
<1>7. "scan" \notin BeforeScan
  BY DEF BeforeScan
<1> QED BY <1>1, <1>4, <1>5, <1>6, <1>7 DEF ScanInv

\* A target found by name had the name during the scan, and no process with a
\* lower pid had it all the time, whatever the processes do meanwhile; and the
\* scan misses nobody who had the name all the time.
THEOREM LowestPidIsFound == Spec => []LowestMatchFound
<1>1. Init => ScanInv
  BY DEF Init, ScanInv, NoScan, NoMatch, BeforeScan
<1>2. TypeOK /\ ScanInv /\ [Next]_vars => ScanInv'
  <2>1. ScanInv /\ UNCHANGED vars => ScanInv'
    BY DEF ScanInv, History, Accounted, SteadyMatches, Comms, Exes, vars, table
  <2> QED BY <2>1, ConfiguringKeepsScan, ResolvingKeepsScan, CreatingKeepsScan,
          ChangeKeepsScan DEF Next
<1> QED BY <1>1, <1>2, TypeCorrect, ScanInvGives, PTL DEF Spec

-------------------------------------------------------------------------------
(***************************************************************************)
(* The configuration: each field, as merged so far and when it is done.    *)
(***************************************************************************)
Merged == {"validate", "resolve", "scan", "create modules", "create outputs", "engine"}

ByFile == Or(file.MeasurementMethods, [m \in ModuleNames |-> NoName])
Pairs  == Or(args.m, <<>>)
MergedMethod(m) == IF m \in Selected(Pairs) THEN Selection(Pairs, m) ELSE ByFile[m]

ModulesMerged ==
  /\ pc = "modules" => cfg.Modules = Or(file.Modules, {})
  /\ pc \in {"outputs", "methods", "values"} \cup Merged =>
       cfg.Modules = SetFlags \cup Or(file.Modules, {})

OutputsMerged ==
  /\ pc \in {"modules", "outputs"} => cfg.Outputs = Or(file.Outputs, {})
  /\ pc \in {"methods", "values"} \cup Merged =>
       cfg.Outputs = IF Given(args.o)
                       THEN NamedOutputs(Or(file.Outputs, {}), Or(args.o, {}))
                       ELSE Or(file.Outputs, {})

MethodsMerged ==
  /\ pc \in {"modules", "outputs", "methods"} => cfg.MeasurementMethods = ByFile
  /\ pc \in {"values"} \cup Merged =>
       \A m \in ModuleNames :
         /\ cfg.MeasurementMethods[m] = MergedMethod(m)
         /\ m \in Selected(Pairs) => MergedMethod(m) # NoName

ValuesMerged ==
  /\ pc \in {"modules", "outputs", "methods", "values"} =>
       /\ cfg.SamplingTime = Or(file.SamplingTime, 1000)
       /\ cfg.Interval = Or(file.Interval, 0)
  /\ pc \in Merged =>
       /\ cfg.SamplingTime = Or(args.i, Or(file.SamplingTime, 1000))
       /\ cfg.Interval = Or(args.t, Or(file.Interval, 0))
  /\ pc \in Merged \ {"validate"} => cfg.SamplingTime >= 0 /\ cfg.Interval >= 0

\* The pid is replaced by what a scan finds only where there is a name.
TargetMerged ==
  /\ pc \in Merged =>
       /\ Given(args.p) => cfg.PID = Or(args.p, 0) /\ cfg.AppName = NoName
       /\ Given(args.n) => cfg.AppName = Or(args.n, NoName)
  /\ pc = "scan" => cfg.AppName # NoName

MergeInv ==
  /\ pc = "file" => cfg = DefaultConfig
  /\ ModulesMerged /\ OutputsMerged /\ MethodsMerged /\ ValuesMerged /\ TargetMerged

\* What a statement of the merge leaves alone of it.
LEMMA GivenOr ==
  ASSUME NEW opt, NEW d, NEW e, Given(opt)
  PROVE  Or(opt, d) = Or(opt, e)
BY DEF Or

LEMMA SameInputs ==
  ASSUME input' = input
  PROVE  ByFile' = ByFile /\ Pairs' = Pairs /\ \A m : MergedMethod(m)' = MergedMethod(m)
<1>1. ByFile' = ByFile /\ Pairs' = Pairs
  BY DEF ByFile, Pairs, file, args
<1> QED BY <1>1 DEF MergedMethod, Selected, Selection

LEMMA MethodsKept ==
  ASSUME MethodsMerged, UNCHANGED <<input, cfg.MeasurementMethods>>,
         pc \in {"values"} \cup Merged, pc' \notin {"modules", "outputs", "methods"}
  PROVE  MethodsMerged'
BY SameInputs DEF MethodsMerged

LEMMA EndsMerge ==
  ASSUME NEW how \in {"failed", "panic"}, Leave(how)
  PROVE  MergeInv'
BY DEF Leave, Configure, MergeInv, ModulesMerged, SetFlags, OutputsMerged, MethodsMerged,
       ValuesMerged, TargetMerged, Merged

LEMMA ConfiguringMerges == TypeOK /\ MergeInv /\ Configuring => MergeInv'
<1> SUFFICES ASSUME TypeOK, MergeInv, Configuring PROVE MergeInv'
  OBVIOUS
<1> USE DEF Merged
<1>a. cfg \in Config
  BY DEF TypeOK
<1>b. input' = input
  BY DEF Configuring, LoadConfigFile, LoadConfigFileFails, ModuleFlags, OutputFlag,
         MethodFlag, ValueFlags, Validate, Leave, Configure
<1>1. CASE LoadConfigFile
  <2>1. pc' = "modules" /\ cfg = DefaultConfig
    BY <1>1 DEF LoadConfigFile, Configure, MergeInv
  <2>2. /\ cfg'.Modules = Or(file.Modules, {})
        /\ cfg'.Outputs = Or(file.Outputs, {})
        /\ cfg'.MeasurementMethods = ByFile
        /\ cfg'.SamplingTime = Or(file.SamplingTime, 1000)
        /\ cfg'.Interval = Or(file.Interval, 0)
    BY <1>1, <2>1 DEF LoadConfigFile, Configure, DefaultConfig, ByFile
  <2> QED BY <1>b, <2>1, <2>2 DEF MergeInv, ModulesMerged, SetFlags, OutputsMerged, MethodsMerged,
          ValuesMerged, TargetMerged, ByFile, file
<1>2. CASE LoadConfigFileFails
  BY <1>2, EndsMerge DEF LoadConfigFileFails
<1>3. CASE ModuleFlags
  <2>1. CASE Leave("panic")
    BY <2>1, EndsMerge
  <2>2. CASE Configure("outputs", [cfg EXCEPT !.Modules = @ \cup SetFlags])
    <3>1. pc = "modules" /\ pc' = "outputs"
      BY <1>3, <2>2 DEF ModuleFlags, Configure
    <3>2. /\ cfg'.Modules = cfg.Modules \cup SetFlags
          /\ cfg'.Outputs = cfg.Outputs /\ cfg'.MeasurementMethods = cfg.MeasurementMethods
          /\ cfg'.SamplingTime = cfg.SamplingTime /\ cfg'.Interval = cfg.Interval
      BY <1>a, <2>2 DEF Configure, Config
    <3> QED BY <1>b, <3>1, <3>2 DEF MergeInv, ModulesMerged, SetFlags, OutputsMerged, MethodsMerged,
            ValuesMerged, TargetMerged, ByFile, file, args
  <2> QED BY <1>3, <2>1, <2>2 DEF ModuleFlags
<1>4. CASE OutputFlag
  <2> DEFINE named == Or(args.o, {})
  <2>1. CASE Leave("panic") \/ Leave("failed")
    BY <2>1, EndsMerge
  <2>2. CASE ~Given(args.o) /\ Leave("methods")
    <3>1. pc = "outputs" /\ pc' = "methods" /\ cfg' = cfg
      BY <1>4, <2>2 DEF OutputFlag, Leave, Configure
    <3> QED BY <1>b, <2>2, <3>1 DEF MergeInv, ModulesMerged, SetFlags, OutputsMerged, MethodsMerged,
            ValuesMerged, TargetMerged, ByFile, file, args
  <2>3. CASE /\ Given(args.o)
             /\ Configure("methods",
                  [cfg EXCEPT !.Outputs = NamedOutputs(cfg.Outputs, named)])
    <3>1. pc = "outputs" /\ pc' = "methods"
      BY <1>4, <2>3 DEF OutputFlag, Configure
    <3>2. /\ cfg'.Outputs = NamedOutputs(cfg.Outputs, named)
          /\ cfg'.Modules = cfg.Modules /\ cfg'.MeasurementMethods = cfg.MeasurementMethods
          /\ cfg'.SamplingTime = cfg.SamplingTime /\ cfg'.Interval = cfg.Interval
      BY <1>a, <2>3 DEF Configure, Config
    <3> QED BY <1>b, <2>3, <3>1, <3>2 DEF MergeInv, ModulesMerged, SetFlags, OutputsMerged,
            MethodsMerged, ValuesMerged, TargetMerged, ByFile, NamedOutputs, file, args
  <2> HIDE DEF named
  <2> QED BY <1>4, <2>1, <2>2, <2>3 DEF OutputFlag, named
<1>5. CASE MethodFlag
  <2> DEFINE supported == {m \in Selected(Pairs) : Selection(Pairs, m) \in Methods[m]}
             c == [cfg EXCEPT !.MeasurementMethods =
                     [m \in ModuleNames |-> IF m \in supported THEN Selection(Pairs, m)
                                                               ELSE @[m]]]
  <2>1. CASE Leave("panic") \/ Leave("failed")
    BY <2>1, EndsMerge
  <2>2. CASE supported = Selected(Pairs) /\ Configure("values", c)
    <3>1. pc = "methods" /\ pc' = "values"
      BY <1>5, <2>2 DEF MethodFlag, Configure
    <3>2. /\ \A m \in ModuleNames : cfg'.MeasurementMethods[m] =
               IF m \in supported THEN Selection(Pairs, m) ELSE cfg.MeasurementMethods[m]
          /\ cfg'.Modules = cfg.Modules /\ cfg'.Outputs = cfg.Outputs
          /\ cfg'.SamplingTime = cfg.SamplingTime /\ cfg'.Interval = cfg.Interval
      <4> HIDE DEF supported
      <4> QED BY <1>a, <2>2 DEF Configure, Config
    <3>3. MethodsMerged'
      <4>1. cfg.MeasurementMethods = ByFile
        BY <3>1 DEF MergeInv, MethodsMerged
      <4>2. \A m \in ModuleNames \cap supported : Selection(Pairs, m) # NoName
        BY StartupAssumption
      <4> HIDE DEF supported
      <4> QED BY <1>b, <2>2, <3>1, <3>2, <4>1, <4>2, SameInputs DEF MethodsMerged, MergedMethod
    <3> HIDE DEF supported, c
    <3> QED BY <1>b, <3>1, <3>2, <3>3 DEF MergeInv, ModulesMerged, SetFlags, OutputsMerged,
            ValuesMerged, TargetMerged, NamedOutputs, file, args
  <2>3. \/ Leave("panic") \/ Leave("failed")
        \/ supported = Selected(Pairs) /\ Configure("values", c)
    BY <1>5 DEF MethodFlag, Pairs
  <2> QED BY <2>1, <2>2, <2>3
<1>6. CASE ValueFlags
  <2> DEFINE c == [cfg EXCEPT !.Interval = Or(args.t, @), !.SamplingTime = Or(args.i, @),
                              !.PID = Or(args.p, @),
                              !.AppName = IF Given(args.p) THEN NoName ELSE Or(args.n, @)]
  <2>1. CASE Leave("failed")
    BY <2>1, EndsMerge
  <2>2. CASE ~(Given(args.n) /\ Given(args.p)) /\ Configure("validate", c)
    <3>1. pc = "values" /\ pc' = "validate"
      BY <1>6, <2>2 DEF ValueFlags, Configure
    <3>2. /\ cfg'.Interval = Or(args.t, cfg.Interval)
          /\ cfg'.SamplingTime = Or(args.i, cfg.SamplingTime)
          /\ cfg'.PID = Or(args.p, cfg.PID)
          /\ cfg'.AppName = IF Given(args.p) THEN NoName ELSE Or(args.n, cfg.AppName)
          /\ cfg'.Modules = cfg.Modules /\ cfg'.Outputs = cfg.Outputs
          /\ cfg'.MeasurementMethods = cfg.MeasurementMethods
      BY <1>a, <2>2 DEF Configure, Config
    <3>3. TargetMerged'
      BY <1>b, <2>2, <3>1, <3>2 DEF TargetMerged, Or, Given, args
    <3>4. ValuesMerged'
      BY <1>b, <3>1, <3>2 DEF MergeInv, ValuesMerged, args, file
    <3>5. ModulesMerged' /\ OutputsMerged'
      BY <1>b, <3>1, <3>2 DEF MergeInv, ModulesMerged, SetFlags, OutputsMerged, NamedOutputs, args, file
    <3>6. MethodsMerged'
      BY <1>b, <3>1, <3>2, MethodsKept DEF MergeInv
    <3> QED BY <3>1, <3>3, <3>4, <3>5, <3>6 DEF MergeInv
  <2> HIDE DEF c
  <2> QED BY <1>6, <2>1, <2>2 DEF ValueFlags, c
<1>7. CASE Validate
  <2>1. CASE Leave("failed")
    BY <2>1, EndsMerge
  <2>2. CASE Valid /\ Leave("resolve")
    <3>1. pc = "validate" /\ pc' = "resolve" /\ cfg' = cfg
      BY <1>7, <2>2 DEF Validate, Leave, Configure
    <3>2. cfg.SamplingTime >= 0 /\ cfg.Interval >= 0
      BY <2>2 DEF Valid
    <3>3. ModulesMerged' /\ OutputsMerged'
      BY <1>b, <3>1 DEF MergeInv, ModulesMerged, SetFlags, OutputsMerged, NamedOutputs, args, file
    <3>4. MethodsMerged'
      BY <1>b, <3>1, MethodsKept DEF MergeInv
    <3>5. ValuesMerged' /\ TargetMerged'
      BY <1>b, <3>1, <3>2 DEF MergeInv, ValuesMerged, TargetMerged, args, file
    <3> QED BY <3>1, <3>3, <3>4, <3>5 DEF MergeInv
  <2> QED BY <1>7, <2>1, <2>2 DEF Validate
<1> QED BY <1>1, <1>2, <1>3, <1>4, <1>5, <1>6, <1>7 DEF Configuring

\* From the resolution on only the pid changes, and only where a name is given.
LEMMA MergeKept ==
  ASSUME MergeInv, input' = input, pc \in Merged \ {"validate"},
         pc' \in (Merged \ {"validate"}) \cup {"failed", "panic"},
         UNCHANGED <<cfg.Modules, cfg.Outputs, cfg.MeasurementMethods, cfg.SamplingTime,
                     cfg.Interval, cfg.AppName>>,
         cfg'.PID # cfg.PID => cfg.AppName # NoName,
         pc' = "scan" => cfg.AppName # NoName
  PROVE  MergeInv'
<1>1. pc \in Merged /\ pc \notin {"file", "modules", "outputs", "methods", "values"}
      /\ pc' \notin {"file", "modules", "outputs", "methods", "values", "validate"}
  BY DEF Merged
<1>2. ModulesMerged' /\ OutputsMerged'
  BY <1>1 DEF MergeInv, ModulesMerged, SetFlags, OutputsMerged, NamedOutputs, args, file
<1>3. MethodsMerged'
  BY <1>1, MethodsKept DEF MergeInv
<1>4. ValuesMerged'
  BY <1>1 DEF MergeInv, ValuesMerged, args, file
<1>5. TargetMerged'
  BY <1>1 DEF MergeInv, TargetMerged, args
<1> QED BY <1>1, <1>2, <1>3, <1>4, <1>5 DEF MergeInv

LEMMA ResolvingMerges == TypeOK /\ MergeInv /\ Resolving => MergeInv'
<1> SUFFICES ASSUME TypeOK, MergeInv, Resolving PROVE MergeInv'
  OBVIOUS
<1> USE DEF Merged
<1>1. ASSUME pc \in {"resolve", "scan"}, UNCHANGED <<input, cfg>>,
             pc' \in {"create modules", "failed"}
      PROVE  MergeInv'
  BY <1>1, MergeKept
<1>2. CASE NoTarget \/ CheckPid
  BY <1>1, <1>2 DEF NoTarget, CheckPid, ToModules
<1>3. CASE CheckPidFails \/ ListProcessesFails \/ TargetNotFound
  BY <1>1, <1>3 DEF CheckPidFails, ListProcessesFails, TargetNotFound, Scanned,
                    Leave, Configure
<1>4. CASE ListProcesses
  BY <1>4, MergeKept DEF ListProcesses
<1>5. CASE ReadCmdline \/ \E p \in Pids : ReadComm(p)
  <2>1. pc = "scan" /\ pc' = "scan" /\ UNCHANGED <<input, cfg>>
    BY <1>5 DEF ReadCmdline, ReadComm
  <2>2. cfg.AppName # NoName
    BY <2>1 DEF MergeInv, TargetMerged
  <2> QED BY <2>1, <2>2, MergeKept
<1>6. CASE TargetFound
  <2>1. pc = "scan" /\ pc' = "create modules" /\ input' = input
    BY <1>6 DEF TargetFound, Scanned, ToModules
  <2>2. cfg' = [cfg EXCEPT !.PID = scan.best]
    BY <1>6 DEF TargetFound
  <2>3. UNCHANGED <<cfg.Modules, cfg.Outputs, cfg.MeasurementMethods, cfg.SamplingTime,
                    cfg.Interval, cfg.AppName>>
    BY <2>2 DEF TypeOK, Config
  <2>4. cfg.AppName # NoName
    BY <2>1 DEF MergeInv, TargetMerged
  <2> QED BY <2>1, <2>3, <2>4, MergeKept
<1> QED BY <1>2, <1>3, <1>4, <1>5, <1>6 DEF Resolving

LEMMA CreatingMerges == MergeInv /\ Creating => MergeInv'
<1> SUFFICES ASSUME MergeInv, Creating PROVE MergeInv'
  OBVIOUS
<1>1. /\ pc \in {"create modules", "create outputs"} /\ UNCHANGED <<input, cfg>>
      /\ pc' \in {"create modules", "create outputs", "engine", "failed"}
  BY DEF Creating, CreateModule, CreateModuleFails, CreateOutput, CreateOutputFails,
         AllModulesMade, AllOutputsMade, Leave, Configure
<1> QED BY <1>1, MergeKept DEF Merged

LEMMA ChangeMerges == ASSUME MergeInv, NEW p \in Pids, ProcessChanges(p) PROVE MergeInv'
<1>1. pc = "scan" /\ UNCHANGED <<input, pc, cfg>>
  BY DEF ProcessChanges
<1>2. cfg.AppName # NoName
  BY <1>1 DEF MergeInv, TargetMerged
<1> QED BY <1>1, <1>2, MergeKept DEF Merged

LEMMA MergeInvariant == Spec => []MergeInv
<1>1. Init => MergeInv
  BY DEF Init, MergeInv, ModulesMerged, SetFlags, OutputsMerged, MethodsMerged, ValuesMerged,
         TargetMerged, Merged
<1>2. MergeInv /\ UNCHANGED vars => MergeInv'
  <2> SUFFICES ASSUME MergeInv, UNCHANGED vars PROVE MergeInv'
    OBVIOUS
  <2>1. UNCHANGED <<input, pc, cfg>>
    BY DEF vars
  <2> QED BY <2>1, SameInputs
          DEF MergeInv, ModulesMerged, SetFlags, OutputsMerged, MethodsMerged, ValuesMerged,
              TargetMerged, NamedOutputs, args, file
<1>3. TypeOK /\ MergeInv /\ [Next]_vars => MergeInv'
  BY <1>2, ConfiguringMerges, ResolvingMerges, CreatingMerges, ChangeMerges DEF Next
<1> QED BY <1>1, <1>3, TypeCorrect, PTL DEF Spec

-------------------------------------------------------------------------------
(***************************************************************************)
(* The registries: each enabled name is made once.                         *)
(***************************************************************************)
\* s holds each member of S once, but for those that are left.
Takes(s, left, S) ==
  /\ S = Range(s) \cup left /\ Range(s) \cap left = {}
  /\ IsInjective(s)

CreateInv ==
  /\ pc \in BeforeScan \cup {"scan"} => mods = <<>> /\ outs = <<>>
  /\ pc = "create modules" => Takes(mods, todo, cfg.Modules) /\ outs = <<>>
  /\ pc \in {"create outputs", "engine"} =>
       Range(mods) = cfg.Modules /\ IsInjective(mods) /\ mods # <<>>
  /\ pc = "create outputs" => Takes(outs, todo, cfg.Outputs)
  /\ pc = "engine" => Range(outs) = cfg.Outputs /\ IsInjective(outs)

LEMMA EmptyTakes ==
  ASSUME NEW S
  PROVE  Takes(<<>>, S, S)
BY DEF Takes, Range, IsInjective

LEMMA AppendTakes ==
  ASSUME NEW S, NEW T, NEW left, NEW s \in Seq(T), NEW x \in left \cap T,
         Takes(s, left, S)
  PROVE  Takes(Append(s, x), left \ {x}, S)
<1>1. x \notin Range(s)
  BY DEF Takes
<1>2. Range(Append(s, x)) = Range(s) \cup {x}
  BY RangeAppend
<1>3. IsInjective(Append(s, x))
  <2>1. /\ Len(s) \in Nat
        /\ DOMAIN Append(s, x) = 1..(Len(s) + 1) /\ DOMAIN s = 1..Len(s)
        /\ \A i \in 1..(Len(s) + 1) :
             Append(s, x)[i] = IF i = Len(s) + 1 THEN x ELSE s[i]
    OBVIOUS
  <2>2. \A i \in 1..Len(s) : s[i] # x
    BY <1>1, <2>1 DEF Range
  <2> QED BY <2>1, <2>2 DEF IsInjective, Takes
<1> QED BY <1>2, <1>3 DEF Takes

LEMMA ConfiguringMakesNone == CreateInv /\ Configuring => CreateInv'
<1> SUFFICES ASSUME CreateInv, Configuring PROVE CreateInv'
  OBVIOUS
<1>1. pc \in BeforeScan
  BY DEF Configuring, LoadConfigFile, LoadConfigFileFails, ModuleFlags, OutputFlag,
         MethodFlag, ValueFlags, Validate, BeforeScan
<1>2. UNCHANGED <<mods, outs>>
  BY DEF Configuring, LoadConfigFile, LoadConfigFileFails, ModuleFlags, OutputFlag,
         MethodFlag, ValueFlags, Validate, Leave, Configure, made
<1>3. pc' \in BeforeScan \cup {"failed", "panic"}
  BY DEF Configuring, LoadConfigFile, LoadConfigFileFails, ModuleFlags, OutputFlag,
         MethodFlag, ValueFlags, Validate, Leave, Configure, BeforeScan
<1> QED BY <1>1, <1>2, <1>3 DEF CreateInv, BeforeScan

LEMMA ResolvingMakesNone == TypeOK /\ CreateInv /\ Resolving => CreateInv'
<1> SUFFICES ASSUME TypeOK, CreateInv, Resolving PROVE CreateInv'
  OBVIOUS
<1>1. pc \in {"resolve", "scan"} /\ UNCHANGED <<mods, outs>>
  BY DEF Resolving, NoTarget, CheckPid, CheckPidFails, ListProcesses, ListProcessesFails,
         ReadCmdline, ReadComm, TargetFound, TargetNotFound, Scanned, Leave, Configure, made
<1>2. mods = <<>> /\ outs = <<>>
  BY <1>1 DEF CreateInv, BeforeScan
<1>3. pc' \in {"scan", "create modules", "failed"}
  BY DEF Resolving, NoTarget, CheckPid, CheckPidFails, ListProcesses, ListProcessesFails,
         ReadCmdline, ReadComm, TargetFound, TargetNotFound, Scanned, Leave, Configure,
         ToModules
<1>4. pc' = "create modules" => todo' = cfg.Modules /\ cfg'.Modules = cfg.Modules
  <2>1. CASE TargetFound
    BY <2>1 DEF TargetFound, ToModules, TypeOK, Config
  <2>2. CASE NoTarget \/ CheckPid
    BY <2>2 DEF NoTarget, CheckPid, ToModules
  <2>3. CASE ~(TargetFound \/ NoTarget \/ CheckPid)
    BY <2>3 DEF Resolving, CheckPidFails, ListProcesses, ListProcessesFails, ReadCmdline,
                ReadComm, TargetNotFound, Leave, Configure
  <2> QED BY <2>1, <2>2, <2>3
<1> QED BY <1>1, <1>2, <1>3, <1>4, EmptyTakes DEF CreateInv, BeforeScan

LEMMA CreatingMakesEach == TypeOK /\ CreateInv /\ Creating => CreateInv'
<1> SUFFICES ASSUME TypeOK, CreateInv, Creating PROVE CreateInv'
  OBVIOUS
<1> USE DEF BeforeScan
<1>1. ASSUME NEW m \in ModuleNames, CreateModule(m) PROVE CreateInv'
  <2>1. /\ pc = "create modules" /\ pc' = pc /\ cfg' = cfg /\ outs' = outs
        /\ m \in todo /\ m \in RegisteredModules
        /\ mods' = Append(mods, m) /\ todo' = todo \ {m}
    BY <1>1 DEF CreateModule, Creatable
  <2>2. mods \in Seq(RegisteredModules)
    BY DEF TypeOK
  <2>3. Takes(Append(mods, m), todo \ {m}, cfg.Modules)
    BY <2>1, <2>2, AppendTakes DEF CreateInv
  <2> QED BY <2>1, <2>3 DEF CreateInv
<1>2. ASSUME NEW m \in ModuleNames, CreateModuleFails(m) PROVE CreateInv'
  BY <1>2 DEF CreateModuleFails, Leave, Configure, CreateInv
<1>3. CASE AllModulesMade
  <2>1. pc = "create modules" /\ todo = {} /\ UNCHANGED <<cfg, mods, outs>>
    BY <1>3 DEF AllModulesMade
  <2>2. Takes(mods, {}, cfg.Modules) /\ outs = <<>>
    BY <2>1 DEF CreateInv
  <2>3. Range(mods) = cfg.Modules /\ IsInjective(mods)
    BY <2>2 DEF Takes
  <2>4. CASE pc' = "failed"
    BY <2>4 DEF CreateInv
  <2>5. CASE mods # <<>> /\ pc' = "create outputs" /\ todo' = cfg.Outputs
    BY <2>1, <2>2, <2>3, <2>5, EmptyTakes DEF CreateInv
  <2> QED BY <1>3, <2>4, <2>5 DEF AllModulesMade
<1>4. ASSUME NEW o \in OutputNames, CreateOutput(o) PROVE CreateInv'
  <2>1. /\ pc = "create outputs" /\ pc' = pc /\ cfg' = cfg /\ mods' = mods
        /\ o \in todo /\ o \in RegisteredOutputs
        /\ outs' = Append(outs, o) /\ todo' = todo \ {o}
    BY <1>4 DEF CreateOutput
  <2>2. outs \in Seq(RegisteredOutputs)
    BY DEF TypeOK
  <2>3. Takes(Append(outs, o), todo \ {o}, cfg.Outputs)
    BY <2>1, <2>2, AppendTakes DEF CreateInv
  <2> QED BY <2>1, <2>3 DEF CreateInv
<1>5. ASSUME NEW o \in OutputNames, CreateOutputFails(o) PROVE CreateInv'
  BY <1>5 DEF CreateOutputFails, Leave, Configure, CreateInv
<1>6. CASE AllOutputsMade
  <2>1. pc = "create outputs" /\ pc' = "engine" /\ todo = {} /\ UNCHANGED <<cfg, mods, outs>>
    BY <1>6 DEF AllOutputsMade, Leave, Configure, made
  <2>2. Takes(outs, {}, cfg.Outputs)
    BY <2>1 DEF CreateInv
  <2>3. Range(outs) = cfg.Outputs /\ IsInjective(outs)
    BY <2>2 DEF Takes
  <2> QED BY <2>1, <2>3 DEF CreateInv
<1> QED BY <1>1, <1>2, <1>3, <1>4, <1>5, <1>6 DEF Creating

LEMMA CreateInvariant == Spec => []CreateInv
<1>1. Init => CreateInv
  BY DEF Init, CreateInv, BeforeScan
<1>2. CreateInv /\ UNCHANGED vars => CreateInv'
  BY DEF CreateInv, vars, made
<1>3. ASSUME CreateInv, NEW p \in Pids, ProcessChanges(p) PROVE CreateInv'
  <2>1. pc = "scan" /\ UNCHANGED <<pc, cfg, mods, outs>>
    BY <1>3 DEF ProcessChanges, made
  <2> QED BY <1>3, <2>1 DEF CreateInv
<1>4. TypeOK /\ CreateInv /\ [Next]_vars => CreateInv'
  BY <1>2, <1>3, ConfiguringMakesNone, ResolvingMakesNone, CreatingMakesEach DEF Next
<1> QED BY <1>1, <1>4, TypeCorrect, PTL DEF Spec

-------------------------------------------------------------------------------
(***************************************************************************)
(* What reaches the engine.                                                *)
(***************************************************************************)
\* In what the engine, the methods and the outputs get, flags override the file
\* and the file overrides the defaults, whatever a user gives of each; only of the
\* modules that a flag switches off nothing is said.
THEOREM FlagsOverrideFile == Spec => []FlagsWin
<1>1. TypeOK /\ MergeInv /\ CreateInv => FlagsWin
  <2> SUFFICES ASSUME TypeOK, MergeInv, CreateInv, pc = "engine" PROVE FlagsWin
    BY DEF FlagsWin
  <2>a. pc \in Merged \ {"validate"}
    BY DEF Merged
  <2>b. cfg \in Config /\ args \in Command /\ file \in File
    BY InputType DEF TypeOK
  <2>1. Range(mods) \ args.off = (args.modules \cup Or(file.Modules, {})) \ args.off
    BY <2>a DEF MergeInv, ModulesMerged, CreateInv, SetFlags
  <2>2. Range(outs) = Or(args.o, Or(file.Outputs, {}))
    <3>1. Range(outs) = cfg.Outputs
      BY DEF CreateInv
    <3>2. Range(outs) \subseteq RegisteredOutputs
      BY DEF TypeOK, Range
    <3>3. CASE Given(args.o)
      <4>1. cfg.Outputs = (Or(file.Outputs, {}) \ RegisteredOutputs) \cup Or(args.o, {})
        BY <2>a, <3>3 DEF MergeInv, OutputsMerged, NamedOutputs
      <4>2. cfg.Outputs = Or(args.o, {})
        BY <3>1, <3>2, <4>1
      <4> QED BY <3>1, <3>3, <4>2, GivenOr
    <3>4. CASE ~Given(args.o)
      BY <2>a, <3>1, <3>4 DEF MergeInv, OutputsMerged, Or
    <3> QED BY <3>3, <3>4
  <2>3. /\ cfg.SamplingTime = Or(args.i, Or(file.SamplingTime, 1000))
        /\ cfg.Interval = Or(args.t, Or(file.Interval, 0))
    BY <2>a DEF MergeInv, ValuesMerged
  <2>4. ASSUME NEW m \in Range(mods)
        PROVE  LET byFile == IF Given(file.MeasurementMethods)
                               THEN Or(file.MeasurementMethods, <<>>)[m] ELSE NoName
               IN MethodOf(m) =
                    CASE m \in Selected(Pairs) -> Selection(Pairs, m)
                      [] m \notin Selected(Pairs) /\ byFile # NoName -> byFile
                      [] m \notin Selected(Pairs) /\ byFile = NoName -> DefaultMethod
    <3>1. m \in ModuleNames
      BY StartupAssumption DEF TypeOK, Range
    <3>2. /\ cfg.MeasurementMethods[m] = MergedMethod(m)
          /\ m \in Selected(Pairs) => MergedMethod(m) # NoName
      BY <2>a, <3>1 DEF MergeInv, MethodsMerged
    <3>3. ByFile[m] = IF Given(file.MeasurementMethods)
                        THEN Or(file.MeasurementMethods, <<>>)[m] ELSE NoName
      BY <3>1, GivenOr DEF ByFile, Or
    <3> QED BY <3>2, <3>3 DEF MergedMethod, MethodOf
  <2>5. /\ Given(args.p) => cfg.PID = Or(args.p, 0) /\ cfg.AppName = NoName
        /\ Given(args.n) => cfg.AppName = Or(args.n, NoName)
    BY <2>a DEF MergeInv, TargetMerged
  <2> QED BY <2>1, <2>2, <2>3, <2>4, <2>5 DEF FlagsWin, Pairs
<1> QED BY <1>1, TypeCorrect, MergeInvariant, CreateInvariant, PTL

\* A sequence without repetition is one of the orders that Engine starts from.
LEMMA DistinctIsOrder ==
  ASSUME NEW S, IsFiniteSet(S), NEW s \in Seq(S), IsInjective(s)
  PROVE  s \in E!Orders(S)
<1>1. Len(s) \in Nat /\ s \in [1..Len(s) -> S]
  OBVIOUS
<1>2. s \in Injection(1..Len(s), S)
  BY <1>1 DEF Injection
<1>3. Cardinality(1..Len(s)) <= Cardinality(S)
  BY <1>2, FS_Injection
<1>4. Cardinality(1..Len(s)) = Len(s)
  BY <1>1, FS_Interval
<1>5. Cardinality(S) \in Nat
  BY FS_CardinalityType
<1>6. Len(s) \in 0..Cardinality(S)
  BY <1>1, <1>3, <1>4, <1>5
<1>7. \A i, j \in 1..Len(s) : s[i] = s[j] => i = j
  BY <1>1 DEF IsInjective
<1>8. E!Cardinality(S) = Cardinality(S)
  BY DEF E!Cardinality, Cardinality
<1> QED BY <1>1, <1>6, <1>7, <1>8 DEF E!Orders

\* What run() hands over is an initial state of Engine: its modules and outputs
\* without repetition, at least one module, and numbers that are not negative.
\* What is proved there of a run of the engine holds of every run of the program.
THEOREM EngineStartsAsAssumed == Spec => []HandsOverEngineInit
<1>1. TypeOK /\ MergeInv /\ CreateInv => HandsOverEngineInit
  <2> SUFFICES ASSUME TypeOK, MergeInv, CreateInv, pc = "engine" PROVE E!Init
    BY DEF HandsOverEngineInit
  <2>1. cfg.SamplingTime \in Nat /\ 1000 * cfg.Interval \in Nat
    <3>1. cfg.SamplingTime >= 0 /\ cfg.Interval >= 0
      BY DEF MergeInv, ValuesMerged, Merged
    <3>2. cfg.SamplingTime \in Int /\ cfg.Interval \in Int
      BY DEF TypeOK, Config
    <3> QED BY <3>1, <3>2
  <2>2. mods \in E!Orders(RegisteredModules) \ {<<>>}
    BY StartupAssumption, DistinctIsOrder DEF TypeOK, CreateInv
  <2>3. outs \in E!Orders(RegisteredOutputs)
    BY StartupAssumption, DistinctIsOrder DEF TypeOK, CreateInv
  <2> QED BY <2>1, <2>2, <2>3 DEF E!Init
<1> QED BY <1>1, TypeCorrect, MergeInvariant, CreateInvariant, PTL
===============================================================================
