# ecofloc: TLA+ models, model checking and proofs

ecofloc measures the energy used by a process, or by the whole machine. Modules
(CPU, network card) each have a measurement method; the engine asks them for
samples at a fixed cadence and an aggregator hands the samples to the outputs
(CSV, MQTT). This directory holds TLA+ modules translated from that code, TLC
configurations that check them on small instances, and theorems about them that
TLAPS checks for every value of the constants.

    tlc -config Engine.cfg MCEngine.tla      # any run: see "Runs"
    tlapm Ecofloc_proofs.tla                 # any module named *_proofs

PROJECT.json lists the runs, the source lines each definition stands for, the
hazards of the code with the properties that watch them, the deviations found,
one mutation of the model per property that TLC must catch, and the theorems.

## 1. Inventory

| component | state it keeps | operations | what is hard | correct when |
|---|---|---|---|---|
| engine (core/engine.go, end of main.go) | started modules, ticker, deadline, context | Run, sample, the deferred calls | tick, deadline and signals race in one select; a start that fails half-way; slow samples drop ticks | modules are stopped on every way out, ticks are not forgotten, signals and deadline end the run |
| aggregator (core/aggregator.go) | the list of outputs, a mutex | Process, Close | one output fails, the others must not notice | each output gets every batch once and in order, and is closed |
| NIC programs (modules/nic/bpf/nic_bpf.c) | the map nic_stats: ifindex to two byte counters | account_bytes, on every CPU | the first packet of an interface on two CPUs at once; the map is full | every byte is counted once |
| NIC loader, reading (modules/nic/bpf/loader.go) | a handle on the map | NewLoader, Read | iterates while the programs write; may fail half-way | what it returns was true of each counter during the call |
| NIC method (modules/nic/ebpf_method) | last read, total energy | Start, Measure, Stop | failed reads, decreasing counters | traffic is charged once, from the baseline on |
| NIC loader, cgroups (modules/nic/bpf/loader.go) | original cgroup, child cgroup, two links | NewLoader, Close | failures at each step, kills, forks while cleaning up, other runs on the same target | the target is measured, then put back where it was |
| configuration and start-up (main.go, core/config.go, core/process.go) | Config | merge of defaults, file and flags; Validate; ResolveTarget | precedence; the process table changes under it | flags win over the file, the file over the defaults; the target exists |
| registries (core/\*_registry.go) | maps from names to creators | Register, Names, Instantiate | unknown names, creators that fail after others succeeded | what is enabled is instantiated, or nothing is |
| CSV output (outputs/csvfile) | file, buffer, whether to write a header | creator, Write, Close | sticky buffer errors, crash between rows, append to an existing file | the file is a header followed by complete rows |
| MQTT output (outputs/mqtt) | client | creator, Write, Close | connect and publish time out, QoS 0 | a write ends; a message is published at most once |
| CPU metrics method (modules/cpu/ebpf_method) | per-CPU time at the last read, power model | the program on sched_stat_runtime, on every CPU; Loader.Read; Start, Measure, Stop | several threads, accounting from another CPU, a map that fills up, sysfs values read at another time | time of the target, and only that, is charged once |
| RAPL method (modules/cpu/rapl_method) | last energy and times | Start, Measure, Stop | wrap-around, process gone, pid reused, reads that are not simultaneous | energy and time are shared out once |
| feature loading (modules/cpu/cpu.go, modules/nic/nic.go) | none after start | LoadFeatures | - | - |
| RAM, disk, GPU modules | none: placeholders | - | - | - |

How they interact. `run()` in main.go builds everything, then one goroutine does
all the work: `Engine.Run` calls `Start` on the modules, waits in a select, calls
`Measure` on each tick and passes the samples to `Aggregator.Process`, which
calls `Write` on each output; on the way out deferred calls stop the modules,
unhook the signals and close the outputs. Concurrency comes from outside: timers
and signals, eBPF programs on all CPUs sharing maps with the loaders, the
processes being measured, other runs of ecofloc.

## 2. Plan

Order: what every measurement depends on first. All of it is done, but for what
the list at the end names.

1. `Pipeline` and `Engine`; proofs in `Ecofloc_proofs`.
2. `Meter`, `NicTraffic` and `NicTraffic_proofs`.
3. `NicCgroup` and `NicCgroup_proofs`.
4. `CpuTime`; proofs in `CpuMetrics_proofs`.
5. `Rapl` and `Rapl_proofs`.
6. `CsvOutput` and `CsvOutput_proofs`.
7. `Startup` and `Startup_proofs`: what run() does before the engine; it ends in
   an initial state of `Engine`.
8. `MqttOutput` and `MqttOutput_proofs`.
9. `Ecofloc` and `Ecofloc_proofs`: `Engine` composed with `NicCgroup`.
10. `CpuPower`: the run time that the power model prices; proofs in
    `CpuMetrics_proofs`.

Left: the hazards that PROJECT.json lists with a note and no property.

## 3. Modules

### Pipeline (abstract) and Engine

`Pipeline` is what engine and aggregator promise to the outputs: a batch reaches
all wired outputs at once, and after the first Close nothing is handed out.

`Engine` models one run. `pc` is where the only goroutine is: `start` (the loop
that calls Start), `loop` (the select), `measure` (sample()), `write`
(Aggregator.Process), `stop` (the deferred loop), `return` (Run has returned,
the deferred stop() is next), `close` (Aggregator.Close), `exited`, `killed`.
`mi` and `oi` are the indices of the loops over modules and outputs; every
iteration is one step and may succeed or fail. `mods` and `outs` are any
sequences without repetition: the registries fill the slices while ranging over
a map. The ticker is a channel of one element (`tick`) plus a count of its
firings (`ticks`); the deadline fires after the ticks that precede it
(`DeadlineTicks`). The first signal closes the context, later ones are
swallowed until stop() has run; after that a signal kills the process.

| action | code |
|---|---|
| StartModule, StartModuleFails | engine.go:28-33 |
| EnterLoop | engine.go:36-62, with the panic of NewTicker(0) |
| SelectCancelled, SelectDeadline, SelectTick | engine.go:63-70 |
| MeasureSamples, MeasureNothing, EndSample | engine.go:75-84 |
| WriteOutput, EndProcess | aggregator.go:20-33 |
| StopModule, RunReturns | engine.go:37-44 |
| UnhookSignals, CloseOutput, Exit | main.go:172, 177, 23-28; aggregator.go:35-46 |
| TickerFires, DeadlineFires, Interrupt | the Go runtime and the operating system |

The mutex of the aggregator is not a variable: one goroutine takes it.

### Startup

run() in main.go statement by statement, up to the call of Engine.Run. `input`
is chosen at the start and never changes: the command line, the configuration
file and the process table. A value that may be missing (a flag that is not set,
a key that is not in the file) is a set with at most one element, so that "the
flag, or else the file, or else the default" is `Or`. A module flag can be given
as true (`args.modules`) or as false (`args.off`); the code only asks whether it
was given (`SetFlags`). A map that the file gives as null is in `nil`, since
assigning to it panics.

| action | code |
|---|---|
| LoadConfigFile, LoadConfigFileFails | main.go: loading the file over the defaults; config.go |
| ModuleFlags, OutputFlag, MethodFlag, ValueFlags | main.go: the flags over the file, in this order |
| Validate | config.go |
| NoTarget, CheckPid, CheckPidFails | config.go, ResolveTarget without a name |
| ListProcesses, ReadComm, ReadCmdline, TargetFound, TargetNotFound | process.go, findPIDByName: one step per file it reads |
| CreateModule, CreateOutput, their failures, AllModulesMade, AllOutputsMade | core/\*_registry.go; maps are ranged over in any order |
| ProcessChanges | a process starts, exits, or changes its name during the scan |

`matched` is a history of who had the name when. AllOutputsMade leads to
`pc = "engine"`, and `E!Init` says that this is a state `Engine` starts in.

### Ecofloc

`Engine` composed with `NicCgroup` for one run on a process. For the engine a
Start or Stop of the nic module is one step; here it waits until the loader is
through (`StartDone`), and the steps of the loader (`NicStartStep`,
`NicStopStep`) come before it while signals arrive, timers fire and the target
forks and exits. The end of the process, by itself or by a signal, takes the
loader's links with it (`ProcessEnds`), but leaves the target where it is.
`EcoSpec` implies both `Engine!Spec` and `NicCgroup!Spec`, which is proved.

### Meter (abstract) and NicTraffic

`Meter` is what a measurement method promises: consumption grows, and a sample
charges consumption that happened and was not charged before.

`NicTraffic` has one program per CPU (`prog[c]`), one step per access to the map:
`Packet` (first lookup), `Insert`, `Relookup`, `Add`. The method is `mpc`; a read
is a `BeginRead`, one `ReadKey` per entry the iteration reaches, and its end.
An iteration reaches each key present when it began, and may reach or miss keys
inserted since; its reads interleave with the programs. Reads fail at any point.
An absent entry is written as all zero, as Go's map lookup gives. Bytes stand
for energy: energy_j is linear in the byte deltas, since the elapsed time it is
divided by is multiplied back.

### NicCgroup

Cgroups of interest form a chain below the one the target began in: a child is
named after the target's pid and lies below the cgroup the pid is found in, so a
cgroup is a depth. Each run goes through `mkdir, move, egress, ingress, running,
read, moveback, remove, closed`; every step of the set-up can fail, and a kill
(`Crash`) can come between any two. Runs may overlap: one that begins while
another is active is recorded in `joined`. Processes fork into the cgroup of
their parent and exit. The clean-up drops every error: of the read of cgroup.procs
(`ListChildFails`), of the write that moves a process (`MoveBackFails`) and of the
rmdir (`RemoveChildFails`), whatever their cause; `refused`, `dropped` and
`unremoved` are histories of whom they left behind. cgroup.procs is read in one
step, and the two links are closed in one step. `Create`, `Attach` and `Close` group the steps of NewLoader,
of attaching with the baseline read, and of Close, for `Ecofloc` to use.

### CpuTime

The scheduler is external: what runs on each CPU (`runs`), its time not yet
accounted (`due`) and, as history, the time of what is monitored (`used`).
`Event(e, c)` is the tracepoint raised on CPU e for the run queue of CPU c:
`e # c` only where `setup.remote`, since a wake-up, a migration or a reader of
CPU times accounts another CPU. One handler runs per CPU, under the lock of the
run queue it accounts (`prog[e].rq`), one step per access to the map: `Event`
(filter and first lookup), `Insert`, `Relookup`, `FetchAndAdd`. The filter looks
at the current task of e, the value added is the runtime on c, the key is e.
`Switch` accounts the task that leaves before it leaves. In a targeted run the
filter may thus let through what another task has run (`TargetForOther`) or keep
out what the target has (`OtherForTarget`): the histories `mistaken` and `missed`
say how much. The method is as in NicTraffic. What is charged is CPU time as handed to the power model.

### CpuPower

What power.go makes of the CPU time, sample by sample. Of the way the counters
come about, which is CpuTime in detail, it keeps what matters here: they do not
follow the clock. While it goes on (`Tick`) vcores run, and what they run is
`pending` until it is accounted in one piece (`Accounted`), on the counter of the
vcore that raises the event, or not at all where the filter or a full map refuses
it (`NotCounted`). The method reads the counters one by one (`ReadVCore`), before
it takes the time for the baseline and after it for a sample. `RunTime` sums the
differences of the vcores of a core and cuts the sum at the elapsed time;
capacitance, voltage and frequency are factors of the energy of a core and are
left out, but whether voltage and frequency can be read at the time of a sample
is a choice (`usable`). `mark` and `lastMark` are histories: the clock, and what
was pending and of other vcores, when a counter was read. Definitions that
`CpuTime` also has are named differently (`PowerInit`, `PowerStop`, `stage` for
its `mpc`), so that one proof module extends both.

### Rapl

`energy` is what the domain has used; the file shows it modulo `MaxRange + 1`.
Start and Measure read the files one at a time, as the code does: energy
(`ReadEnergy`), the times of the pid (`ReadPid`), those of the system
(`ReadTotal`); the machine goes on between the reads, the target may exit and
another process get its pid. Differences of times are unsigned, modulo `Word`.
A sample is `deltaUJ * pidDelta / totalDelta`: `charged` sums the first factor
and `shares` the other two, so no quotient is needed. An interval without busy
time charges its energy to nobody.

### CsvOutput

The file is a sequence of half-lines, enough to tell a complete row from a cut
one. CSVCreator is three steps: `Stat` (is a header needed?), `OpenFile`,
`FlushHeader`; a batch is `Write` (into the buffer) and `FlushRows` (one write
of the whole buffer). The write may stop after any number of half-lines; the
rest stays in the buffer with the error, which bufio keeps. With O_APPEND a
write goes to the end; otherwise to the run's own offset. A run may be killed
anywhere. `setup` says whether runs may overlap and which values of "append" they
use; `Orderly` are the setups in which no run that truncates the file overlaps
another, and what is claimed of rows is claimed there, since csvfile.go has no
lock on the file. A batch is assumed to fit into the 4096 bytes of the buffer: it has two
metrics of some 60 bytes.

### MqttOutput

Runs of ecofloc on one broker. `pc` is where a run is in the creator, Write or
Close; `link` is the state of its client, which goes its own way. The creator
waits for a connection (`Connected`, `ConnectFails`, `ConnectTimesOut`: the
client then goes on connecting). A batch is given to Publish, which hands it to
the goroutine that writes to the socket (`HandOver`, `HandOverTimesOut`), then
Write waits for the token (`WriteReturns`, `WriteTimesOut`); packets a timed-out
Write has left behind go out later. A client that is reconnecting drops a packet
and reports success (`PublishDropped`). `BrokerAccepts` cuts whoever has the same
client id; `Outage` is any other lost connection. Client, network and broker are
external, modelled from the calls mqtt.go makes and the QoS it asks for.

CpuTime and CsvOutput choose a `setup` in Init among the constant `Setups`, so
that one run covers several machines or several ways to use the file.

## 4. Runs

| run | instance | what it shows |
|---|---|---|
| engine_safety | 2 modules, 2 outputs, sampling 0 to 2, interval 0 to 3 | FanOut, ModulesReleased, AllOutputsClosed, NoTickForgotten; Engine implements Pipeline |
| ecofloc | nic, alone or with cpu, 1 output, target and 1 fork, fair | TargetGivenBack, MeasuredWhileAttached; InterruptEndsRun and DurationEndsRun, the loader's steps included |
| engine_start_error | as engine_safety | a statement of the repository that the code does not keep |
| startup | some 4700 inputs, 2 pids, 3 changes during the scan | FlagsWin, LowestMatchFound; HandsOverEngineInit |
| startup_module_flags | as startup | a statement of the repository that the code does not keep |
| nic_traffic | 2 CPUs, 3 interfaces (2 configured), room for 2 | KernelExact, OnlyFullMapSkips, ChargedOnce; NicTraffic implements Meter |
| nic_cgroup | 2 runs, in sequence or overlapping, target and 2 forks | TargetReturned, OnlyLateForksLeak, TargetMeasured |
| cpu_time | 2 CPUs, 2 units of time and 1 due before; the whole system with room for 1 CPU, or a target accounted where it runs or from any CPU | KernelExact, TimeConserved, OnlyTargetTime; CpuTime implements Meter |
| cpu_power | 2 vcores of a core, 3 ticks of the clock | TypeOK, PricedWithinWall, CutIsBounded |
| rapl | counter of 3 values, 5 units of energy, 3 of time | WrapIsNearlyExact, TimeSharedOnce, ShareIsBounded; Rapl implements Meter |
| csv_output | 2 runs in turn in any mode, appending together, or in any mode together; 3 rows each | TypeOK, AckedIsStored, TornIsLast, HeaderOnTopInTurn, CloseTellsLoss |
| mqtt_output | 2 runs with one client id, 2 batches each, 1 outage | TypeOK, AtMostOnceInOrder, AckedUnlessCut, ClosedStaysOut; CallsReturn |

Every module of a component has its TypeOK: a run checks it, or else the theorem
TypeCorrect of its proof module states it.

Bounds. Two modules and two outputs give a failure before and after a success,
in both orders. Sampling times and intervals include zero, equal, divisible and
not divisible. `MaxTicks` and `MaxRounds` stop counting, not the behaviour:
firings go on beyond `MaxTicks`, and rounds that are not recorded return no
samples. The inputs of startup come in families, each varying all that one part
of run() looks at: wiring by flag and by file with null maps, methods with
repeated, malformed and unsupported pairs, module flags given as true and as
false, numbers with negatives and zero,
targets by name and by pid with every process table. Three changes let a process
take the name, lose it and take it back while the scan passes. Two CPUs are
enough for the race on an entry, since the third finds what the second finds;
`MaxEntries` is below the number of interfaces so that the map fills up; three
packets give two that race and one after them. Two runs and two forks give
nesting, sharing, and a fork of a fork; three runs with two forks (3.7 million
states) agree. `MaxDue` leaves time to account from before the tracepoint,
`MaxTime` of cpu_time gives a second event on a CPU that has an entry, from that
CPU or from the other. The three ticks of cpu_power give two samples, one of
which may end late or follow a failed read, with time pending before the baseline
and accounted after it, on either vcore. With a counter of three
values, five units of energy wrap it once and twice between samples, and a wrap
can be told from a restart at zero. Three rows and batches of one or two give a
batch before and after one that is cut. Two batches and one outage, besides the
connections the two clients take from each other, give a packet on its way when
the next is handed over, and a reconnection between them.

Symmetry is used where members of a set differ only by name; the properties of
those runs, the refinements included, are symmetric in that set, and no
liveness property is checked with it.

Deadlock is not checked: every model ends when its process does.

Fairness. `Engine!Fairness`, and `EcoFairness` with the steps of the loader
added: weak fairness on what the goroutine does between selects, since each call
it makes is bounded I/O that returns; strong fairness on each case of the
select, since Go chooses uniformly among the ready cases, so that a case that is
ready again and again is chosen with probability one; weak fairness on the
timers. None on signals, nor on the outcome of any call. A measurement that
never returns would break the first assumption: the code has no timeout around
Measure. For the MQTT output the assumption is a result: under weak fairness of
its three timers alone, with a broker that may never answer, CallsReturn says
that the creator and Write return.

## 5. Deviations

Shown by a run:

1. `StartedModulesStopped`: a Start that fails returns before the deferred loop
   is registered; modules that were started stay so. If the nic module is one of
   them, the target stays in its child cgroup: an exception that
   `TargetGivenBack` has to make.
2. `ModuleFlagsWin`: a module flag enables its module whatever its value, so
   `--cpu=false` enables cpu (main.go:79), although flags override the file
   (main.go:72-73). `FlagsWin` leaves modules with such a flag out.

Bounded by a property that holds:

- A process forked between the read of cgroup.procs and the rmdir is not moved
  back, and the child cgroup stays (loader.go:253; loader.go:240-241 speaks of
  the process and its children). The same happens when the kernel refuses a read,
  a write or the rmdir of the clean-up, which drops the error (loader.go:253-254,
  261). `OnlyLateForksLeak` says that nothing else stays behind.
- Of overlapping runs on one target, the last to end may put it back into the
  child cgroup of the other, which stays; a run that is killed, or that drops an
  error of its clean-up, leaves it in its own child. `TargetReturned` says by how
  many levels at most, and `TargetGivenBack` excepts the dropped error.
- Where run queues are accounted from other CPUs, the filter
  (kernel_bpf.c:49) looks at the current task, not at the task the event is
  about, so a target that wakes up or moves a task of another CPU is charged the
  time of the task running there (loader.go:57: "the time consumed by the target
  TGID"), and what it runs itself can be lost. `OnlyTargetTime` and
  `TimeConserved` say that this is the only error, and that there is none for the
  whole system or a target accounted on its own CPUs (`RightTaskIsCurrent`).
- Two runs that append and both find the file empty both write a header
  (csvfile.go:55, and 27-28): `HeaderOnTopInTurn` is about runs that follow each
  other.
- The time of the target and that of the system are not read together, so its
  share of a sample can exceed one (rapl.go:104 speaks of "its share of the
  busy CPU time"): `ShareIsBounded` says by how much.
- A wrap of the energy counter loses a unit (rapl.go:97 adds the highest value,
  not the number of values): `WrapIsNearlyExact`.
- A publish that meets a client that is reconnecting is dropped and reported as
  sent (mqtt.go:129, QoS 0), and so is one lost with its connection:
  `AckedUnlessCut` says that nothing else is lost in silence. Two runs with the
  default client id take the connection from each other for as long as both run.
- Counters are read after the time they are taken for and move at accountings
  only, and a core is cut at the elapsed time: `CutIsBounded` says that the cut
  takes no more from a vcore than what its counter holds beyond the interval.

Seen while modelling, in no run:

- When the deadline and the tick of the last period are both ready, the select
  may take the deadline and that period is not in the total (engine.go:66).
- A sampling time of 0 passes Validate (config.go:14 and 78: "0 means use
  default") and makes NewTicker panic (engine.go:47). The panic is an end of
  `Engine`, after which `ModulesReleased` has to hold.
- A configuration file that gives a map as null makes the assignment of a flag
  panic (main.go:79); `Startup` has the panic as an end of its own.
- When a creator of an output fails, the outputs made before it are dropped
  without Close (output_registry.go:73); the process ends right after, and
  nothing but a header has been written.
- A pid that is given again is taken for the target, from ResolveTarget on
  (config.go:115) and between two samples (rapl.go:106-109).
- README.md:147 promises all the pids of an application for `-n`; the code takes
  the lowest. README.md:156 and 225 give a negative `-t` a meaning; Validate
  refuses it. That text describes the previous implementation in other places too.
- power.go:26 speaks of the share of the chip capacitance of a core; lines 104
  and 116 use all of it for every core. Cores are told apart by "core id", which
  repeats on a second socket. The fallback to lastPowerW is never taken, since
  unreadable files give values of -1 and no error.
- Large sampling times or intervals overflow a Duration (config.go:63, 72).

## 6. Proofs

All are safety properties, proved for any finite sets of modules, outputs,
interfaces, CPUs and vcores, any set of runs, any assignment of vcores to cores,
any range of the energy counter, and any bounds, from the assumptions next to the
constants: `EngineAssumption`, `NicAssumption`, `CgroupAssumption`,
`CpuAssumption`, `PowerAssumption`, `RaplAssumption`, `StartupAssumption`,
`CsvAssumption`, `MqttAssumption` and `EcoflocAssumption`. They hold for any number
of runs on a target, a file or a broker, and for any inputs and process tables,
as well.

`Ecofloc_proofs`, about `Engine`

- `TypeCorrect`. TypeOK alone is not inductive: the number of started modules
  is only known to stay in range because it is `mi - 1` during the start loop,
  and the last batch only exists because `write` follows an Append; `Positions`
  says both.
- `ModulesAreReleased`. `ReleaseInv` says which indices a started module can
  have: those still held while Run is running, those the deferred loop has not
  reached yet afterwards.
- `NoTickIsForgotten`, from `TickInv`, which also covers the time before the
  ticker exists.
- `FanOutHolds`. `OutputInv` adds that no output is wired twice (otherwise one
  output would get a batch twice) and that outputs not wired get nothing.
- `OutputsAreClosed`. `CloseInv`: what is closed is what the loop has passed.
- `EngineImplementsPipeline`: initial states map to initial states, and each
  step to an Emit (the end of Process), a Close or a stutter. A batch being
  fanned out is hidden until Process returns.

`NicTraffic_proofs`

- `TypeCorrect`: in particular no difference of counters is negative.
- `KernelIsExact` and `SkipsNeedFullMap`. `KernelInv`: a program about to add
  has an entry, and one that looks again in vain met a full map, which stays
  full because entries are never deleted.
- `BytesAreChargedOnce`, `SamplesAreFresh`, `NicImplementsMeter`. `MeterInv`: the
  read under construction lies between what was last read and what the map
  holds now, for every key reached; so each delta is a plain difference and the
  code's "decreasing counter" branch is never taken.

`CpuMetrics_proofs`, about `CpuTime`

- `TypeCorrect`.
- `KernelIsExact`. `KernelInv`: a handler about to insert finds no entry when it
  does, because the key is its CPU and one handler runs per CPU; so the zero it
  writes with BPF_ANY replaces nothing. With another key this fails (the mutant
  of KernelExact).
- `CpuImplementsMeter`, by a `MeterInv` as for the NIC, with one channel per CPU.
- `TimeIsConserved` and `NoOtherTime`. `Balanced` is the equation of
  TimeConserved over CPUs; it needs `IdleIsEmpty`, that a handler which is not
  running has no time in its hands, and `KernelInv`, since an insert moves the
  handler's time to the counter only if it replaces nothing. An event moves what
  is due on a CPU to a handler, to `missed`, or to nowhere if it is of no
  interest, and `mistaken` makes up for what is let through without being of
  interest (`EventBalances`). `NothingMistaken`: neither happens where the filter
  looks at the right task. A run is charged what MeterInv bounds by the counters,
  and those are a
  part of the sum. SumFunction is a fold of the library; that it splits off an
  element, adds, is monotone and changes by what one summand changes is proved
  here (`SumUnfolds` to `SumIsNatural`), by induction over the subsets of a
  finite set: the set of subsets that refute the claim has a minimal one
  (`MinimalSubset`).

`CpuMetrics_proofs`, about `CpuPower`

- `PowerTypeCorrect`.
- `CoresKeepToTheClock`: the next sample adds at most what it moves the time by.
- `CutsAreBounded`, from `PowerInv`. What a counter has grown by since it was
  read, and what is pending, is at most the time since then, what was pending
  then, and what other vcores have added since (`GrewSince`); hence the difference
  of two readings is bounded in the same way by the time between them
  (`GrewBetween`). A sample reads after its time is taken, and the last one did so
  too, or was the baseline: that turns the time between the readings into the
  elapsed time and the terms of `Beyond` (`InvBoundsCut`). No step that fails
  enters the argument, since it moves neither the readings nor their time.

`Rapl_proofs`

- `TypeCorrect`. The times stay in their bounds because the holder of the pid
  never has more CPU time than the system.
- `WrapsAreNearlyExact` and `RaplImplementsMeter`. `EnergyInv`: readings are the
  energy used, modulo the number of values of the counter, at two known points,
  and the samples have charged at most what was used from the baseline to the
  last of them. The lemma `Wrapping` does the arithmetic once: two readings of a
  wrapping counter never give more than was used in between, and one unit less
  at most if that is below a turn.
- `TimesAreSharedOnce` and `SharesAreBounded`. `TimeInv`: as long as the pid is
  the target's, it has used at most what the system has used since a reading,
  and each reading follows the one before; so the unsigned differences are plain
  ones, and what a sample gives the target in excess of the system's time ran
  between the two reads of the sample before.

`NicCgroup_proofs`

- `TypeCorrect`.
- `ProgramsDetachFirst` and `TargetIsMeasured`, from `BorrowInv`: as long as no
  run joins another, one is active at a time, and from its move on the target is
  in its child, with the programs that its position says.
- `LeaksAreLateForks`. `LeakInv`: a process that is not where the target began
  is in the child of a run that has still to list it, or is on its list, or was
  forked during a clean-up, or was left there by an error of the clean-up, or
  forked by one that was. It is about runs that are not killed and do not
  join, since the others leave the next one a different place to start from.
- `TargetIsReturned`. `ReturnInv` bounds the depth of the target by the number of
  runs that were killed, dropped an error over the target, or joined another
  (`Displaced`), plus one while a run that started at that depth still holds it
  (`Holds`).

`Startup_proofs`

- `TypeCorrect`.
- `LowestPidIsFound`. `ScanInv`: who has had the name all the time is still to
  be visited, is being read, or is not below the best so far (`Accounted`);
  and what was found has had it at some time (`History`).
- `FlagsOverrideFile`. `MergeInv` has a part for each group of fields, saying
  what it holds once its statement has run (`ModulesMerged`, `OutputsMerged`,
  `MethodsMerged`, `ValuesMerged`, `TargetMerged`). `CreateInv`: what was made
  and what is left to make is what is enabled, without repetition.
- `EngineStartsAsAssumed`: a sequence of modules without repetition is an order
  in the sense of `Engine` (a pigeonhole argument, `DistinctIsOrder`); so what
  `Engine!Init` assumes, and the theorems about Engine rest on, is what run()
  ensures.

`CsvOutput_proofs`

- `TypeCorrect`, in any setup. That nothing is buffered between two Writes needs
  the error to be there as soon as a flush stops short.
- `AcknowledgedIsStored`, `TornRowsAreLast` and `CloseReportsLoss`. `CsvInv` says
  that at most one run is active where they do not overlap, and in an orderly
  setup `FileInv`: each flush adds to the end of the file, at an offset of its own
  too (`AtEnd`); rows of a run come in order, those flushed are there whole, those
  in the buffer are not yet (`Kept`); a row begins once (`Once`); one that is torn
  is of a run with an error and is its last (`TornHasError`). The flush of a batch
  is split into what was in the file, kept by the lemma `GrowKeeps`, and the new
  lines; every other step leaves the rows of all runs alone.
- `HeaderStaysOnTop`. `HeaderInv`: where runs do not overlap, what Stat saw of the
  file is still so when it is opened, a file that gets a header is empty, and rows
  go only to a file that is not.

`MqttOutput_proofs`

- `TypeCorrect`. `TypeInv` adds that the client has one packet in hand at most.
- `BatchesComeInOrder`. `OrderInv`: what was delivered, what is on the wire,
  what the client has in hand and the batch being handed over rise in this
  order, whatever reconnections and late packets come in between.
- `AcknowledgedIsOut`. `AckInv`: a completed token belongs to a packet that was
  written to the socket, or that a lost connection took.
- `ClosedNeverConnects`. `LinkInv`: only the creator leaves a client connecting.

`Ecofloc_proofs`, about `Ecofloc`

- `EcoflocIsAnEngine` and `EcoflocIsALoader`: every step of the composition is a
  step or a stutter of each part, so the theorems about both hold of it.
- `SamplesAreAttached` and `TargetIsGivenBack`. `ModInv` says what the loops of
  the engine have made of each module, `LoaderInv` where the target is at each
  position of the loader, and `PairInv` ties them: what the engine was told of the
  nic module is where its loader is, except during a call.

Only model-checked: the liveness properties InterruptEndsRun, DurationEndsRun
and CallsReturn (outside the reach of the prover, as is ENABLED), and the two
properties of the code that the runs refute (section 5). Every invariant and
every other property of the runs is a theorem. No module uses RECURSIVE.

## 7. Not modelled

Input and output only, taken as input: the syntax of flags and its errors, the
feature files of the modules, the parsing of /proc/cpuinfo, sysfs and MSRs, the
search for csvfile.json and mqtt.json. Linear factors: the wattage of an
interface, capacitance, voltage and frequency of a core. Also: the contents of
samples, wording and logging; which RAPL domain is chosen; the fallback for an
elapsed time that is not positive, which a monotonic clock does not meet; the
width of the byte and time counters (64 bits), which do not overflow within a
run.

Nothing is claimed of the rows of runs that share a CSV file while one of them
truncates it: they are in the model (`Put` fills the gap with zeros) and in the
csv_output run, for the types.

Without any code to model: the RAM, disk and GPU modules, which are placeholders.
Generated: the bindings of bpf2go, and vmlinux.h, which alone is 150 thousand of
the lines below src/.
