------------------------------ MODULE MCStartup ------------------------------
(***************************************************************************)
(* Instances of Startup for TLC. The registries are those of the program;  *)
(* "gpu" and "mqtt5" stand for names without a creator. The inputs come in *)
(* families, each varying what its part of run() looks at.                 *)
(***************************************************************************)
EXTENDS Startup, TLC

MCMethods == [cpu |-> {"metrics", "rapl"}, nic |-> {"metrics"}, gpu |-> {}]

\* Maybe(S) in a form that TLC enumerates at once.
Opt(S) == {{}} \cup {{x} : x \in S}

NoArgs == [modules |-> {}, off |-> {}, o |-> {}, m |-> {}, t |-> {}, i |-> {},
           p |-> {}, n |-> {}]
CpuArgs == [NoArgs EXCEPT !.modules = {"cpu"}]
NoFile ==
  [ok |-> TRUE, SamplingTime |-> {}, Interval |-> {}, PID |-> {}, AppName |-> {},
   Modules |-> {}, Outputs |-> {}, MeasurementMethods |-> {}, nil |-> {}]
NoProcs == [p \in Pids |-> {}]

Unreadable == [args |-> CpuArgs, file |-> [NoFile EXCEPT !.ok = FALSE], procs |-> NoProcs]

\* Modules and outputs by flag and by file, with null maps.
Wiring ==
  {[args |-> [NoArgs EXCEPT !.modules = flags[1], !.off = flags[2], !.o = o],
    file |-> [NoFile EXCEPT !.Modules = m, !.Outputs = o2, !.nil = nil],
    procs |-> NoProcs] :
     flags \in {f \in (SUBSET RegisteredModules) \X (SUBSET RegisteredModules) :
                  f[1] \cap f[2] = {}},
     o     \in Opt({{"csv"}, {"csv", "mqtt"}, {"mqtt5"}}),
     m     \in Opt({{}, {"cpu"}, {"nic", "gpu"}}),
     o2    \in Opt({{"csv"}, {"mqtt"}, {"mqtt5"}}),
     nil   \in SUBSET {"modules", "outputs"}}

\* A map that is null enables nothing.
Legal == {in \in Wiring : /\ "modules" \in in.file.nil => in.file.Modules = {}
                          /\ "outputs" \in in.file.nil => in.file.Outputs = {}}

\* Methods by flag, with repetitions, malformed and unsupported, and by file.
MethodPairs == {<<"cpu", "rapl">>, <<"cpu", "metrics">>, <<"nic", "rapl">>,
                <<"gpu", "metrics">>, <<"cpu", "">>}
FileMethods ==
  {[cpu |-> c, nic |-> "", gpu |-> ""] : c \in {"", "rapl", "metrics", "odd"}}
Choice ==
  {[args |-> [NoArgs EXCEPT !.modules = {"cpu", "nic"}, !.m = m],
    file |-> [NoFile EXCEPT !.MeasurementMethods = fm], procs |-> NoProcs] :
     m \in Opt({<<>>} \cup {<<x>> : x \in MethodPairs}
                        \cup {<<x, y>> : x, y \in MethodPairs}),
     fm \in Opt(FileMethods)}
  \cup
  {[args |-> [CpuArgs EXCEPT !.m = {<<x, y>>}],
    file |-> [NoFile EXCEPT !.nil = {"methods"}], procs |-> NoProcs] :
     x, y \in MethodPairs}

\* Sampling time and interval by flag and by file.
Numbers ==
  {[args |-> [CpuArgs EXCEPT !.i = i, !.t = t],
    file |-> [NoFile EXCEPT !.SamplingTime = fi, !.Interval = ft], procs |-> NoProcs] :
     i, t, fi, ft \in Opt({-1, 0, 2})}

\* The target by flag and by file, and who runs at first.
Targets ==
  {[args |-> [CpuArgs EXCEPT !.n = n, !.p = p],
    file |-> [NoFile EXCEPT !.AppName = fn, !.PID = fp],
    procs |-> procs0] :
     n \in Opt({"", "app"}), p \in Opt({-1, 0, 1, 3}),
     fn \in Opt({"", "app"}), fp \in Opt({-1, 2}),
     procs0 \in [Pids -> Opt([comm : Names, exe : Names])]}

MCInputs == UNION {{Unreadable}, Legal, Choice, Numbers, Targets}
===============================================================================
