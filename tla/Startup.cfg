\* Every family of inputs; two processes that change three times during the scan.
CONSTANTS
  RegisteredModules = {"cpu", "nic"}
  RegisteredOutputs = {"csv", "mqtt"}
  ModuleNames = {"cpu", "nic", "gpu"}
  OutputNames = {"csv", "mqtt", "mqtt5"}
  MethodNames = {"metrics", "rapl", "odd"}
  Methods <- MCMethods
  Names = {"app", "other"}
  Pids = {1, 2}
  Inputs <- MCInputs
  MaxChurn = 3
SPECIFICATION Spec
INVARIANTS
  FlagsWin
  LowestMatchFound
  HandsOverEngineInit
\* run() returns, or goes on in the engine.
CHECK_DEADLOCK FALSE
