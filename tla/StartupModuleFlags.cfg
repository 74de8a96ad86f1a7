\* A statement of the repository the code does not keep: what a module flag says.
CONSTANTS
  RegisteredModules = {"cpu", "nic"}
  RegisteredOutputs = {"csv", "mqtt"}
  ModuleNames = {"cpu", "nic", "gpu"}
  OutputNames = {"csv", "mqtt", "mqtt5"}
  MethodNames = {"metrics", "rapl", "odd"}
  Methods <- MCMethods
  Names = {"app", "other"}
  Pids = {1, 2}
  Inputs <- MCInputs
  MaxChurn = 3
SPECIFICATION Spec
INVARIANT ModuleFlagsWin
\* run() returns, or goes on in the engine.
CHECK_DEADLOCK FALSE
