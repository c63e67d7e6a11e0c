\* The host may enqueue and dequeue while Tick runs (thread-safe queues).
\* queues of at most two elements.
CONSTANTS
  A = A  B = B  C = C
  in = in  cb = cb  ba = ba  out = out  cfg = cfg
  Procs <- MCProcs
  ProcOrder <- MCProcOrder
  Channels <- MCChannels
  SingleValueChannels = {cfg}
  Program <- MCProgram
  InitialValues <- MCInitialValues
  HostInputs = {in, cfg}
  HostOutputs = {out}
  HostValues = {9}
  ConcurrentHost = TRUE
  MaxTicks = 3
  MaxQueueLen = 2
SPECIFICATION Spec
INVARIANT SendReceiveBalance
PROPERTY QuiescentTickReturn
PROPERTY TickTerminates
