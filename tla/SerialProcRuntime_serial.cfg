\* The host acts only between calls of Tick.  Three ticks per proc, host
\* queues of at most two elements.
CONSTANTS
  A = A  B = B  C = C
  in = in  cb = cb  ba = ba  out = out  cfg = cfg
  Procs <- MCProcs
  ProcOrder <- MCProcOrder
  Channels <- MCChannels
  SingleValueChannels = {cfg}
  Program <- MCProgram
  InitialValues <- MCInitialValues
  HostInputs = {in, cfg}
  HostOutputs = {out}
  HostValues = {9}
  ConcurrentHost = FALSE
  MaxTicks = 3
  MaxQueueLen = 2
SPECIFICATION Spec
PROPERTY QuiescentTickReturn
