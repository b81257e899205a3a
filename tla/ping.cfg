SPECIFICATION Spec
CONSTANTS
  Local = "local"
  Target = "target"
  LocalMac = "localmac"
  HostIp <- MCHostIp
  Noise <- MCNoise
  ArpAttempts = 4
  RetryEvery = 2
  EchoAttempts = 3
  MaxRx = 3
  MaxRuns = 2
INVARIANTS ResolvedMac
PROPERTIES ReplyGenuine PingEnds
CHECK_DEADLOCK FALSE
