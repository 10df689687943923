\* Every device behaviour under every sequence of at most four to six accesses, and the
\* UART under every interleaving of firmware accesses and received bytes.
CONSTANTS
  Bit = {0, 1}
  Modulus = 4
  Frontier = Frontier
  FlashId = 2
  Never = Never
  Offset = {0, 4, 8}
  Command <- MCCommand
  PowerOn <- MCPowerOn
  MaxPast <- MCMaxPast
  Byte = {b1, b2}
  NoByte = NoByte
  MaxRx = 3
  MaxTx = 2
SPECIFICATION BoardSpec
INVARIANTS TypeOK PollContract WatchdogContract ReplayContract FlashContract RegisterContract
INVARIANTS UartTypeOK FlagsFollowQueue
PROPERTIES ImplementsSerialPort
CHECK_DEADLOCK FALSE
