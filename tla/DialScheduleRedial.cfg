SPECIFICATION Spec
CONSTANTS
  tcp = tcp  relay = relay
  Addresses <- TCPAndRelay
  Frequency <- TwoAndFive
  StdSleep = 2
  CoolDownInterval = 3
  CoolDownDelay = 5
  CoolDownMaxAttempts = 3
PROPERTY RedialledAtOnce
