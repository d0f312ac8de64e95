---------------------------- MODULE MCDialSchedule ----------------------------
EXTENDS DialSchedule, TLC
CONSTANTS tcp, relay
TCPAndRelay == {tcp, relay}
TwoAndFive == tcp :> 2 @@ relay :> 5
=============================================================================
