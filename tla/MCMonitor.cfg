\* Every message of diald, MaxFaults pauses and server messages.
SPECIFICATION FairMonitorSpec
CONSTANTS
    Kinds <- AllKinds
    MaxFaults = 3
INVARIANTS MonitorTypeOK Resynchronised QuitOnDamage
PROPERTIES MessagesShown Released
CHECK_DEADLOCK FALSE
