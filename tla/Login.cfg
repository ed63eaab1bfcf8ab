SPECIFICATION Spec
CONSTANTS
    MaxTokens = 3
    MaxSecrets = 2
    MaxFaults = 1
    Deadline = 2
    Interval = 1
INVARIANTS LoginTypeOK PasswordIsForgotten
PROPERTIES OnlyRefusedLoginsAsk RenewsRefusedOnly RecoversAlone DeviceGrantEnds
CHECK_DEADLOCK FALSE
