\* Two logins at a time of an account that has its backup codes.
CONSTANTS
    Workers = {w1, w2}
    Threshold = 2
    MaxTime = 1
    MaxCalls = 3
SPECIFICATION Spec
INVARIANT BackupCodeSingleUse
CHECK_DEADLOCK FALSE
