SPECIFICATION Spec
CONSTANTS
    Daemons <- MCDaemons
    Handled = {"UPDATE"}
    MaxConns = 2
    MaxSent = 1
    MaxResets = 1
INVARIANT NoActiveConnection
CHECK_DEADLOCK FALSE
