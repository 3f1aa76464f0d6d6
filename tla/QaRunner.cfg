CONSTANTS
    idle = idle
    done = done
    other = other
    Entries = {idle, done, other}
    Registered = {idle, done}
    Logs <- SampleLogs
    Fallback <- SampleFallback
    Absent = Absent
    Unreadable = Unreadable
    Unparsable = Unparsable
    None = None
SPECIFICATION Spec
INVARIANTS TypeOK ExitTells
PROPERTY Exits
CHECK_DEADLOCK FALSE
