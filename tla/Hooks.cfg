CONSTANTS
    Tasks = {t1}
    Nrs = {execve}
    Symbols = {"ni_syscall", "write_op", "selinux_setprocattr"}
    MaxEntries = 16
    MaxFaults = 1
    MaxSets = 2
SPECIFICATION Spec
CHECK_DEADLOCK FALSE
INVARIANTS
    
    RedirectedIsServed
    HooksUndone
