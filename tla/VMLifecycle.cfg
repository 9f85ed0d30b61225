SPECIFICATION Spec
CONSTANTS
    Jobs = {1, 2, 3, 4}
    NoJob = NoJob
    MaxFaults = 1
    VMs = {1, 2}
    Hosts = {h1, h2}
    Vmids = {i1, i2}
    Requests = {r1, r2}
    Wanted = {"reinstall_vm", "delete_vm"}
    NoVm = NoVm
    NoHost = NoHost
    NoVmid = NoVmid
SYMMETRY Symmetry
INVARIANTS HostnameUnique ReadyHasIp
PROPERTIES QueueSpec DeleteIsClean OwnGuestOnly
CHECK_DEADLOCK FALSE
