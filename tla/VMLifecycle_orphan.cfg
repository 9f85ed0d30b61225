SPECIFICATION Spec
CONSTANTS
    Jobs = {1, 2, 3}
    NoJob = NoJob
    MaxFaults = 0
    VMs = {1}
    Hosts = {h1}
    Vmids = {i1, i2}
    Requests = {r1}
    Wanted = {"start_vm", "stop_vm", "reboot_vm", "reinstall_vm", "delete_vm",
              "ssh_readiness_check"}
    NoVm = NoVm
    NoHost = NoHost
    NoVmid = NoVmid
SYMMETRY Symmetry
INVARIANTS NoVmidNoGuest
CHECK_DEADLOCK FALSE
