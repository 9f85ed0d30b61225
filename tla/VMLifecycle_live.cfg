SPECIFICATION FairSpec
CONSTANTS
    Jobs = {1, 2, 3}
    NoJob = NoJob
    MaxFaults = 2
    VMs = {1}
    Hosts = {h1}
    Vmids = {i1, i2}
    Requests = {r1}
    Wanted = {"start_vm", "stop_vm", "reboot_vm", "reinstall_vm", "delete_vm",
              "ssh_readiness_check"}
    NoVm = NoVm
    NoHost = NoHost
    NoVmid = NoVmid
INVARIANTS TypeOK NoLostJob NoDoubleDelivery RunningIsCurrent TransientHasJob PanelAgrees
PROPERTIES RunAtMostOnce KeepsJobPromise KnownGuestsStay ChecksKept EveryJobEnds TransientEnds
CHECK_DEADLOCK FALSE
