\* Chains as long as the cap, and two events in the middle of a walk.
SPECIFICATION Spec
CONSTANTS
    Pid = {1, 2, 3, 4}
    Exe <- MCExe
    Hidden = "hidden"
    Package = {"openssh-server"}
    PackageOf <- MCPackageOf
    NoPackage = "none"
    OpenSsh = {"openssh-server"}
    Sshd = {"sshd"}
    HasVerify = TRUE
    Cap = 2
    None = None
    Tables <- MCTables
    MaxEvents = 2
INVARIANTS
    SignedWasTrue
    NoCircle
    WholeChain
    NearestSsh
