SPECIFICATION DeploymentSpec
CONSTANTS
    api = api
    worker = worker
    Processes <- MCProcesses
    Embedding = {worker}
    Api = api
    Versions = {1}
    Identities = {voyage, other}
    Unrecorded = Unrecorded
    Unclaimed = Unclaimed
    Scripts = {d1, d2}
    Tags = {old, new}
    Broken = {}
    NoTag = NoTag
INVARIANTS
    RollbackRestores
CHECK_DEADLOCK FALSE
