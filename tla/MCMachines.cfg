SPECIFICATION Spec
CONSTANTS
    m1 = m1
    m2 = m2
    d1 = d1
    d2 = d2
    d3 = d3
    poolA = poolA
    poolC = poolC
    web = web
    shop = shop
    Bases = {web, shop}
    j1 = j1
    j2 = j2
    r1 = r1
    r2 = r2
    Nil = Nil
    VMs = {m1, m2}
    Disks = {d1, d2, d3}
    VmOf <- MCVmOf
    Rank <- MCRank
    Home <- MCHome
    Pools = {poolA, poolC}
    Jobs = {j1, j2}
    Acts = {"start", "stop"}
    Named <- MCNamed
    Requests = {r1, r2}
    Budgets <- MCBudgets
INVARIANTS
    TypeOK
    DiskThere
    DataKept
    ScheduleObeyed
    OutcomeFiled
CHECK_DEADLOCK FALSE
