-------------------------- MODULE Perimeter_proofs --------------------------
(* Proofs about Perimeter, for any addresses, jails, whitelist entries,      *)
(* thresholds and number of logins in flight.  The jail's side (ban list,    *)
(* kernel, whitelist) and the limiter's side (buckets, requests) share no    *)
(* variable, so each has an inductive invariant of its own; an action that   *)
(* touches only one side leaves the other's unchanged.                       *)
EXTENDS Perimeter, FiniteSetTheorems, TLAPS

USE SetsAssumption, BoundsAssumption
USE DEF TTL, NoBan, NoBucket, Idle, Configs, DefaultConfig

-----------------------------------------------------------------------------
(* The jail.                                                                 *)

JailTyped ==
    /\ banned \in [Ips -> {NoBan, 0} \cup TTL]
    /\ attempts \in [Jails -> [Ips -> 0 .. MaxAttempts - 1]]
    /\ config \in Configs /\ saved \in Configs
    /\ table \in BOOLEAN /\ kernel \in [Ips -> {0} \cup TTL]
    /\ deleting \subseteq V4
    /\ bare \subseteq Ips /\ stray \subseteq Ips

\* The table "ip webkvm" has IPv4 elements only.
KernelIsV4 == \A ip \in Ips : kernel[ip] > 0 => ip \in V4

JailInv == JailTyped /\ KernelIsV4 /\ BannedIsDropped /\ DropIsListed /\ WhitelistHonoured

jailSide == <<jailVars, kernelVars, deleting, bare, stray>>

\* An empty ban list and an empty set agree.
LEMMA JailInit == Init => JailInv
BY DEF Init, JailInv, JailTyped, KernelIsV4, BannedIsDropped, DropIsListed,
       WhitelistHonoured, IsBanned, IsAllowed

\* A step of the limiter alone keeps the jail's invariant.
LEMMA JailStutter == ASSUME JailInv, UNCHANGED jailSide PROVE JailInv'
BY DEF JailInv, JailTyped, KernelIsV4, BannedIsDropped, DropIsListed, WhitelistHonoured,
       IsBanned, IsAllowed, jailSide, jailVars, kernelVars

\* A ban of an address that is not whitelisted marks it when list and kernel
\* differ, whatever nft did.
LEMMA BanInv ==
    ASSUME JailInv, NEW ip \in Ips, NEW d \in TTL, NEW out, ~IsAllowed(ip),
           Ban(ip, d, out), UNCHANGED <<config, saved, deleting>>,
           attempts' \in [Jails -> [Ips -> 0 .. MaxAttempts - 1]]
    PROVE  JailInv'
<1>1. JailTyped'
  BY DEF JailInv, JailTyped, Ban, ApplyNftBan
<1>2. /\ banned' = [banned EXCEPT ![ip] = d]
      /\ \A x \in Ips : x # ip => /\ kernel'[x] = kernel[x]
                                  /\ x \in bare' <=> x \in bare
                                  /\ x \in stray' <=> x \in stray
      /\ kernel'[ip] = kernel[ip] \/ ip \in V4
      /\ ip \notin bare' => kernel'[ip] >= d
      /\ ip \notin stray' => kernel'[ip] <= d
  BY DEF JailInv, JailTyped, Ban, ApplyNftBan
<1>3. KernelIsV4' /\ BannedIsDropped' /\ DropIsListed'
  BY <1>1, <1>2 DEF JailInv, JailTyped, KernelIsV4, BannedIsDropped, DropIsListed, IsBanned
<1>4. WhitelistHonoured'
  BY <1>1, <1>2 DEF JailInv, JailTyped, WhitelistHonoured, IsAllowed
<1>5. QED
  BY <1>1, <1>3, <1>4 DEF JailInv

\* One more failure, from a login or from elsewhere.
LEMMA RecordInv ==
    ASSUME JailInv, NEW j \in Jails, NEW ip \in Ips, NEW d \in TTL, NEW out,
           RecordFailureWithJail(j, ip, d, out), UNCHANGED deleting
    PROVE  JailInv'
<1>1. CASE j \notin config.active \/ IsAllowed(ip) \/ IsBanned(ip)
  BY <1>1, JailStutter DEF RecordFailureWithJail, jailSide
<1>2. CASE /\ ~(j \notin config.active \/ IsAllowed(ip) \/ IsBanned(ip))
           /\ attempts[j][ip] + 1 >= config.max[j]
  <2>1. attempts' \in [Jails -> [Ips -> 0 .. MaxAttempts - 1]]
    <3>1. attempts' = [attempts EXCEPT ![j][ip] = 0]
      BY <1>2 DEF RecordFailureWithJail
    <3>2. 0 \in 0 .. MaxAttempts - 1
      BY BoundsAssumption
    <3>3. QED
      BY <3>1, <3>2 DEF JailInv, JailTyped
  <2>2. QED
    BY <1>2, <2>1, BanInv DEF RecordFailureWithJail
<1>3. CASE /\ ~(j \notin config.active \/ IsAllowed(ip) \/ IsBanned(ip))
           /\ ~(attempts[j][ip] + 1 >= config.max[j])
  <2>1. /\ UNCHANGED <<banned, config, saved, kernelVars, deleting, bare, stray>>
        /\ attempts' = [attempts EXCEPT ![j][ip] = @ + 1]
    BY <1>3 DEF RecordFailureWithJail
  <2>2. attempts' \in [Jails -> [Ips -> 0 .. MaxAttempts - 1]]
    BY <1>3, <2>1 DEF JailInv, JailTyped
  <2>3. QED
    BY <2>1, <2>2 DEF JailInv, JailTyped, KernelIsV4, BannedIsDropped, DropIsListed,
       WhitelistHonoured, IsBanned, IsAllowed, kernelVars
<1>4. QED
  BY <1>1, <1>2, <1>3

\* An operator's ban.
LEMMA ManualBanInv ==
    ASSUME JailInv, NEW ip \in Ips, NEW d \in TTL, NEW out, ManualBan(ip, d, out)
    PROVE  JailInv'
BY BanInv DEF ManualBan, JailInv, JailTyped

\* From the unlock of Unban on the address counts as being deleted.
LEMMA UnbanInv ==
    ASSUME JailInv, NEW ip \in Ips, Unban(ip)
    PROVE  JailInv'
<1>1. JailTyped'
  BY DEF JailInv, JailTyped, Unban, kernelVars
<1>2. QED
  BY <1>1 DEF JailInv, JailTyped, KernelIsV4, BannedIsDropped, DropIsListed,
     WhitelistHonoured, IsBanned, IsAllowed, Unban, kernelVars

\* Its nft command deletes the element, or leaves it behind.
LEMMA UnbanNftInv ==
    ASSUME JailInv, NEW ip \in Ips, NEW ok \in BOOLEAN, UnbanNft(ip, ok)
    PROVE  JailInv'
<1>1. JailTyped'
  BY DEF JailInv, JailTyped, UnbanNft, RemoveNftBan, jailVars
<1>2. KernelIsV4' /\ BannedIsDropped'
  BY DEF JailInv, JailTyped, KernelIsV4, BannedIsDropped, IsBanned, UnbanNft,
         RemoveNftBan, jailVars
<1>3. DropIsListed'
  BY DEF JailInv, JailTyped, DropIsListed, UnbanNft, RemoveNftBan, jailVars
<1>4. WhitelistHonoured'
  BY DEF JailInv, JailTyped, WhitelistHonoured, IsAllowed, UnbanNft, RemoveNftBan, jailVars
<1>5. QED
  BY <1>1, <1>2, <1>3, <1>4 DEF JailInv

\* A new entry unbans what it covers.  An address it covers that was not banned
\* is dropped only if it was one of the leftovers, by DropIsListed.
LEMMA AddWhitelistInv ==
    ASSUME JailInv, NEW n \in Nets, NEW nft \in BOOLEAN, NEW ok \in BOOLEAN,
           AddWhitelist(n, nft, ok)
    PROVE  JailInv'
<1> DEFINE covered == {ip \in Ips : banned[ip] # NoBan /\ IsAllowed(ip)'}
<1>1. /\ config' = [config EXCEPT !.white = @ \cup {n}]
      /\ banned' = [ip \in Ips |-> IF ip \in covered THEN NoBan ELSE banned[ip]]
      /\ kernel' = [ip \in Ips |-> IF ip \in covered \cap V4 /\ nft THEN 0 ELSE kernel[ip]]
      /\ stray' = IF nft THEN stray \ covered
                  ELSE stray \cup {ip \in covered : kernel[ip] > 0 /\ kernel[ip] > banned'[ip]}
      /\ saved' = IF ok THEN config' ELSE saved
      /\ UNCHANGED <<table, attempts, deleting, bare>>
  BY DEF AddWhitelist, RemoveNftBan, SaveConfig
<1> HIDE DEF covered
<1>2. covered \subseteq Ips /\ \A ip \in Ips : IsAllowed(ip)' /\ banned[ip] # NoBan => ip \in covered
  BY DEF covered
<1>3. JailTyped'
  BY <1>1, <1>2 DEF JailInv, JailTyped
<1>4. KernelIsV4' /\ BannedIsDropped'
  BY <1>1, <1>2 DEF JailInv, JailTyped, KernelIsV4, BannedIsDropped, IsBanned
<1>5. DropIsListed'
  BY <1>1, <1>2 DEF JailInv, JailTyped, KernelIsV4, DropIsListed
<1>6. ASSUME NEW ip \in Ips, IsAllowed(ip)'
      PROVE  banned'[ip] = NoBan /\ (kernel'[ip] = 0 \/ ip \in stray' \cup deleting')
  BY <1>1, <1>2, <1>6 DEF JailInv, JailTyped, KernelIsV4, DropIsListed
<1>7. WhitelistHonoured'
  BY <1>6 DEF WhitelistHonoured
<1>8. QED
  BY <1>3, <1>4, <1>5, <1>7 DEF JailInv

\* Fewer entries protect fewer addresses.
LEMMA RemoveWhitelistInv ==
    ASSUME JailInv, NEW n \in Nets, NEW ok \in BOOLEAN, RemoveWhitelist(n, ok)
    PROVE  JailInv'
BY DEF JailInv, JailTyped, KernelIsV4, BannedIsDropped, DropIsListed, WhitelistHonoured,
       IsBanned, IsAllowed, RemoveWhitelist, SaveConfig, kernelVars

\* Which jails are enabled, and their thresholds, matter to later failures only.
LEMMA UpdateConfigInv ==
    ASSUME JailInv, NEW active \in SUBSET Jails, NEW max \in [Jails -> 1 .. MaxAttempts],
           NEW ok \in BOOLEAN, UpdateConfig(active, max, ok)
    PROVE  JailInv'
BY DEF JailInv, JailTyped, KernelIsV4, BannedIsDropped, DropIsListed, WhitelistHonoured,
       IsBanned, IsAllowed, UpdateConfig, SaveConfig, kernelVars

\* An entry that expired has no element left, by DropIsListed.
LEMMA JanitorInv == ASSUME JailInv, Janitor PROVE JailInv'
BY DEF JailInv, JailTyped, KernelIsV4, BannedIsDropped, DropIsListed, WhitelistHonoured,
       IsBanned, IsAllowed, Janitor, kernelVars

\* List and kernel age together.
LEMMA TickInv == ASSUME JailInv, Tick PROVE JailInv'
<1>1. /\ \A ip \in Ips : banned'[ip] = Less(banned[ip]) /\ kernel'[ip] = Less(kernel[ip])
      /\ \A ip \in Ips : ip \in stray' <=> ip \in stray /\ kernel'[ip] > 0
      /\ UNCHANGED <<attempts, config, saved, table, deleting, bare>>
  BY DEF Tick, JailInv, JailTyped
<1>2. JailTyped'
  <2>1. banned' \in [Ips -> {NoBan, 0} \cup TTL] /\ kernel' \in [Ips -> {0} \cup TTL]
    BY DEF JailInv, JailTyped, Tick, Less
  <2>2. QED
    BY <1>1, <2>1 DEF JailInv, JailTyped, Tick
<1>3. KernelIsV4' /\ BannedIsDropped' /\ DropIsListed'
  <2>1. \A ip \in Ips : banned[ip] \in Int /\ kernel[ip] \in Nat
    BY DEF JailInv, JailTyped
  <2>2. KernelIsV4'
    BY <1>1, <2>1 DEF JailInv, KernelIsV4, Less
  <2>3. BannedIsDropped'
    BY <1>1, <2>1 DEF JailInv, BannedIsDropped, IsBanned, Less
  <2>4. DropIsListed'
    BY <1>1, <2>1 DEF JailInv, DropIsListed, Less
  <2>5. QED
    BY <2>2, <2>3, <2>4
<1>4. WhitelistHonoured'
  BY <1>1, <1>2 DEF JailInv, JailTyped, WhitelistHonoured, IsAllowed, Less
<1>5. QED
  BY <1>2, <1>3, <1>4 DEF JailInv

\* A failure that leaves the window.
LEMMA AttemptAgesInv ==
    ASSUME JailInv, NEW j \in Jails, NEW ip \in Ips, AttemptAges(j, ip)
    PROVE  JailInv'
<1>1. /\ UNCHANGED <<banned, config, saved, kernelVars, deleting, bare, stray>>
      /\ attempts' \in [Jails -> [Ips -> 0 .. MaxAttempts - 1]]
  BY DEF JailInv, JailTyped, AttemptAges
<1>2. QED
  BY <1>1 DEF JailInv, JailTyped, KernelIsV4, BannedIsDropped, DropIsListed,
     WhitelistHonoured, IsBanned, IsAllowed, kernelVars

\* The firewall manager empties the set.
LEMMA FirewallApplyInv ==
    ASSUME JailInv, NEW rules \in BOOLEAN, FirewallApply(rules)
    PROVE  JailInv'
BY DEF JailInv, JailTyped, KernelIsV4, BannedIsDropped, DropIsListed, WhitelistHonoured,
       IsBanned, IsAllowed, FirewallApply, jailVars

\* What a restart leaves in the kernel is marked.
LEMMA RestartInv ==
    ASSUME JailInv, NEW read \in BOOLEAN, NEW applied \in BOOLEAN, NEW rules \in BOOLEAN,
           Restart(read, applied, rules)
    PROVE  JailInv'
<1>1. JailTyped'
  BY DEF JailInv, JailTyped, Restart, kernelVars
<1>2. QED
  BY <1>1 DEF JailInv, JailTyped, KernelIsV4, BannedIsDropped, DropIsListed,
     WhitelistHonoured, IsBanned, IsAllowed, Restart, kernelVars

-----------------------------------------------------------------------------
(* The limiter.                                                              *)

LoginTyped ==
    /\ bucket \in [Ips -> [n : Nat, win : 0 .. Window, lock : 0 .. Window]]
    /\ req \in [Workers -> Requests]

\* A bucket at its limit stays locked for as long as it lasts, so whoever gets
\* past Allow finds it below the limit, or gets a new one.
LockOutlastsWindow ==
    \A ip \in Ips : bucket[ip].n >= Limit => bucket[ip].lock >= bucket[ip].win

LimiterInv == LoginTyped /\ LockOutlastsWindow /\ GuessesBounded

loginVars == <<bucket, req>>
InCheck(ip) == {w \in Workers : req[w].at = "check" /\ req[w].ip = ip}

\* The requests in flight are counted.
LEMMA InCheckSize ==
    ASSUME NEW ip
    PROVE  /\ IsFiniteSet(InCheck(ip))
           /\ Cardinality(InCheck(ip)) \in Nat
           /\ Cardinality(InCheck(ip)) <= Cardinality(Workers)
           /\ Cardinality(Workers) \in Nat
<1>1. InCheck(ip) \in SUBSET Workers
  BY DEF InCheck
<1>2. QED
  BY <1>1, FS_Subset, FS_CardinalityType

\* The same after the step.
LEMMA InCheckSizeNext ==
    ASSUME NEW ip
    PROVE  /\ IsFiniteSet(InCheck(ip)')
           /\ Cardinality(InCheck(ip)') \in Nat
           /\ Cardinality(InCheck(ip)') <= Cardinality(Workers)
<1>1. InCheck(ip)' \in SUBSET Workers
  BY DEF InCheck
<1>2. QED
  BY <1>1, FS_Subset, FS_CardinalityType

\* No bucket, no request.
LEMMA LimiterInit == Init => LimiterInv
<1> SUFFICES ASSUME Init PROVE LimiterInv
  OBVIOUS
<1>1. LoginTyped /\ LockOutlastsWindow
  BY DEF Init, LoginTyped, LockOutlastsWindow, Requests
<1>2. ASSUME NEW ip \in Ips PROVE Guesses(ip) < Limit + Cardinality(Workers)
  BY InCheckSize DEF Init, Guesses, InCheck
<1>3. QED
  BY <1>1, <1>2 DEF LimiterInv, GuessesBounded

\* A step of the jail alone keeps the limiter's invariant.
LEMMA LimiterStutter == ASSUME LimiterInv, UNCHANGED loginVars PROVE LimiterInv'
BY DEF LimiterInv, LoginTyped, LockOutlastsWindow, GuessesBounded, Guesses, loginVars

\* A step after which no address has more guesses than before.
LEMMA FewerGuesses ==
    ASSUME LimiterInv, LoginTyped', LockOutlastsWindow',
           \A ip \in Ips : bucket'[ip].n <= bucket[ip].n /\ InCheck(ip)' \subseteq InCheck(ip)
    PROVE  LimiterInv'
<1>1. ASSUME NEW ip \in Ips PROVE Guesses(ip)' < Limit + Cardinality(Workers)
  <2>1. Cardinality(InCheck(ip)') <= Cardinality(InCheck(ip))
    BY InCheckSize, FS_Subset
  <2>2. Guesses(ip) < Limit + Cardinality(Workers)
    BY DEF LimiterInv, GuessesBounded
  <2>3. bucket[ip].n \in Nat /\ bucket'[ip].n \in Nat /\ bucket'[ip].n <= bucket[ip].n
    BY DEF LimiterInv, LoginTyped
  <2>4. /\ Guesses(ip) = bucket[ip].n + Cardinality(InCheck(ip))
        /\ Guesses(ip)' = bucket'[ip].n + Cardinality(InCheck(ip)')
    BY DEF Guesses, InCheck
  <2>5. QED
    BY <2>1, <2>2, <2>3, <2>4, InCheckSize, InCheckSizeNext, BoundsAssumption
<1>2. QED
  BY <1>1 DEF LimiterInv, GuessesBounded

\* A request that begins is not yet past Allow.
LEMMA StartInv ==
    ASSUME LimiterInv, NEW w \in Workers, NEW ip \in Ips, NEW jail \in BOOLEAN,
           req[w] = Idle, To(w, [at |-> "allow", ip |-> ip, jail |-> jail]), UNCHANGED bucket
    PROVE  LimiterInv'
<1>1. LoginTyped' /\ LockOutlastsWindow'
  BY DEF LimiterInv, LoginTyped, LockOutlastsWindow, To, Requests
<1>2. \A x \in Ips : bucket'[x].n <= bucket[x].n /\ InCheck(x)' \subseteq InCheck(x)
  BY DEF LimiterInv, LoginTyped, InCheck, To
<1>3. QED
  BY <1>1, <1>2, FewerGuesses

\* A request that ends, or goes on to the jail, without another guess.
LEMMA EndInv ==
    ASSUME LimiterInv, NEW w \in Workers, To(w, Idle), UNCHANGED bucket
    PROVE  LimiterInv'
<1>1. LoginTyped' /\ LockOutlastsWindow'
  BY DEF LimiterInv, LoginTyped, LockOutlastsWindow, To, Requests
<1>2. \A x \in Ips : bucket'[x].n <= bucket[x].n /\ InCheck(x)' \subseteq InCheck(x)
  BY DEF LimiterInv, LoginTyped, InCheck, To
<1>3. QED
  BY <1>1, <1>2, FewerGuesses

\* Whoever passes Allow finds room below the limit for itself and everyone else
\* in flight.
LEMMA AllowInv ==
    ASSUME LimiterInv, NEW w \in Workers, Allow(w)
    PROVE  LimiterInv'
<1> DEFINE i == req[w].ip
           b == bucket[i]
<1>1. /\ req[w] \in Requests /\ req[w].at = "allow" /\ i \in Ips
      /\ b \in [n : Nat, win : 0 .. Window, lock : 0 .. Window]
  BY DEF LimiterInv, LoginTyped, Allow, Requests
<1>2. CASE b.lock > 0
  <2>1. To(w, Idle) /\ UNCHANGED bucket
    BY <1>1, <1>2 DEF Allow
  <2>2. QED
    BY <2>1, EndInv
<1>3. CASE ~(b.lock > 0)
  <2>1. /\ req' = [req EXCEPT ![w] = [req[w] EXCEPT !.at = "check"]]
        /\ bucket' = IF b.win = 0 THEN [bucket EXCEPT ![i] = NoBucket] ELSE bucket
    <3>1. bucket[i].lock = 0
      BY <1>1, <1>3, BoundsAssumption
    <3>2. ~(bucket[i].lock > 0)
      BY <1>3
    <3>3. To(w, [req[w] EXCEPT !.at = "check"])
      BY <3>2 DEF Allow
    <3>4. bucket' = IF b.win = 0 THEN [bucket EXCEPT ![i] = NoBucket] ELSE bucket
      BY <3>1 DEF Allow
    <3>5. QED
      BY <3>3, <3>4 DEF To
  <2>2. LoginTyped' /\ LockOutlastsWindow'
    BY <1>1, <2>1 DEF LimiterInv, LoginTyped, LockOutlastsWindow, Requests
  <2>3. ASSUME NEW ip \in Ips PROVE Guesses(ip)' < Limit + Cardinality(Workers)
    <3>1. CASE ip # i
      <4>1. bucket'[ip] = bucket[ip] /\ InCheck(ip)' = InCheck(ip)
        BY <1>1, <2>1, <3>1 DEF LimiterInv, LoginTyped, InCheck
      <4>2. QED
        BY <4>1 DEF LimiterInv, GuessesBounded, Guesses, InCheck
    <3>2. CASE ip = i
      <4>1. bucket'[ip].n \in Nat /\ bucket'[ip].n < Limit
        BY <1>1, <1>3, <2>1, <3>2 DEF LimiterInv, LoginTyped, LockOutlastsWindow
      <4>2. Guesses(ip)' = bucket'[ip].n + Cardinality(InCheck(ip)')
        BY DEF Guesses, InCheck
      <4>3. /\ Cardinality(InCheck(ip)') \in Nat /\ Cardinality(Workers) \in Nat
            /\ Cardinality(InCheck(ip)') <= Cardinality(Workers)
        BY InCheckSizeNext, InCheckSize
      <4>4. Limit \in Nat
        BY BoundsAssumption
      <4>5. QED
        BY <4>1, <4>2, <4>3, <4>4
    <3>3. QED
      BY <3>1, <3>2
  <2>4. QED
    BY <2>2, <2>3 DEF LimiterInv, GuessesBounded
<1>4. QED
  BY <1>2, <1>3

\* A failed check turns a request in flight into a failure of its bucket.
LEMMA CheckFailsInv ==
    ASSUME LimiterInv, NEW w \in Workers, CheckFails(w)
    PROVE  LimiterInv'
<1> DEFINE i == req[w].ip
           b == bucket[i]
<1>1. /\ req[w] \in Requests /\ req[w].at = "check" /\ i \in Ips /\ req[w].jail \in BOOLEAN
      /\ b \in [n : Nat, win : 0 .. Window, lock : 0 .. Window]
  BY DEF LimiterInv, LoginTyped, CheckFails, Requests
<1>2. /\ bucket' = [bucket EXCEPT ![i] = Failed(b)]
      /\ req' = [req EXCEPT ![w] = IF req[w].jail THEN [req[w] EXCEPT !.at = "report"] ELSE Idle]
  BY <1>1 DEF CheckFails, To, LimiterInv, LoginTyped
<1>3. /\ Failed(b) \in [n : Nat, win : 0 .. Window, lock : 0 .. Window]
      /\ Failed(b).n >= Limit => Failed(b).lock >= Failed(b).win
      /\ Failed(b).n = 1 \/ Failed(b).n = b.n + 1
  BY <1>1 DEF Failed
<1>4. LoginTyped'
  BY <1>1, <1>2, <1>3 DEF LimiterInv, LoginTyped, Requests
<1>5. LockOutlastsWindow'
  BY <1>1, <1>2, <1>3 DEF LimiterInv, LoginTyped, LockOutlastsWindow
<1>6. ASSUME NEW ip \in Ips PROVE Guesses(ip)' < Limit + Cardinality(Workers)
  <2>1. CASE ip # i
    <3>1. bucket'[ip] = bucket[ip] /\ InCheck(ip)' = InCheck(ip)
      BY <1>1, <1>2, <2>1 DEF LimiterInv, LoginTyped, InCheck
    <3>2. QED
      BY <3>1 DEF LimiterInv, GuessesBounded, Guesses, InCheck
  <2>2. CASE ip = i
    <3>1. w \in InCheck(ip) /\ InCheck(ip)' = InCheck(ip) \ {w}
      BY <1>1, <1>2, <2>2 DEF LimiterInv, LoginTyped, InCheck
    <3>2. Cardinality(InCheck(ip)') = Cardinality(InCheck(ip)) - 1
      BY <3>1, InCheckSize, FS_RemoveElement
    <3>3. b.n + Cardinality(InCheck(ip)) < Limit + Cardinality(Workers)
      BY <2>2 DEF LimiterInv, GuessesBounded, Guesses, InCheck
    <3>4. bucket'[ip].n = 1 \/ bucket'[ip].n = b.n + 1
      BY <1>1, <1>2, <1>3, <2>2 DEF LimiterInv, LoginTyped
    <3>5. bucket'[ip].n + Cardinality(InCheck(ip)') < Limit + Cardinality(Workers)
      BY <1>1, <3>2, <3>3, <3>4, InCheckSize
    <3>6. QED
      BY <3>5 DEF Guesses, InCheck
  <2>3. QED
    BY <2>1, <2>2
<1>7. QED
  BY <1>4, <1>5, <1>6 DEF LimiterInv, GuessesBounded

\* A check that passes clears the bucket, or leaves it to the second factor.
LEMMA CheckPassesInv ==
    ASSUME LimiterInv, NEW w \in Workers, NEW second \in BOOLEAN, CheckPasses(w, second)
    PROVE  LimiterInv'
<1>1. req[w] \in Requests /\ req[w].at = "check" /\ req[w].ip \in Ips
  BY DEF LimiterInv, LoginTyped, CheckPasses, Requests
<1>2. /\ bucket' = IF second THEN bucket ELSE [bucket EXCEPT ![req[w].ip] = NoBucket]
      /\ req' = [req EXCEPT ![w] = Idle]
  BY DEF CheckPasses, To
<1>3. LoginTyped' /\ LockOutlastsWindow'
  BY <1>1, <1>2 DEF LimiterInv, LoginTyped, LockOutlastsWindow, Requests
<1>4. \A x \in Ips : bucket'[x].n <= bucket[x].n /\ InCheck(x)' \subseteq InCheck(x)
  BY <1>1, <1>2 DEF LimiterInv, LoginTyped, InCheck
<1>5. QED
  BY <1>3, <1>4, FewerGuesses

\* Window and lock age together.
LEMMA LimiterTick == ASSUME LimiterInv, Tick PROVE LimiterInv'
<1>1. LoginTyped' /\ LockOutlastsWindow'
  BY DEF LimiterInv, LoginTyped, LockOutlastsWindow, Tick, Less
<1>2. \A x \in Ips : bucket'[x].n <= bucket[x].n /\ InCheck(x)' \subseteq InCheck(x)
  BY DEF LimiterInv, LoginTyped, InCheck, Tick
<1>3. QED
  BY <1>1, <1>2, FewerGuesses

\* The buckets and the requests of a program that restarts are gone.
LEMMA LimiterRestart ==
    ASSUME LimiterInv, NEW read \in BOOLEAN, NEW applied \in BOOLEAN, NEW rules \in BOOLEAN,
           Restart(read, applied, rules)
    PROVE  LimiterInv'
<1>1. LoginTyped' /\ LockOutlastsWindow'
  BY DEF LimiterInv, LoginTyped, LockOutlastsWindow, Restart, Requests
<1>2. \A x \in Ips : bucket'[x].n <= bucket[x].n /\ InCheck(x)' \subseteq InCheck(x)
  BY DEF LimiterInv, LoginTyped, InCheck, Restart
<1>3. QED
  BY <1>1, <1>2, FewerGuesses

-----------------------------------------------------------------------------
IInv == JailInv /\ LimiterInv

\* Every step keeps both sides.
LEMMA StepInv == ASSUME IInv, [Next]_vars PROVE IInv'
<1> USE DEF IInv
<1>1. CASE JailNext
  <2> UNCHANGED loginVars
    BY <1>1 DEF JailNext, OtherFailure, ManualBan, Unban, UnbanNft, AddWhitelist,
       RemoveWhitelist, UpdateConfig, Janitor, loginVars
  <2>1. LimiterInv'
    BY LimiterStutter
  <2>2. JailInv'
    <3>1. CASE \E ip \in Ips, d \in TTL, out \in Outcomes, j \in Jails : OtherFailure(j, ip, d, out)
      BY <3>1, RecordInv DEF OtherFailure
    <3>2. CASE \E ip \in Ips, d \in TTL, out \in Outcomes : ManualBan(ip, d, out)
      BY <3>2, ManualBanInv
    <3>3. CASE \E ip \in Ips : Unban(ip)
      BY <3>3, UnbanInv
    <3>4. CASE \E ip \in Ips, ok \in BOOLEAN : UnbanNft(ip, ok)
      BY <3>4, UnbanNftInv
    <3>5. CASE \E n \in Nets, nft, ok \in BOOLEAN : AddWhitelist(n, nft, ok)
      BY <3>5, AddWhitelistInv
    <3>6. CASE \E n \in Nets, ok \in BOOLEAN : RemoveWhitelist(n, ok)
      BY <3>6, RemoveWhitelistInv
    <3>7. CASE \E active \in SUBSET Jails, max \in [Jails -> 1 .. MaxAttempts], ok \in BOOLEAN :
                 UpdateConfig(active, max, ok)
      BY <3>7, UpdateConfigInv
    <3>8. CASE Janitor
      BY <3>8, JanitorInv
    <3>9. QED
      BY <1>1, <3>1, <3>2, <3>3, <3>4, <3>5, <3>6, <3>7, <3>8 DEF JailNext
  <2>3. QED
    BY <2>1, <2>2
<1>2. CASE \E w \in Workers : LoginNext(w)
  <2> PICK w \in Workers : LoginNext(w)
    BY <1>2
  <2>1. CASE \E ip \in Ips : LoginStart(w, ip) \/ CodeStart(w, ip)
    <3>1. JailInv'
      BY <2>1, JailStutter DEF LoginStart, CodeStart, jailSide
    <3>2. PICK ip \in Ips, jail \in BOOLEAN :
            /\ req[w] = Idle /\ To(w, [at |-> "allow", ip |-> ip, jail |-> jail])
            /\ UNCHANGED bucket
      BY <2>1 DEF LoginStart, CodeStart
    <3>3. QED
      BY <3>1, <3>2, StartInv
  <2>2. CASE Allow(w)
    BY <2>2, AllowInv, JailStutter DEF Allow, jailSide
  <2>3. CASE CheckFails(w)
    BY <2>3, CheckFailsInv, JailStutter DEF CheckFails, jailSide
  <2>4. CASE \E d \in TTL, out \in Outcomes : Report(w, d, out)
    <3>1. PICK d \in TTL, out \in Outcomes : Report(w, d, out)
      BY <2>4
    <3>2. req[w].ip \in Ips
      BY <3>1 DEF Report, LimiterInv, LoginTyped, Requests
    <3>3. JailInv'
      BY <3>1, <3>2, RecordInv DEF Report
    <3>4. LimiterInv'
      BY <3>1, EndInv DEF Report
    <3>5. QED
      BY <3>3, <3>4
  <2>5. CASE \E second \in BOOLEAN : CheckPasses(w, second)
    BY <2>5, CheckPassesInv, JailStutter DEF CheckPasses, jailSide
  <2>6. QED
    BY <2>1, <2>2, <2>3, <2>4, <2>5 DEF LoginNext
<1>3. CASE LifeNext
  <2>1. CASE Tick
    BY <2>1, TickInv, LimiterTick
  <2>2. CASE \E j \in Jails, ip \in Ips : AttemptAges(j, ip)
    BY <2>2, AttemptAgesInv, LimiterStutter DEF AttemptAges, loginVars
  <2>3. CASE \E rules \in BOOLEAN : FirewallApply(rules)
    BY <2>3, FirewallApplyInv, LimiterStutter DEF FirewallApply, loginVars
  <2>4. CASE \E read, applied, rules \in BOOLEAN : Restart(read, applied, rules)
    BY <2>4, RestartInv, LimiterRestart
  <2>5. QED
    BY <1>3, <2>1, <2>2, <2>3, <2>4 DEF LifeNext
<1>4. CASE UNCHANGED vars
  BY <1>4, JailStutter, LimiterStutter DEF vars, jailSide, loginVars
<1>5. QED
  BY <1>1, <1>2, <1>3, <1>4 DEF Next

\* The inductive invariant of the jail and of the limiter holds in every
\* reachable state.
THEOREM Inductive == Spec => []IInv
<1>1. Init => IInv
  BY JailInit, LimiterInit DEF IInv
<1>2. IInv /\ [Next]_vars => IInv'
  BY StepInv
<1>3. QED
  BY <1>1, <1>2, PTL DEF Spec

\* Every reachable state is well typed; in particular no jail ever holds as many
\* failures of an address as the highest threshold it was ever given, however
\* UpdateConfig moves the threshold under the count.
THEOREM TypeCorrect == Spec => []TypeOK
<1>1. IInv => TypeOK
  BY DEF IInv, JailInv, JailTyped, LimiterInv, LoginTyped, TypeOK
<1>2. QED
  BY <1>1, Inductive, PTL

\* Whoever the jail lists is dropped for at least as long, but for the named
\* causes (applyNftBan, buildRulesetWith, Unban).
THEOREM BannedIsDroppedThm == Spec => []BannedIsDropped
<1>1. IInv => BannedIsDropped
  BY DEF IInv, JailInv
<1>2. QED
  BY <1>1, Inductive, PTL

\* Whoever the kernel drops is listed, but for the named causes.
THEOREM DropIsListedThm == Spec => []DropIsListed
<1>1. IInv => DropIsListed
  BY DEF IInv, JailInv
<1>2. QED
  BY <1>1, Inductive, PTL

\* A whitelisted address is neither listed nor dropped, whatever overlaps
\* the whitelist entries have (isAllowed, AddWhitelist, RemoveWhitelist).
THEOREM WhitelistHonouredThm == Spec => []WhitelistHonoured
<1>1. IInv => WhitelistHonoured
  BY DEF IInv, JailInv
<1>2. QED
  BY <1>1, Inductive, PTL

\* The guesses one bucket allows are bounded by the limit and the requests in
\* flight, for any limit, window and number of requests (Allow, RecordFailure).
THEOREM GuessesBoundedThm == Spec => []GuessesBounded
<1>1. IInv => GuessesBounded
  BY DEF IInv, LimiterInv
<1>2. QED
  BY <1>1, Inductive, PTL
=============================================================================
