----------------------------- MODULE Perimeter -----------------------------
(* What keeps a guessing client out: the jail (netguard/jail.go), its set in *)
(* the kernel's table "ip webkvm", and the login limiter                     *)
(* (auth/ratelimit.go), with the login handlers that consult them.           *)
(*                                                                           *)
(* The jail's ban list lives in memory; the kernel's set jail_blacklist is   *)
(* what drops packets.  They are kept together by "nft" commands whose       *)
(* outcome is ignored, and the table around the set belongs to the firewall  *)
(* manager, which replaces it whole.  The limiter's Allow and RecordFailure  *)
(* are critical sections of their own, with the password check in between.   *)
(*                                                                           *)
(* A client is one address and one account name; failures of the same        *)
(* address that do not pass through a login (SSH, webhook, passkey, another  *)
(* name) reach the jail directly.  Requests of trusted proxies and loopback, *)
(* which skip the limiter, custom jails, which nothing reports to, and the   *)
(* alert sent at a ban are left out.                                         *)
EXTENDS Integers, FiniteSets

CONSTANTS
    Ips,          \* client addresses
    V4,           \* the IPv4 ones: the table holds no others
    Nets,         \* whitelist entries
    Covers,       \* Covers[n]: the addresses of entry n
    Jails,        \* the jails failures are reported to: "webkvm" and "ssh"
    Web,          \* the one login reports to
    Workers,      \* login requests in flight
    DefaultAttempts, \* JailDefinition.MaxAttempts of a jail nobody changed
    MaxAttempts,  \* bound: the highest threshold a jail is given
    Limit,        \* LoginRateLimiter.limit
    Window,       \* LoginRateLimiter.window and lockout, which are equal
    MaxTTL        \* bound: the longest ban

ASSUME SetsAssumption == V4 \subseteq Ips /\ Covers \in [Nets -> SUBSET Ips] /\ Web \in Jails
ASSUME BoundsAssumption ==
    /\ MaxAttempts \in Nat \ {0} /\ DefaultAttempts \in 1 .. MaxAttempts
    /\ Limit \in Nat \ {0, 1}
    /\ Window \in Nat \ {0} /\ MaxTTL \in Nat \ {0}
    /\ IsFiniteSet(Workers)

TTL == 1 .. MaxTTL
NoBan == -1
NoBucket == [n |-> 0, win |-> 0, lock |-> 0]

VARIABLES
    banned,    \* Jail.banned: time left, 0 for an expired entry, NoBan for none
    attempts,  \* Jail.attempts: failures inside the window, per jail
    config,    \* Jail.cfg: the whitelist, the enabled jails, their thresholds
    saved,     \* jail.json
    table,     \* does the kernel have the table
    kernel,    \* jail_blacklist: time left, 0 when not an element
    deleting,  \* Unban requests between their unlock and their "nft delete"
    bucket,    \* LoginRateLimiter.failures, with the time left of window and lock
    req        \* where each login request is

\* Observations no code keeps, for the properties.
VARIABLES
    bare,   \* banned addresses whose element may be missing, for a known cause
    stray   \* elements that may outlive their ban, for a known cause

jailVars == <<banned, attempts, config, saved>>
kernelVars == <<table, kernel>>
vars == <<jailVars, kernelVars, deleting, bucket, req, bare, stray>>

Idle == [at |-> "idle"]

\* The administrator's part of DefaultConfig: the system's own whitelist entries
\* cover addresses that never fail here.
DefaultConfig == [white |-> {}, active |-> Jails, max |-> [j \in Jails |-> DefaultAttempts]]

Init ==
    /\ banned = [ip \in Ips |-> NoBan]
    /\ attempts = [j \in Jails |-> [ip \in Ips |-> 0]]
    /\ config = DefaultConfig
    /\ saved = config
    /\ table \in BOOLEAN
    /\ kernel = [ip \in Ips |-> 0]
    /\ deleting = {}
    /\ bucket = [ip \in Ips |-> NoBucket]
    /\ req = [w \in Workers |-> Idle]
    /\ bare = {} /\ stray = {}

IsAllowed(ip) == \E n \in config.white : ip \in Covers[n]
IsBanned(ip) == banned[ip] > 0

-----------------------------------------------------------------------------
(* The kernel's set.                                                         *)

\* "nft add element" with a timeout.  An element that is there already keeps
\* its own timeout on some kernels and takes the new one on others.
ApplyNftBan(ip, d, out) ==
    /\ kernel' = IF ip \in V4 /\ table /\ out # "failed" /\ ~(out = "kept" /\ kernel[ip] > 0)
                 THEN [kernel EXCEPT ![ip] = d] ELSE kernel
    /\ bare' = IF kernel'[ip] >= d THEN bare \ {ip} ELSE bare \cup {ip}
    /\ stray' = IF kernel'[ip] <= d THEN stray \ {ip} ELSE stray \cup {ip}
    /\ UNCHANGED table

\* "nft delete element", for the IPv4 addresses of S; its failure is ignored.
RemoveNftBan(S, ok) ==
    /\ kernel' = [ip \in Ips |-> IF ip \in S \cap V4 /\ ok THEN 0 ELSE kernel[ip]]
    /\ stray' = IF ok THEN stray \ S
                ELSE stray \cup {ip \in S : kernel[ip] > 0 /\ kernel[ip] > banned'[ip]}
    /\ UNCHANGED table

\* Apply, StageHostApply or a rollback of the firewall manager replaces the
\* table, or deletes it when no rule is left; its set is empty then.
FirewallApply(rules) ==
    /\ table' = rules
    /\ kernel' = [ip \in Ips |-> 0]
    /\ bare' = {ip \in Ips : IsBanned(ip)} /\ stray' = {}
    /\ UNCHANGED <<jailVars, deleting, bucket, req>>

-----------------------------------------------------------------------------
(* The jail: every operation holds its mutex.                                *)

Ban(ip, d, out) ==
    /\ banned' = [banned EXCEPT ![ip] = d]
    /\ ApplyNftBan(ip, d, out)

\* Mutant: the threshold bans in memory only.
RecordFailureWithJail_NoNft(j, ip, d, out) ==
    IF j \notin config.active \/ IsAllowed(ip) \/ IsBanned(ip)
    THEN UNCHANGED <<jailVars, kernelVars, bare, stray>>
    ELSE /\ UNCHANGED <<config, saved, kernelVars, bare, stray>>
         /\ IF attempts[j][ip] + 1 >= config.max[j]
            THEN /\ banned' = [banned EXCEPT ![ip] = d]
                 /\ attempts' = [attempts EXCEPT ![j][ip] = 0]
            ELSE /\ attempts' = [attempts EXCEPT ![j][ip] = @ + 1]
                 /\ UNCHANGED banned

\* Mutant: the failures that led to a ban are kept.
RecordFailureWithJail_AttemptsKept(j, ip, d, out) ==
    IF j \notin config.active \/ IsAllowed(ip) \/ IsBanned(ip)
    THEN UNCHANGED <<jailVars, kernelVars, bare, stray>>
    ELSE /\ UNCHANGED <<config, saved>>
         /\ attempts' = [attempts EXCEPT ![j][ip] = @ + 1]
         /\ IF attempts[j][ip] + 1 >= config.max[j]
            THEN Ban(ip, d, out)
            ELSE UNCHANGED <<banned, kernelVars, bare, stray>>

\* RecordFailureWithJail: one more failure of ip, which is banned for the
\* jail's duration d at the threshold.  An address that is banned already is
\* neither counted nor put into the kernel's set again.
RecordFailureWithJail(j, ip, d, out) ==
    IF j \notin config.active \/ IsAllowed(ip) \/ IsBanned(ip)
    THEN UNCHANGED <<jailVars, kernelVars, bare, stray>>
    ELSE /\ UNCHANGED <<config, saved>>
         /\ IF attempts[j][ip] + 1 >= config.max[j]
            THEN /\ Ban(ip, d, out)
                 /\ attempts' = [attempts EXCEPT ![j][ip] = 0]
            ELSE /\ attempts' = [attempts EXCEPT ![j][ip] = @ + 1]
                 /\ UNCHANGED <<banned, kernelVars, bare, stray>>

\* A failure that does not come from a login: SSH's log, the webhook, ...
OtherFailure(j, ip, d, out) ==
    /\ j \in config.active /\ ~IsAllowed(ip) /\ ~IsBanned(ip)
    /\ RecordFailureWithJail(j, ip, d, out)
    /\ UNCHANGED <<deleting, bucket, req>>

ManualBan(ip, d, out) ==
    /\ ~IsAllowed(ip)
    /\ Ban(ip, d, out)
    /\ UNCHANGED <<attempts, config, saved, deleting, bucket, req>>

\* Mutant: an IPv4 address is forgotten without going on to the kernel.
Unban_MemoryOnly(ip) ==
    /\ ip \notin deleting
    /\ banned' = [banned EXCEPT ![ip] = NoBan]
    /\ attempts' = [j \in Jails |-> [attempts[j] EXCEPT ![ip] = 0]]
    /\ UNCHANGED <<config, saved, kernelVars, deleting, bucket, req, bare, stray>>

\* Unban forgets the address under the mutex ...
Unban(ip) ==
    /\ ip \notin deleting
    /\ banned' = [banned EXCEPT ![ip] = NoBan]
    /\ attempts' = [j \in Jails |-> [attempts[j] EXCEPT ![ip] = 0]]
    /\ deleting' = IF ip \in V4 THEN deleting \cup {ip} ELSE deleting
    /\ UNCHANGED <<config, saved, kernelVars, bucket, req, bare, stray>>

\* ... and deletes the element after it let go of it, when the address may
\* have been banned again.
UnbanNft(ip, ok) ==
    /\ ip \in deleting
    /\ deleting' = deleting \ {ip}
    /\ UNCHANGED <<jailVars, bucket, req>>
    /\ RemoveNftBan({ip}, ok)
    /\ bare' = IF ok /\ IsBanned(ip) THEN bare \cup {ip} ELSE bare

\* saveConfig: the change stays in memory when it fails.
SaveConfig(ok) == saved' = IF ok THEN config' ELSE saved

\* Mutant: banned addresses the new entry covers stay banned.
AddWhitelist_BansKept(n, nft, ok) ==
    /\ n \notin config.white
    /\ config' = [config EXCEPT !.white = @ \cup {n}]
    /\ SaveConfig(ok)
    /\ nft
    /\ UNCHANGED <<banned, attempts, kernelVars, deleting, bucket, req, bare, stray>>

\* AddWhitelist: whoever is listed and covered now is unbanned.
AddWhitelist(n, nft, ok) ==
    LET covered == {ip \in Ips : banned[ip] # NoBan /\ IsAllowed(ip)'} IN
    /\ n \notin config.white
    /\ config' = [config EXCEPT !.white = @ \cup {n}]
    /\ banned' = [ip \in Ips |-> IF ip \in covered THEN NoBan ELSE banned[ip]]
    /\ RemoveNftBan(covered, nft)
    /\ SaveConfig(ok)
    /\ UNCHANGED <<attempts, deleting, bucket, req, bare>>

RemoveWhitelist(n, ok) ==
    /\ n \in config.white
    /\ config' = [config EXCEPT !.white = @ \ {n}]
    /\ SaveConfig(ok)
    /\ UNCHANGED <<banned, attempts, kernelVars, deleting, bucket, req, bare, stray>>

\* UpdateConfig: the jails that are enabled, those the general switch turns
\* off left out, and their thresholds.  Bans in force stay, and so does a count
\* that a lowered threshold leaves behind it: the next failure bans.
UpdateConfig(active, max, ok) ==
    /\ config' = [config EXCEPT !.active = active, !.max = max]
    /\ SaveConfig(ok)
    /\ UNCHANGED <<banned, attempts, kernelVars, deleting, bucket, req, bare, stray>>

\* The janitor's tick removes the expired entries.
Janitor ==
    /\ \E ip \in Ips : banned[ip] = 0
    /\ banned' = [ip \in Ips |-> IF banned[ip] = 0 THEN NoBan ELSE banned[ip]]
    /\ UNCHANGED <<attempts, config, saved, kernelVars, deleting, bucket, req, bare, stray>>

-----------------------------------------------------------------------------
(* The login limiter and the handlers Login and Login2FA.  A login asks the  *)
(* jail, then the limiter, then checks the password; a failure goes to the   *)
(* limiter and then to the jail.  Login2FA asks and tells the limiter only.  *)

To(w, r) == req' = [req EXCEPT ![w] = r]

\* Login finds the address not banned, or answers 403 (no step).
LoginStart(w, ip) ==
    /\ req[w] = Idle /\ ~IsBanned(ip)
    /\ To(w, [at |-> "allow", ip |-> ip, jail |-> TRUE])
    /\ UNCHANGED <<jailVars, kernelVars, deleting, bucket, bare, stray>>

\* Login2FA does not look at the jail.
CodeStart(w, ip) ==
    /\ req[w] = Idle
    /\ To(w, [at |-> "allow", ip |-> ip, jail |-> FALSE])
    /\ UNCHANGED <<jailVars, kernelVars, deleting, bucket, bare, stray>>

\* Allow: refused while locked; a bucket whose window is over is dropped.
Allow(w) ==
    /\ req[w].at = "allow"
    /\ LET b == bucket[req[w].ip] IN
        /\ To(w, IF b.lock > 0 THEN Idle ELSE [req[w] EXCEPT !.at = "check"])
        /\ bucket' = IF b.lock = 0 /\ b.win = 0
                     THEN [bucket EXCEPT ![req[w].ip] = NoBucket] ELSE bucket
    /\ UNCHANGED <<jailVars, kernelVars, deleting, bare, stray>>

\* Mutant: locked one failure too late.
Failed_OneLate(b) ==
    IF b.win = 0 THEN [n |-> 1, win |-> Window, lock |-> 0]
    ELSE [n |-> b.n + 1, win |-> b.win,
          lock |-> IF b.n + 1 > Limit THEN Window ELSE b.lock]

\* The bucket after one more failure: a fresh one when there is none or its
\* window is over (even if it is locked still), locked at the limit.
Failed(b) ==
    IF b.win = 0 THEN [n |-> 1, win |-> Window, lock |-> 0]
    ELSE [n |-> b.n + 1, win |-> b.win,
          lock |-> IF b.n + 1 >= Limit THEN Window ELSE b.lock]

\* The password or the code is wrong: RecordFailure.
CheckFails(w) ==
    /\ req[w].at = "check"
    /\ bucket' = [bucket EXCEPT ![req[w].ip] = Failed(@)]
    /\ To(w, IF req[w].jail THEN [req[w] EXCEPT !.at = "report"] ELSE Idle)
    /\ UNCHANGED <<jailVars, kernelVars, deleting, bare, stray>>

\* Login reports it to the jail.
Report(w, d, out) ==
    /\ req[w].at = "report"
    /\ RecordFailureWithJail(Web, req[w].ip, d, out)
    /\ To(w, Idle)
    /\ UNCHANGED <<deleting, bucket>>

\* It is right: RecordSuccess.  (Login of an account with a second factor
\* leaves the bucket to Login2FA.)
CheckPasses(w, second) ==
    /\ req[w].at = "check" /\ (second => req[w].jail)
    /\ bucket' = IF second THEN bucket ELSE [bucket EXCEPT ![req[w].ip] = NoBucket]
    /\ To(w, Idle)
    /\ UNCHANGED <<jailVars, kernelVars, deleting, bare, stray>>

-----------------------------------------------------------------------------
(* Time and restarts.                                                        *)

Less(t) == IF t > 0 THEN t - 1 ELSE t

Tick ==
    /\ banned' = [ip \in Ips |-> Less(banned[ip])]
    /\ kernel' = [ip \in Ips |-> Less(kernel[ip])]
    /\ bucket' = [ip \in Ips |-> [n |-> bucket[ip].n, win |-> Less(bucket[ip].win),
                                  lock |-> Less(bucket[ip].lock)]]
    /\ stray' = {ip \in stray : kernel'[ip] > 0}
    /\ UNCHANGED <<attempts, config, saved, table, deleting, req, bare>>

\* The oldest failure leaves the jail's sliding window.
AttemptAges(j, ip) ==
    /\ attempts[j][ip] > 0
    /\ attempts' = [attempts EXCEPT ![j][ip] = @ - 1]
    /\ UNCHANGED <<banned, config, saved, kernelVars, deleting, bucket, req, bare, stray>>

\* The daemon restarts: the bans and the buckets are gone, a jail.json that
\* cannot be read leaves the default configuration, and the set is emptied by the
\* firewall's Apply unless that fails.
Restart(read, applied, rules) ==
    /\ banned' = [ip \in Ips |-> NoBan]
    /\ attempts' = [j \in Jails |-> [ip \in Ips |-> 0]]
    /\ config' = IF read THEN saved ELSE DefaultConfig
    /\ bucket' = [ip \in Ips |-> NoBucket]
    /\ req' = [w \in Workers |-> Idle]
    /\ deleting' = {}
    /\ IF applied
       THEN table' = rules /\ kernel' = [ip \in Ips |-> 0] /\ bare' = {} /\ stray' = {}
       ELSE rules = table /\ UNCHANGED kernelVars /\ bare' = {}
            /\ stray' = {ip \in Ips : kernel[ip] > 0}
    /\ UNCHANGED saved

-----------------------------------------------------------------------------
Outcomes == {"set", "kept", "failed"}

JailNext ==
    \/ \E ip \in Ips, d \in TTL, out \in Outcomes :
        \/ \E j \in Jails : OtherFailure(j, ip, d, out)
        \/ ManualBan(ip, d, out)
    \/ \E ip \in Ips : Unban(ip)
    \/ \E ip \in Ips, ok \in BOOLEAN : UnbanNft(ip, ok)
    \/ \E n \in Nets, nft, ok \in BOOLEAN : AddWhitelist(n, nft, ok)
    \/ \E n \in Nets, ok \in BOOLEAN : RemoveWhitelist(n, ok)
    \/ \E active \in SUBSET Jails, max \in [Jails -> 1 .. MaxAttempts], ok \in BOOLEAN :
        UpdateConfig(active, max, ok)
    \/ Janitor

LoginNext(w) ==
    \/ \E ip \in Ips : LoginStart(w, ip) \/ CodeStart(w, ip)
    \/ Allow(w) \/ CheckFails(w)
    \/ \E d \in TTL, out \in Outcomes : Report(w, d, out)
    \/ \E second \in BOOLEAN : CheckPasses(w, second)

LifeNext ==
    \/ Tick
    \/ \E j \in Jails, ip \in Ips : AttemptAges(j, ip)
    \/ \E rules \in BOOLEAN : FirewallApply(rules)
    \/ \E read, applied, rules \in BOOLEAN : Restart(read, applied, rules)

Next == JailNext \/ (\E w \in Workers : LoginNext(w)) \/ LifeNext

Spec == Init /\ [][Next]_vars

-----------------------------------------------------------------------------
Requests == {Idle} \cup [at : {"allow", "check", "report"}, ip : Ips, jail : BOOLEAN]

Configs == [white : SUBSET Nets, active : SUBSET Jails, max : [Jails -> 1 .. MaxAttempts]]

TypeOK ==
    /\ banned \in [Ips -> {NoBan, 0} \cup TTL]
    /\ attempts \in [Jails -> [Ips -> 0 .. MaxAttempts - 1]]
    /\ config \in Configs /\ saved \in Configs
    /\ table \in BOOLEAN /\ kernel \in [Ips -> {0} \cup TTL]
    /\ deleting \subseteq V4
    /\ bucket \in [Ips -> [n : Nat, win : 0 .. Window, lock : 0 .. Window]]
    /\ req \in [Workers -> Requests]
    /\ bare \subseteq Ips /\ stray \subseteq Ips

\* jail.go says of a failure that crosses the threshold that "the IP is jailed
\* in nftables": whoever the jail lists is dropped by the kernel for at least
\* as long, unless nft failed or found no table or a shorter element, the
\* firewall manager replaced the table since, or an Unban that was overtaken
\* by the ban deleted its element (applyNftBan, buildRulesetWith, Unban).
BannedIsDropped ==
    \A ip \in V4 \ bare : IsBanned(ip) => kernel[ip] >= banned[ip]

\* Whoever the kernel drops is listed for at least as long, so an operator can
\* see it and lift it; the exceptions are an Unban under way, an element whose
\* deletion failed silently, one that kept a longer timeout than the new ban's
\* and those that outlived a restart whose Apply failed.
DropIsListed ==
    \A ip \in Ips \ (stray \cup deleting) : kernel[ip] > 0 => kernel[ip] <= banned[ip]

\* A whitelisted address is never in the ban list, and the kernel drops it
\* only by one of those leftovers, whatever the order of bans, whitelist
\* changes, failed saves and restarts (isAllowed, AddWhitelist, ManualBan).
WhitelistHonoured ==
    \A ip \in Ips : IsAllowed(ip) =>
        banned[ip] = NoBan /\ (kernel[ip] = 0 \/ ip \in stray \cup deleting)

\* The checks a client can still see made before its bucket is renewed: those
\* that failed and those already past Allow.
Guesses(ip) ==
    bucket[ip].n + Cardinality({w \in Workers : req[w].at = "check" /\ req[w].ip = ip})

\* "After 5 failed attempts within a 15-minute window, the pair is locked
\* out" (ratelimit.go): as Allow and RecordFailure are separate, logins in
\* flight at the limit still get their check, so the bound on the guesses of
\* one bucket is the limit and one less than the requests in flight.
GuessesBounded == \A ip \in Ips : Guesses(ip) < Limit + Cardinality(Workers)

=============================================================================
