------------------------------ MODULE Sessions ------------------------------
(* The credentials of the web interface and the stores that decide whether   *)
(* one is accepted: the accounts (user/store.go), the session tokens and     *)
(* their blacklist (auth/jwt.go, auth/blacklist.go), the API tokens          *)
(* (tokens/store.go) and the console tickets (auth/ticket.go, vnc_ticket.go).*)
(*                                                                           *)
(* A credential is stamped with the session epoch its account had; raising   *)
(* the epoch is how every credential of an account is revoked at once.  Each *)
(* store keeps its truth in memory under its own mutex and writes the whole  *)
(* file inside that critical section, so a store operation is one step with  *)
(* one outcome of the write.  The handlers span several such sections: they  *)
(* copy the account or are let through by the middleware, and mint later.    *)
(*                                                                           *)
(* Passwords, codes, names of scopes and the must-change flag are left out:  *)
(* what they contribute here is that changing one raises the epoch.          *)
EXTENDS Integers

CONSTANTS
    Users,       \* account names
    Seed,        \* the account named "admin"
    Workers,     \* request goroutines
    Nil,         \* no account, no job
    MaxIssued,   \* bound: credentials minted over a behaviour
    MaxChanges,  \* bound: account changes over a behaviour
    MaxWork,     \* bound: both together
    MaxFails,    \* bound: file writes that fail over a behaviour
    MaxCrashes   \* bound: times the daemon goes down

Roles == {"admin", "operator"}
Ids == 1 .. MaxIssued
Epochs == 0 .. MaxChanges

Account == [role : Roles, active : BOOLEAN, epoch : Epochs]

\* stamp counts the acknowledged revocations of the account that the
\* authentication behind the credential already knew of; late marks one whose
\* epoch was read after another change overtook its request, and what was
\* minted from such a one.
Credential == [id : Ids, kind : {"session", "api", "ticket", "vnc"}, user : Users,
               role : Roles, epoch : Epochs, stamp : Epochs, late : BOOLEAN]

\* A handler between its check and its mint: old is the credential it came
\* with, 0 when it is a login.
Job == [op : {"login", "refresh", "password", "api"}, user : Users,
        role : Roles, epoch : Epochs, stamp : Epochs, late : BOOLEAN,
        old : 0 .. MaxIssued]

ASSUME SeedAssumption == Seed \in Users
ASSUME NilAssumption == Nil \notin Account /\ Nil \notin Job
ASSUME BoundsAssumption ==
    /\ MaxIssued \in Nat /\ MaxChanges \in Nat /\ MaxWork \in Nat
    /\ MaxFails \in Nat /\ MaxCrashes \in Nat

VARIABLES
    up,       \* is the daemon running
    mem,      \* user.Store.users
    disk,     \* users.json
    creds,    \* the credentials that have not expired
    blMem,    \* TokenBlacklist.entries
    blDisk,   \* revoked.json
    dirty,    \* TokenBlacklist.dirty
    apiMem,   \* tokens.Store.toks, without the revoked ones
    apiDisk,  \* api-tokens.json, likewise
    tickets,  \* ticketStore and vncTicketStore
    job       \* what each request goroutine carries

\* Observations no code keeps, for the properties.
VARIABLES
    issued, changes, fails, crashes,  \* counters behind the bounds
    revs,       \* acknowledged revocations of each account
    ended,      \* credentials whose own end was acknowledged
    forgotten,  \* those a restart could not have known of
    unsaved,    \* accounts with a change whose failed save() was reported
    known,      \* names that have had an account
    reset,      \* accounts whose epoch went back
    unguarded   \* Update took the role or the activity of another administrator

userVars == <<mem, disk, unsaved>>
blVars == <<blMem, blDisk, dirty>>
apiVars == <<apiMem, apiDisk>>
counters == <<issued, changes, fails, crashes>>
seen == <<revs, ended, forgotten, known, reset, unguarded>>
vars == <<up, userVars, creds, blVars, apiVars, tickets, job, counters, seen>>

Init ==
    /\ up = TRUE
    /\ mem = [u \in Users |-> IF u = Seed
                              THEN [role |-> "admin", active |-> TRUE, epoch |-> 0]
                              ELSE Nil]
    /\ disk = mem
    /\ creds = {}
    /\ blMem = {} /\ blDisk = {} /\ dirty = FALSE
    /\ apiMem = {} /\ apiDisk = {} /\ tickets = {}
    /\ job = [w \in Workers |-> Nil]
    /\ issued = 0 /\ changes = 0 /\ fails = 0 /\ crashes = 0
    /\ revs = [u \in Users |-> 0]
    /\ ended = {} /\ forgotten = {} /\ unsaved = {} /\ known = {Seed} /\ reset = {}
    /\ unguarded = FALSE

\* One more credential is within the bounds.
Room == issued < MaxIssued /\ issued + changes < MaxWork

\* A write of a file: it may fail as often as the bound allows.
Write(ok) == IF ok THEN UNCHANGED fails
                   ELSE fails < MaxFails /\ fails' = fails + 1

\* The entries of a map whose credential has not expired.
Unexpired(entries) == entries \cap {c.id : c \in creds}

IsAdmin(a) == mem[a] # Nil /\ mem[a].role = "admin" /\ mem[a].active

\* assertAtLeastOneAdminLocked: an active administrator besides u.
AnotherAdmin(u) == \E a \in Users \ {u} : IsAdmin(a)

\* Middleware and then SessionEnforcer let a request with this credential
\* through: it is not expired, its own store knows it, and the account exists,
\* is active and is still on the epoch it was minted under.
Accepts(c) ==
    /\ up /\ c \in creds
    /\ mem[c.user] # Nil /\ mem[c.user].active
    /\ c.epoch = mem[c.user].epoch
    /\ c.kind = "session" => c.id \notin blMem
    /\ c.kind = "api" => c.id \in apiMem
    /\ c.kind \in {"ticket", "vnc"} => c.id \in tickets

-----------------------------------------------------------------------------
(* The account store.  Every operation ends in save(), which writes all the  *)
(* accounts as they are in memory.  An administrator's request may have been *)
(* let through before its own account lost the role, so no account has to be *)
(* one when the store is reached; the caller is only known not to be u where *)
(* the store refuses that.                                                   *)

\* save(): all the accounts of newMem reach the file, or none.
Save(newMem, ok) ==
    /\ disk' = IF ok THEN newMem ELSE disk
    /\ unsaved' = IF ok THEN {} ELSE unsaved
    /\ Write(ok)

\* An operation on u that leaves its change in memory when save() fails.
Keep(u, acc, ok) ==
    /\ mem' = [mem EXCEPT ![u] = acc]
    /\ disk' = IF ok THEN mem' ELSE disk
    /\ unsaved' = IF ok THEN {} ELSE unsaved \cup {u}
    /\ Write(ok)

\* Mutant: the raised epoch is not saved.
TakeBack_NotSaved(u, ok) ==
    /\ mem' = [mem EXCEPT ![u].epoch = @ + 1]
    /\ UNCHANGED <<disk, unsaved>>
    /\ Write(ok)
    /\ revs' = [revs EXCEPT ![u] = @ + 1]

\* Mutant: the epoch is taken back although it was not raised.
TakeBack_Twice(u, ok) ==
    /\ mem' = [mem EXCEPT ![u].epoch = IF ok THEN @ + 1 ELSE @ - 1]
    /\ Save(mem', ok)
    /\ revs' = IF ok THEN [revs EXCEPT ![u] = @ + 1] ELSE revs

\* An account on the next epoch.
Raised(acc) == [role |-> acc.role, active |-> acc.active, epoch |-> acc.epoch + 1]

\* One that raises u's epoch and takes it back when save() fails.
TakeBack(u, ok) ==
    /\ mem' = IF ok THEN [mem EXCEPT ![u] = Raised(@)] ELSE mem
    /\ Save(mem', ok)
    /\ revs' = IF ok THEN [revs EXCEPT ![u] = @ + 1] ELSE revs

Change ==
    /\ changes < MaxChanges /\ issued + changes < MaxWork
    /\ changes' = changes + 1

Create(u, r, ok) ==
    /\ up /\ mem[u] = Nil /\ Change
    /\ Keep(u, [role |-> r, active |-> TRUE, epoch |-> 0], ok)
    /\ known' = known \cup {u}
    /\ reset' = IF u \in known THEN reset \cup {u} ELSE reset
    /\ UNCHANGED <<up, creds, blVars, apiVars, tickets, job, issued, crashes,
                   revs, ended, forgotten, unguarded>>

\* Mutant: a role change keeps the epoch.
Updated_RoleKeepsEpoch(acc, r, a, other) ==
    [role |-> r, active |-> a,
     epoch |-> IF (acc.active /\ ~a) \/ other THEN acc.epoch + 1 ELSE acc.epoch]

\* The account after Update: the role, the activity, or another field that
\* closes the sessions (password, permissions, allowlists) changed.
Updated(acc, r, a, other) ==
    [role |-> r, active |-> a,
     epoch |-> IF acc.role # r \/ (acc.active /\ ~a) \/ other
               THEN acc.epoch + 1 ELSE acc.epoch]

\* Mutant: the seed administrator is demoted without looking for another one.
MayUpdate_SeedUnguarded(u, r, a) == u = Seed => a

\* Update's guards: they protect the account named "admin" only.
MayUpdate(u, r, a) ==
    u = Seed => a /\ (r # "admin" => AnotherAdmin(u))

\* One field per request.  A request whose later field is refused has changed
\* the earlier ones in memory and saved nothing, as when save() fails.
Update(u, r, a, other, ok) ==
    /\ up /\ mem[u] # Nil /\ Change
    /\ IF other THEN r = mem[u].role /\ a = mem[u].active
                ELSE (r = mem[u].role) = (a # mem[u].active)
    /\ MayUpdate(u, r, a)
    /\ Keep(u, Updated(mem[u], r, a, other), ok)
    /\ revs' = IF ok /\ mem'[u].epoch # mem[u].epoch
               THEN [revs EXCEPT ![u] = @ + 1] ELSE revs
    /\ unguarded' = (unguarded \/ (u # Seed /\ IsAdmin(u) /\ ~other))
    /\ UNCHANGED <<up, creds, blVars, apiVars, tickets, job, issued, crashes,
                   ended, forgotten, known, reset>>

\* "Log out everywhere", asked for by another account.
BumpSessionEpoch(u, ok) ==
    /\ up /\ mem[u] # Nil /\ Change
    /\ Users # {u}
    /\ TakeBack(u, ok)
    /\ UNCHANGED <<up, creds, blVars, apiVars, tickets, job, issued, crashes,
                   ended, forgotten, known, reset, unguarded>>

Delete(u, ok) ==
    /\ up /\ mem[u] # Nil /\ u # Seed /\ Change
    /\ mem[u].role = "admin" => AnotherAdmin(u)
    /\ Keep(u, Nil, ok)
    /\ revs' = IF ok THEN [revs EXCEPT ![u] = @ + 1] ELSE revs
    /\ UNCHANGED <<up, creds, blVars, apiVars, tickets, job, issued, crashes,
                   ended, forgotten, known, reset, unguarded>>

\* The operations on what the model leaves out (TOTP, backup codes, passkeys,
\* avatars) still write every account.
SaveOther ==
    /\ up /\ disk # mem
    /\ Save(mem, TRUE)
    /\ UNCHANGED <<up, mem, creds, blVars, apiVars, tickets, job, issued, changes,
                   crashes, seen>>

-----------------------------------------------------------------------------
(* Minting.                                                                  *)

Mint(kind, u, role, epoch, stamp, late) ==
    /\ Room
    /\ issued' = issued + 1
    /\ creds' = creds \cup {[id |-> issued + 1, kind |-> kind, user |-> u,
                             role |-> role, epoch |-> epoch, stamp |-> stamp,
                             late |-> late]}

\* TokenBlacklist.Revoke: in memory always; a failed write is left to gc.
Blacklist(id, ok) ==
    /\ blMem' = blMem \cup {id}
    /\ blDisk' = IF ok THEN blMem' ELSE blDisk
    /\ dirty' = ~ok
    /\ Write(ok)

Start(w, j) == job[w] = Nil /\ job' = [job EXCEPT ![w] = j]
Finish(w) == job' = [job EXCEPT ![w] = Nil]

\* Login, Login2FA and WebAuthnLoginFinish: the account is copied when the
\* password, the code or the passkey is checked ...
LoginRead(w, u) ==
    /\ up /\ mem[u] # Nil /\ mem[u].active
    /\ Room
    /\ Start(w, [op |-> "login", user |-> u, role |-> mem[u].role,
                 epoch |-> mem[u].epoch, stamp |-> revs[u], late |-> FALSE, old |-> 0])
    /\ UNCHANGED <<up, userVars, creds, blVars, apiVars, tickets, counters, seen>>

\* ... then MarkLogin saves the accounts (its failure is ignored) and the token
\* carries the role and the epoch of the copy.
LoginMint(w, ok) ==
    LET j == job[w] IN
    /\ j # Nil /\ j.op = "login"
    /\ Mint("session", j.user, j.role, j.epoch, j.stamp, FALSE)
    /\ IF mem[j.user] # Nil THEN Save(mem, ok) ELSE ok /\ UNCHANGED <<disk, unsaved, fails>>
    /\ Finish(w)
    /\ UNCHANGED <<up, mem, blVars, apiVars, tickets, changes, crashes, seen>>

\* Refresh checks the session token and copies the account ...
RefreshRead(w, c) ==
    /\ Accepts(c) /\ c.kind = "session"
    /\ Room
    /\ Start(w, [op |-> "refresh", user |-> c.user, role |-> mem[c.user].role,
                 epoch |-> mem[c.user].epoch, stamp |-> c.stamp, late |-> c.late,
                 old |-> c.id])
    /\ UNCHANGED <<up, userVars, creds, blVars, apiVars, tickets, counters, seen>>

\* ... and mints its successor before it revokes it.
RefreshMint(w, ok) ==
    LET j == job[w] IN
    /\ j # Nil /\ j.op = "refresh"
    /\ Mint("session", j.user, j.role, j.epoch, j.stamp, j.late)
    /\ Blacklist(j.old, ok)
    /\ ended' = ended \cup {j.old}
    /\ Finish(w)
    /\ UNCHANGED <<up, userVars, apiVars, tickets, changes, crashes, revs,
                   forgotten, known, reset, unguarded>>

\* ChangeMyPassword: ChangePassword raises the epoch, or the request fails ...
PasswordChange(w, c, ok) ==
    /\ Accepts(c) /\ c.kind = "session" /\ job[w] = Nil
    /\ Change /\ Room
    /\ TakeBack(c.user, ok)
    /\ job' = IF ok THEN [job EXCEPT ![w] =
                            [op |-> "password", user |-> c.user,
                             role |-> mem[c.user].role, epoch |-> mem'[c.user].epoch,
                             stamp |-> revs'[c.user], late |-> FALSE, old |-> c.id]]
              ELSE job
    /\ UNCHANGED <<up, creds, blVars, apiVars, tickets, issued, crashes,
                   ended, forgotten, known, reset, unguarded>>

\* ... and the caller's session gets a token with the epoch read again.
PasswordMint(w, ok) ==
    LET j == job[w] IN
    /\ j # Nil /\ j.op = "password" /\ mem[j.user] # Nil
    /\ Mint("session", j.user, mem[j.user].role, mem[j.user].epoch, j.stamp,
            mem[j.user].epoch # j.epoch)
    /\ Blacklist(j.old, ok)
    /\ ended' = ended \cup {j.old}
    /\ Finish(w)
    /\ UNCHANGED <<up, userVars, apiVars, tickets, changes, crashes, revs,
                   forgotten, known, reset, unguarded>>

\* The account is gone by then: the answer is success without a new token.
PasswordNoAccount(w) ==
    LET j == job[w] IN
    /\ j # Nil /\ j.op = "password" /\ mem[j.user] = Nil
    /\ Finish(w)
    /\ UNCHANGED <<up, userVars, creds, blVars, apiVars, tickets, counters, seen>>

\* CreateToken: the middleware let the request through ...
ApiBegin(w, c) ==
    /\ Accepts(c) /\ c.kind \in {"session", "api"}
    /\ Room
    /\ Start(w, [op |-> "api", user |-> c.user, role |-> mem[c.user].role,
                 epoch |-> c.epoch, stamp |-> c.stamp, late |-> c.late, old |-> c.id])
    /\ UNCHANGED <<up, userVars, creds, blVars, apiVars, tickets, counters, seen>>

\* ... and the handler seals the account's epoch of now (0 without one) into
\* the API token.
ApiMint(w) ==
    LET j == job[w]
        e == IF mem[j.user] = Nil THEN 0 ELSE mem[j.user].epoch IN
    /\ j # Nil /\ j.op = "api"
    /\ Mint("api", j.user, j.role, e, j.stamp, j.late \/ e # j.epoch)
    /\ apiMem' = apiMem \cup {issued + 1}
    /\ apiDisk' = apiMem'
    /\ Finish(w)
    /\ UNCHANGED <<up, userVars, blVars, tickets, changes, fails, crashes, seen>>

\* The token is not created when it cannot be saved.
ApiMintFailed(w) ==
    /\ job[w] # Nil /\ job[w].op = "api"
    /\ Write(FALSE)
    /\ Finish(w)
    /\ UNCHANGED <<up, userVars, creds, blVars, apiVars, tickets, issued, changes,
                   crashes, seen>>

\* VMConsoleTicket, HostTerminalTicket, EventsTicket and VNCTicket: the ticket
\* inherits the epoch and the role of the credential it was asked for with, and
\* expired tickets are dropped.
IssueTicket(c, kind) ==
    /\ Accepts(c) /\ c.kind \in {"session", "api"}
    /\ Mint(kind, c.user, IF c.kind = "api" THEN mem[c.user].role ELSE c.role,
            c.epoch, c.stamp, c.late)
    /\ tickets' = Unexpired(tickets) \cup {issued + 1}
    /\ UNCHANGED <<up, userVars, blVars, apiVars, job, changes, fails, crashes, seen>>

\* ConsumeTicket: a single-use ticket is gone whether or not it let the request
\* through.  (A VNC ticket is only looked up.)
ConsumeTicket(c) ==
    /\ up /\ c \in creds /\ c.kind = "ticket" /\ c.id \in tickets
    /\ tickets' = tickets \ {c.id}
    /\ ended' = ended \cup {c.id}
    /\ UNCHANGED <<up, userVars, creds, blVars, apiVars, job, counters, revs,
                   forgotten, known, reset, unguarded>>

-----------------------------------------------------------------------------
(* The end of a credential.                                                  *)

\* Mutant: the blacklist entry reaches the file only with gc.
Logout_SavedLater(c, ok) ==
    /\ up /\ c \in creds /\ c.kind = "session" /\ c.id \notin ended
    /\ blMem' = blMem \cup {c.id}
    /\ Write(ok)
    /\ ended' = ended \cup {c.id}
    /\ UNCHANGED <<up, userVars, creds, blDisk, dirty, apiVars, tickets, job, issued,
                   changes, crashes, revs, forgotten, known, reset, unguarded>>

\* Logout answers success whether or not the blacklist could be written.
Logout(c, ok) ==
    /\ Accepts(c) /\ c.kind = "session"
    /\ Blacklist(c.id, ok)
    /\ ended' = ended \cup {c.id}
    /\ UNCHANGED <<up, userVars, creds, apiVars, tickets, job, issued, changes,
                   crashes, revs, forgotten, known, reset, unguarded>>

\* tokens.Store.Revoke and Delete: gone from memory, and acknowledged only when
\* it was saved.
RevokeApi(c, ok) ==
    /\ up /\ c \in creds /\ c.id \in apiMem
    /\ apiMem' = apiMem \ {c.id}
    /\ apiDisk' = IF ok THEN apiMem' ELSE apiDisk
    /\ Write(ok)
    /\ ended' = IF ok THEN ended \cup {c.id} ELSE ended
    /\ UNCHANGED <<up, userVars, creds, blVars, tickets, job, issued, changes,
                   crashes, revs, forgotten, known, reset, unguarded>>

\* Any request with an API token saves the token store (LastUsedAt).
ApiUse ==
    /\ up /\ Unexpired(apiMem) # {} /\ apiDisk # apiMem
    /\ apiDisk' = apiMem
    /\ UNCHANGED <<up, userVars, creds, blVars, apiMem, tickets, job, counters, seen>>

\* Time passes: a credential expires.  What the stores keep of it stays until
\* they look.
Expire(c) ==
    /\ c \in creds
    /\ creds' = creds \ {c}
    /\ ended' = ended \ {c.id} /\ forgotten' = forgotten \ {c.id}
    /\ UNCHANGED <<up, userVars, blVars, apiVars, tickets, job, counters, revs, known,
                   reset, unguarded>>

\* The hourly sweep of the API tokens.
PurgeExpired(ok) ==
    /\ up /\ Unexpired(apiMem) # apiMem
    /\ apiMem' = Unexpired(apiMem)
    /\ apiDisk' = IF ok THEN apiMem' ELSE apiDisk
    /\ Write(ok)
    /\ UNCHANGED <<up, userVars, creds, blVars, tickets, job, issued, changes, crashes,
                   seen>>

\* Mutant: gc writes the file only when it dropped an entry.
Gc_DirtyIgnored(ok) ==
    /\ up
    /\ Unexpired(blMem) # blMem
    /\ blMem' = Unexpired(blMem)
    /\ blDisk' = IF ok THEN blMem' ELSE blDisk
    /\ dirty' = ~ok
    /\ Write(ok)
    /\ UNCHANGED <<up, userVars, creds, apiVars, tickets, job, issued, changes,
                   crashes, seen>>

\* The gc tick: drops what has expired, and writes when it dropped something
\* or an earlier write failed.
Gc(ok) ==
    /\ up
    /\ Unexpired(blMem) # blMem \/ dirty
    /\ blMem' = Unexpired(blMem)
    /\ blDisk' = IF ok THEN blMem' ELSE blDisk
    /\ dirty' = ~ok
    /\ Write(ok)
    /\ UNCHANGED <<up, userVars, creds, apiVars, tickets, job, issued, changes,
                   crashes, seen>>

-----------------------------------------------------------------------------
(* The daemon's own life.                                                    *)

\* It dies, or stops in order: then Close writes a dirty blacklist first.
Down(closing, ok) ==
    /\ up /\ crashes < MaxCrashes
    /\ crashes' = crashes + 1
    /\ up' = FALSE
    /\ blDisk' = IF closing /\ dirty /\ ok THEN blMem ELSE blDisk
    /\ dirty' = (dirty /\ ~(closing /\ ok))
    /\ Write(ok \/ ~closing \/ ~dirty)
    /\ tickets' = {}
    /\ job' = [w \in Workers |-> Nil]
    /\ UNCHANGED <<userVars, creds, blMem, apiVars, issued, changes, seen>>

\* The stores are loaded.  With a blacklist that cannot be read, or be parsed,
\* the daemon starts with an empty one; the latter is set aside.
Restart(readable) ==
    /\ ~up
    /\ up' = TRUE
    /\ mem' = disk /\ apiMem' = apiDisk
    /\ blMem' = IF readable THEN Unexpired(blDisk) ELSE {}
    /\ blDisk' \in IF readable THEN {blDisk} ELSE {blDisk, {}}
    /\ dirty' = FALSE
    /\ reset' = reset \cup unsaved
    /\ forgotten' = IF dirty \/ ~readable THEN forgotten \cup ended ELSE forgotten
    /\ unsaved' = {}
    /\ UNCHANGED <<disk, creds, apiDisk, tickets, job, counters, revs, ended, known,
                   unguarded>>

-----------------------------------------------------------------------------
AccountNext ==
    \/ \E u \in Users, ok \in BOOLEAN :
        \/ \E r \in Roles : Create(u, r, ok)
        \/ \E r \in Roles, a, o \in BOOLEAN : Update(u, r, a, o, ok)
        \/ BumpSessionEpoch(u, ok) \/ Delete(u, ok)
    \/ SaveOther

MintNext(w) ==
    \/ \E u \in Users : LoginRead(w, u)
    \/ \E c \in creds : RefreshRead(w, c) \/ ApiBegin(w, c)
    \/ \E ok \in BOOLEAN :
        \/ \E c \in creds : PasswordChange(w, c, ok)
        \/ LoginMint(w, ok) \/ RefreshMint(w, ok) \/ PasswordMint(w, ok)
    \/ PasswordNoAccount(w) \/ ApiMint(w) \/ ApiMintFailed(w)

CredentialNext ==
    \/ \E c \in creds :
        \/ \E k \in {"ticket", "vnc"} : IssueTicket(c, k)
        \/ ConsumeTicket(c) \/ Expire(c)
        \/ \E ok \in BOOLEAN : Logout(c, ok) \/ RevokeApi(c, ok)
    \/ ApiUse
    \/ \E ok \in BOOLEAN : Gc(ok) \/ PurgeExpired(ok)

LifeNext ==
    \/ \E closing, ok \in BOOLEAN : Down(closing, ok)
    \/ \E readable \in BOOLEAN : Restart(readable)

Next == AccountNext \/ (\E w \in Workers : MintNext(w)) \/ CredentialNext \/ LifeNext

Spec == Init /\ [][Next]_vars

\* gc ticks every five minutes, and writes fail only so often.
FairSpec == Spec /\ WF_vars(\E ok \in BOOLEAN : Gc(ok))

-----------------------------------------------------------------------------
TypeOK ==
    /\ up \in BOOLEAN
    /\ mem \in [Users -> Account \cup {Nil}] /\ disk \in [Users -> Account \cup {Nil}]
    /\ creds \subseteq Credential
    /\ blMem \subseteq Ids /\ blDisk \subseteq Ids /\ dirty \in BOOLEAN
    /\ apiMem \subseteq Ids /\ apiDisk \subseteq Ids /\ tickets \subseteq Ids
    /\ job \in [Workers -> Job \cup {Nil}]
    /\ issued \in 0 .. MaxIssued /\ changes \in Epochs
    /\ fails \in 0 .. MaxFails /\ crashes \in 0 .. MaxCrashes
    /\ revs \in [Users -> Epochs]
    /\ ended \subseteq Ids /\ forgotten \subseteq Ids
    /\ unsaved \subseteq Users /\ known \subseteq Users /\ reset \subseteq Users /\ unguarded \in BOOLEAN

\* store.go says of a role change that "the role carried by a token is either
\* current or the token is dead".  It holds whatever login, refresh, change or
\* crash interleaves, for every account whose epoch never went back: by a
\* restart from a file an earlier save() failed to write, or by deleting the
\* account and creating it again.
RoleCurrentOrDead ==
    \A c \in creds : Accepts(c) /\ c.kind # "api" /\ c.user \notin reset
        => c.role = mem[c.user].role

\* A credential whose authentication precedes an acknowledged revocation of its
\* account (log out everywhere, a change of password, role, activity or scope,
\* a deletion) is not accepted after it, across restarts too; except one minted
\* by a request the revocation overtook between its check and its read of the
\* epoch (ChangeMyPassword, CreateToken), or from such a credential.
RevokedStaysDead ==
    \A c \in creds : Accepts(c) /\ ~c.late /\ c.user \notin reset
        => c.stamp = revs[c.user]

\* A session that was logged out or rotated, an API token whose revocation was
\* acknowledged and a ticket that was consumed are never accepted again; only
\* a logout whose write had not succeeded when the daemon died, or an
\* unreadable blacklist file, undoes it (blacklist.go: Revoke, gc, loadLocked).
EndedStaysEnded ==
    \A c \in creds : c.id \in ended \ forgotten => ~Accepts(c)

\* The last administrator cannot be deleted, and the seed administrator cannot
\* give up its role to nobody: while Update took nothing from another
\* administrator, an active one exists (store.go: Update, Delete).
AdminRemains == up /\ ~unguarded => \E a \in Users : IsAdmin(a)

\* A blacklist write that failed is made up for by gc (blacklist.go: "retry on
\* the next GC cycle").
DirtyFlushed == dirty ~> (~dirty \/ ~up)

=============================================================================
