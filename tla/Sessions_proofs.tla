-------------------------- MODULE Sessions_proofs --------------------------
(* Proofs about Sessions, for any accounts, workers and bounds: the type     *)
(* invariant and the four safety invariants.  The inductive invariant says   *)
(* what the stores know of one another: what the counters bound, that the    *)
(* file of the accounts lags only behind a save() that failed, that the epoch*)
(* of a credential tells whether it is stale, and that what was ended is gone*)
(* from the store that is asked.                                             *)
EXTENDS Sessions, TLAPS

USE SeedAssumption, BoundsAssumption, NilAssumption

-----------------------------------------------------------------------------
(* The inductive invariant.                                                  *)

\* The counters bound what is handed out under them.
AccountsCounted ==
    \A u \in Users : /\ mem[u] # Nil => mem[u].epoch <= changes
                     /\ disk[u] # Nil => disk[u].epoch <= changes
                     /\ revs[u] <= changes

IdsCounted ==
    /\ \A c \in creds : c.id <= issued
    /\ \A x \in ended \cup apiMem \cup apiDisk \cup tickets : x <= issued
    /\ \A w \in Workers : job[w] # Nil => job[w].old <= issued

Counted == AccountsCounted /\ IdsCounted

\* What a handler carries besides a login came with a credential, and the one
\* that Refresh and ChangeMyPassword will end is a session.  A login and a
\* changed password are fresh authentications.
JobFromCredential ==
    \A w \in Workers : job[w] # Nil =>
        /\ job[w].op \in {"login", "password"} => ~job[w].late
        /\ job[w].op # "login" => job[w].old # 0
        /\ job[w].op \in {"refresh", "password"} =>
             \A c \in creds : c.id = job[w].old => c.kind = "session"

\* An identifier is given once.
IdsUnique == \A c, d \in creds : c.id = d.id => c = d

\* A restart changes only the accounts whose save() failed.
DiskCurrent == \A u \in Users \ unsaved : disk[u] = mem[u]

\* A name that never had an account has no trace of one.
KnownOnly ==
    /\ \A u \in Users \ known : mem[u] = Nil /\ disk[u] = Nil
    /\ \A c \in creds : c.user \in known
    /\ \A w \in Workers : job[w] # Nil => job[w].user \in known

\* For accounts whose epoch never went back, the epoch a credential carries
\* tells whether its role is current and whether it knew of every revocation.
CredFits(c) ==
    c.user \notin reset /\ mem[c.user] # Nil =>
        /\ c.epoch <= mem[c.user].epoch
        /\ c.epoch = mem[c.user].epoch =>
             /\ c.kind # "api" => c.role = mem[c.user].role
             /\ ~c.late => c.stamp = revs[c.user]

\* So does the one a handler carries; the role matters where it will be minted.
JobFits(j) ==
    j.user \notin reset /\ mem[j.user] # Nil =>
        /\ j.epoch <= mem[j.user].epoch
        /\ j.epoch = mem[j.user].epoch =>
             /\ j.op \in {"login", "refresh"} => j.role = mem[j.user].role
             /\ ~j.late => j.stamp = revs[j.user]

EpochTells ==
    /\ \A c \in creds : CredFits(c)
    /\ \A w \in Workers : job[w] # Nil => JobFits(job[w])

\* The blacklist file lacks an entry only while the blacklist is dirty.
BlacklistSaved == ~dirty => blMem \subseteq blDisk

\* The store of each kind knows what was ended, on disk too where it is loaded.
EndedGone ==
    \A c \in creds :
        /\ c.id \in apiMem \cup apiDisk => c.kind = "api"
        /\ c.id \in ended \ forgotten =>
             /\ c.kind = "session" => c.id \in blMem
             /\ c.kind = "api" => c.id \notin apiMem \cup apiDisk
             /\ c.kind \in {"ticket", "vnc"} => c.id \notin tickets

\* An administrator is left in memory and in the file.
Administered(accounts) ==
    \E a \in Users : accounts[a] # Nil /\ accounts[a].role = "admin" /\ accounts[a].active

AdminStored == ~unguarded => Administered(mem) /\ Administered(disk)

SessionsInv ==
    /\ TypeOK /\ AccountsCounted /\ IdsCounted /\ JobFromCredential /\ IdsUnique
    /\ DiskCurrent /\ KnownOnly /\ EpochTells /\ BlacklistSaved /\ EndedGone /\ AdminStored

-----------------------------------------------------------------------------
(* What each group of steps leaves alone, and what the helpers return.       *)

\* The account store's operations touch the accounts only.
LEMMA AccountFrame ==
    AccountNext => UNCHANGED <<up, creds, blMem, blDisk, dirty, apiMem, apiDisk, tickets,
                               job, issued, ended, forgotten>>
<1> DEFINE Same == UNCHANGED <<up, creds, blMem, blDisk, dirty, apiMem, apiDisk, tickets,
                               job, issued, ended, forgotten>>
<1>1. ASSUME NEW u, NEW r, NEW ok, Create(u, r, ok) PROVE Same
  BY <1>1 DEF Create, blVars, apiVars
<1>2. ASSUME NEW u, NEW r, NEW a, NEW o, NEW ok, Update(u, r, a, o, ok) PROVE Same
  BY <1>2 DEF Update, blVars, apiVars
<1>3. ASSUME NEW u, NEW ok, BumpSessionEpoch(u, ok) \/ Delete(u, ok) \/ SaveOther PROVE Same
  BY <1>3 DEF BumpSessionEpoch, Delete, SaveOther, blVars, apiVars, seen
<1>4. QED
  BY <1>1, <1>2, <1>3 DEF AccountNext

\* Of the handlers only the password change and the login write accounts.
LEMMA HandlerFrame ==
    ASSUME NEW w \in Workers, MintNext(w)
    PROVE  /\ UNCHANGED <<up, tickets, forgotten, known, reset, unguarded>>
           /\ \/ \E c \in creds, ok \in BOOLEAN : PasswordChange(w, c, ok)
              \/ \E ok \in BOOLEAN : LoginMint(w, ok)
              \/ UNCHANGED <<mem, disk, unsaved, changes, revs>>
BY DEF MintNext, LoginRead, RefreshRead, ApiBegin, PasswordChange, LoginMint, RefreshMint,
       PasswordMint, PasswordNoAccount, ApiMint, ApiMintFailed, userVars, counters, seen

\* The end of a credential touches no account.
LEMMA CredentialFrame ==
    CredentialNext => UNCHANGED <<up, mem, disk, unsaved, job, changes, revs, known, reset,
                                  unguarded>>
BY DEF CredentialNext, IssueTicket, ConsumeTicket, Expire, Logout, RevokeApi, ApiUse, Gc,
       PurgeExpired, userVars, counters, seen

\* A step mints at most one credential, with the next identifier.
LEMMA OneMinted ==
    [Next]_vars => \/ creds' \subseteq creds /\ issued' = issued
                   \/ \E c : /\ creds' = creds \cup {c} /\ c.id = issued + 1
                             /\ issued' = issued + 1
<1> DEFINE New == \E c : creds' = creds \cup {c} /\ c.id = issued + 1 /\ issued' = issued + 1
           Old == creds' \subseteq creds /\ issued' = issued
<1> SUFFICES ASSUME [Next]_vars PROVE Old \/ New
  OBVIOUS
<1>1. ASSUME NEW k, NEW u, NEW r, NEW e, NEW s, NEW l, Mint(k, u, r, e, s, l) PROVE New
  BY <1>1 DEF Mint
<1> HIDE DEF New
<1>2. ASSUME NEW w \in Workers, MintNext(w) PROVE Old \/ New
  <2>1. ASSUME NEW ok \in BOOLEAN,
               LoginMint(w, ok) \/ RefreshMint(w, ok) \/ PasswordMint(w, ok)
        PROVE  New
    BY <2>1, <1>1 DEF LoginMint, RefreshMint, PasswordMint
  <2>2. ASSUME ApiMint(w) PROVE New
    BY <2>2, <1>1 DEF ApiMint
  <2>3. ASSUME NEW c, NEW ok, PasswordChange(w, c, ok) PROVE Old
    BY <2>3 DEF PasswordChange
  <2>4. QED
    BY <1>2, <2>1, <2>2, <2>3
    DEF MintNext, LoginRead, RefreshRead, ApiBegin, PasswordNoAccount, ApiMintFailed,
        counters
<1>3. ASSUME NEW c \in creds, NEW k, IssueTicket(c, k) PROVE New
  BY <1>3, <1>1 DEF IssueTicket
<1>4. ASSUME CredentialNext PROVE Old \/ New
  BY <1>3, <1>4 DEF CredentialNext, ConsumeTicket, Expire, Logout, RevokeApi, ApiUse, Gc,
                    PurgeExpired, counters
<1>5. ASSUME AccountNext PROVE Old
  BY <1>5, AccountFrame
<1>6. ASSUME LifeNext \/ UNCHANGED vars PROVE Old
  BY <1>6 DEF LifeNext, Down, Restart, counters, vars
<1>7. QED
  BY <1>2, <1>4, <1>5, <1>6 DEF Next

\* A sweep drops what expired and nothing else.
LEMMA SweepKeeps == ASSUME NEW S PROVE Unexpired(S) \subseteq S
BY DEF Unexpired

\* A sweep of expired entries keeps what a live credential still needs.
LEMMA SweepSpares == ASSUME NEW S, NEW c \in creds, c.id \in S PROVE c.id \in Unexpired(S)
BY DEF Unexpired

\* What is minted from typed parts is a credential with a new identifier.
LEMMA MintTyped ==
    ASSUME TypeOK, NEW k \in {"session", "api", "ticket", "vnc"}, NEW u \in Users,
           NEW r \in Roles, NEW e \in Epochs, NEW s \in Epochs, NEW l \in BOOLEAN,
           Mint(k, u, r, e, s, l)
    PROVE  creds' \subseteq Credential /\ issued + 1 \in Ids /\ issued' \in 0 .. MaxIssued
<1>1. issued + 1 \in Ids /\ issued' = issued + 1
  BY DEF TypeOK, Mint, Room, Ids
<1>2. QED
  BY <1>1 DEF TypeOK, Mint, Credential, Ids

\* The account after a change is within the bounds, and is one.
LEMMA NextAccount ==
    ASSUME TypeOK, AccountsCounted, NEW u \in Users, mem[u] # Nil, Change
    PROVE  /\ Raised(mem[u]) \in Account
           /\ \A r \in Roles, a, o \in BOOLEAN : Updated(mem[u], r, a, o) \in Account
<1>1. mem[u] \in Account
  BY DEF TypeOK
<1>2. mem[u].epoch <= changes /\ changes < MaxChanges
  BY DEF AccountsCounted, Change
<1>3. mem[u].epoch + 1 \in Epochs
  BY <1>1, <1>2 DEF TypeOK, Account, Epochs
<1>4. QED
  BY <1>1, <1>3 DEF Raised, Updated, Account

-----------------------------------------------------------------------------
(* Types and counters.                                                       *)

\* The state the daemon starts in has the types.
LEMMA InitTyped == Init => TypeOK
<1> SUFFICES ASSUME Init PROVE TypeOK
  OBVIOUS
<1>1. [role |-> "admin", active |-> TRUE, epoch |-> 0] \in Account
  BY DEF Account, Roles, Epochs
<1>2. mem \in [Users -> Account \cup {Nil}] /\ disk = mem
  BY <1>1 DEF Init
<1>3. job \in [Workers -> Job \cup {Nil}] /\ revs \in [Users -> Epochs] /\ changes \in Epochs
  BY DEF Init, Epochs
<1>4. up \in BOOLEAN /\ dirty \in BOOLEAN /\ unguarded \in BOOLEAN
  BY DEF Init
<1>5. QED
  BY <1>2, <1>3, <1>4 DEF Init, TypeOK

\* The counters keep epochs and identifiers within their bounds, and a job's old
\* credential has an identifier.
LEMMA StepTyped ==
    TypeOK /\ AccountsCounted /\ IdsCounted /\ JobFromCredential /\ [Next]_vars
        => TypeOK'
<1> SUFFICES ASSUME TypeOK, AccountsCounted, IdsCounted, JobFromCredential, [Next]_vars
    PROVE  TypeOK'
  OBVIOUS
<1> USE DEF TypeOK, Write
<1>1. CASE AccountNext
  <2>1. ASSUME NEW u \in Users, NEW r \in Roles, NEW ok \in BOOLEAN, Create(u, r, ok)
       PROVE  TypeOK'
    <3>1. [role |-> r, active |-> TRUE, epoch |-> 0] \in Account
      BY DEF Account, Epochs
    <3>2. mem' \in [Users -> Account \cup {Nil}] /\ disk' \in [Users -> Account \cup {Nil}]
      BY <2>1, <3>1 DEF Create, Keep
    <3>3. changes' \in Epochs /\ revs' \in [Users -> Epochs]
      BY <2>1, <3>1 DEF Create, Change, Epochs
    <3>4. unsaved' \subseteq Users /\ fails' \in 0 .. MaxFails
      BY <2>1 DEF Create, Keep
    <3>5. QED
      BY <2>1, <3>2, <3>3, <3>4 DEF Create, blVars, apiVars
  <2>2. ASSUME NEW u \in Users, NEW r \in Roles, NEW a \in BOOLEAN, NEW o \in BOOLEAN,
               NEW ok \in BOOLEAN, Update(u, r, a, o, ok)
       PROVE  TypeOK'
    <3>1. Updated(mem[u], r, a, o) \in Account
      BY <2>2, NextAccount DEF Update
    <3>2. mem' \in [Users -> Account \cup {Nil}] /\ disk' \in [Users -> Account \cup {Nil}]
      BY <2>2, <3>1 DEF Update, Keep
    <3>3. changes' \in Epochs /\ revs' \in [Users -> Epochs]
      BY <2>2 DEF Update, Change, Epochs, AccountsCounted
    <3>4. unsaved' \subseteq Users /\ fails' \in 0 .. MaxFails
      BY <2>2 DEF Update, Keep
    <3>5. unguarded' \in BOOLEAN
      BY <2>2 DEF Update
    <3>6. QED
      BY <2>2, <3>2, <3>3, <3>4, <3>5 DEF Update, blVars, apiVars
  <2>3. ASSUME NEW u \in Users, NEW ok \in BOOLEAN, BumpSessionEpoch(u, ok) PROVE TypeOK'
    <3>1. Raised(mem[u]) \in Account
      BY <2>3, NextAccount DEF BumpSessionEpoch
    <3>2. mem' \in [Users -> Account \cup {Nil}] /\ disk' \in [Users -> Account \cup {Nil}]
      BY <2>3, <3>1 DEF BumpSessionEpoch, TakeBack, Save
    <3>3. changes' \in Epochs /\ revs' \in [Users -> Epochs]
      BY <2>3, <3>1 DEF BumpSessionEpoch, TakeBack, Change, Epochs, AccountsCounted
    <3>4. unsaved' \subseteq Users /\ fails' \in 0 .. MaxFails
      BY <2>3 DEF BumpSessionEpoch, TakeBack, Save
    <3>5. QED
      BY <2>3, <3>2, <3>3, <3>4 DEF BumpSessionEpoch, blVars, apiVars
  <2>4. ASSUME NEW u \in Users, NEW ok \in BOOLEAN, Delete(u, ok) PROVE TypeOK'
    <3>1. mem' \in [Users -> Account \cup {Nil}] /\ disk' \in [Users -> Account \cup {Nil}]
      BY <2>4 DEF Delete, Keep
    <3>2. changes' \in Epochs /\ revs' \in [Users -> Epochs]
      BY <2>4 DEF Delete, Change, Epochs, AccountsCounted
    <3>3. unsaved' \subseteq Users /\ fails' \in 0 .. MaxFails
      BY <2>4 DEF Delete, Keep
    <3>4. QED
      BY <2>4, <3>1, <3>2, <3>3 DEF Delete, blVars, apiVars
  <2>5. CASE SaveOther
    BY <2>5 DEF SaveOther, Save, blVars, apiVars, seen
  <2>6. QED
    BY <1>1, <2>1, <2>2, <2>3, <2>4, <2>5 DEF AccountNext
<1>2. ASSUME NEW w \in Workers, MintNext(w) PROVE TypeOK'
  <2>1. ASSUME NEW u \in Users, LoginRead(w, u) PROVE TypeOK'
    <3>1. mem[u] \in Account
      BY <2>1 DEF LoginRead
    <3>2. job' \in [Workers -> Job \cup {Nil}]
      BY <2>1, <3>1 DEF LoginRead, Start, Job, Account
    <3>3. QED
      BY <2>1, <3>2 DEF LoginRead, userVars, blVars, apiVars, counters, seen
  <2>2. ASSUME NEW c \in creds, RefreshRead(w, c) PROVE TypeOK'
    <3>1. mem[c.user] \in Account /\ c \in Credential
      BY <2>2 DEF RefreshRead, Accepts, Credential
    <3>2. job' \in [Workers -> Job \cup {Nil}]
      BY <2>2, <3>1 DEF RefreshRead, Start, Job, Account, Credential, Ids
    <3>3. QED
      BY <2>2, <3>2 DEF RefreshRead, userVars, blVars, apiVars, counters, seen
  <2>3. ASSUME NEW c \in creds, ApiBegin(w, c) PROVE TypeOK'
    <3>1. mem[c.user] \in Account /\ c \in Credential
      BY <2>3 DEF ApiBegin, Accepts, Credential
    <3>2. job' \in [Workers -> Job \cup {Nil}]
      BY <2>3, <3>1 DEF ApiBegin, Start, Job, Account, Credential, Ids
    <3>3. QED
      BY <2>3, <3>2 DEF ApiBegin, userVars, blVars, apiVars, counters, seen
  <2>4. ASSUME NEW c \in creds, NEW ok \in BOOLEAN, PasswordChange(w, c, ok) PROVE TypeOK'
    <3>1. c.user \in Users /\ c.id \in Ids /\ mem[c.user] \in Account
      BY <2>4 DEF PasswordChange, Accepts, Credential
    <3>2. Raised(mem[c.user]) \in Account
      BY <2>4, <3>1, NextAccount DEF PasswordChange, Accepts
    <3>3. mem' \in [Users -> Account \cup {Nil}] /\ disk' \in [Users -> Account \cup {Nil}]
      BY <2>4, <3>2 DEF PasswordChange, TakeBack, Save
    <3>4. changes' \in Epochs /\ revs' \in [Users -> Epochs]
      BY <2>4, <3>1 DEF PasswordChange, TakeBack, Change, Epochs, AccountsCounted
    <3>5. unsaved' \subseteq Users /\ fails' \in 0 .. MaxFails
      BY <2>4 DEF PasswordChange, TakeBack, Save
    <3>6. ok => mem'[c.user].epoch \in Epochs /\ mem[c.user].role \in Roles
      BY <2>4, <3>1, <3>2 DEF PasswordChange, TakeBack, Account
    <3>7. job' \in [Workers -> Job \cup {Nil}]
      BY <2>4, <3>1, <3>4, <3>6 DEF PasswordChange, Job, Ids
    <3>8. QED
      BY <2>4, <3>3, <3>4, <3>5, <3>7 DEF PasswordChange, blVars, apiVars
  <2>5. ASSUME NEW ok \in BOOLEAN, LoginMint(w, ok) PROVE TypeOK'
    <3>1. job[w] \in Job
      BY <2>5 DEF LoginMint
    <3>2. creds' \subseteq Credential /\ issued + 1 \in Ids /\ issued' \in 0 .. MaxIssued
      BY <2>5, <3>1, MintTyped DEF LoginMint, Job
    <3>3. disk' \in [Users -> Account \cup {Nil}] /\ unsaved' \subseteq Users
      BY <2>5 DEF LoginMint, Save
    <3>4. fails' \in 0 .. MaxFails
      BY <2>5 DEF LoginMint, Save
    <3>5. QED
      BY <2>5, <3>2, <3>3, <3>4 DEF LoginMint, Finish, blVars, apiVars, seen
  <2>6. ASSUME NEW ok \in BOOLEAN, RefreshMint(w, ok) PROVE TypeOK'
    <3>1. job[w] \in Job /\ job[w].old \in Ids
      BY <2>6 DEF RefreshMint, Job, JobFromCredential, Ids
    <3>2. creds' \subseteq Credential /\ issued + 1 \in Ids /\ issued' \in 0 .. MaxIssued
      BY <2>6, <3>1, MintTyped DEF RefreshMint, Job
    <3>3. blMem' \subseteq Ids /\ blDisk' \subseteq Ids /\ ended' \subseteq Ids
      BY <2>6, <3>1 DEF RefreshMint, Blacklist
    <3>4. fails' \in 0 .. MaxFails
      BY <2>6 DEF RefreshMint, Blacklist
    <3>5. dirty' \in BOOLEAN
      BY <2>6 DEF RefreshMint, Blacklist
    <3>6. QED
      BY <2>6, <3>2, <3>3, <3>4, <3>5 DEF RefreshMint, Finish, userVars, apiVars
  <2>7. ASSUME NEW ok \in BOOLEAN, PasswordMint(w, ok) PROVE TypeOK'
    <3>1. job[w] \in Job /\ job[w].old \in Ids /\ mem[job[w].user] \in Account
      BY <2>7 DEF PasswordMint, Job, JobFromCredential, Ids
    <3>2. creds' \subseteq Credential /\ issued + 1 \in Ids /\ issued' \in 0 .. MaxIssued
      BY <2>7, <3>1, MintTyped DEF PasswordMint, Job, Account
    <3>3. blMem' \subseteq Ids /\ blDisk' \subseteq Ids /\ ended' \subseteq Ids
      BY <2>7, <3>1 DEF PasswordMint, Blacklist
    <3>4. fails' \in 0 .. MaxFails
      BY <2>7 DEF PasswordMint, Blacklist
    <3>5. dirty' \in BOOLEAN
      BY <2>7 DEF PasswordMint, Blacklist
    <3>6. QED
      BY <2>7, <3>2, <3>3, <3>4, <3>5 DEF PasswordMint, Finish, userVars, apiVars
  <2>8. CASE PasswordNoAccount(w)
    BY <2>8 DEF PasswordNoAccount, Finish, userVars, blVars, apiVars, counters, seen
  <2>9. CASE ApiMint(w)
    <3>1. job[w] \in Job /\ (mem[job[w].user] # Nil => mem[job[w].user].epoch \in Epochs)
      BY <2>9 DEF ApiMint, Job, Account
    <3>2. creds' \subseteq Credential /\ issued + 1 \in Ids /\ issued' \in 0 .. MaxIssued
      <4> DEFINE e == IF mem[job[w].user] = Nil THEN 0 ELSE mem[job[w].user].epoch
                 l == job[w].late \/ e # job[w].epoch
      <4>1. e \in Epochs
        BY <3>1 DEF Epochs
      <4>2. l \in BOOLEAN
        OBVIOUS
      <4>3. Mint("api", job[w].user, job[w].role, e, job[w].stamp, l)
        BY <2>9 DEF ApiMint
      <4> HIDE DEF e, l
      <4>4. QED
        BY <3>1, <4>1, <4>2, <4>3, MintTyped DEF Job
    <3>3. apiMem' \subseteq Ids /\ apiDisk' \subseteq Ids
      BY <2>9, <3>2 DEF ApiMint
    <3>4. QED
      BY <2>9, <3>2, <3>3 DEF ApiMint, Finish, userVars, blVars, seen
  <2>10. CASE ApiMintFailed(w)
    BY <2>10 DEF ApiMintFailed, Finish, userVars, blVars, apiVars, seen
  <2>11. QED
    BY <1>2, <2>1, <2>2, <2>3, <2>4, <2>5, <2>6, <2>7, <2>8, <2>9, <2>10 DEF MintNext
<1>3. CASE CredentialNext
  <2>1. ASSUME NEW c \in creds, NEW k \in {"ticket", "vnc"}, IssueTicket(c, k) PROVE TypeOK'
    <3>1. c \in Credential /\ mem[c.user] \in Account
      BY <2>1 DEF IssueTicket, Accepts, Credential
    <3>2. creds' \subseteq Credential /\ issued + 1 \in Ids /\ issued' \in 0 .. MaxIssued
      BY <2>1, <3>1, MintTyped DEF IssueTicket, Credential, Account
    <3>3. tickets' \subseteq Ids
      BY <2>1, <3>2, SweepKeeps DEF IssueTicket
    <3>4. QED
      BY <2>1, <3>2, <3>3 DEF IssueTicket, userVars, blVars, apiVars, seen
  <2>2. ASSUME NEW c \in creds, ConsumeTicket(c) PROVE TypeOK'
    <3>1. c.id \in Ids
      BY DEF Credential
    <3>2. QED
      BY <2>2, <3>1 DEF ConsumeTicket, userVars, blVars, apiVars, counters
  <2>3. ASSUME NEW c \in creds, Expire(c) PROVE TypeOK'
    BY <2>3 DEF Expire, userVars, blVars, apiVars, counters
  <2>4. ASSUME NEW c \in creds, NEW ok \in BOOLEAN, Logout(c, ok) PROVE TypeOK'
    <3>1. c.id \in Ids
      BY DEF Credential
    <3>2. dirty' \in BOOLEAN
      BY <2>4 DEF Logout, Blacklist
    <3>3. blMem' \subseteq Ids /\ blDisk' \subseteq Ids /\ ended' \subseteq Ids
      BY <2>4, <3>1 DEF Logout, Blacklist
    <3>4. fails' \in 0 .. MaxFails
      BY <2>4 DEF Logout, Blacklist
    <3>5. QED
      BY <2>4, <3>2, <3>3, <3>4 DEF Logout, userVars, apiVars
  <2>5. ASSUME NEW c \in creds, NEW ok \in BOOLEAN, RevokeApi(c, ok) PROVE TypeOK'
    <3>1. c.id \in Ids
      BY DEF Credential
    <3>2. apiMem' \subseteq Ids /\ apiDisk' \subseteq Ids /\ ended' \subseteq Ids
      BY <2>5, <3>1 DEF RevokeApi
    <3>3. fails' \in 0 .. MaxFails
      BY <2>5 DEF RevokeApi
    <3>4. QED
      BY <2>5, <3>2, <3>3 DEF RevokeApi, userVars, blVars
  <2>6. CASE ApiUse
    BY <2>6 DEF ApiUse, userVars, blVars, counters, seen
  <2>7. ASSUME NEW ok \in BOOLEAN, Gc(ok) PROVE TypeOK'
    <3>1. dirty' \in BOOLEAN
      BY <2>7 DEF Gc
    <3>2. blMem' \subseteq Ids /\ blDisk' \subseteq Ids
      BY <2>7, SweepKeeps DEF Gc
    <3>3. fails' \in 0 .. MaxFails
      BY <2>7 DEF Gc
    <3>4. QED
      BY <2>7, <3>1, <3>2, <3>3 DEF Gc, userVars, apiVars, seen
  <2>8. ASSUME NEW ok \in BOOLEAN, PurgeExpired(ok) PROVE TypeOK'
    <3>1. apiMem' \subseteq Ids /\ apiDisk' \subseteq Ids
      BY <2>8, SweepKeeps DEF PurgeExpired
    <3>2. fails' \in 0 .. MaxFails
      BY <2>8 DEF PurgeExpired
    <3>3. QED
      BY <2>8, <3>1, <3>2 DEF PurgeExpired, userVars, blVars, seen
  <2>9. QED
    BY <1>3, <2>1, <2>2, <2>3, <2>4, <2>5, <2>6, <2>7, <2>8 DEF CredentialNext
<1>4. CASE LifeNext
  <2>1. ASSUME NEW closing \in BOOLEAN, NEW ok \in BOOLEAN, Down(closing, ok) PROVE TypeOK'
    <3>1. dirty' \in BOOLEAN
      BY <2>1 DEF Down
    <3>2. blDisk' \subseteq Ids
      BY <2>1 DEF Down
    <3>3. fails' \in 0 .. MaxFails /\ crashes' \in 0 .. MaxCrashes
      BY <2>1 DEF Down
    <3>4. QED
      BY <2>1, <3>1, <3>2, <3>3 DEF Down, userVars, apiVars, seen
  <2>2. ASSUME NEW readable \in BOOLEAN, Restart(readable) PROVE TypeOK'
    <3>1. blMem' \subseteq Ids /\ blDisk' \subseteq Ids
      BY <2>2, SweepKeeps DEF Restart
    <3>2. QED
      BY <2>2, <3>1 DEF Restart, counters
  <2>3. QED
    BY <1>4, <2>1, <2>2 DEF LifeNext
<1>5. CASE UNCHANGED vars
  BY <1>5 DEF vars, userVars, blVars, apiVars, counters, seen
<1>6. QED
  BY <1>1, <1>2, <1>3, <1>4, <1>5 DEF Next

\* Every raise of an epoch is a counted change.
LEMMA StepAccountsCounted == TypeOK /\ AccountsCounted /\ [Next]_vars => AccountsCounted'
<1> SUFFICES ASSUME TypeOK, AccountsCounted, [Next]_vars PROVE AccountsCounted'
  OBVIOUS
<1> USE DEF TypeOK, AccountsCounted, Account, Epochs
<1>1. CASE AccountNext
  <2>1. ASSUME NEW u \in Users, NEW r \in Roles, NEW ok \in BOOLEAN, Create(u, r, ok)
       PROVE  AccountsCounted'
    BY <2>1 DEF Create, Change, Keep, blVars, apiVars
  <2>2. ASSUME NEW u \in Users, NEW r \in Roles, NEW a \in BOOLEAN, NEW o \in BOOLEAN,
               NEW ok \in BOOLEAN, Update(u, r, a, o, ok)
       PROVE  AccountsCounted'
    BY <2>2 DEF Update, Change, Updated, Keep, blVars, apiVars
  <2>3. ASSUME NEW u \in Users, NEW ok \in BOOLEAN, BumpSessionEpoch(u, ok)
       PROVE  AccountsCounted'
    BY <2>3 DEF BumpSessionEpoch, Change, TakeBack, Raised, Save, blVars, apiVars
  <2>4. ASSUME NEW u \in Users, NEW ok \in BOOLEAN, Delete(u, ok) PROVE AccountsCounted'
    BY <2>4 DEF Delete, Change, Keep, blVars, apiVars
  <2>5. CASE SaveOther
    BY <2>5 DEF SaveOther, Save, blVars, apiVars, seen
  <2>6. QED
    BY <1>1, <2>1, <2>2, <2>3, <2>4, <2>5 DEF AccountNext
<1>2. ASSUME NEW w \in Workers, MintNext(w) PROVE AccountsCounted'
  <2>1. ASSUME NEW c \in creds, NEW ok \in BOOLEAN, PasswordChange(w, c, ok)
       PROVE  AccountsCounted'
    BY <2>1 DEF PasswordChange, Change, Accepts, TakeBack, Raised, Save, Credential,
      blVars, apiVars
  <2>2. ASSUME NEW ok \in BOOLEAN, LoginMint(w, ok) PROVE AccountsCounted'
    BY <2>2 DEF LoginMint, Mint, Save, Finish, Job, blVars, apiVars, seen
  <2>3. CASE UNCHANGED <<mem, disk, unsaved, changes, revs>>
    BY <1>2, <2>3, HandlerFrame
  <2>4. QED
    BY <1>2, <2>1, <2>2, <2>3, HandlerFrame
<1>3. CASE CredentialNext
  BY <1>3, CredentialFrame
<1>4. CASE LifeNext
  <2>1. ASSUME NEW closing \in BOOLEAN, NEW ok \in BOOLEAN, Down(closing, ok)
       PROVE  AccountsCounted'
    BY <2>1 DEF Down, userVars, apiVars, seen
  <2>2. ASSUME NEW readable \in BOOLEAN, Restart(readable) PROVE AccountsCounted'
    BY <2>2 DEF Restart, counters
  <2>3. QED
    BY <1>4, <2>1, <2>2 DEF LifeNext
<1>5. CASE UNCHANGED vars
  BY <1>5 DEF vars, userVars, blVars, apiVars, counters, seen
<1>6. QED
  BY <1>1, <1>2, <1>3, <1>4, <1>5 DEF Next

\* An identifier in a store was handed out.
LEMMA StepIdsCounted == TypeOK /\ IdsCounted /\ [Next]_vars => IdsCounted'
<1> SUFFICES ASSUME TypeOK, IdsCounted, [Next]_vars PROVE IdsCounted'
  OBVIOUS
<1> USE DEF TypeOK, IdsCounted, Ids
<1>1. CASE AccountNext
  BY <1>1, AccountFrame DEF IdsCounted
<1>2. ASSUME NEW w \in Workers, MintNext(w) PROVE IdsCounted'
  <2>1. ASSUME NEW u \in Users, LoginRead(w, u) PROVE IdsCounted'
    BY <2>1 DEF LoginRead, Start, userVars, blVars, apiVars, counters, seen
  <2>2. ASSUME NEW c \in creds, RefreshRead(w, c) PROVE IdsCounted'
    BY <2>2 DEF RefreshRead, Accepts, Start, Credential, userVars, blVars, apiVars,
      counters, seen
  <2>3. ASSUME NEW c \in creds, ApiBegin(w, c) PROVE IdsCounted'
    BY <2>3 DEF ApiBegin, Accepts, Start, Credential, userVars, blVars, apiVars, counters,
      seen
  <2>4. ASSUME NEW c \in creds, NEW ok \in BOOLEAN, PasswordChange(w, c, ok) PROVE IdsCounted'
    BY <2>4 DEF PasswordChange, Change, Accepts, TakeBack, Raised, Save, Credential,
      blVars, apiVars
  <2>5. ASSUME NEW ok \in BOOLEAN, LoginMint(w, ok) PROVE IdsCounted'
    <3>1. /\ \A c \in creds' : c.id <= issued'
          /\ issued' = issued + 1 /\ issued \in Nat
      BY <2>5, OneMinted DEF LoginMint, Mint, TypeOK, Credential, Ids
    <3>2. UNCHANGED <<ended, apiMem, apiDisk, tickets>>
      BY <2>5 DEF LoginMint, Mint, TypeOK, Job, userVars, apiVars, seen
    <3>3. \A x \in ended \cup apiMem \cup apiDisk \cup tickets : x \in Int
      BY DEF TypeOK, Ids
    <3>4. \A x \in Workers : job[x] # Nil => job[x].old \in Int
      BY DEF TypeOK, Job
    <3>5. \A x \in Workers : job'[x] # Nil => job'[x] = job[x]
      BY <2>5 DEF LoginMint, Finish, TypeOK
    <3>6. \A x \in ended' \cup apiMem' \cup apiDisk' \cup tickets' : x <= issued'
      BY <3>1, <3>2, <3>3, <3>4 DEF IdsCounted
    <3>7. QED
      BY <3>1, <3>4, <3>5, <3>6 DEF IdsCounted
  <2>6. ASSUME NEW ok \in BOOLEAN, RefreshMint(w, ok) PROVE IdsCounted'
    <3>1. /\ \A c \in creds' : c.id <= issued'
          /\ issued' = issued + 1 /\ issued \in Nat
      BY <2>6, OneMinted DEF RefreshMint, Mint, TypeOK, Credential, Ids
    <3>2. /\ UNCHANGED <<apiMem, apiDisk, tickets>> /\ ended' = ended \cup {job[w].old}
          /\ job[w] # Nil /\ job[w].old <= issued /\ job[w].old \in Int
      BY <2>6 DEF RefreshMint, Mint, TypeOK, Job, userVars, apiVars, seen
    <3>3. \A x \in ended \cup apiMem \cup apiDisk \cup tickets : x \in Int
      BY DEF TypeOK, Ids
    <3>4. \A x \in Workers : job[x] # Nil => job[x].old \in Int
      BY DEF TypeOK, Job
    <3>5. \A x \in Workers : job'[x] # Nil => job'[x] = job[x]
      BY <2>6 DEF RefreshMint, Finish, TypeOK
    <3>6. \A x \in ended' \cup apiMem' \cup apiDisk' \cup tickets' : x <= issued'
      BY <3>1, <3>2, <3>3, <3>4 DEF IdsCounted
    <3>7. QED
      BY <3>1, <3>4, <3>5, <3>6 DEF IdsCounted
  <2>7. ASSUME NEW ok \in BOOLEAN, PasswordMint(w, ok) PROVE IdsCounted'
    <3>1. /\ \A c \in creds' : c.id <= issued'
          /\ issued' = issued + 1 /\ issued \in Nat
      BY <2>7, OneMinted DEF PasswordMint, Mint, TypeOK, Credential, Ids
    <3>2. /\ UNCHANGED <<apiMem, apiDisk, tickets>> /\ ended' = ended \cup {job[w].old}
          /\ job[w] # Nil /\ job[w].old <= issued /\ job[w].old \in Int
      BY <2>7 DEF PasswordMint, Mint, TypeOK, Job, userVars, apiVars, seen
    <3>3. \A x \in ended \cup apiMem \cup apiDisk \cup tickets : x \in Int
      BY DEF TypeOK, Ids
    <3>4. \A x \in Workers : job[x] # Nil => job[x].old \in Int
      BY DEF TypeOK, Job
    <3>5. \A x \in Workers : job'[x] # Nil => job'[x] = job[x]
      BY <2>7 DEF PasswordMint, Finish, TypeOK
    <3>6. \A x \in ended' \cup apiMem' \cup apiDisk' \cup tickets' : x <= issued'
      BY <3>1, <3>2, <3>3, <3>4 DEF IdsCounted
    <3>7. QED
      BY <3>1, <3>4, <3>5, <3>6 DEF IdsCounted
  <2>8. CASE PasswordNoAccount(w)
    BY <2>8 DEF PasswordNoAccount, Finish, userVars, blVars, apiVars, counters, seen
  <2>9. CASE ApiMint(w)
    <3>1. /\ \A c \in creds' : c.id <= issued'
          /\ issued' = issued + 1 /\ issued \in Nat
      BY <2>9, OneMinted DEF ApiMint, Mint, TypeOK, Credential, Ids
    <3>2. apiMem' = apiMem \cup {issued + 1} /\ apiDisk' = apiMem' /\ UNCHANGED <<ended, tickets>>
      BY <2>9 DEF ApiMint, Mint, TypeOK, Job, userVars, apiVars, seen
    <3>3. \A x \in ended \cup apiMem \cup apiDisk \cup tickets : x \in Int
      BY DEF TypeOK, Ids
    <3>4. \A x \in Workers : job[x] # Nil => job[x].old \in Int
      BY DEF TypeOK, Job
    <3>5. \A x \in Workers : job'[x] # Nil => job'[x] = job[x]
      BY <2>9 DEF ApiMint, Finish, TypeOK
    <3>6. \A x \in ended' \cup apiMem' \cup apiDisk' \cup tickets' : x <= issued'
      BY <3>1, <3>2, <3>3, <3>4 DEF IdsCounted
    <3>7. QED
      BY <3>1, <3>4, <3>5, <3>6 DEF IdsCounted
  <2>10. CASE ApiMintFailed(w)
    BY <2>10 DEF ApiMintFailed, Finish, userVars, blVars, apiVars, seen
  <2>11. QED
    BY <1>2, <2>1, <2>2, <2>3, <2>4, <2>5, <2>6, <2>7, <2>8, <2>9, <2>10 DEF MintNext
<1>3. CASE CredentialNext
  <2>1. ASSUME NEW c \in creds, NEW k \in {"ticket", "vnc"}, IssueTicket(c, k) PROVE IdsCounted'
    <3>1. /\ \A e \in creds' : e.id <= issued'
          /\ issued' = issued + 1 /\ issued \in Nat
      BY <2>1, OneMinted DEF IssueTicket, Mint, TypeOK, Credential, Ids
    <3>2. /\ tickets' \subseteq tickets \cup {issued + 1}
          /\ UNCHANGED <<ended, apiMem, apiDisk, job>>
      BY <2>1, SweepKeeps DEF IssueTicket, TypeOK, Job, userVars, apiVars, seen
    <3>3. \A x \in ended \cup apiMem \cup apiDisk \cup tickets : x \in Int
      BY DEF TypeOK, Ids
    <3>4. \A x \in Workers : job[x] # Nil => job[x].old \in Int
      BY DEF TypeOK, Job
    <3>5. \A x \in Workers : job'[x] # Nil => job'[x] = job[x]
      BY <3>2
    <3>6. \A x \in ended' \cup apiMem' \cup apiDisk' \cup tickets' : x <= issued'
      BY <3>1, <3>2, <3>3, <3>4 DEF IdsCounted
    <3>7. QED
      BY <3>1, <3>4, <3>5, <3>6 DEF IdsCounted
  <2>2. ASSUME NEW c \in creds, ConsumeTicket(c) PROVE IdsCounted'
    BY <2>2 DEF ConsumeTicket, Credential, userVars, blVars, apiVars, counters
  <2>3. ASSUME NEW c \in creds, Expire(c) PROVE IdsCounted'
    BY <2>3 DEF Expire, userVars, blVars, apiVars, counters
  <2>4. ASSUME NEW c \in creds, NEW ok \in BOOLEAN, Logout(c, ok) PROVE IdsCounted'
    BY <2>4 DEF Logout, Accepts, Blacklist, Credential, userVars, apiVars
  <2>5. ASSUME NEW c \in creds, NEW ok \in BOOLEAN, RevokeApi(c, ok) PROVE IdsCounted'
    BY <2>5 DEF RevokeApi, Credential, userVars, blVars
  <2>6. CASE ApiUse
    BY <2>6 DEF ApiUse, userVars, blVars, counters, seen
  <2>7. ASSUME NEW ok \in BOOLEAN, Gc(ok) PROVE IdsCounted'
    BY <2>7 DEF Gc, userVars, apiVars, seen
  <2>8. ASSUME NEW ok \in BOOLEAN, PurgeExpired(ok) PROVE IdsCounted'
    BY <2>8, SweepKeeps DEF PurgeExpired, userVars, blVars, seen
  <2>9. QED
    BY <1>3, <2>1, <2>2, <2>3, <2>4, <2>5, <2>6, <2>7, <2>8 DEF CredentialNext
<1>4. CASE LifeNext
  <2>1. ASSUME NEW closing \in BOOLEAN, NEW ok \in BOOLEAN, Down(closing, ok) PROVE IdsCounted'
    BY <2>1 DEF Down, userVars, apiVars, seen
  <2>2. ASSUME NEW readable \in BOOLEAN, Restart(readable) PROVE IdsCounted'
    BY <2>2 DEF Restart, counters
  <2>3. QED
    BY <1>4, <2>1, <2>2 DEF LifeNext
<1>5. CASE UNCHANGED vars
  BY <1>5 DEF vars, userVars, blVars, apiVars, counters, seen
<1>6. QED
  BY <1>1, <1>2, <1>3, <1>4, <1>5 DEF Next

\* The next identifier is one no live credential has.
LEMMA StepIdsUnique == TypeOK /\ IdsCounted /\ IdsUnique /\ [Next]_vars => IdsUnique'
<1> SUFFICES ASSUME TypeOK, IdsCounted, IdsUnique, [Next]_vars PROVE IdsUnique'
  OBVIOUS
<1>1. \A c \in creds : c.id # issued + 1
  BY DEF IdsCounted, TypeOK, Credential, Ids
<1>2. QED
  BY <1>1, OneMinted DEF IdsUnique

\* A new credential cannot be the one a handler will end.
LEMMA StepJobFrom ==
    TypeOK /\ IdsCounted /\ IdsUnique /\ JobFromCredential /\ [Next]_vars
        => JobFromCredential'
<1> SUFFICES ASSUME TypeOK, IdsCounted, IdsUnique, JobFromCredential, [Next]_vars
    PROVE  JobFromCredential'
  OBVIOUS
<1> USE DEF TypeOK, IdsCounted, IdsUnique, JobFromCredential, Ids
<1>1. CASE AccountNext
  BY <1>1, AccountFrame
<1>2. ASSUME NEW w \in Workers, MintNext(w) PROVE JobFromCredential'
  <2>1. ASSUME NEW u \in Users, LoginRead(w, u) PROVE JobFromCredential'
    BY <2>1 DEF LoginRead, Start, userVars, blVars, apiVars, counters, seen
  <2>2. ASSUME NEW c \in creds, RefreshRead(w, c) PROVE JobFromCredential'
    BY <2>2 DEF RefreshRead, Accepts, Start, Credential, userVars, blVars, apiVars,
      counters, seen
  <2>3. ASSUME NEW c \in creds, ApiBegin(w, c) PROVE JobFromCredential'
    BY <2>3 DEF ApiBegin, Accepts, Start, Credential, userVars, blVars, apiVars, counters,
      seen
  <2>4. ASSUME NEW c \in creds, NEW ok \in BOOLEAN, PasswordChange(w, c, ok)
       PROVE  JobFromCredential'
    BY <2>4 DEF PasswordChange, Change, Accepts, TakeBack, Raised, Save, Credential,
      blVars, apiVars
  <2>5. ASSUME NEW ok \in BOOLEAN, LoginMint(w, ok) PROVE JobFromCredential'
    BY <2>5 DEF LoginMint, Mint, Save, Finish, Job, blVars, apiVars, seen
  <2>6. ASSUME NEW ok \in BOOLEAN, RefreshMint(w, ok) PROVE JobFromCredential'
    BY <2>6 DEF RefreshMint, Mint, Blacklist, Finish, Job, userVars, apiVars
  <2>7. ASSUME NEW ok \in BOOLEAN, PasswordMint(w, ok) PROVE JobFromCredential'
    BY <2>7 DEF PasswordMint, Mint, Blacklist, Finish, Job, userVars, apiVars
  <2>8. CASE PasswordNoAccount(w)
    BY <2>8 DEF PasswordNoAccount, Finish, userVars, blVars, apiVars, counters, seen
  <2>9. CASE ApiMint(w)
    BY <2>9 DEF ApiMint, Mint, Finish, Job, userVars, blVars, seen
  <2>10. CASE ApiMintFailed(w)
    BY <2>10 DEF ApiMintFailed, Finish, userVars, blVars, apiVars, seen
  <2>11. QED
    BY <1>2, <2>1, <2>2, <2>3, <2>4, <2>5, <2>6, <2>7, <2>8, <2>9, <2>10 DEF MintNext
<1>3. CASE CredentialNext
  <2>1. ASSUME NEW c \in creds, NEW k \in {"ticket", "vnc"}, IssueTicket(c, k)
       PROVE  JobFromCredential'
    BY <2>1 DEF IssueTicket, Accepts, Mint, Credential, userVars, blVars, apiVars, seen
  <2>2. CASE creds' \subseteq creds
    BY <1>3, <2>2, CredentialFrame
  <2>3. QED
    BY <1>3, <2>1, <2>2 DEF CredentialNext, Expire, ConsumeTicket, Logout, RevokeApi,
      ApiUse, Gc, PurgeExpired
<1>4. CASE LifeNext
  <2>1. ASSUME NEW closing \in BOOLEAN, NEW ok \in BOOLEAN, Down(closing, ok)
       PROVE  JobFromCredential'
    BY <2>1 DEF Down, userVars, apiVars, seen
  <2>2. ASSUME NEW readable \in BOOLEAN, Restart(readable) PROVE JobFromCredential'
    BY <2>2 DEF Restart, counters
  <2>3. QED
    BY <1>4, <2>1, <2>2 DEF LifeNext
<1>5. CASE UNCHANGED vars
  BY <1>5 DEF vars, userVars, blVars, apiVars, counters, seen
<1>6. QED
  BY <1>1, <1>2, <1>3, <1>4, <1>5 DEF Next

-----------------------------------------------------------------------------
(* Memory and files.                                                         *)

\* A save() that fails marks the account it leaves behind.
LEMMA StepDiskCurrent == TypeOK /\ DiskCurrent /\ [Next]_vars => DiskCurrent'
<1> SUFFICES ASSUME TypeOK, DiskCurrent, [Next]_vars PROVE DiskCurrent'
  OBVIOUS
<1> USE DEF TypeOK, DiskCurrent
<1>1. CASE AccountNext
  <2>1. ASSUME NEW u \in Users, NEW r \in Roles, NEW ok \in BOOLEAN, Create(u, r, ok)
       PROVE  DiskCurrent'
    BY <2>1 DEF Create, Change, Keep, blVars, apiVars
  <2>2. ASSUME NEW u \in Users, NEW r \in Roles, NEW a \in BOOLEAN, NEW o \in BOOLEAN,
               NEW ok \in BOOLEAN, Update(u, r, a, o, ok)
       PROVE  DiskCurrent'
    BY <2>2 DEF Update, Change, Updated, Keep, blVars, apiVars
  <2>3. ASSUME NEW u \in Users, NEW ok \in BOOLEAN, BumpSessionEpoch(u, ok) PROVE DiskCurrent'
    BY <2>3 DEF BumpSessionEpoch, Change, TakeBack, Raised, Save, blVars, apiVars
  <2>4. ASSUME NEW u \in Users, NEW ok \in BOOLEAN, Delete(u, ok) PROVE DiskCurrent'
    BY <2>4 DEF Delete, Change, Keep, blVars, apiVars
  <2>5. CASE SaveOther
    BY <2>5 DEF SaveOther, Save, blVars, apiVars, seen
  <2>6. QED
    BY <1>1, <2>1, <2>2, <2>3, <2>4, <2>5 DEF AccountNext
<1>2. ASSUME NEW w \in Workers, MintNext(w) PROVE DiskCurrent'
  <2>1. ASSUME NEW c \in creds, NEW ok \in BOOLEAN, PasswordChange(w, c, ok) PROVE DiskCurrent'
    BY <2>1 DEF PasswordChange, Change, Accepts, TakeBack, Raised, Save, Credential,
      blVars, apiVars
  <2>2. ASSUME NEW ok \in BOOLEAN, LoginMint(w, ok) PROVE DiskCurrent'
    BY <2>2 DEF LoginMint, Mint, Save, Finish, Job, blVars, apiVars, seen
  <2>3. CASE UNCHANGED <<mem, disk, unsaved, changes, revs>>
    BY <1>2, <2>3, HandlerFrame
  <2>4. QED
    BY <1>2, <2>1, <2>2, <2>3, HandlerFrame
<1>3. CASE CredentialNext
  BY <1>3, CredentialFrame
<1>4. CASE LifeNext
  <2>1. ASSUME NEW closing \in BOOLEAN, NEW ok \in BOOLEAN, Down(closing, ok) PROVE DiskCurrent'
    BY <2>1 DEF Down, userVars, apiVars, seen
  <2>2. ASSUME NEW readable \in BOOLEAN, Restart(readable) PROVE DiskCurrent'
    BY <2>2 DEF Restart, counters
  <2>3. QED
    BY <1>4, <2>1, <2>2 DEF LifeNext
<1>5. CASE UNCHANGED vars
  BY <1>5 DEF vars, userVars, blVars, apiVars, counters, seen
<1>6. QED
  BY <1>1, <1>2, <1>3, <1>4, <1>5 DEF Next

\* Only Create makes a name known, and only accounts are authenticated.
LEMMA StepKnown == TypeOK /\ KnownOnly /\ [Next]_vars => KnownOnly'
<1> SUFFICES ASSUME TypeOK, KnownOnly, [Next]_vars PROVE KnownOnly'
  OBVIOUS
<1> USE DEF TypeOK, KnownOnly
<1>1. CASE AccountNext
  <2>1. ASSUME NEW u \in Users, NEW r \in Roles, NEW ok \in BOOLEAN, Create(u, r, ok)
       PROVE  KnownOnly'
    BY <2>1 DEF Create, Change, Keep, blVars, apiVars
  <2>2. ASSUME NEW u \in Users, NEW r \in Roles, NEW a \in BOOLEAN, NEW o \in BOOLEAN,
               NEW ok \in BOOLEAN, Update(u, r, a, o, ok)
       PROVE  KnownOnly'
    BY <2>2 DEF Update, Change, Updated, Keep, blVars, apiVars
  <2>3. ASSUME NEW u \in Users, NEW ok \in BOOLEAN, BumpSessionEpoch(u, ok) PROVE KnownOnly'
    BY <2>3 DEF BumpSessionEpoch, Change, TakeBack, Raised, Save, blVars, apiVars
  <2>4. ASSUME NEW u \in Users, NEW ok \in BOOLEAN, Delete(u, ok) PROVE KnownOnly'
    BY <2>4 DEF Delete, Change, Keep, blVars, apiVars
  <2>5. CASE SaveOther
    BY <2>5 DEF SaveOther, Save, blVars, apiVars, seen
  <2>6. QED
    BY <1>1, <2>1, <2>2, <2>3, <2>4, <2>5 DEF AccountNext
<1>2. ASSUME NEW w \in Workers, MintNext(w) PROVE KnownOnly'
  <2>1. ASSUME NEW u \in Users, LoginRead(w, u) PROVE KnownOnly'
    BY <2>1 DEF LoginRead, Start, userVars, blVars, apiVars, counters, seen
  <2>2. ASSUME NEW c \in creds, RefreshRead(w, c) PROVE KnownOnly'
    BY <2>2 DEF RefreshRead, Accepts, Start, Credential, userVars, blVars, apiVars,
      counters, seen
  <2>3. ASSUME NEW c \in creds, ApiBegin(w, c) PROVE KnownOnly'
    BY <2>3 DEF ApiBegin, Accepts, Start, Credential, userVars, blVars, apiVars, counters,
      seen
  <2>4. ASSUME NEW c \in creds, NEW ok \in BOOLEAN, PasswordChange(w, c, ok) PROVE KnownOnly'
    BY <2>4 DEF PasswordChange, Change, Accepts, TakeBack, Raised, Save, Credential,
      blVars, apiVars
  <2>5. ASSUME NEW ok \in BOOLEAN, LoginMint(w, ok) PROVE KnownOnly'
    BY <2>5 DEF LoginMint, Mint, Save, Finish, Job, blVars, apiVars, seen
  <2>6. ASSUME NEW ok \in BOOLEAN, RefreshMint(w, ok) PROVE KnownOnly'
    BY <2>6 DEF RefreshMint, Mint, Blacklist, Finish, Job, userVars, apiVars
  <2>7. ASSUME NEW ok \in BOOLEAN, PasswordMint(w, ok) PROVE KnownOnly'
    BY <2>7 DEF PasswordMint, Mint, Blacklist, Finish, Job, userVars, apiVars
  <2>8. CASE PasswordNoAccount(w)
    BY <2>8 DEF PasswordNoAccount, Finish, userVars, blVars, apiVars, counters, seen
  <2>9. CASE ApiMint(w)
    BY <2>9 DEF ApiMint, Mint, Finish, Job, userVars, blVars, seen
  <2>10. CASE ApiMintFailed(w)
    BY <2>10 DEF ApiMintFailed, Finish, userVars, blVars, apiVars, seen
  <2>11. QED
    BY <1>2, <2>1, <2>2, <2>3, <2>4, <2>5, <2>6, <2>7, <2>8, <2>9, <2>10 DEF MintNext
<1>3. CASE CredentialNext
  <2>1. ASSUME NEW c \in creds, NEW k \in {"ticket", "vnc"}, IssueTicket(c, k) PROVE KnownOnly'
    BY <2>1 DEF IssueTicket, Accepts, Mint, Credential, userVars, blVars, apiVars, seen
  <2>2. CASE creds' \subseteq creds
    BY <1>3, <2>2, CredentialFrame
  <2>3. QED
    BY <1>3, <2>1, <2>2 DEF CredentialNext, Expire, ConsumeTicket, Logout, RevokeApi,
      ApiUse, Gc, PurgeExpired
<1>4. CASE LifeNext
  <2>1. ASSUME NEW closing \in BOOLEAN, NEW ok \in BOOLEAN, Down(closing, ok) PROVE KnownOnly'
    BY <2>1 DEF Down, userVars, apiVars, seen
  <2>2. ASSUME NEW readable \in BOOLEAN, Restart(readable) PROVE KnownOnly'
    BY <2>2 DEF Restart, counters
  <2>3. QED
    BY <1>4, <2>1, <2>2 DEF LifeNext
<1>5. CASE UNCHANGED vars
  BY <1>5 DEF vars, userVars, blVars, apiVars, counters, seen
<1>6. QED
  BY <1>1, <1>2, <1>3, <1>4, <1>5 DEF Next

\* A failed write of the blacklist leaves it dirty.
LEMMA StepBlacklistSaved == TypeOK /\ BlacklistSaved /\ [Next]_vars => BlacklistSaved'
<1> SUFFICES ASSUME TypeOK, BlacklistSaved, [Next]_vars PROVE BlacklistSaved'
  OBVIOUS
<1> USE DEF TypeOK, BlacklistSaved
<1>1. CASE AccountNext
  BY <1>1, AccountFrame
<1>2. ASSUME NEW w \in Workers, MintNext(w) PROVE BlacklistSaved'
  <2>1. ASSUME NEW ok \in BOOLEAN, RefreshMint(w, ok) PROVE BlacklistSaved'
    BY <2>1 DEF RefreshMint, Mint, Blacklist, Finish, Job, userVars, apiVars
  <2>2. ASSUME NEW ok \in BOOLEAN, PasswordMint(w, ok) PROVE BlacklistSaved'
    BY <2>2 DEF PasswordMint, Mint, Blacklist, Finish, Job, userVars, apiVars
  <2>3. CASE UNCHANGED blVars
    BY <2>3 DEF blVars
  <2>4. QED
    BY <1>2, <2>1, <2>2, <2>3 DEF MintNext, LoginRead, RefreshRead, PasswordChange,
      LoginMint, ApiBegin, PasswordNoAccount, ApiMint, ApiMintFailed
<1>3. CASE CredentialNext
  <2>1. ASSUME NEW c \in creds, NEW ok \in BOOLEAN, Logout(c, ok) PROVE BlacklistSaved'
    BY <2>1 DEF Logout, Accepts, Blacklist, Credential, userVars, apiVars
  <2>2. ASSUME NEW ok \in BOOLEAN, Gc(ok) PROVE BlacklistSaved'
    BY <2>2, SweepKeeps, SweepSpares DEF Gc, userVars, blVars, apiVars, seen
  <2>3. CASE UNCHANGED blVars
    BY <2>3 DEF blVars
  <2>4. QED
    BY <1>3, <2>1, <2>2, <2>3 DEF CredentialNext, IssueTicket, ConsumeTicket, Expire,
      RevokeApi, ApiUse, PurgeExpired
<1>4. CASE LifeNext
  <2>1. ASSUME NEW closing \in BOOLEAN, NEW ok \in BOOLEAN, Down(closing, ok)
       PROVE  BlacklistSaved'
    BY <2>1 DEF Down, userVars, apiVars, seen
  <2>2. ASSUME NEW readable \in BOOLEAN, Restart(readable) PROVE BlacklistSaved'
    BY <2>2, SweepKeeps, SweepSpares DEF Restart, counters
  <2>3. QED
    BY <1>4, <2>1, <2>2 DEF LifeNext
<1>5. CASE UNCHANGED vars
  BY <1>5 DEF vars, userVars, blVars, apiVars, counters, seen
<1>6. QED
  BY <1>1, <1>2, <1>3, <1>4, <1>5 DEF Next

-----------------------------------------------------------------------------
(* The epoch.                                                                *)

\* Every account that keeps its epochs either raises it or leaves alone what
\* the epoch stands for.
EpochsAdvance ==
    /\ reset \subseteq reset'
    /\ \A u \in known \ reset' : mem'[u] # Nil =>
         /\ mem[u] # Nil
         /\ \/ mem'[u].epoch > mem[u].epoch
            \/ /\ mem'[u].epoch = mem[u].epoch /\ mem'[u].role = mem[u].role
               /\ revs'[u] = revs[u]

\* Then the credentials fit as before, and so does what a handler carries.
LEMMA CredsStillFit ==
    ASSUME TypeOK, TypeOK', KnownOnly, EpochTells, EpochsAdvance, NEW c \in creds
    PROVE  CredFits(c)'
<1>1. c.user \in Users /\ c.user \in known /\ c.epoch \in Int
  BY DEF KnownOnly, TypeOK, Credential, Epochs
<1>2. mem[c.user] # Nil => mem[c.user].epoch \in Int
  BY <1>1 DEF TypeOK, Account, Epochs
<1>3. mem'[c.user] # Nil => mem'[c.user].epoch \in Int
  BY <1>1 DEF TypeOK, Account, Epochs
<1>4. QED
  BY <1>1, <1>2, <1>3 DEF EpochTells, CredFits, EpochsAdvance

\* A handler that stays where it is still fits the state after the step.
LEMMA JobsStillFit ==
    ASSUME TypeOK, TypeOK', KnownOnly, EpochTells, EpochsAdvance, NEW w \in Workers,
           job[w] # Nil, job'[w] = job[w]
    PROVE  JobFits(job[w])'
<1> DEFINE j == job[w]
<1>1. j.user \in Users /\ j.user \in known /\ j.epoch \in Int
  BY DEF KnownOnly, TypeOK, Job, Epochs
<1>2. mem[j.user] # Nil => mem[j.user].epoch \in Int
  BY <1>1 DEF TypeOK, Account, Epochs
<1>3. mem'[j.user] # Nil => mem'[j.user].epoch \in Int
  BY <1>1 DEF TypeOK, Account, Epochs
<1>4. JobFits(j)
  BY DEF EpochTells
<1>5. QED
  BY <1>1, <1>2, <1>3, <1>4 DEF JobFits, EpochsAdvance

\* A step raises the epoch of the account it changes, and a credential minted
\* with an epoch read again is late when that epoch is another one.
LEMMA StepEpochTells ==
    TypeOK /\ TypeOK' /\ JobFromCredential /\ AccountsCounted /\ DiskCurrent /\ KnownOnly
    /\ EpochTells /\ [Next]_vars
        => EpochTells'
<1> SUFFICES ASSUME TypeOK, TypeOK', JobFromCredential, AccountsCounted, DiskCurrent,
                    KnownOnly, EpochTells, [Next]_vars
    PROVE  EpochTells'
  OBVIOUS
<1>1. CASE AccountNext
  <2>1. ASSUME NEW u \in Users, NEW r \in Roles, NEW ok \in BOOLEAN, Create(u, r, ok)
       PROVE  EpochTells'
    <3>1. EpochsAdvance
      BY <2>1 DEF EpochsAdvance, Create, Keep, TypeOK
    <3>2. UNCHANGED <<creds, job>>
      BY <2>1 DEF Create
    <3>3. QED
      BY <3>1, <3>2, CredsStillFit, JobsStillFit DEF EpochTells
  <2>2. ASSUME NEW u \in Users, NEW r \in Roles, NEW a \in BOOLEAN, NEW o \in BOOLEAN,
               NEW ok \in BOOLEAN, Update(u, r, a, o, ok)
       PROVE  EpochTells'
    <3>1. EpochsAdvance
      BY <2>2 DEF EpochsAdvance, Update, Updated, Keep, TypeOK, Account, Epochs
    <3>2. UNCHANGED <<creds, job>>
      BY <2>2 DEF Update
    <3>3. QED
      BY <3>1, <3>2, CredsStillFit, JobsStillFit DEF EpochTells
  <2>3. ASSUME NEW u \in Users, NEW ok \in BOOLEAN, BumpSessionEpoch(u, ok) PROVE EpochTells'
    <3>1. EpochsAdvance
      BY <2>3 DEF EpochsAdvance, BumpSessionEpoch, TakeBack, Raised, Save, TypeOK, Account, Epochs
    <3>2. UNCHANGED <<creds, job>>
      BY <2>3 DEF BumpSessionEpoch
    <3>3. QED
      BY <3>1, <3>2, CredsStillFit, JobsStillFit DEF EpochTells
  <2>4. ASSUME NEW u \in Users, NEW ok \in BOOLEAN, Delete(u, ok) PROVE EpochTells'
    <3>1. EpochsAdvance
      BY <2>4 DEF EpochsAdvance, Delete, Keep, TypeOK
    <3>2. UNCHANGED <<creds, job>>
      BY <2>4 DEF Delete
    <3>3. QED
      BY <3>1, <3>2, CredsStillFit, JobsStillFit DEF EpochTells
  <2>5. CASE SaveOther
    <3>1. EpochsAdvance
      BY <2>5 DEF EpochsAdvance, SaveOther, Save, seen
    <3>2. UNCHANGED <<creds, job>>
      BY <2>5 DEF SaveOther
    <3>3. QED
      BY <3>1, <3>2, CredsStillFit, JobsStillFit DEF EpochTells
  <2>6. QED
    BY <1>1, <2>1, <2>2, <2>3, <2>4, <2>5 DEF AccountNext
<1>2. ASSUME NEW w \in Workers, MintNext(w) PROVE EpochTells'
  <2>1. ASSUME NEW u \in Users, LoginRead(w, u) PROVE EpochTells'
    <3>1. JobFits(job'[w])
      BY <2>1 DEF LoginRead, Accepts, Start, JobFits, EpochTells, CredFits, TypeOK, Account,
        Epochs, Credential
    <3>2. \A x \in Workers : x = w \/ job'[x] = job[x]
      BY <2>1 DEF LoginRead, Start, TypeOK
    <3>3. UNCHANGED <<mem, reset, revs, creds>>
      BY <2>1 DEF LoginRead, userVars, seen
    <3>4. QED
      BY <3>1, <3>2, <3>3 DEF EpochTells, CredFits, JobFits
  <2>2. ASSUME NEW c \in creds, RefreshRead(w, c) PROVE EpochTells'
    <3>1. JobFits(job'[w])
      BY <2>2 DEF RefreshRead, Accepts, Start, JobFits, EpochTells, CredFits, TypeOK,
        Account, Epochs, Credential
    <3>2. \A x \in Workers : x = w \/ job'[x] = job[x]
      BY <2>2 DEF RefreshRead, Start, TypeOK
    <3>3. UNCHANGED <<mem, reset, revs, creds>>
      BY <2>2 DEF RefreshRead, userVars, seen
    <3>4. QED
      BY <3>1, <3>2, <3>3 DEF EpochTells, CredFits, JobFits
  <2>3. ASSUME NEW c \in creds, ApiBegin(w, c) PROVE EpochTells'
    <3>1. JobFits(job'[w])
      BY <2>3 DEF ApiBegin, Accepts, Start, JobFits, EpochTells, CredFits, TypeOK, Account,
        Epochs, Credential
    <3>2. \A x \in Workers : x = w \/ job'[x] = job[x]
      BY <2>3 DEF ApiBegin, Start, TypeOK
    <3>3. UNCHANGED <<mem, reset, revs, creds>>
      BY <2>3 DEF ApiBegin, userVars, seen
    <3>4. QED
      BY <3>1, <3>2, <3>3 DEF EpochTells, CredFits, JobFits
  <2>4. ASSUME NEW c \in creds, NEW ok \in BOOLEAN, PasswordChange(w, c, ok) PROVE EpochTells'
    <3>1. EpochsAdvance
      BY <2>4 DEF EpochsAdvance, PasswordChange, Accepts, TakeBack, Raised, TypeOK, Account,
        Epochs, Credential
    <3>2. /\ creds' = creds
          /\ \A x \in Workers : job'[x] = job[x] \/ job'[x] = Nil \/ (x = w /\ ok)
      BY <2>4 DEF PasswordChange, TypeOK
    <3>3. ASSUME ok PROVE JobFits(job[w])'
      BY <2>4, <3>3 DEF PasswordChange, TakeBack, Raised, JobFits, TypeOK, Account, Epochs,
        Credential, Accepts
    <3>4. QED
      BY <3>1, <3>2, <3>3, CredsStillFit, JobsStillFit DEF EpochTells
  <2>5. ASSUME NEW ok \in BOOLEAN, LoginMint(w, ok) PROVE EpochTells'
    <3>1. mem[job[w].user] # Nil => mem[job[w].user].epoch \in Int
      BY <2>5 DEF LoginMint, Job, Account, TypeOK, Epochs
    <3>2. \A c \in creds' : CredFits(c)
      <4>1. JobFits(job[w]) /\ \A c \in creds : CredFits(c)
        BY <2>5 DEF LoginMint, EpochTells
      <4>2. QED
        BY <2>5, <3>1, <4>1 DEF LoginMint, Mint, JobFromCredential, CredFits, JobFits
    <3>3. \A x \in Workers : job'[x] # Nil => job'[x] = job[x]
      BY <2>5 DEF LoginMint, Finish, TypeOK
    <3>4. UNCHANGED <<mem, reset, revs>>
      BY <2>5 DEF LoginMint, userVars, seen
    <3>5. QED
      BY <3>2, <3>3, <3>4 DEF EpochTells, CredFits, JobFits
  <2>6. ASSUME NEW ok \in BOOLEAN, RefreshMint(w, ok) PROVE EpochTells'
    <3>1. mem[job[w].user] # Nil => mem[job[w].user].epoch \in Int
      BY <2>6 DEF RefreshMint, Job, Account, TypeOK, Epochs
    <3>2. \A c \in creds' : CredFits(c)
      <4>1. JobFits(job[w]) /\ \A c \in creds : CredFits(c)
        BY <2>6 DEF RefreshMint, EpochTells
      <4>2. QED
        BY <2>6, <3>1, <4>1 DEF RefreshMint, Mint, JobFromCredential, CredFits, JobFits
    <3>3. \A x \in Workers : job'[x] # Nil => job'[x] = job[x]
      BY <2>6 DEF RefreshMint, Finish, TypeOK
    <3>4. UNCHANGED <<mem, reset, revs>>
      BY <2>6 DEF RefreshMint, userVars, seen
    <3>5. QED
      BY <3>2, <3>3, <3>4 DEF EpochTells, CredFits, JobFits
  <2>7. ASSUME NEW ok \in BOOLEAN, PasswordMint(w, ok) PROVE EpochTells'
    <3>1. mem[job[w].user] # Nil => mem[job[w].user].epoch \in Int
      BY <2>7 DEF PasswordMint, Job, Account, TypeOK, Epochs
    <3>2. \A c \in creds' : CredFits(c)
      <4>1. JobFits(job[w]) /\ \A c \in creds : CredFits(c)
        BY <2>7 DEF PasswordMint, EpochTells
      <4>2. ASSUME NEW c \in creds', c \notin creds
            PROVE  /\ c.user = job[w].user /\ c.stamp = job[w].stamp
                   /\ mem[c.user] # Nil => c.epoch = mem[c.user].epoch
                   /\ mem[c.user] # Nil /\ c.kind # "api" => c.role = mem[c.user].role
        BY <2>7, <4>2 DEF PasswordMint, Mint
      <4>3. ASSUME NEW c \in creds', c \notin creds, mem[c.user] # Nil, ~c.late
            PROVE  ~job[w].late /\ mem[c.user].epoch = job[w].epoch
        <5>1. c.late = (mem[job[w].user].epoch # job[w].epoch)
          BY <2>7, <4>3 DEF PasswordMint, Mint
        <5>2. QED
          BY <2>7, <4>2, <4>3, <5>1 DEF PasswordMint, JobFromCredential
      <4>4. QED
        BY <2>7, <3>1, <4>1, <4>2, <4>3 DEF CredFits, JobFits
    <3>3. \A x \in Workers : job'[x] # Nil => job'[x] = job[x]
      BY <2>7 DEF PasswordMint, Finish, TypeOK
    <3>4. UNCHANGED <<mem, reset, revs>>
      BY <2>7 DEF PasswordMint, userVars, seen
    <3>5. QED
      BY <3>2, <3>3, <3>4 DEF EpochTells, CredFits, JobFits
  <2>8. CASE PasswordNoAccount(w)
    BY <2>8 DEF PasswordNoAccount, Finish, userVars, counters, seen, TypeOK, EpochTells,
      CredFits, JobFits
  <2>9. CASE ApiMint(w)
    <3>1. mem[job[w].user] # Nil => mem[job[w].user].epoch \in Int
      BY <2>9 DEF ApiMint, Job, Account, TypeOK, Epochs
    <3>2. \A c \in creds' : CredFits(c)
      <4>1. JobFits(job[w]) /\ \A c \in creds : CredFits(c)
        BY <2>9 DEF ApiMint, EpochTells
      <4>2. ASSUME NEW c \in creds', c \notin creds
            PROVE  /\ c.user = job[w].user /\ c.stamp = job[w].stamp
                   /\ mem[c.user] # Nil => c.epoch = mem[c.user].epoch
                   /\ mem[c.user] # Nil /\ c.kind # "api" => c.role = mem[c.user].role
        BY <2>9, <4>2 DEF ApiMint, Mint
      <4>3. ASSUME NEW c \in creds', c \notin creds, mem[c.user] # Nil, ~c.late
            PROVE  ~job[w].late /\ mem[c.user].epoch = job[w].epoch
        <5> DEFINE e == IF mem[job[w].user] = Nil THEN 0 ELSE mem[job[w].user].epoch
        <5>1. c.late = (job[w].late \/ e # job[w].epoch)
          BY <2>9, <4>3 DEF ApiMint, Mint
        <5>2. QED
          BY <2>9, <4>2, <4>3, <5>1 DEF ApiMint, JobFromCredential
      <4>4. QED
        BY <2>9, <3>1, <4>1, <4>2, <4>3 DEF CredFits, JobFits
    <3>3. \A x \in Workers : job'[x] # Nil => job'[x] = job[x]
      BY <2>9 DEF ApiMint, Finish, TypeOK
    <3>4. UNCHANGED <<mem, reset, revs>>
      BY <2>9 DEF ApiMint, userVars, seen
    <3>5. QED
      BY <3>2, <3>3, <3>4 DEF EpochTells, CredFits, JobFits
  <2>10. CASE ApiMintFailed(w)
    BY <2>10 DEF ApiMintFailed, Finish, userVars, seen, TypeOK, EpochTells, CredFits, JobFits
  <2>11. QED
    BY <1>2, <2>1, <2>2, <2>3, <2>4, <2>5, <2>6, <2>7, <2>8, <2>9, <2>10 DEF MintNext
<1>3. CASE CredentialNext
  <2>1. ASSUME NEW c \in creds, NEW k \in {"ticket", "vnc"}, IssueTicket(c, k) PROVE EpochTells'
    BY <2>1, CredentialFrame DEF IssueTicket, Mint, Accepts, userVars, seen, TypeOK,
      Credential, EpochTells, CredFits, JobFits
  <2>2. CASE creds' \subseteq creds
    BY <1>3, <2>2, CredentialFrame DEF EpochTells, CredFits, JobFits
  <2>3. QED
    BY <1>3, <2>1, <2>2 DEF CredentialNext, Expire, ConsumeTicket, Logout, RevokeApi,
      ApiUse, Gc, PurgeExpired
<1>4. CASE LifeNext
  <2>1. ASSUME NEW closing \in BOOLEAN, NEW ok \in BOOLEAN, Down(closing, ok) PROVE EpochTells'
    BY <2>1 DEF Down, userVars, seen, EpochTells, CredFits, JobFits
  <2>2. ASSUME NEW readable \in BOOLEAN, Restart(readable) PROVE EpochTells'
    <3>1. EpochsAdvance
      BY <2>2 DEF EpochsAdvance, Restart, DiskCurrent, TypeOK
    <3>2. UNCHANGED <<creds, job>>
      BY <2>2 DEF Restart
    <3>3. QED
      BY <3>1, <3>2, CredsStillFit, JobsStillFit DEF EpochTells
  <2>3. QED
    BY <1>4, <2>1, <2>2 DEF LifeNext
<1>5. CASE UNCHANGED vars
  BY <1>5 DEF vars, userVars, blVars, apiVars, counters, seen, EpochTells, CredFits, JobFits
<1>6. QED
  BY <1>1, <1>2, <1>3, <1>4, <1>5 DEF Next

-----------------------------------------------------------------------------
(* Ended credentials and administrators.                                     *)

\* The step that ends a credential takes it from its store, and no other brings
\* it back but a restart that forgets.
LEMMA StepEndedGone ==
    TypeOK /\ IdsCounted /\ IdsUnique /\ BlacklistSaved /\ JobFromCredential /\ EndedGone
    /\ [Next]_vars
        => EndedGone'
<1> SUFFICES ASSUME TypeOK, IdsCounted, IdsUnique, BlacklistSaved, JobFromCredential,
                    EndedGone, [Next]_vars
    PROVE  EndedGone'
  OBVIOUS
<1> USE DEF TypeOK, IdsCounted, IdsUnique, BlacklistSaved, JobFromCredential, EndedGone,
  Ids
<1>1. CASE AccountNext
  BY <1>1, AccountFrame
<1>2. ASSUME NEW w \in Workers, MintNext(w) PROVE EndedGone'
  <2>1. ASSUME NEW u \in Users, LoginRead(w, u) PROVE EndedGone'
    BY <2>1 DEF LoginRead, Start, userVars, blVars, apiVars, counters, seen
  <2>2. ASSUME NEW c \in creds, RefreshRead(w, c) PROVE EndedGone'
    BY <2>2 DEF RefreshRead, Accepts, Start, Credential, userVars, blVars, apiVars,
      counters, seen
  <2>3. ASSUME NEW c \in creds, ApiBegin(w, c) PROVE EndedGone'
    BY <2>3 DEF ApiBegin, Accepts, Start, Credential, userVars, blVars, apiVars, counters,
      seen
  <2>4. ASSUME NEW c \in creds, NEW ok \in BOOLEAN, PasswordChange(w, c, ok) PROVE EndedGone'
    BY <2>4 DEF PasswordChange, Change, Accepts, TakeBack, Raised, Save, Credential,
      blVars, apiVars
  <2>5. ASSUME NEW ok \in BOOLEAN, LoginMint(w, ok) PROVE EndedGone'
    BY <2>5 DEF LoginMint, Mint, Save, Finish, Job, blVars, apiVars, seen
  <2>6. ASSUME NEW ok \in BOOLEAN, RefreshMint(w, ok) PROVE EndedGone'
    BY <2>6 DEF RefreshMint, Mint, Blacklist, Finish, Job, userVars, apiVars
  <2>7. ASSUME NEW ok \in BOOLEAN, PasswordMint(w, ok) PROVE EndedGone'
    BY <2>7 DEF PasswordMint, Mint, Blacklist, Finish, Job, userVars, apiVars
  <2>8. CASE PasswordNoAccount(w)
    BY <2>8 DEF PasswordNoAccount, Finish, userVars, blVars, apiVars, counters, seen
  <2>9. CASE ApiMint(w)
    BY <2>9 DEF ApiMint, Mint, Finish, Job, userVars, blVars, seen
  <2>10. CASE ApiMintFailed(w)
    BY <2>10 DEF ApiMintFailed, Finish, userVars, blVars, apiVars, seen
  <2>11. QED
    BY <1>2, <2>1, <2>2, <2>3, <2>4, <2>5, <2>6, <2>7, <2>8, <2>9, <2>10 DEF MintNext
<1>3. CASE CredentialNext
  <2>1. ASSUME NEW c \in creds, NEW k \in {"ticket", "vnc"}, IssueTicket(c, k) PROVE EndedGone'
    BY <2>1, SweepKeeps DEF IssueTicket, Mint, userVars, blVars, apiVars, seen
  <2>2. ASSUME NEW c \in creds, ConsumeTicket(c) PROVE EndedGone'
    BY <2>2 DEF ConsumeTicket, Credential, userVars, blVars, apiVars, counters
  <2>3. ASSUME NEW c \in creds, Expire(c) PROVE EndedGone'
    BY <2>3 DEF Expire, userVars, blVars, apiVars, counters
  <2>4. ASSUME NEW c \in creds, NEW ok \in BOOLEAN, Logout(c, ok) PROVE EndedGone'
    BY <2>4 DEF Logout, Accepts, Blacklist, Credential, userVars, apiVars
  <2>5. ASSUME NEW c \in creds, NEW ok \in BOOLEAN, RevokeApi(c, ok) PROVE EndedGone'
    BY <2>5 DEF RevokeApi, Credential, userVars, blVars
  <2>6. CASE ApiUse
    BY <2>6 DEF ApiUse, userVars, blVars, counters, seen
  <2>7. ASSUME NEW ok \in BOOLEAN, Gc(ok) PROVE EndedGone'
    BY <2>7, SweepKeeps, SweepSpares DEF Gc, userVars, blVars, apiVars, seen
  <2>8. ASSUME NEW ok \in BOOLEAN, PurgeExpired(ok) PROVE EndedGone'
    BY <2>8, SweepKeeps, SweepSpares DEF PurgeExpired, userVars, blVars, apiVars, seen
  <2>9. QED
    BY <1>3, <2>1, <2>2, <2>3, <2>4, <2>5, <2>6, <2>7, <2>8 DEF CredentialNext
<1>4. CASE LifeNext
  <2>1. ASSUME NEW closing \in BOOLEAN, NEW ok \in BOOLEAN, Down(closing, ok) PROVE EndedGone'
    BY <2>1 DEF Down, userVars, apiVars, seen
  <2>2. ASSUME NEW readable \in BOOLEAN, Restart(readable) PROVE EndedGone'
    BY <2>2, SweepKeeps, SweepSpares DEF Restart, counters
  <2>3. QED
    BY <1>4, <2>1, <2>2 DEF LifeNext
<1>5. CASE UNCHANGED vars
  BY <1>5 DEF vars, userVars, blVars, apiVars, counters, seen
<1>6. QED
  BY <1>1, <1>2, <1>3, <1>4, <1>5 DEF Next

\* The guards of Delete and Update leave an administrator.
LEMMA StepAdmin == TypeOK /\ AccountsCounted /\ AdminStored /\ [Next]_vars => AdminStored'
<1> SUFFICES ASSUME TypeOK, AccountsCounted, AdminStored, [Next]_vars PROVE AdminStored'
  OBVIOUS
<1>1. CASE AccountNext
  <2>1. ASSUME NEW u \in Users, NEW r \in Roles, NEW ok \in BOOLEAN, Create(u, r, ok)
       PROVE  AdminStored'
    <3>1. ASSUME ~unguarded' PROVE Administered(mem')
      BY <2>1, <3>1 DEF Create, Keep, AdminStored, Administered, TypeOK
    <3>2. disk' \in {disk, mem'} /\ (~unguarded' => ~unguarded)
      BY <2>1 DEF Create, Keep
    <3>3. QED
      BY <3>1, <3>2 DEF AdminStored
  <2>2. ASSUME NEW u \in Users, NEW r \in Roles, NEW a \in BOOLEAN, NEW o \in BOOLEAN,
               NEW ok \in BOOLEAN, Update(u, r, a, o, ok)
       PROVE  AdminStored'
    <3>1. ASSUME ~unguarded' PROVE Administered(mem')
      <4>1. PICK v \in Users : IsAdmin(v)
        BY <2>2, <3>1 DEF Update, AdminStored, Administered, IsAdmin
      <4>2. CASE AnotherAdmin(u) \/ v # u
        BY <2>2, <4>1, <4>2 DEF Update, Keep, AnotherAdmin, IsAdmin, Administered, TypeOK
      <4>3. ASSUME v = u, ~AnotherAdmin(u) PROVE r = "admin" /\ a = TRUE
        BY <2>2, <3>1, <4>1, <4>3 DEF Update, MayUpdate, IsAdmin
      <4>4. CASE v = u /\ ~AnotherAdmin(u)
        <5>1. /\ mem'[u] = Updated(mem[u], r, a, o)
              /\ Updated(mem[u], r, a, o).role = "admin" /\ Updated(mem[u], r, a, o).active
          BY <2>2, <4>3, <4>4 DEF Update, Keep, TypeOK, Updated
        <5>2. mem'[u] # Nil
          <6>1. Change /\ mem[u] # Nil
            BY <2>2 DEF Update
          <6>2. QED
            BY <5>1, <6>1, NextAccount
        <5>3. QED
          BY <5>1, <5>2 DEF Administered
      <4>5. QED
        BY <4>2, <4>4
    <3>2. disk' \in {disk, mem'} /\ (~unguarded' => ~unguarded)
      BY <2>2 DEF Update, Keep
    <3>3. QED
      BY <3>1, <3>2 DEF AdminStored
  <2>3. ASSUME NEW u \in Users, NEW ok \in BOOLEAN, BumpSessionEpoch(u, ok) PROVE AdminStored'
    <3>1. ASSUME ~unguarded' PROVE Administered(mem')
      <4>1. u \in Users /\ mem[u] # Nil /\ Change
        BY <2>3 DEF BumpSessionEpoch, Accepts, TypeOK, Credential
      <4>2. Raised(mem[u]) # Nil
        BY <4>1, NextAccount
      <4>3. QED
        BY <2>3, <3>1, <4>1, <4>2 DEF BumpSessionEpoch, TakeBack, Raised, AdminStored,
          Administered, TypeOK
    <3>2. disk' \in {disk, mem'} /\ (~unguarded' => ~unguarded)
      BY <2>3 DEF BumpSessionEpoch, TakeBack, Save
    <3>3. QED
      BY <3>1, <3>2 DEF AdminStored
  <2>4. ASSUME NEW u \in Users, NEW ok \in BOOLEAN, Delete(u, ok) PROVE AdminStored'
    <3>1. ASSUME ~unguarded' PROVE Administered(mem')
      BY <2>4, <3>1 DEF Delete, Keep, AnotherAdmin, IsAdmin, AdminStored, Administered, TypeOK
    <3>2. disk' \in {disk, mem'} /\ (~unguarded' => ~unguarded)
      BY <2>4 DEF Delete, Keep
    <3>3. QED
      BY <3>1, <3>2 DEF AdminStored
  <2>5. CASE SaveOther
    BY <2>5 DEF SaveOther, Save, seen, AdminStored
  <2>6. QED
    BY <1>1, <2>1, <2>2, <2>3, <2>4, <2>5 DEF AccountNext
<1>2. ASSUME NEW w \in Workers, MintNext(w) PROVE AdminStored'
  <2>1. ASSUME NEW c \in creds, NEW ok \in BOOLEAN, PasswordChange(w, c, ok) PROVE AdminStored'
    <3>1. ASSUME ~unguarded' PROVE Administered(mem')
      <4>1. c.user \in Users /\ mem[c.user] # Nil /\ Change
        BY <2>1 DEF PasswordChange, Accepts, TypeOK, Credential
      <4>2. Raised(mem[c.user]) # Nil
        BY <4>1, NextAccount
      <4>3. QED
        BY <2>1, <3>1, <4>1, <4>2 DEF PasswordChange, TakeBack, Raised, AdminStored,
          Administered, TypeOK
    <3>2. disk' \in {disk, mem'} /\ (~unguarded' => ~unguarded)
      BY <2>1 DEF PasswordChange, TakeBack, Save
    <3>3. QED
      BY <3>1, <3>2 DEF AdminStored
  <2>2. ASSUME NEW ok \in BOOLEAN, LoginMint(w, ok) PROVE AdminStored'
    BY <2>2 DEF LoginMint, Save, seen, AdminStored
  <2>3. CASE UNCHANGED <<mem, disk, unsaved, changes, revs>>
    BY <1>2, <2>3, HandlerFrame DEF AdminStored
  <2>4. QED
    BY <1>2, <2>1, <2>2, <2>3, HandlerFrame
<1>3. CASE CredentialNext
  BY <1>3, CredentialFrame DEF AdminStored
<1>4. CASE LifeNext
  <2>1. ASSUME NEW closing \in BOOLEAN, NEW ok \in BOOLEAN, Down(closing, ok) PROVE AdminStored'
    BY <2>1 DEF Down, userVars, seen, AdminStored
  <2>2. ASSUME NEW readable \in BOOLEAN, Restart(readable) PROVE AdminStored'
    BY <2>2 DEF Restart, AdminStored
  <2>3. QED
    BY <1>4, <2>1, <2>2 DEF LifeNext
<1>5. CASE UNCHANGED vars
  BY <1>5 DEF vars, userVars, blVars, apiVars, counters, seen, AdminStored
<1>6. QED
  BY <1>1, <1>2, <1>3, <1>4, <1>5 DEF Next

-----------------------------------------------------------------------------
(* The theorems.                                                             *)

\* The inductive invariant holds at the start and every step keeps it.
LEMMA SessionsInvInit == Init => SessionsInv
<1> SUFFICES ASSUME Init PROVE SessionsInv
  OBVIOUS
<1>1. TypeOK
  BY InitTyped
<1>2. mem[Seed] = [role |-> "admin", active |-> TRUE, epoch |-> 0] /\ disk = mem
  BY DEF Init
<1>3. \A u \in Users : mem[u] # Nil => u = Seed
  BY DEF Init
<1>4. mem[Seed] # Nil
  <2>1. [role |-> "admin", active |-> TRUE, epoch |-> 0] \in Account
    BY DEF Account, Roles, Epochs
  <2>2. QED
    BY <1>2, <2>1
<1>5. AccountsCounted /\ DiskCurrent
  BY <1>2, <1>3 DEF Init, AccountsCounted, DiskCurrent
<1>6. KnownOnly
  BY <1>2, <1>3 DEF Init, KnownOnly
<1>7. AdminStored
  BY <1>2, <1>4 DEF AdminStored, Administered
<1>8. IdsCounted /\ JobFromCredential /\ IdsUnique /\ EpochTells /\ BlacklistSaved /\ EndedGone
  BY DEF Init, IdsCounted, JobFromCredential, IdsUnique, EpochTells, BlacklistSaved, EndedGone
<1>9. QED
  BY <1>1, <1>5, <1>6, <1>7, <1>8 DEF SessionsInv

\* Every step keeps every part of the inductive invariant.
LEMMA SessionsInvStep == SessionsInv /\ [Next]_vars => SessionsInv'
<1> SUFFICES ASSUME SessionsInv, [Next]_vars PROVE SessionsInv'
  OBVIOUS
<1>1. TypeOK'
  BY StepTyped DEF SessionsInv
<1>2. AccountsCounted' /\ IdsCounted' /\ IdsUnique' /\ JobFromCredential'
  BY StepAccountsCounted, StepIdsCounted, StepIdsUnique, StepJobFrom DEF SessionsInv
<1>3. DiskCurrent' /\ KnownOnly' /\ BlacklistSaved'
  BY StepDiskCurrent, StepKnown, StepBlacklistSaved DEF SessionsInv
<1>4. EpochTells'
  BY <1>1, StepEpochTells DEF SessionsInv
<1>5. EndedGone' /\ AdminStored'
  BY StepEndedGone, StepAdmin DEF SessionsInv
<1>6. QED
  BY <1>1, <1>2, <1>3, <1>4, <1>5 DEF SessionsInv

\* The inductive invariant holds in every state: what stores, credentials and
\* handlers in flight know of one another.
THEOREM SessionsInvariant == Spec => []SessionsInv
<1>1. Init => SessionsInv
  BY SessionsInvInit
<1>2. SessionsInv /\ [Next]_vars => SessionsInv'
  BY SessionsInvStep
<1>3. QED
  BY <1>1, <1>2, PTL DEF Spec

\* The variables keep their types: no epoch, identifier or counter passes its
\* bound.
THEOREM SessionsTyped == Spec => []TypeOK
<1>1. SessionsInv => TypeOK
  BY DEF SessionsInv
<1>2. QED
  BY <1>1, SessionsInvariant, PTL

\* The role a session or a ticket carries is the account's, or it is dead: the
\* epoch says so whatever login, refresh, password change and Update interleave.
THEOREM RoleIsCurrentOrDead == Spec => []RoleCurrentOrDead
<1>1. SessionsInv => RoleCurrentOrDead
  BY DEF SessionsInv, EpochTells, CredFits, RoleCurrentOrDead, Accepts
<1>2. QED
  BY <1>1, SessionsInvariant, PTL

\* A credential that an acknowledged revocation of its account came after is
\* dead, across restarts, with the exceptions RevokedStaysDead names.
THEOREM RevocationHolds == Spec => []RevokedStaysDead
<1>1. SessionsInv => RevokedStaysDead
  BY DEF SessionsInv, EpochTells, CredFits, RevokedStaysDead, Accepts
<1>2. QED
  BY <1>1, SessionsInvariant, PTL

\* What was logged out, rotated, revoked or consumed is not accepted again.
THEOREM EndIsFinal == Spec => []EndedStaysEnded
<1>1. SessionsInv => EndedStaysEnded
  <2> SUFFICES ASSUME SessionsInv, NEW c \in creds, c.id \in ended \ forgotten
      PROVE  ~Accepts(c)
    BY DEF EndedStaysEnded
  <2>1. c.kind \in {"session", "api", "ticket", "vnc"}
    BY DEF SessionsInv, TypeOK, Credential
  <2>2. QED
    BY <2>1 DEF SessionsInv, EndedGone, Accepts
<1>2. QED
  BY <1>1, SessionsInvariant, PTL

\* While Update took nothing from another administrator, an active one is left.
THEOREM AdministratorRemains == Spec => []AdminRemains
<1>1. SessionsInv => AdminRemains
  BY DEF SessionsInv, AdminStored, Administered, AdminRemains, IsAdmin
<1>2. QED
  BY <1>1, SessionsInvariant, PTL

=============================================================================
