------------------------------- MODULE Shares -------------------------------
(***************************************************************************)
(* One share of a file or folder: its row in `shares` (share-store.ts),    *)
(* administrators who change it (share-admin-routes.ts) and visitors who   *)
(* hold its link, prove its password and download (share-public-routes.ts, *)
(* share-auth.ts).  Every request is a handler that moves from one D1      *)
(* statement to the next; what it read before may be stale by then.        *)
(*                                                                         *)
(* Tokens are numbered in the order they are generated.  A visitor may     *)
(* know any of them.  A password hash is the password and whether its      *)
(* format is outdated; hashes of one password differ by their format, as   *)
(* the code never makes an outdated one again.                             *)
(***************************************************************************)
EXTENDS Integers

CONSTANTS
  Admins,    \* handlers of administrators' requests
  Visitors,  \* handlers of one browser's requests, which share its cookies
  Passwords, NoPassword,
  Limits, Expiries,   \* values of maxDownloads and expiresAt administrators choose
  CookieTtl,          \* SHARE_AUTH_TTL_SECONDS
  MaxTokens,          \* bound on links
  MaxUpdates,         \* bound on administrators' requests
  MaxDownloads,       \* bound on downloads
  MaxTime             \* bound on the clock

ASSUME BoundsAssumption ==
  /\ MaxTokens \in Nat \ {0} /\ MaxUpdates \in Nat /\ MaxDownloads \in Nat
  /\ MaxTime \in Nat /\ CookieTtl \in Nat \ {0}
ASSUME LimitsAssumption == Limits \subseteq 1..MaxDownloads
ASSUME ExpiriesAssumption == Expiries \subseteq 1..MaxTime
ASSUME PasswordsAssumption == NoPassword \notin Passwords

VARIABLES share, cookie, admin, visitor, tokens, updates, now,
  served,   \* downloads that were given out
  peak,     \* the largest limit the share ever had
  revoked,  \* links an administrator was told to be replaced
  told      \* the share as the last answer to an administrator described it

shareVars ==
  <<share, cookie, admin, visitor, tokens, updates, now, served, peak, revoked, told>>

Tokens == 1..MaxTokens
Revisions == 1..(MaxUpdates + 1)
Forever == MaxTime + 1         \* expires_at IS NULL
Unlimited == MaxDownloads + 1  \* max_downloads IS NULL

Hashes == [password : Passwords \cup {NoPassword}, outdated : BOOLEAN]
NoHash == [password |-> NoPassword, outdated |-> FALSE]
NewHashes == {NoHash} \cup [password : Passwords, outdated : {FALSE}]

\* The columns updateShareRecord writes.
Policies ==
  [tokenHash : Tokens, passwordHash : Hashes, expiresAt : Expiries \cup {Forever},
   allowDownload : BOOLEAN, enabled : BOOLEAN, maxDownloads : Limits \cup {Unlimited}]

Shares ==
  [status : {"absent", "present", "deleted"}, policy : Policies, authRevision : Revisions,
   downloadCount : 0..MaxDownloads]

\* What a PATCH may change: one field, or what the dialog of the browser sends.
Patches ==
  LET dialog == [expiresAt : Expiries \cup {Forever}, allowDownload : BOOLEAN,
                 enabled : BOOLEAN, maxDownloads : Limits \cup {Unlimited}]
  IN dialog \cup [passwordHash : NewHashes] \cup [enabled : BOOLEAN]
       \cup [allowDownload : BOOLEAN] \cup [expiresAt : Expiries \cup {Forever}]
       \cup [maxDownloads : Limits \cup {Unlimited}]

Rotations == [tokenHash : Tokens]

\* `password` is what the visitor proved; the cookie itself does not hold it.
Cookies ==
  [password : Passwords \cup {NoPassword}, authRevision : Revisions,
   exp : 0..(MaxTime + CookieTtl)]
NoCookie == [password |-> NoPassword, authRevision |-> 1, exp |-> 0]

\* A handler of a visitor, with the columns it read.
Visits ==
  [pc : {"idle", "upgrade", "clear", "consume"}, tokenHash : Tokens, passwordHash : Hashes,
   authRevision : Revisions, expiresAt : Expiries \cup {Forever}]
IdleVisit ==
  [pc |-> "idle", tokenHash |-> 1, passwordHash |-> NoHash, authRevision |-> 1,
   expiresAt |-> Forever]

AnyPolicy ==
  [tokenHash |-> 1, passwordHash |-> NoHash, expiresAt |-> Forever, allowDownload |-> TRUE,
   enabled |-> TRUE, maxDownloads |-> Unlimited]

Changes ==
  [pc : {"idle", "read", "write", "answer"}, patch : Patches \cup Rotations, read : Policies]
IdleChange == [pc |-> "idle", patch |-> [enabled |-> TRUE], read |-> AnyPolicy]

Answers == [status : {"unknown", "present", "deleted"}, policy : Policies]
NoAnswer == [status |-> "unknown", policy |-> AnyPolicy]

ShareTypeOK ==
  /\ share \in Shares
  /\ cookie \in [Tokens -> Cookies]
  /\ admin \in [Admins -> Changes]
  /\ visitor \in [Visitors -> Visits]
  /\ tokens \in 0..MaxTokens /\ updates \in 0..MaxUpdates
  /\ now \in 0..MaxTime
  /\ served \in 0..MaxDownloads /\ peak \in 0..Unlimited
  /\ revoked \subseteq Tokens /\ told \in Answers

ShareRow(status, hash) ==
  [status |-> status, policy |-> [AnyPolicy EXCEPT !.passwordHash = hash], authRevision |-> 1,
   downloadCount |-> 0]

\* No share yet, or one whose password an earlier release hashed.
ShareInit ==
  /\ \/ share = ShareRow("absent", NoHash) /\ tokens = 0 /\ peak = 0
     \/ /\ \E p \in Passwords : share = ShareRow("present", [password |-> p, outdated |-> TRUE])
        /\ tokens = 1 /\ peak = Unlimited
  /\ cookie = [t \in Tokens |-> NoCookie]
  /\ admin = [a \in Admins |-> IdleChange]
  /\ visitor = [v \in Visitors |-> IdleVisit]
  /\ updates = 0 /\ now = 0
  /\ served = 0 /\ revoked = {} /\ told = NoAnswer

-----------------------------------------------------------------------------
(* The statements of share-store.ts.                                       *)

Exists == share.status = "present"

Patched(policy, patch) ==
  [f \in DOMAIN policy |-> IF f \in DOMAIN patch THEN patch[f] ELSE policy[f]]

\* Mutant: the token of the row that was read, whatever the patch says.
UpdateKeepsToken(read, patch) ==
  [share EXCEPT !.policy = [Patched(read, patch) EXCEPT !.tokenHash = read.tokenHash],
                !.authRevision = @ + (IF "passwordHash" \in DOMAIN patch THEN 1 ELSE 0)]

\* updateShareRecord: what is not patched is written as it was read.
Update(read, patch) ==
  [share EXCEPT !.policy = Patched(read, patch),
                !.authRevision = @ + (IF "passwordHash" \in DOMAIN patch THEN 1 ELSE 0)]

\* Mutant: the hash is written whatever the row holds by now.
UpgradeMatchesAny(hash) == Exists

UpgradeMatches(hash) == Exists /\ share.policy.passwordHash = hash

\* Mutant: the check before the statement is taken to be enough.
ConsumeMatchesAny == Exists

ConsumeMatches ==
  Exists /\ share.policy.allowDownload /\ share.downloadCount < share.policy.maxDownloads

-----------------------------------------------------------------------------
(* Administrators.  A request is a patch, read, written and answered.      *)

\* The largest limit so far, with that of the row s.
Peak(s) ==
  IF s.status = "present" /\ s.policy.maxDownloads > peak THEN s.policy.maxDownloads ELSE peak

Admin(a, pc) == admin[a].pc = pc

Finish(a) == admin' = [admin EXCEPT ![a] = IdleChange]

\* What the answer still depends on: the link that a rotation replaced.
Answering(a) ==
  IF admin[a].patch \in Rotations
  THEN [pc |-> "answer", patch |-> admin[a].patch,
        read |-> [AnyPolicy EXCEPT !.tokenHash = admin[a].read.tokenHash]]
  ELSE [IdleChange EXCEPT !.pc = "answer"]

ByVisitors == UNCHANGED <<cookie, visitor, now, served>>

Request == updates < MaxUpdates /\ updates' = updates + 1 /\ told' = NoAnswer

\* createShare: a new token, any policy, then the row is read for the answer.
CreateShare(a) ==
  /\ Admin(a, "idle") /\ share.status = "absent"
  /\ Request
  /\ tokens' = 1
  /\ \E policy \in Policies :
       /\ policy.tokenHash = 1 /\ policy.passwordHash \in NewHashes
       /\ share' = [share EXCEPT !.status = "present", !.policy = policy]
       /\ peak' = policy.maxDownloads
  /\ admin' = [admin EXCEPT ![a] = [IdleChange EXCEPT !.pc = "answer"]]
  /\ UNCHANGED revoked /\ ByVisitors

\* updateShare up to its own read of the row, which only tells that it is there.
UpdateShare(a) ==
  /\ Admin(a, "idle") /\ Exists
  /\ Request
  /\ \E patch \in Patches :
       admin' = [admin EXCEPT ![a] = [IdleChange EXCEPT !.pc = "read", !.patch = patch]]
  /\ UNCHANGED <<share, tokens, peak, revoked>> /\ ByVisitors

RotateShareToken(a) ==
  /\ Admin(a, "idle") /\ Exists /\ tokens < MaxTokens
  /\ Request
  /\ tokens' = tokens + 1
  /\ admin' = [admin EXCEPT ![a] = [IdleChange EXCEPT !.pc = "read",
                                                      !.patch = [tokenHash |-> tokens + 1]]]
  /\ UNCHANGED <<share, peak, revoked>> /\ ByVisitors

UpdateRead(a) ==
  /\ Admin(a, "read")
  /\ IF Exists THEN admin' = [admin EXCEPT ![a].pc = "write", ![a].read = share.policy]
                ELSE Finish(a)
  /\ UNCHANGED <<share, tokens, updates, peak, revoked, told>> /\ ByVisitors

UpdateWrite(a) ==
  /\ Admin(a, "write")
  /\ share' = IF Exists THEN Update(admin[a].read, admin[a].patch) ELSE share
  /\ peak' = Peak(share')
  /\ admin' = [admin EXCEPT ![a] = Answering(a)]
  /\ UNCHANGED <<tokens, updates, revoked, told>> /\ ByVisitors

\* The answer describes the row as it is read once more; that of a rotation says
\* that the link before is replaced.
UpdateAnswer(a) ==
  /\ Admin(a, "answer")
  /\ Finish(a)
  /\ IF Exists
     THEN /\ told' = [status |-> "present", policy |-> share.policy]
          /\ revoked' = IF admin[a].patch \in Rotations
                        THEN revoked \cup {admin[a].read.tokenHash} ELSE revoked
     ELSE UNCHANGED <<told, revoked>>
  /\ UNCHANGED <<share, tokens, updates, peak>> /\ ByVisitors

DeleteShare(a) ==
  /\ Admin(a, "idle") /\ Exists
  /\ updates < MaxUpdates /\ updates' = updates + 1
  /\ share' = ShareRow("deleted", NoHash)
  /\ told' = [NoAnswer EXCEPT !.status = "deleted"]
  /\ UNCHANGED <<admin, tokens, peak, revoked>> /\ ByVisitors

\* A statement throws, with or without effect, or the worker is evicted: the
\* administrator gets no answer that says anything.
LoseUpdate(a) ==
  /\ ~Admin(a, "idle")
  /\ \/ UNCHANGED share
     \/ Admin(a, "write") /\ Exists /\ share' = Update(admin[a].read, admin[a].patch)
  /\ peak' = Peak(share')
  /\ Finish(a)
  /\ UNCHANGED <<tokens, updates, revoked, told>> /\ ByVisitors

-----------------------------------------------------------------------------
(* Visitors.                                                               *)

ByAdmins == UNCHANGED <<admin, tokens, updates, peak, revoked, told>>

\* activeShare.
ActiveShare(t) ==
  /\ Exists /\ share.policy.tokenHash = t
  /\ share.policy.enabled /\ share.policy.expiresAt > now

\* hasShareAuthorization for a cookie of the link t, whose name depends on t.
Authorizes(c) == c.authRevision = share.authRevision /\ c.exp > now

\* requirePasswordAuthorization.
Admitted(t) ==
  share.policy.passwordHash.password = NoPassword \/ Authorizes(cookie[t])

\* authenticate, up to the verification of the password against the hash it read.
Authenticate(v, t, password) ==
  /\ visitor[v].pc = "idle" /\ ActiveShare(t)
  /\ password = share.policy.passwordHash.password
  /\ visitor' = [visitor EXCEPT ![v] =
       [pc |-> IF share.policy.passwordHash.outdated THEN "upgrade" ELSE "clear",
        tokenHash |-> t, passwordHash |-> share.policy.passwordHash,
        authRevision |-> share.authRevision, expiresAt |-> share.policy.expiresAt]]
  /\ UNCHANGED <<share, cookie, now, served>> /\ ByAdmins

\* upgradeSharePasswordHash; when the hash is another one by now: 401.
UpgradeHash(v) ==
  /\ visitor[v].pc = "upgrade"
  /\ LET hash == visitor[v].passwordHash
         hit == UpgradeMatches(hash)
     IN /\ share' = IF hit THEN [share EXCEPT !.policy.passwordHash =
                                   [hash EXCEPT !.outdated = FALSE]]
                    ELSE share
        /\ visitor' = [visitor EXCEPT ![v] = IF hit THEN [@ EXCEPT !.pc = "clear"] ELSE IdleVisit]
  /\ UNCHANGED <<cookie, now, served>> /\ ByAdmins

\* Mutant: the revision of the row as it is by now.
AuthorizeCurrent(v) ==
  /\ visitor[v].pc = "clear"
  /\ LET h == visitor[v]
         exp == IF now + CookieTtl < h.expiresAt THEN now + CookieTtl ELSE h.expiresAt
     IN cookie' = [cookie EXCEPT ![h.tokenHash] =
          [password |-> h.passwordHash.password, authRevision |-> share.authRevision,
           exp |-> exp]]
  /\ visitor' = [visitor EXCEPT ![v] = IdleVisit]
  /\ UNCHANGED <<share, now, served>> /\ ByAdmins

\* The failures are cleared; the cookie holds the revision that was read at first.
Authorize(v) ==
  /\ visitor[v].pc = "clear"
  /\ LET h == visitor[v]
         exp == IF now + CookieTtl < h.expiresAt THEN now + CookieTtl ELSE h.expiresAt
     IN cookie' = [cookie EXCEPT ![h.tokenHash] =
          [password |-> h.passwordHash.password, authRevision |-> h.authRevision,
           exp |-> exp]]
  /\ visitor' = [visitor EXCEPT ![v] = IdleVisit]
  /\ UNCHANGED <<share, now, served>> /\ ByAdmins

\* GET .../file/...?download=1, up to the end of resolveSharedItem.
Download(v, t) ==
  /\ visitor[v].pc = "idle" /\ ActiveShare(t) /\ Admitted(t)
  /\ share.policy.allowDownload /\ share.downloadCount < share.policy.maxDownloads
  /\ visitor' = [visitor EXCEPT ![v] = [IdleVisit EXCEPT !.pc = "consume"]]
  /\ UNCHANGED <<share, cookie, now, served>> /\ ByAdmins

\* tryConsumeShareDownload, then the file; when no row matches: 403.
ConsumeDownload(v) ==
  /\ visitor[v].pc = "consume"
  /\ IF ConsumeMatches
     THEN /\ served < MaxDownloads /\ share.downloadCount < MaxDownloads
          /\ share' = [share EXCEPT !.downloadCount = @ + 1]
          /\ served' = served + 1
     ELSE UNCHANGED <<share, served>>
  /\ visitor' = [visitor EXCEPT ![v] = IdleVisit]
  /\ UNCHANGED <<cookie, now>> /\ ByAdmins

\* The rate limiter refuses at the end (429), or the visitor is gone.
GiveUp(v) ==
  /\ visitor[v].pc # "idle"
  /\ visitor' = [visitor EXCEPT ![v] = IdleVisit]
  /\ UNCHANGED <<share, cookie, now, served>> /\ ByAdmins

\* The UPDATE of an upgrade or a download took effect, its answer was lost.
LoseVisit(v) ==
  /\ \/ /\ visitor[v].pc = "upgrade" /\ UpgradeMatches(visitor[v].passwordHash)
        /\ share' = [share EXCEPT !.policy.passwordHash =
                       [visitor[v].passwordHash EXCEPT !.outdated = FALSE]]
     \/ /\ visitor[v].pc = "consume" /\ ConsumeMatches
        /\ share.downloadCount < MaxDownloads
        /\ share' = [share EXCEPT !.downloadCount = @ + 1]
  /\ visitor' = [visitor EXCEPT ![v] = IdleVisit]
  /\ UNCHANGED <<cookie, now, served>> /\ ByAdmins

-----------------------------------------------------------------------------

\* The mount is deleted; its shares go with it.
DeleteMount ==
  /\ Exists
  /\ share' = ShareRow("deleted", NoHash)
  /\ told' = NoAnswer
  /\ UNCHANGED <<cookie, admin, visitor, tokens, updates, now, served, peak, revoked>>

Tick ==
  /\ now < MaxTime /\ now' = now + 1
  /\ UNCHANGED <<share, cookie, admin, visitor, tokens, updates, served, peak, revoked,
                 told>>

AdminStep(a) ==
  \/ CreateShare(a) \/ UpdateShare(a) \/ RotateShareToken(a)
  \/ UpdateRead(a) \/ UpdateWrite(a) \/ UpdateAnswer(a)
  \/ DeleteShare(a) \/ LoseUpdate(a)

VisitorStep(v) ==
  \/ \E t \in Tokens, p \in Passwords : Authenticate(v, t, p)
  \/ \E t \in Tokens : Download(v, t)
  \/ UpgradeHash(v) \/ Authorize(v) \/ ConsumeDownload(v) \/ GiveUp(v) \/ LoseVisit(v)

ShareNext ==
  \/ \E a \in Admins : AdminStep(a)
  \/ \E v \in Visitors : VisitorStep(v)
  \/ DeleteMount \/ Tick

ShareSpec == ShareInit /\ [][ShareNext]_shareVars

-----------------------------------------------------------------------------
(* Safety.                                                                 *)

\* A cookie that opens a protected share was issued for its password as it is
\* now: changing or removing the password revokes every earlier cookie, those
\* that are being issued meanwhile included.
CookiesProveThePassword ==
  \A t \in Tokens :
    LET c == cookie[t]
        password == share.policy.passwordHash.password
    IN Exists /\ password # NoPassword /\ Authorizes(c) => c.password = password

\* However downloads and changes of the limit interleave, no more downloads are
\* given out than the largest limit allows.
DownloadsWithinLimit == served <= peak

\* A link that an administrator was told to be replaced opens nothing again.
OldLinksStayDead == Exists => share.policy.tokenHash \notin revoked

\* What an administrator was told of a share is what the next request of a
\* visitor is decided by, until another change is asked for.
AnswersHold ==
  /\ told.status # "unknown" => share.status = told.status
  /\ told.status = "present" =>
       /\ share.policy.passwordHash.password = told.policy.passwordHash.password
       /\ [share.policy EXCEPT !.passwordHash = NoHash]
            = [told.policy EXCEPT !.passwordHash = NoHash]
=============================================================================
