---------------------------- MODULE SharesProofs ----------------------------
(***************************************************************************)
(* Proofs about Shares, for any handlers, passwords, limits and times:     *)
(* limits hold however many administrators there are; links, passwords and *)
(* answers, which two overlapping changes can undo, hold for one           *)
(* administrator at a time and any number of visitors.                     *)
(***************************************************************************)
EXTENDS Shares, TLAPS

\* Rows, handlers and cookies, with revisions that are not bounded by the requests.
ShareRows ==
  [status : {"absent", "present", "deleted"}, policy : Policies, authRevision : Nat,
   downloadCount : 0..MaxDownloads]

VisitRows ==
  [pc : {"idle", "upgrade", "clear", "consume"}, tokenHash : Tokens, passwordHash : Hashes,
   authRevision : Nat, expiresAt : Expiries \cup {Forever}]

CookieRows ==
  [password : Passwords \cup {NoPassword}, authRevision : Nat, exp : Nat]

Typed ==
  /\ share \in ShareRows
  /\ cookie \in [Tokens -> CookieRows]
  /\ admin \in [Admins -> Changes]
  /\ visitor \in [Visitors -> VisitRows]
  /\ tokens \in 0..MaxTokens
  /\ now \in 0..MaxTime
  /\ served \in Nat /\ peak \in Nat
  /\ revoked \subseteq Tokens /\ told \in Answers

-----------------------------------------------------------------------------
(* Patches and what they leave of a policy.                                *)

\* A patch of the dialog does not touch the link, a rotation nothing else.
LEMMA PatchDomains ==
  ASSUME NEW c \in Patches \cup Rotations
  PROVE  /\ c \in Patches => "tokenHash" \notin DOMAIN c
         /\ c \in Rotations => DOMAIN c = {"tokenHash"} /\ c.tokenHash \in Tokens
         /\ c \notin Rotations => c \in Patches
  BY DEF Patches, Rotations

LEMMA NewHashesAreHashes == NewHashes \subseteq Hashes
<1>1. NoHash \in Hashes
  BY DEF NoHash, Hashes
<1>2. [password : Passwords, outdated : {FALSE}] \subseteq Hashes
  <2>1. \A h \in [password : Passwords, outdated : {FALSE}] : h \in Hashes
    BY DEF Hashes
  <2> QED BY <2>1
<1> QED BY <1>1, <1>2 DEF NewHashes

LEMMA PatchedIsPolicy ==
  ASSUME NEW p \in Policies, NEW c \in Patches \cup Rotations
  PROVE  /\ Patched(p, c) \in Policies
         /\ "passwordHash" \notin DOMAIN c => Patched(p, c).passwordHash = p.passwordHash
         /\ c \in Patches => Patched(p, c).tokenHash = p.tokenHash
         /\ c \in Rotations => Patched(p, c).tokenHash = c.tokenHash
<1> DEFINE q == Patched(p, c)
<1>1. /\ DOMAIN p = {"tokenHash", "passwordHash", "expiresAt", "allowDownload", "enabled", "maxDownloads"}
      /\ q = [f \in DOMAIN p |-> IF f \in DOMAIN c THEN c[f] ELSE p[f]]
  BY DEF Policies, Patched
<1>2. \A f \in DOMAIN p : q[f] = IF f \in DOMAIN c THEN c[f] ELSE p[f]
  BY <1>1
<1>3. /\ "tokenHash" \in DOMAIN c => c.tokenHash \in Tokens
      /\ "passwordHash" \in DOMAIN c => c.passwordHash \in Hashes
      /\ "expiresAt" \in DOMAIN c => c.expiresAt \in Expiries \cup {Forever}
      /\ "allowDownload" \in DOMAIN c => c.allowDownload \in BOOLEAN
      /\ "enabled" \in DOMAIN c => c.enabled \in BOOLEAN
      /\ "maxDownloads" \in DOMAIN c => c.maxDownloads \in Limits \cup {Unlimited}
  <2>1. NewHashes \subseteq Hashes
    BY NewHashesAreHashes
  <2> QED BY <2>1 DEF Patches, Rotations
<1>4. q = [tokenHash |-> q.tokenHash, passwordHash |-> q.passwordHash, expiresAt |-> q.expiresAt,
           allowDownload |-> q.allowDownload, enabled |-> q.enabled, maxDownloads |-> q.maxDownloads]
  BY <1>1
<1>5. q \in Policies
  BY <1>1, <1>2, <1>3, <1>4 DEF Policies
<1> QED BY <1>1, <1>2, <1>5, PatchDomains

LEMMA LimitsAreNumbers == ASSUME NEW p \in Policies PROVE p.maxDownloads \in Nat
<1>1. p.maxDownloads \in Limits \cup {Unlimited}
  BY DEF Policies
<1>2. Unlimited \in Nat /\ Limits \subseteq Nat
  BY LimitsAssumption, BoundsAssumption DEF Unlimited
<1> QED BY <1>1, <1>2

LEMMA DefaultsAreTyped ==
  /\ NoHash \in Hashes /\ AnyPolicy \in Policies /\ IdleChange \in Changes /\ IdleVisit \in VisitRows
  /\ NoAnswer \in Answers /\ NoCookie \in CookieRows /\ IdleChange.patch \notin Rotations
<1>1. NoHash \in Hashes
  BY DEF NoHash, Hashes
<1>2. 1 \in Tokens
  BY BoundsAssumption DEF Tokens
<1>3. AnyPolicy \in Policies
  BY <1>1, <1>2 DEF AnyPolicy, Policies
<1>4. [enabled |-> TRUE] \in Patches /\ [enabled |-> TRUE] \notin Rotations
  <2>1. [enabled |-> TRUE] \in [enabled : BOOLEAN]
    OBVIOUS
  <2>2. [enabled |-> TRUE] \notin Rotations
    <3>1. DOMAIN [enabled |-> TRUE] = {"enabled"} OBVIOUS
    <3> QED BY <3>1, PatchDomains
  <2> QED BY <2>1, <2>2 DEF Patches
<1>5. IdleChange \in Changes /\ IdleChange.patch \notin Rotations
  BY <1>3, <1>4 DEF IdleChange, Changes
<1>6. IdleVisit \in VisitRows
  BY <1>1, <1>2 DEF IdleVisit, VisitRows
<1>7. NoAnswer \in Answers /\ NoCookie \in CookieRows
  BY <1>3 DEF NoAnswer, Answers, NoCookie, CookieRows
<1> QED BY <1>1, <1>3, <1>5, <1>6, <1>7

-----------------------------------------------------------------------------
(* What the statements leave of the row.                                   *)

\* The row s, perhaps with another format of the hash and another count of downloads.
SamePolicy(s) ==
  /\ share'.status = s.status /\ share'.authRevision = s.authRevision
  /\ \E h \in Hashes : /\ h.password = s.policy.passwordHash.password
                       /\ share'.policy = [s.policy EXCEPT !.passwordHash = h]

LEMMA UpdateSound ==
  ASSUME Typed, NEW p \in Policies, NEW c \in Patches \cup Rotations
  PROVE  LET r == Update(p, c)
         IN /\ r \in ShareRows /\ r.status = share.status /\ r.downloadCount = share.downloadCount
            /\ r.policy = Patched(p, c)
            /\ r.authRevision = share.authRevision + (IF "passwordHash" \in DOMAIN c THEN 1 ELSE 0)
<1>1. Patched(p, c) \in Policies
  BY PatchedIsPolicy
<1> DEFINE n == share.authRevision + (IF "passwordHash" \in DOMAIN c THEN 1 ELSE 0)
           r == [share EXCEPT !.policy = Patched(p, c), !.authRevision = n]
<1>2. n \in Nat /\ share \in ShareRows
  BY DEF Typed, ShareRows
<1>3. Update(p, c) = r
  BY DEF Update
<1> HIDE DEF n
<1>4. /\ r \in ShareRows /\ r.status = share.status /\ r.downloadCount = share.downloadCount
      /\ r.policy = Patched(p, c) /\ r.authRevision = n
  BY <1>1, <1>2 DEF ShareRows
<1> QED BY <1>3, <1>4 DEF n

\* The row after an upgrade of the hash h.
LEMMA UpgradeSound ==
  ASSUME Typed, NEW h \in Hashes, UpgradeMatches(h),
         share' = [share EXCEPT !.policy.passwordHash = [h EXCEPT !.outdated = FALSE]]
  PROVE  share' \in ShareRows /\ SamePolicy(share) /\ share'.downloadCount = share.downloadCount
<1> DEFINE g == [h EXCEPT !.outdated = FALSE]
<1>1. g \in Hashes /\ g.password = h.password
  BY DEF Hashes
<1>2. share.policy \in Policies /\ h = share.policy.passwordHash
  BY DEF Typed, ShareRows, UpgradeMatches
<1>3. share' = [share EXCEPT !.policy = [share.policy EXCEPT !.passwordHash = g]]
  BY DEF Typed, ShareRows
<1>4. [share.policy EXCEPT !.passwordHash = g] \in Policies
  BY <1>1, <1>2 DEF Policies
<1>5. /\ share' \in ShareRows /\ share'.policy = [share.policy EXCEPT !.passwordHash = g]
      /\ share'.status = share.status /\ share'.authRevision = share.authRevision
      /\ share'.downloadCount = share.downloadCount
  BY <1>3, <1>4 DEF Typed, ShareRows
<1> QED BY <1>1, <1>2, <1>5 DEF SamePolicy

LEMMA NothingChanged ==
  ASSUME Typed, share' = share
  PROVE  SamePolicy(share)
<1>1. share.policy \in Policies
  BY DEF Typed, ShareRows
<1>2. /\ share.policy = [share.policy EXCEPT !.passwordHash = share.policy.passwordHash]
      /\ share.policy.passwordHash \in Hashes
  BY <1>1 DEF Policies
<1> QED BY <1>2 DEF SamePolicy

\* The row after a download was counted.
LEMMA ConsumeSound ==
  ASSUME Typed, share' = [share EXCEPT !.downloadCount = @ + 1], share.downloadCount < MaxDownloads
  PROVE  /\ share' \in ShareRows /\ SamePolicy(share)
         /\ share'.downloadCount = share.downloadCount + 1
<1>1. share.policy \in Policies
  BY DEF Typed, ShareRows
<1>2. /\ share.policy = [share.policy EXCEPT !.passwordHash = share.policy.passwordHash]
      /\ share.policy.passwordHash \in Hashes
  BY <1>1 DEF Policies
<1>3. /\ share' \in ShareRows /\ share'.policy = share.policy /\ share'.status = share.status
      /\ share'.authRevision = share.authRevision /\ share'.downloadCount = share.downloadCount + 1
  BY BoundsAssumption DEF Typed, ShareRows
<1> QED BY <1>2, <1>3 DEF SamePolicy

\* What SamePolicy leaves alone.
LEMMA SamePolicyKeeps ==
  ASSUME Typed, SamePolicy(share)
  PROVE  /\ share'.status = share.status /\ share'.authRevision = share.authRevision
         /\ share'.policy.tokenHash = share.policy.tokenHash
         /\ share'.policy.maxDownloads = share.policy.maxDownloads
         /\ share'.policy.passwordHash.password = share.policy.passwordHash.password
         /\ [share'.policy EXCEPT !.passwordHash = NoHash] = [share.policy EXCEPT !.passwordHash = NoHash]
<1>1. PICK h \in Hashes : /\ h.password = share.policy.passwordHash.password
                          /\ share'.policy = [share.policy EXCEPT !.passwordHash = h]
  BY DEF SamePolicy
<1>2. share.policy \in Policies
  BY DEF Typed, ShareRows
<1> QED BY <1>1, <1>2 DEF SamePolicy, Policies

\* A new or a deleted row.
LEMMA RowSound ==
  ASSUME NEW st \in {"absent", "present", "deleted"}, NEW h \in Hashes
  PROVE  ShareRow(st, h) \in ShareRows /\ ShareRow(st, h).status = st
<1>1. [AnyPolicy EXCEPT !.passwordHash = h] \in Policies
  BY DefaultsAreTyped DEF Policies
<1> QED BY <1>1, BoundsAssumption DEF ShareRow, ShareRows

-----------------------------------------------------------------------------
(* Types.                                                                  *)

LEMMA PeakSound ==
  ASSUME Typed, NEW r \in ShareRows
  PROVE  /\ Peak(r) \in Nat /\ peak <= Peak(r)
         /\ r.status = "present" => r.policy.maxDownloads <= Peak(r)
<1>1. r.policy \in Policies
  BY DEF ShareRows
<1>2. r.policy.maxDownloads \in Nat
  BY <1>1, LimitsAreNumbers
<1> QED BY <1>2 DEF Peak, Typed

LEMMA ChangesAreTyped ==
  ASSUME Typed, NEW a \in Admins
  PROVE  /\ admin[a] \in Changes /\ admin[a].read \in Policies /\ admin[a].patch \in Patches \cup Rotations
         /\ Answering(a) \in Changes /\ Answering(a).pc = "answer"
         /\ Answering(a).patch \in Rotations =>
              /\ admin[a].patch \in Rotations
              /\ Answering(a).read.tokenHash = admin[a].read.tokenHash
<1>1. admin[a] \in Changes /\ admin[a].read \in Policies /\ admin[a].patch \in Patches \cup Rotations
  BY DEF Typed, Changes
<1> DEFINE r == [AnyPolicy EXCEPT !.tokenHash = admin[a].read.tokenHash]
<1>2. r \in Policies /\ r.tokenHash = admin[a].read.tokenHash
  BY <1>1, DefaultsAreTyped DEF Policies
<1>3. CASE admin[a].patch \in Rotations
  <2>1. Answering(a) = [pc |-> "answer", patch |-> admin[a].patch, read |-> r]
    BY <1>3 DEF Answering
  <2> HIDE DEF r
  <2> QED BY <1>1, <1>2, <1>3, <2>1 DEF Changes
<1>4. CASE admin[a].patch \notin Rotations
  <2>1. Answering(a) = [IdleChange EXCEPT !.pc = "answer"]
    BY <1>4 DEF Answering
  <2> QED BY <1>1, <2>1, DefaultsAreTyped DEF Changes
<1> QED BY <1>3, <1>4

\* One handler changes, and to something of its type.
LEMMA AdminBecomes ==
  ASSUME Typed, NEW a \in Admins, NEW c \in Changes, admin' = [admin EXCEPT ![a] = c]
  PROVE  /\ admin' \in [Admins -> Changes] /\ admin'[a] = c
         /\ \A b \in Admins : b # a => admin'[b] = admin[b]
  BY DEF Typed

LEMMA VisitorBecomes ==
  ASSUME Typed, NEW v \in Visitors, NEW h \in VisitRows, visitor' = [visitor EXCEPT ![v] = h]
  PROVE  /\ visitor' \in [Visitors -> VisitRows] /\ visitor'[v] = h
         /\ \A w \in Visitors : w # v => visitor'[w] = visitor[w]
  BY DEF Typed

\* The first record of a request.
LEMMA RequestIsChange ==
  ASSUME NEW c \in Patches \cup Rotations
  PROVE  /\ [IdleChange EXCEPT !.pc = "read", !.patch = c] \in Changes
         /\ [IdleChange EXCEPT !.pc = "answer"] \in Changes
  BY DefaultsAreTyped DEF Changes

LEMMA AdminTyped ==
  ASSUME Typed, NEW a \in Admins, AdminStep(a)
  PROVE  Typed'
<1> USE DefaultsAreTyped
<1>1. /\ share \in ShareRows /\ share.policy \in Policies /\ admin \in [Admins -> Changes] /\ peak \in Nat
      /\ tokens \in 0..MaxTokens /\ revoked \subseteq Tokens /\ told \in Answers
      /\ cookie \in [Tokens -> CookieRows] /\ visitor \in [Visitors -> VisitRows]
      /\ now \in 0..MaxTime /\ served \in Nat
  BY DEF Typed, ShareRows
<1>2. ASSUME CreateShare(a) PROVE Typed'
  <2>0. PICK policy \in Policies :
          /\ policy.tokenHash = 1 /\ policy.passwordHash \in NewHashes
          /\ share' = [share EXCEPT !.status = "present", !.policy = policy]
          /\ peak' = policy.maxDownloads
    BY <1>2 DEF CreateShare
  <2>1. share' \in ShareRows
    BY <1>1, <2>0 DEF ShareRows
  <2>2. admin' \in [Admins -> Changes]
    BY <1>1, <1>2, RequestIsChange DEF CreateShare, IdleChange, Changes
  <2>3. peak' \in Nat
    BY <2>0, LimitsAreNumbers
  <2>4. tokens' \in 0..MaxTokens /\ told' \in Answers /\ revoked' = revoked
    BY <1>2, BoundsAssumption DEF CreateShare, Request
  <2> QED BY <1>1, <1>2, <2>1, <2>2, <2>3, <2>4 DEF CreateShare, ByVisitors, Typed
<1>3. ASSUME UpdateShare(a) PROVE Typed'
  <2>1. admin' \in [Admins -> Changes]
    BY <1>1, <1>3, RequestIsChange DEF UpdateShare
  <2> QED BY <1>1, <1>3, <2>1 DEF UpdateShare, Request, ByVisitors, Typed
<1>4. ASSUME RotateShareToken(a) PROVE Typed'
  <2>1. tokens' \in 0..MaxTokens /\ [tokenHash |-> tokens + 1] \in Rotations
    BY <1>1, <1>4, BoundsAssumption DEF RotateShareToken, Rotations, Tokens
  <2>2. admin' \in [Admins -> Changes]
    BY <1>1, <1>4, <2>1, RequestIsChange DEF RotateShareToken
  <2> QED BY <1>1, <1>4, <2>1, <2>2 DEF RotateShareToken, Request, ByVisitors, Typed
<1>5. ASSUME UpdateRead(a) PROVE Typed'
  <2>1. admin' \in [Admins -> Changes]
    BY <1>1, <1>5 DEF UpdateRead, Finish, Changes
  <2> QED BY <1>1, <1>5, <2>1 DEF UpdateRead, ByVisitors, Typed
<1>6. ASSUME UpdateWrite(a) PROVE Typed'
  <2>1. share' \in ShareRows
    BY <1>1, <1>6, ChangesAreTyped, UpdateSound DEF UpdateWrite
  <2>2. peak' \in Nat
    BY <1>6, <2>1, PeakSound DEF UpdateWrite
  <2>3. admin' \in [Admins -> Changes]
    BY <1>1, <1>6, ChangesAreTyped DEF UpdateWrite
  <2> QED BY <1>1, <1>6, <2>1, <2>2, <2>3 DEF UpdateWrite, ByVisitors, Typed
<1>7. ASSUME UpdateAnswer(a) PROVE Typed'
  <2>1. admin' \in [Admins -> Changes]
    BY <1>1, <1>7 DEF UpdateAnswer, Finish
  <2>2. told' \in Answers
    BY <1>1, <1>7 DEF UpdateAnswer, Answers
  <2>3. admin[a].read.tokenHash \in Tokens
    BY ChangesAreTyped DEF Policies
  <2>4. revoked' \subseteq Tokens
    BY <1>1, <1>7, <2>3 DEF UpdateAnswer
  <2> QED BY <1>1, <1>7, <2>1, <2>2, <2>4 DEF UpdateAnswer, ByVisitors, Typed
<1>8. ASSUME DeleteShare(a) PROVE Typed'
  <2>1. share' \in ShareRows /\ told' \in Answers
    BY <1>8, RowSound DEF DeleteShare, Answers
  <2> QED BY <1>1, <1>8, <2>1 DEF DeleteShare, ByVisitors, Typed
<1>9. ASSUME LoseUpdate(a) PROVE Typed'
  <2>1. share' \in ShareRows
    BY <1>1, <1>9, ChangesAreTyped, UpdateSound DEF LoseUpdate
  <2>2. peak' \in Nat
    BY <1>9, <2>1, PeakSound DEF LoseUpdate
  <2>3. admin' \in [Admins -> Changes]
    BY <1>1, <1>9 DEF LoseUpdate, Finish
  <2> QED BY <1>1, <1>9, <2>1, <2>2, <2>3 DEF LoseUpdate, ByVisitors, Typed
<1> QED BY <1>2, <1>3, <1>4, <1>5, <1>6, <1>7, <1>8, <1>9 DEF AdminStep

\* What a visitor's step does to the row.
VisitorEffect ==
  /\ SamePolicy(share) /\ share' \in ShareRows
  /\ \/ share'.downloadCount = share.downloadCount /\ served' = served
     \/ /\ ConsumeMatches /\ share'.downloadCount = share.downloadCount + 1
        /\ served' \in {served, served + 1}

LEMMA VisitorSound ==
  ASSUME Typed, NEW v \in Visitors, VisitorStep(v)
  PROVE  VisitorEffect
<1>1. share \in ShareRows /\ visitor[v].passwordHash \in Hashes
  BY DEF Typed, VisitRows
<1>2. CASE share' = share /\ served' = served
  BY <1>1, <1>2, NothingChanged DEF VisitorEffect
<1>3. CASE UpgradeHash(v)
  <2>1. CASE UpgradeMatches(visitor[v].passwordHash)
    BY <1>1, <1>3, <2>1, UpgradeSound DEF UpgradeHash, VisitorEffect
  <2> QED BY <1>2, <1>3, <2>1 DEF UpgradeHash
<1>4. CASE ConsumeDownload(v)
  <2>1. CASE ConsumeMatches
    BY <1>4, <2>1, ConsumeSound DEF ConsumeDownload, VisitorEffect
  <2> QED BY <1>2, <1>4, <2>1 DEF ConsumeDownload
<1>5. CASE LoseVisit(v)
  <2>1. CASE /\ visitor[v].pc = "upgrade" /\ UpgradeMatches(visitor[v].passwordHash)
             /\ share' = [share EXCEPT !.policy.passwordHash = [visitor[v].passwordHash EXCEPT !.outdated = FALSE]]
    BY <1>1, <1>5, <2>1, UpgradeSound DEF LoseVisit, VisitorEffect
  <2>2. CASE /\ ConsumeMatches /\ share.downloadCount < MaxDownloads
             /\ share' = [share EXCEPT !.downloadCount = @ + 1]
    BY <1>5, <2>2, ConsumeSound DEF LoseVisit, VisitorEffect
  <2> QED BY <1>5, <2>1, <2>2 DEF LoseVisit
<1>6. CASE \/ \E t \in Tokens, p \in Passwords : Authenticate(v, t, p)
           \/ \E t \in Tokens : Download(v, t)
           \/ Authorize(v) \/ GiveUp(v)
  BY <1>2, <1>6 DEF Authenticate, Download, Authorize, GiveUp
<1> QED BY <1>3, <1>4, <1>5, <1>6 DEF VisitorStep

LEMMA VisitorTyped ==
  ASSUME Typed, NEW v \in Visitors, VisitorStep(v)
  PROVE  Typed'
<1> USE DefaultsAreTyped
<1>1. /\ share' \in ShareRows /\ served' \in Nat
  BY VisitorSound DEF VisitorEffect, Typed
<1>2. ByAdmins
  BY DEF VisitorStep, Authenticate, Download, UpgradeHash, Authorize, ConsumeDownload, GiveUp, LoseVisit
<1>3. /\ visitor \in [Visitors -> VisitRows] /\ cookie \in [Tokens -> CookieRows] /\ now \in 0..MaxTime
      /\ share \in ShareRows /\ share.policy \in Policies /\ share.policy.passwordHash \in Hashes
      /\ share.policy.expiresAt \in Expiries \cup {Forever} /\ share.authRevision \in Nat
      /\ visitor[v] \in VisitRows
  BY DEF Typed, ShareRows, Policies
<1>4. visitor' \in [Visitors -> VisitRows]
  <2>1. ASSUME NEW t \in Tokens, NEW p \in Passwords, Authenticate(v, t, p)
        PROVE  visitor' \in [Visitors -> VisitRows]
    BY <1>3, <2>1 DEF Authenticate, VisitRows
  <2>2. ASSUME NEW t \in Tokens, Download(v, t) PROVE visitor' \in [Visitors -> VisitRows]
    BY <1>3, <2>2 DEF Download, VisitRows
  <2>3. CASE UpgradeHash(v)
    BY <1>3, <2>3 DEF UpgradeHash, VisitRows
  <2>4. CASE Authorize(v) \/ ConsumeDownload(v) \/ GiveUp(v) \/ LoseVisit(v)
    BY <1>3, <2>4 DEF Authorize, ConsumeDownload, GiveUp, LoseVisit
  <2> QED BY <2>1, <2>2, <2>3, <2>4 DEF VisitorStep
<1>5. cookie' \in [Tokens -> CookieRows] /\ now' = now
  <2>1. CASE Authorize(v)
    <3>1. /\ visitor[v].tokenHash \in Tokens /\ visitor[v].passwordHash.password \in Passwords \cup {NoPassword}
          /\ visitor[v].authRevision \in Nat /\ visitor[v].expiresAt \in Nat
      <4>1. Expiries \cup {Forever} \subseteq Nat
        BY ExpiriesAssumption, BoundsAssumption DEF Forever
      <4>2. /\ visitor[v].tokenHash \in Tokens /\ visitor[v].passwordHash \in Hashes
            /\ visitor[v].authRevision \in Nat /\ visitor[v].expiresAt \in Expiries \cup {Forever}
        BY <1>3 DEF VisitRows
      <4> QED BY <4>1, <4>2 DEF Hashes
    <3>2. now + CookieTtl \in Nat
      BY <1>3, BoundsAssumption
    <3>3. PICK e \in Nat : cookie' = [cookie EXCEPT ![visitor[v].tokenHash] =
             [password |-> visitor[v].passwordHash.password, authRevision |-> visitor[v].authRevision, exp |-> e]]
      BY <2>1, <3>1, <3>2 DEF Authorize
    <3> QED BY <1>3, <2>1, <3>1, <3>3 DEF Authorize, CookieRows
  <2>2. CASE ~Authorize(v)
    BY <1>3, <2>2 DEF VisitorStep, Authenticate, Download, UpgradeHash, ConsumeDownload, GiveUp, LoseVisit
  <2> QED BY <2>1, <2>2
<1> QED BY <1>1, <1>2, <1>3, <1>4, <1>5 DEF ByAdmins, Typed

LEMMA InitTyped == ShareInit => Typed
<1> SUFFICES ASSUME ShareInit PROVE Typed
  OBVIOUS
<1>1. share \in ShareRows /\ tokens \in 0..MaxTokens /\ peak \in Nat
  <2>1. CASE share = ShareRow("absent", NoHash) /\ tokens = 0 /\ peak = 0
    BY <2>1, RowSound, DefaultsAreTyped, BoundsAssumption
  <2>2. CASE /\ \E p \in Passwords : share = ShareRow("present", [password |-> p, outdated |-> TRUE])
             /\ tokens = 1 /\ peak = Unlimited
    <3>1. \A p \in Passwords : [password |-> p, outdated |-> TRUE] \in Hashes
      BY DEF Hashes
    <3> QED BY <2>2, <3>1, RowSound, BoundsAssumption DEF Unlimited
  <2> QED BY <2>1, <2>2 DEF ShareInit
<1> QED BY <1>1, DefaultsAreTyped, BoundsAssumption DEF ShareInit, Typed

LEMMA StepTyped == Typed /\ [ShareNext]_shareVars => Typed'
<1> SUFFICES ASSUME Typed, [ShareNext]_shareVars PROVE Typed'
  OBVIOUS
<1>1. CASE DeleteMount
  <2>1. share' \in ShareRows /\ told' \in Answers
    BY <1>1, RowSound, DefaultsAreTyped DEF DeleteMount
  <2> QED BY <1>1, <2>1 DEF DeleteMount, Typed
<1>2. CASE Tick
  BY <1>2, BoundsAssumption DEF Tick, Typed
<1>3. CASE UNCHANGED shareVars
  BY <1>3 DEF shareVars, Typed
<1> QED BY <1>1, <1>2, <1>3, AdminTyped, VisitorTyped DEF ShareNext

-----------------------------------------------------------------------------
(* Limits.                                                                 *)

\* The row has counted every download that was given out, and its limit is none above
\* the largest there was.
LimitInv ==
  /\ DownloadsWithinLimit
  /\ Exists => served <= share.downloadCount /\ share.policy.maxDownloads <= peak
  /\ share.status = "absent" => served = 0

LEMMA AdminKeepsLimit ==
  ASSUME Typed, LimitInv, NEW a \in Admins, AdminStep(a)
  PROVE  LimitInv'
<1>1. /\ share \in ShareRows /\ peak \in Nat /\ served \in Nat /\ served' = served
      /\ share.downloadCount \in Nat /\ share.policy \in Policies
  <2>1. ByVisitors
    BY DEF AdminStep, CreateShare, UpdateShare, RotateShareToken, UpdateRead, UpdateWrite, UpdateAnswer,
         DeleteShare, LoseUpdate
  <2> QED BY <2>1, BoundsAssumption DEF Typed, ShareRows, ByVisitors
<1>2. CASE share' = share /\ peak' = peak
  BY <1>1, <1>2 DEF LimitInv, DownloadsWithinLimit, Exists
<1>3. ASSUME CreateShare(a) PROVE LimitInv'
  <2>0. PICK policy \in Policies :
          /\ policy.tokenHash = 1 /\ policy.passwordHash \in NewHashes
          /\ share' = [share EXCEPT !.status = "present", !.policy = policy]
          /\ peak' = policy.maxDownloads
    BY <1>3 DEF CreateShare
  <2>1. /\ share.status = "absent" /\ share'.status = "present" /\ share'.policy = policy
        /\ share'.downloadCount = share.downloadCount /\ peak' = policy.maxDownloads
    BY <1>1, <1>3, <2>0 DEF CreateShare, ShareRows
  <2>2. served = 0 /\ policy.maxDownloads \in Nat
    BY <2>1, LimitsAreNumbers DEF LimitInv
  <2> QED BY <1>1, <2>1, <2>2 DEF LimitInv, DownloadsWithinLimit, Exists
<1>4. CASE Exists /\ share' = Update(admin[a].read, admin[a].patch) /\ peak' = Peak(share')
  <2>1. share' \in ShareRows /\ share'.status = "present" /\ share'.downloadCount = share.downloadCount
    BY <1>4, ChangesAreTyped, UpdateSound DEF Exists
  <2>2. peak' \in Nat /\ peak <= peak' /\ share'.policy.maxDownloads <= peak'
    BY <1>4, <2>1, PeakSound
  <2> QED BY <1>1, <1>4, <2>1, <2>2 DEF LimitInv, DownloadsWithinLimit, Exists
<1>5. CASE share' = share /\ peak' = Peak(share')
  <2>1. peak' \in Nat /\ peak <= peak'
    BY <1>1, <1>5, PeakSound
  <2>2. share.policy.maxDownloads \in Nat
    BY <1>1, LimitsAreNumbers
  <2> QED BY <1>1, <1>5, <2>1, <2>2 DEF LimitInv, DownloadsWithinLimit, Exists
<1>6. CASE DeleteShare(a)
  <2>1. share'.status = "deleted" /\ peak' = peak
    BY <1>6, RowSound, DefaultsAreTyped DEF DeleteShare
  <2> QED BY <1>1, <2>1 DEF LimitInv, DownloadsWithinLimit, Exists
<1>7. CASE UpdateWrite(a) \/ LoseUpdate(a)
  BY <1>4, <1>5, <1>7 DEF UpdateWrite, LoseUpdate
<1>8. CASE \/ UpdateShare(a) \/ RotateShareToken(a) \/ UpdateRead(a) \/ UpdateAnswer(a)
  BY <1>2, <1>8 DEF UpdateShare, RotateShareToken, UpdateRead, UpdateAnswer
<1> QED BY <1>3, <1>6, <1>7, <1>8 DEF AdminStep

LEMMA VisitorKeepsLimit ==
  ASSUME Typed, LimitInv, NEW v \in Visitors, VisitorStep(v)
  PROVE  LimitInv'
<1>1. VisitorEffect /\ peak' = peak
  BY VisitorSound DEF VisitorStep, Authenticate, Download, UpgradeHash, Authorize, ConsumeDownload, GiveUp,
                      LoseVisit, ByAdmins
<1>2. /\ peak \in Nat /\ served \in Nat /\ share.downloadCount \in Nat /\ share.policy.maxDownloads \in Nat
  BY LimitsAreNumbers, BoundsAssumption DEF Typed, ShareRows
<1>3. share'.status = share.status /\ share'.policy.maxDownloads = share.policy.maxDownloads
  BY <1>1, SamePolicyKeeps DEF VisitorEffect
<1> QED BY <1>1, <1>2, <1>3 DEF VisitorEffect, ConsumeMatches, Exists, LimitInv, DownloadsWithinLimit

\* However downloads and changes of the limit interleave, no more downloads are given out
\* than the largest limit allows: tryConsumeShareDownload compares and counts in one
\* statement.
THEOREM DownloadsAreLimited == ShareSpec => []DownloadsWithinLimit
<1>1. ShareInit => Typed /\ LimitInv
  <2> SUFFICES ASSUME ShareInit PROVE LimitInv
    BY InitTyped
  <2>1. ShareRow("absent", NoHash).status = "absent" /\ \A p \in Passwords :
          LET r == ShareRow("present", [password |-> p, outdated |-> TRUE])
          IN r.status = "present" /\ r.downloadCount = 0 /\ r.policy.maxDownloads = Unlimited
    BY DEF ShareRow, AnyPolicy
  <2>2. served = 0 /\ Unlimited \in Nat
    BY BoundsAssumption DEF ShareInit, Unlimited
  <2>3. CASE share = ShareRow("absent", NoHash) /\ peak = 0
    BY <2>1, <2>2, <2>3 DEF LimitInv, DownloadsWithinLimit, Exists
  <2>4. CASE /\ \E p \in Passwords : share = ShareRow("present", [password |-> p, outdated |-> TRUE])
             /\ peak = Unlimited
    BY <2>1, <2>2, <2>4 DEF LimitInv, DownloadsWithinLimit, Exists
  <2> QED BY <2>3, <2>4 DEF ShareInit
<1>2. Typed /\ LimitInv /\ [ShareNext]_shareVars => (Typed /\ LimitInv)'
  <2> SUFFICES ASSUME Typed, LimitInv, [ShareNext]_shareVars PROVE LimitInv'
    BY StepTyped
  <2>1. CASE DeleteMount
    <3>1. share'.status = "deleted" /\ peak' = peak /\ served' = served
      BY <2>1, RowSound, DefaultsAreTyped DEF DeleteMount
    <3> QED BY <3>1 DEF LimitInv, DownloadsWithinLimit, Exists
  <2>2. CASE Tick \/ UNCHANGED shareVars
    BY <2>2 DEF Tick, shareVars, LimitInv, DownloadsWithinLimit, Exists
  <2> QED BY <2>1, <2>2, AdminKeepsLimit, VisitorKeepsLimit DEF ShareNext
<1>3. LimitInv => DownloadsWithinLimit
  BY DEF LimitInv
<1> QED BY <1>1, <1>2, <1>3, PTL DEF ShareSpec

-----------------------------------------------------------------------------
(* One administrator.                                                      *)

\* Requests that change the share do not overlap.
OneAdmin == \A a, b \in Admins : a = b

\* The link only ever moves to a newer one, and what a change has read of the row is in
\* the row until it writes.
LinkInv ==
  /\ share.status = "absent" => revoked = {}
  /\ Exists => /\ share.policy.tokenHash <= tokens
               /\ \A t \in revoked : t < share.policy.tokenHash
  /\ \A a \in Admins :
       LET c == admin[a]
       IN Exists =>
            /\ c.pc = "write" =>
                 /\ c.read.tokenHash = share.policy.tokenHash
                 /\ c.read.passwordHash.password = share.policy.passwordHash.password
            /\ c.pc \in {"read", "write"} /\ c.patch \in Rotations =>
                 share.policy.tokenHash < c.patch.tokenHash /\ c.patch.tokenHash <= tokens
            /\ c.pc = "answer" /\ c.patch \in Rotations => c.read.tokenHash < share.policy.tokenHash

\* Nothing is told while a change is under way.
ToldInv ==
  /\ AnswersHold
  /\ \A a \in Admins : admin[a].pc # "idle" => told.status = "unknown"

\* What was proved at revision n: no later one than that of the row, and if it is that of
\* the row, the password of the row.
Proved(password, n) ==
  Exists =>
    /\ n <= share.authRevision
    /\ n = share.authRevision => password = share.policy.passwordHash.password

CookieInv ==
  /\ share.status = "absent" => /\ \A t \in Tokens : cookie[t].exp = 0
                                /\ \A v \in Visitors : visitor[v].pc = "idle"
  /\ \A t \in Tokens : cookie[t].exp # 0 => Proved(cookie[t].password, cookie[t].authRevision)
  /\ \A v \in Visitors : visitor[v].pc \in {"upgrade", "clear"} =>
       Proved(visitor[v].passwordHash.password, visitor[v].authRevision)

Inv == Typed /\ LinkInv /\ ToldInv /\ CookieInv


\* Cookies survive what an administrator does to the row.
LEMMA CookiesKept ==
  ASSUME Typed, CookieInv, UNCHANGED <<cookie, visitor>>,
         \/ share'.status = "deleted"
         \/ share.status = "absent" /\ share'.status = "present"
         \/ /\ share'.status = share.status
            /\ \/ share'.authRevision = share.authRevision + 1
               \/ /\ share'.authRevision = share.authRevision
                  /\ share'.policy.passwordHash.password = share.policy.passwordHash.password
  PROVE  CookieInv'
<1>1. /\ share.authRevision \in Nat
      /\ \A t \in Tokens : cookie[t].authRevision \in Nat
      /\ \A v \in Visitors : visitor[v].authRevision \in Nat
  BY DEF Typed, ShareRows, CookieRows, VisitRows
<1>2. CASE share'.status = "deleted"
  BY <1>2 DEF CookieInv, Proved, Exists
<1>3. CASE share.status = "absent" /\ share'.status = "present"
  BY <1>3 DEF CookieInv, Proved, Exists
<1>4. CASE share'.status = share.status /\ share'.authRevision = share.authRevision + 1
  BY <1>1, <1>4 DEF CookieInv, Proved, Exists
<1>5. CASE /\ share'.status = share.status /\ share'.authRevision = share.authRevision
           /\ share'.policy.passwordHash.password = share.policy.passwordHash.password
  BY <1>5 DEF CookieInv, Proved, Exists
<1> QED BY <1>2, <1>3, <1>4, <1>5

LEMMA UpdateKeepsCookies ==
  ASSUME Typed, CookieInv, LinkInv, NEW a \in Admins, admin[a].pc = "write", UNCHANGED <<cookie, visitor>>,
         Exists, share' = Update(admin[a].read, admin[a].patch)
  PROVE  CookieInv'
<1>1. /\ admin[a].read \in Policies /\ admin[a].patch \in Patches \cup Rotations
      /\ share.authRevision \in Nat
  BY ChangesAreTyped DEF Typed, ShareRows
<1>2. /\ share'.status = share.status /\ share'.policy = Patched(admin[a].read, admin[a].patch)
      /\ share'.authRevision = share.authRevision + (IF "passwordHash" \in DOMAIN admin[a].patch THEN 1 ELSE 0)
  BY <1>1, UpdateSound
<1>3. CASE "passwordHash" \in DOMAIN admin[a].patch
  BY <1>1, <1>2, <1>3, CookiesKept
<1>4. CASE "passwordHash" \notin DOMAIN admin[a].patch
  <2>1. share'.policy.passwordHash.password = share.policy.passwordHash.password
    BY <1>1, <1>2, <1>4, PatchedIsPolicy DEF LinkInv
  <2> QED BY <1>1, <1>2, <1>4, <2>1, CookiesKept
<1> QED BY <1>3, <1>4

\* The links after a change was written, of an administrator who is about to answer.
LEMMA UpdateKeepsLinks ==
  ASSUME Typed, LinkInv, NEW a \in Admins, admin[a].pc = "write",
         Exists, share' = Update(admin[a].read, admin[a].patch), UNCHANGED <<tokens, revoked>>
  PROVE  /\ share'.status = "present" /\ share'.policy.tokenHash <= tokens
         /\ \A t \in revoked : t < share'.policy.tokenHash
         /\ admin[a].patch \in Rotations => admin[a].read.tokenHash < share'.policy.tokenHash
<1>1. /\ admin[a].read \in Policies /\ admin[a].patch \in Patches \cup Rotations
      /\ share.policy.tokenHash \in Nat /\ tokens \in Nat /\ revoked \subseteq Nat
  BY ChangesAreTyped, BoundsAssumption DEF Typed, ShareRows, Policies, Tokens
<1>2. /\ share'.status = share.status /\ share'.policy = Patched(admin[a].read, admin[a].patch)
  BY <1>1, UpdateSound
<1>3. /\ admin[a].read.tokenHash = share.policy.tokenHash /\ share.policy.tokenHash <= tokens
      /\ \A t \in revoked : t < share.policy.tokenHash
  BY DEF LinkInv
<1>4. CASE admin[a].patch \in Rotations
  <2>1. share.policy.tokenHash < admin[a].patch.tokenHash /\ admin[a].patch.tokenHash <= tokens
    BY <1>4 DEF LinkInv
  <2>2. share'.policy.tokenHash = admin[a].patch.tokenHash /\ admin[a].patch.tokenHash \in Nat
    BY <1>1, <1>2, <1>4, PatchedIsPolicy, PatchDomains DEF Tokens
  <2> QED BY <1>1, <1>2, <1>3, <2>1, <2>2 DEF Exists
<1>5. CASE admin[a].patch \notin Rotations
  <2>1. share'.policy.tokenHash = share.policy.tokenHash
    BY <1>1, <1>2, <1>3, <1>5, PatchedIsPolicy
  <2> QED BY <1>1, <1>2, <1>3, <1>5, <2>1 DEF Exists
<1> QED BY <1>4, <1>5

LEMMA AdminKeepsInv ==
  ASSUME OneAdmin, Inv, NEW a \in Admins, AdminStep(a)
  PROVE  (LinkInv /\ ToldInv /\ CookieInv)'
<1>1. /\ Typed /\ LinkInv /\ ToldInv /\ CookieInv /\ Admins = {a}
      /\ admin \in [Admins -> Changes] /\ share \in ShareRows
      /\ tokens \in Nat /\ share.policy.tokenHash \in Nat /\ revoked \subseteq Nat
  BY BoundsAssumption DEF Inv, OneAdmin, Typed, ShareRows, Policies, Tokens
<1>2. UNCHANGED <<cookie, visitor>>
  BY DEF AdminStep, CreateShare, UpdateShare, RotateShareToken, UpdateRead, UpdateWrite, UpdateAnswer,
       DeleteShare, LoseUpdate, ByVisitors
<1>3. ASSUME CreateShare(a) PROVE (LinkInv /\ ToldInv /\ CookieInv)'
  <2>0. PICK policy \in Policies :
          /\ policy.tokenHash = 1 /\ policy.passwordHash \in NewHashes
          /\ share' = [share EXCEPT !.status = "present", !.policy = policy]
          /\ peak' = policy.maxDownloads
    BY <1>3 DEF CreateShare
  <2>1. /\ share.status = "absent" /\ share'.status = "present" /\ share'.policy = policy
        /\ policy.tokenHash = 1 /\ tokens' = 1 /\ revoked' = revoked /\ told' = NoAnswer
    BY <1>1, <1>3, <2>0 DEF CreateShare, Request, ShareRows
  <2>2. admin'[a].pc = "answer" /\ admin'[a].patch \notin Rotations
    <3>1. admin'[a] = [IdleChange EXCEPT !.pc = "answer"]
      BY <1>1, <1>3 DEF CreateShare
    <3> QED BY <3>1, DefaultsAreTyped DEF IdleChange
  <2>3. LinkInv'
    <3>1. revoked' = {}
      BY <1>1, <2>1 DEF LinkInv
    <3>2. share'.policy.tokenHash = 1 /\ tokens' = 1 /\ share'.status = "present"
      BY <2>1
    <3> QED BY <1>1, <2>2, <3>1, <3>2 DEF LinkInv, Exists
  <2>4. ToldInv'
    BY <1>1, <2>1 DEF ToldInv, AnswersHold, NoAnswer
  <2> QED BY <1>1, <1>2, <2>1, <2>3, <2>4, CookiesKept
<1>4. ASSUME UpdateShare(a) PROVE (LinkInv /\ ToldInv /\ CookieInv)'
  <2>1. share' = share /\ tokens' = tokens /\ revoked' = revoked /\ told' = NoAnswer
    BY <1>4 DEF UpdateShare, Request
  <2>2. admin'[a].pc = "read" /\ admin'[a].patch \notin Rotations
    <3>1. PICK patch \in Patches :
            admin' = [admin EXCEPT ![a] = [IdleChange EXCEPT !.pc = "read", !.patch = patch]]
      BY <1>4 DEF UpdateShare
    <3> QED BY <1>1, <3>1, PatchDomains DEF IdleChange
  <2>3. LinkInv'
    BY <1>1, <2>1, <2>2 DEF LinkInv, Exists
  <2>4. ToldInv'
    BY <1>1, <2>1 DEF ToldInv, AnswersHold, NoAnswer
  <2> QED BY <1>1, <1>2, <2>1, <2>3, <2>4, CookiesKept
<1>5. ASSUME RotateShareToken(a) PROVE (LinkInv /\ ToldInv /\ CookieInv)'
  <2>1. share' = share /\ tokens' = tokens + 1 /\ revoked' = revoked /\ told' = NoAnswer /\ Exists
    BY <1>5 DEF RotateShareToken, Request
  <2>2. admin'[a].pc = "read" /\ admin'[a].patch = [tokenHash |-> tokens + 1]
    BY <1>1, <1>5 DEF RotateShareToken, IdleChange
  <2>3. LinkInv'
    BY <1>1, <2>1, <2>2 DEF LinkInv, Exists
  <2>4. ToldInv'
    BY <1>1, <2>1 DEF ToldInv, AnswersHold, NoAnswer
  <2> QED BY <1>1, <1>2, <2>1, <2>3, <2>4, CookiesKept
<1>6. ASSUME UpdateRead(a) PROVE (LinkInv /\ ToldInv /\ CookieInv)'
  <2>1. share' = share /\ tokens' = tokens /\ revoked' = revoked /\ told' = told /\ admin[a].pc = "read"
    BY <1>6 DEF UpdateRead, Admin
  <2>2. told.status = "unknown"
    BY <1>1, <2>1 DEF ToldInv
  <2>3. LinkInv'
    <3>1. CASE Exists
      <4>1. /\ admin'[a].pc = "write" /\ admin'[a].patch = admin[a].patch /\ admin'[a].read = share.policy
        BY <1>1, <1>6, <3>1 DEF UpdateRead, Changes
      <4> QED BY <1>1, <2>1, <3>1, <4>1 DEF LinkInv, Exists
    <3>2. CASE ~Exists
      BY <1>1, <2>1, <3>2 DEF LinkInv, Exists
    <3> QED BY <3>1, <3>2
  <2>4. ToldInv'
    BY <1>1, <2>1, <2>2 DEF ToldInv, AnswersHold
  <2> QED BY <1>1, <1>2, <2>1, <2>3, <2>4, CookiesKept
<1>7. ASSUME UpdateWrite(a) PROVE (LinkInv /\ ToldInv /\ CookieInv)'
  <2>1. /\ tokens' = tokens /\ revoked' = revoked /\ told' = told /\ admin[a].pc = "write"
        /\ admin'[a] = Answering(a)
    BY <1>1, <1>7 DEF UpdateWrite, Admin
  <2>2. told.status = "unknown"
    BY <1>1, <2>1 DEF ToldInv
  <2>3. ToldInv'
    BY <1>1, <2>1, <2>2 DEF ToldInv, AnswersHold
  <2>4. CASE Exists
    <3>1. share' = Update(admin[a].read, admin[a].patch)
      BY <1>7, <2>4 DEF UpdateWrite
    <3>2. /\ share'.status = "present" /\ share'.policy.tokenHash <= tokens
          /\ \A t \in revoked : t < share'.policy.tokenHash
          /\ admin[a].patch \in Rotations => admin[a].read.tokenHash < share'.policy.tokenHash
      BY <1>1, <2>1, <2>4, <3>1, UpdateKeepsLinks
    <3>3. /\ admin'[a].pc = "answer"
          /\ admin'[a].patch \in Rotations =>
               admin[a].patch \in Rotations /\ admin'[a].read.tokenHash = admin[a].read.tokenHash
      BY <1>1, <2>1, ChangesAreTyped
    <3>4. LinkInv'
      BY <1>1, <2>1, <3>2, <3>3 DEF LinkInv, Exists
    <3> QED BY <1>1, <1>2, <2>1, <2>3, <2>4, <3>1, <3>4, UpdateKeepsCookies
  <2>5. CASE ~Exists
    <3>1. share' = share
      BY <1>7, <2>5 DEF UpdateWrite
    <3> QED BY <1>1, <1>2, <2>1, <2>3, <2>5, <3>1, CookiesKept DEF LinkInv, Exists
  <2> QED BY <2>4, <2>5
<1>8. ASSUME UpdateAnswer(a) PROVE (LinkInv /\ ToldInv /\ CookieInv)'
  <2>1. /\ share' = share /\ tokens' = tokens /\ admin[a].pc = "answer"
        /\ admin'[a] = IdleChange /\ admin'[a].pc = "idle"
    BY <1>1, <1>8 DEF UpdateAnswer, Admin, Finish, IdleChange
  <2>2. told.status = "unknown"
    BY <1>1, <2>1 DEF ToldInv
  <2>3. LinkInv'
    <3>1. Exists => /\ share.policy.tokenHash <= tokens
                    /\ \A t \in revoked : t < share.policy.tokenHash
                    /\ admin[a].patch \in Rotations => admin[a].read.tokenHash < share.policy.tokenHash
      BY <1>1, <2>1 DEF LinkInv
    <3>2. /\ Exists => revoked' \subseteq revoked \cup {admin[a].read.tokenHash}
          /\ admin[a].patch \notin Rotations => revoked' = revoked
          /\ ~Exists => revoked' = revoked
      BY <1>8 DEF UpdateAnswer
    <3>3. Exists' = Exists /\ (share.status = "absent" => ~Exists)
      BY <2>1 DEF Exists
    <3>4. Exists => \A t \in revoked' : t < share.policy.tokenHash
      BY <3>1, <3>2
    <3>5. share.status = "absent" => revoked' = {}
      BY <3>2, <3>3, <1>1 DEF LinkInv
    <3>6. (Exists => share.policy.tokenHash <= tokens)'
      BY <2>1, <3>1, <3>3
    <3> QED BY <1>1, <2>1, <3>3, <3>4, <3>5, <3>6 DEF LinkInv
  <2>4. ToldInv'
    <3>1. CASE Exists
      BY <1>1, <1>8, <2>1, <3>1 DEF UpdateAnswer, ToldInv, AnswersHold, Exists
    <3>2. CASE ~Exists
      BY <1>1, <1>8, <2>1, <2>2, <3>2 DEF UpdateAnswer, ToldInv, AnswersHold
    <3> QED BY <3>1, <3>2
  <2> QED BY <1>1, <1>2, <2>1, <2>3, <2>4, CookiesKept
<1>9. ASSUME DeleteShare(a) PROVE (LinkInv /\ ToldInv /\ CookieInv)'
  <2>1. /\ share'.status = "deleted" /\ told'.status = "deleted" /\ admin' = admin /\ admin[a].pc = "idle"
    BY <1>9, RowSound, DefaultsAreTyped DEF DeleteShare, Admin, Answers
  <2>2. ToldInv'
    BY <1>1, <2>1 DEF ToldInv, AnswersHold
  <2> QED BY <1>1, <1>2, <2>1, <2>2, CookiesKept DEF LinkInv, Exists
<1>10. ASSUME LoseUpdate(a) PROVE (LinkInv /\ ToldInv /\ CookieInv)'
  <2>1. /\ tokens' = tokens /\ revoked' = revoked /\ told' = told /\ admin[a].pc # "idle"
        /\ admin'[a] = IdleChange /\ admin'[a].pc = "idle"
    BY <1>1, <1>10 DEF LoseUpdate, Admin, Finish, IdleChange
  <2>2. ToldInv'
    BY <1>1, <2>1 DEF ToldInv, AnswersHold
  <2>3. CASE share' = share
    BY <1>1, <1>2, <2>1, <2>2, <2>3, CookiesKept DEF LinkInv, Exists
  <2>4. CASE Admin(a, "write") /\ Exists /\ share' = Update(admin[a].read, admin[a].patch)
    <3>1. admin[a].pc = "write"
      BY <2>4 DEF Admin
    <3>2. LinkInv'
      BY <1>1, <2>1, <2>4, <3>1, UpdateKeepsLinks DEF LinkInv, Exists
    <3> QED BY <1>1, <1>2, <2>1, <2>2, <2>4, <3>1, <3>2, UpdateKeepsCookies
  <2> QED BY <1>10, <2>3, <2>4 DEF LoseUpdate
<1> QED BY <1>3, <1>4, <1>5, <1>6, <1>7, <1>8, <1>9, <1>10 DEF AdminStep

\* What was proved before is proved after: a visitor changes neither the revision nor the
\* password, only the format of its hash.
LEMMA VisitorKeepsInv ==
  ASSUME Inv, NEW v \in Visitors, VisitorStep(v)
  PROVE  (LinkInv /\ ToldInv /\ CookieInv)'
<1>1. /\ Typed /\ LinkInv /\ ToldInv /\ CookieInv
      /\ visitor \in [Visitors -> VisitRows] /\ cookie \in [Tokens -> CookieRows] /\ visitor[v] \in VisitRows
      /\ share.authRevision \in Nat /\ visitor[v].tokenHash \in Tokens
  BY DEF Inv, Typed, ShareRows, VisitRows
<1>2. ByAdmins
  BY DEF VisitorStep, Authenticate, Download, UpgradeHash, Authorize, ConsumeDownload, GiveUp, LoseVisit
<1>3. /\ share'.status = share.status /\ share'.authRevision = share.authRevision
      /\ share'.policy.tokenHash = share.policy.tokenHash
      /\ share'.policy.passwordHash.password = share.policy.passwordHash.password
      /\ [share'.policy EXCEPT !.passwordHash = NoHash] = [share.policy EXCEPT !.passwordHash = NoHash]
  BY <1>1, VisitorSound, SamePolicyKeeps DEF VisitorEffect
<1>4. LinkInv'
  BY <1>1, <1>2, <1>3 DEF ByAdmins, LinkInv, Exists
<1>5. ToldInv'
  BY <1>1, <1>2, <1>3 DEF ByAdmins, ToldInv, AnswersHold
<1>6. share.status # "absent"
  <2>1. visitor[v].pc # "idle" \/ Exists
    BY DEF VisitorStep, Authenticate, Download, ActiveShare, UpgradeHash, Authorize, ConsumeDownload, GiveUp, LoseVisit
  <2> QED BY <1>1, <2>1 DEF CookieInv, Exists
<1>7. ASSUME \A t \in Tokens : cookie'[t].exp # 0 => Proved(cookie'[t].password, cookie'[t].authRevision),
             \A w \in Visitors : visitor'[w].pc \in {"upgrade", "clear"} =>
               Proved(visitor'[w].passwordHash.password, visitor'[w].authRevision)
      PROVE  CookieInv'
  BY <1>3, <1>6, <1>7 DEF CookieInv, Proved, Exists
<1>8. /\ \A t \in Tokens : cookie[t].exp # 0 => Proved(cookie[t].password, cookie[t].authRevision)
      /\ \A w \in Visitors : visitor[w].pc \in {"upgrade", "clear"} =>
           Proved(visitor[w].passwordHash.password, visitor[w].authRevision)
  BY <1>1 DEF CookieInv
<1>9. ASSUME NEW t \in Tokens, NEW p \in Passwords, Authenticate(v, t, p) PROVE CookieInv'
  <2>1. /\ visitor'[v].passwordHash = share.policy.passwordHash /\ visitor'[v].authRevision = share.authRevision
        /\ \A w \in Visitors : w # v => visitor'[w] = visitor[w]
        /\ cookie' = cookie
    BY <1>1, <1>9 DEF Authenticate
  <2>2. Proved(share.policy.passwordHash.password, share.authRevision)
    BY <1>1 DEF Proved
  <2>3. ASSUME NEW w \in Visitors, visitor'[w].pc \in {"upgrade", "clear"}
        PROVE  Proved(visitor'[w].passwordHash.password, visitor'[w].authRevision)
    <3>1. CASE w = v
      BY <2>1, <2>2, <3>1
    <3>2. CASE w # v
      BY <1>8, <2>1, <2>3, <3>2
    <3> QED BY <3>1, <3>2
  <2> QED BY <1>7, <1>8, <2>1, <2>3
<1>10. ASSUME NEW t \in Tokens, Download(v, t) PROVE CookieInv'
  <2>1. /\ visitor'[v].pc = "consume" /\ \A w \in Visitors : w # v => visitor'[w] = visitor[w]
        /\ cookie' = cookie
    BY <1>1, <1>10 DEF Download, IdleVisit
  <2> QED BY <1>7, <1>8, <2>1
<1>11. CASE cookie' = cookie /\ visitor' = [visitor EXCEPT ![v] = IdleVisit]
  <2>1. visitor'[v].pc = "idle" /\ \A w \in Visitors : w # v => visitor'[w] = visitor[w]
    BY <1>1, <1>11 DEF IdleVisit
  <2> QED BY <1>4, <1>5, <1>7, <1>8, <1>11, <2>1
<1>12. CASE UpgradeHash(v)
  <2>1. CASE visitor' = [visitor EXCEPT ![v] = IdleVisit]
    BY <1>11, <1>12, <2>1 DEF UpgradeHash
  <2>2. CASE visitor' = [visitor EXCEPT ![v] = [@ EXCEPT !.pc = "clear"]]
    <3>1. /\ visitor[v].pc = "upgrade" /\ visitor'[v].passwordHash = visitor[v].passwordHash
          /\ visitor'[v].authRevision = visitor[v].authRevision
          /\ \A w \in Visitors : w # v => visitor'[w] = visitor[w]
          /\ cookie' = cookie
      BY <1>1, <1>12, <2>2 DEF UpgradeHash, VisitRows
    <3>2. Proved(visitor[v].passwordHash.password, visitor[v].authRevision)
      BY <1>8, <3>1
    <3>3. ASSUME NEW w \in Visitors, visitor'[w].pc \in {"upgrade", "clear"}
          PROVE  Proved(visitor'[w].passwordHash.password, visitor'[w].authRevision)
      <4>1. CASE w = v
        BY <3>1, <3>2, <4>1
      <4>2. CASE w # v
        BY <1>8, <3>1, <3>3, <4>2
      <4> QED BY <4>1, <4>2
    <3> QED BY <1>4, <1>5, <1>7, <1>8, <3>1, <3>3
  <2> QED BY <1>12, <2>1, <2>2 DEF UpgradeHash
<1>13. CASE Authorize(v)
  <2>1. /\ visitor[v].pc = "clear" /\ visitor'[v].pc = "idle"
        /\ \A w \in Visitors : w # v => visitor'[w] = visitor[w]
        /\ \A t \in Tokens : t # visitor[v].tokenHash => cookie'[t] = cookie[t]
        /\ cookie'[visitor[v].tokenHash].password = visitor[v].passwordHash.password
        /\ cookie'[visitor[v].tokenHash].authRevision = visitor[v].authRevision
    BY <1>1, <1>13 DEF Authorize, IdleVisit
  <2>2. Proved(visitor[v].passwordHash.password, visitor[v].authRevision)
    BY <1>8, <2>1
  <2>3. ASSUME NEW t \in Tokens, cookie'[t].exp # 0
        PROVE  Proved(cookie'[t].password, cookie'[t].authRevision)
    <3>1. CASE t = visitor[v].tokenHash
      BY <2>1, <2>2, <3>1
    <3>2. CASE t # visitor[v].tokenHash
      BY <1>8, <2>1, <2>3, <3>2
    <3> QED BY <3>1, <3>2
  <2>4. ASSUME NEW w \in Visitors, visitor'[w].pc \in {"upgrade", "clear"}
        PROVE  Proved(visitor'[w].passwordHash.password, visitor'[w].authRevision)
    BY <1>8, <2>1, <2>4
  <2> QED BY <1>4, <1>5, <1>7, <2>3, <2>4
<1>14. CASE ConsumeDownload(v) \/ GiveUp(v) \/ LoseVisit(v)
  BY <1>11, <1>14 DEF ConsumeDownload, GiveUp, LoseVisit
<1> QED BY <1>4, <1>5, <1>9, <1>10, <1>12, <1>13, <1>14 DEF VisitorStep

LEMMA InitInv == ShareInit => Inv
<1> SUFFICES ASSUME ShareInit PROVE Inv
  OBVIOUS
<1>1. Typed
  BY InitTyped
<1>2. /\ \A a \in Admins : admin[a].pc = "idle"
      /\ \A v \in Visitors : visitor[v].pc = "idle"
      /\ \A t \in Tokens : cookie[t].exp = 0
      /\ revoked = {} /\ told.status = "unknown"
  BY DEF ShareInit, IdleChange, IdleVisit, NoCookie, NoAnswer
<1>3. Exists => share.policy.tokenHash <= tokens
  <2>1. ShareRow("absent", NoHash).status = "absent" /\ \A p \in Passwords :
          ShareRow("present", [password |-> p, outdated |-> TRUE]).policy.tokenHash = 1
    BY DEF ShareRow, AnyPolicy
  <2>2. CASE share = ShareRow("absent", NoHash)
    BY <2>1, <2>2 DEF Exists
  <2>3. CASE /\ \E p \in Passwords : share = ShareRow("present", [password |-> p, outdated |-> TRUE])
             /\ tokens = 1
    BY <2>1, <2>3
  <2> QED BY <2>2, <2>3 DEF ShareInit
<1> QED BY <1>1, <1>2, <1>3 DEF Inv, LinkInv, ToldInv, AnswersHold, CookieInv

LEMMA StepInv == ASSUME OneAdmin PROVE Inv /\ [ShareNext]_shareVars => Inv'
<1> SUFFICES ASSUME Inv, [ShareNext]_shareVars PROVE Inv'
  OBVIOUS
<1>1. Typed' /\ Typed /\ LinkInv /\ ToldInv /\ CookieInv
  BY StepTyped DEF Inv
<1>2. CASE DeleteMount
  <2>1. share'.status = "deleted"
    BY <1>2, RowSound, DefaultsAreTyped DEF DeleteMount
  <2>2. told'.status = "unknown"
    BY <1>2 DEF DeleteMount, NoAnswer
  <2> QED BY <1>1, <1>2, <2>1, <2>2, CookiesKept
          DEF DeleteMount, Inv, LinkInv, ToldInv, AnswersHold, Exists
<1>3. CASE Tick \/ UNCHANGED shareVars
  <2>1. UNCHANGED <<share, cookie, admin, visitor, tokens, revoked, told>>
    BY <1>3 DEF Tick, shareVars
  <2>2. LinkInv'
    BY <1>1, <2>1 DEF LinkInv, Exists
  <2>3. ToldInv'
    BY <1>1, <2>1 DEF ToldInv, AnswersHold
  <2>4. CookieInv'
    BY <1>1, <2>1 DEF CookieInv, Proved, Exists
  <2> QED BY <1>1, <2>2, <2>3, <2>4 DEF Inv
<1>4. ASSUME NEW a \in Admins, AdminStep(a) PROVE Inv'
  BY <1>1, <1>4, AdminKeepsInv DEF Inv
<1>5. ASSUME NEW v \in Visitors, VisitorStep(v) PROVE Inv'
  BY <1>1, <1>5, VisitorKeepsInv DEF Inv
<1> QED BY <1>2, <1>3, <1>4, <1>5 DEF ShareNext

\* A link that an administrator was told to be replaced opens nothing again, whatever the
\* visitors do and whichever requests fail, as long as changes do not overlap.
THEOREM LinksDie == ASSUME OneAdmin PROVE ShareSpec => []OldLinksStayDead
<1>1. Inv => OldLinksStayDead
  <2> SUFFICES ASSUME Inv, Exists PROVE share.policy.tokenHash \notin revoked
    BY DEF OldLinksStayDead
  <2>1. share.policy.tokenHash \in Nat
    BY DEF Inv, Typed, ShareRows, Policies, Tokens
  <2> QED BY <2>1 DEF Inv, LinkInv
<1>2. Inv /\ [ShareNext]_shareVars => Inv'
  BY StepInv
<1> QED BY <1>1, <1>2, InitInv, PTL DEF ShareSpec

\* A cookie that opens a protected share was issued for the password the share has: an
\* upgrade of the hash leaves cookies, a change of the password revokes them, those that
\* are being issued meanwhile included.
THEOREM CookiesProvePasswords == ASSUME OneAdmin PROVE ShareSpec => []CookiesProveThePassword
<1>1. Inv => CookiesProveThePassword
  <2> SUFFICES ASSUME Inv, Exists, NEW t \in Tokens, Authorizes(cookie[t])
               PROVE  cookie[t].password = share.policy.passwordHash.password
    BY DEF CookiesProveThePassword
  <2>1. cookie[t].authRevision = share.authRevision /\ cookie[t].exp # 0
    BY DEF Authorizes, Inv, Typed, CookieRows
  <2> QED BY <2>1 DEF Inv, CookieInv, Proved
<1>2. Inv /\ [ShareNext]_shareVars => Inv'
  BY StepInv
<1> QED BY <1>1, <1>2, InitInv, PTL DEF ShareSpec

\* What an administrator was told of a share is what decides until a change is asked for,
\* upgrades of its hash and downloads meanwhile included.
THEOREM AnswersStayTrue == ASSUME OneAdmin PROVE ShareSpec => []AnswersHold
<1>1. Inv => AnswersHold
  BY DEF Inv, ToldInv
<1>2. Inv /\ [ShareNext]_shareVars => Inv'
  BY StepInv
<1> QED BY <1>1, <1>2, InitInv, PTL DEF ShareSpec
=============================================================================
