--------------------------- MODULE MountCredentials ---------------------------
(***************************************************************************)
(* The credentials of one mount: the encrypted document in D1 that is      *)
(* read, merged and written back whole (credentials.ts), the refresh of    *)
(* access tokens under a lease (tokens.ts of each driver) by the requests  *)
(* of the provider clients, the OAuth flow that fills the document         *)
(* (oauth-routes.ts, oauth-core.ts), and the administrator who disconnects,*)
(* edits or deletes the mount (mount-routes.ts).                           *)
(*                                                                         *)
(* An action of a handler is what it does between two awaits: one D1       *)
(* statement or batch, or one call of the provider.                        *)
(*                                                                         *)
(* A document is its sections app, auth and provider; an empty document    *)
(* has no row.  A refresh token is its consent (grant) and its version,    *)
(* which the provider raises when it rotates the token.  Access tokens are *)
(* numbered as they are issued.  Left out: creating the mount, its name    *)
(* and path, and the fields of an application or a provider key.           *)
(***************************************************************************)
EXTENDS Integers, FiniteSets

CONSTANTS
  Handlers,     \* concurrent requests
  Nobody,       \* no owner of the lease
  OAuthDrivers, \* OAUTH_DRIVERS
  OtherDrivers, \* drivers with keys of their own: s3
  NoDriver,     \* the mount does not exist
  Legacy,       \* is there an application in the Worker secrets?
  MaxGrants,    \* bound on the OAuth flows ever started
  MaxVersion,   \* bound on the rotations of one refresh token
  MaxTokens,    \* bound on the access tokens ever issued
  MaxEdits,     \* bound on the disconnections and edits of the mount
  MaxFaults,    \* bound on evictions, lost answers and refused tokens
  MaxEvents     \* bound on both together

ASSUME HandlersAssumption == Nobody \notin Handlers
ASSUME DriversAssumption == NoDriver \notin OAuthDrivers \cup OtherDrivers /\ OAuthDrivers # {}
ASSUME LegacyAssumption == Legacy \in BOOLEAN
ASSUME BoundsAssumption == /\ MaxGrants \in Nat /\ MaxVersion \in Nat \ {0}
                           /\ MaxTokens \in Nat /\ MaxEdits \in Nat /\ MaxFaults \in Nat /\ MaxEvents \in Nat

VARIABLES
  driver,  \* mounts: the driver of the mount
  creds,   \* storage_credentials
  lease,   \* oauth_refresh_leases
  state,   \* oauth_states: the flow that may still be answered
  flows,   \* the OAuth flows: their driver, and how many callbacks were let in
  current, \* the provider: the valid version of each refresh token
  tokens,  \* the provider: access tokens, of which grant and whether still good
  slot,    \* the handlers
  outlived, \* history: did a refresh ever take longer than its lease?
  budget   \* edits and faults left

database == <<driver, creds, lease, state>>
provider == <<current, tokens>>
vars == <<database, flows, provider, slot, outlived, budget>>

Drivers == OAuthDrivers \cup OtherDrivers
Grants == 1..MaxGrants
Versions == 1..MaxVersion
Tokens == 1..MaxTokens

\* The nested auth document: a refresh token and an access token.
Auths == [grant : Grants \cup {0}, version : Versions \cup {0}, access : Tokens \cup {0}]
NoAuth == [grant |-> 0, version |-> 0, access |-> 0]

Documents == [app : BOOLEAN, auth : Auths, provider : BOOLEAN]
NoDocument == [app |-> FALSE, auth |-> NoAuth, provider |-> FALSE]

\* The steps of the handlers, each named for the await it is about to make.
Steps == {"idle", "token", "refresh", "acquire", "wait", "reread", "app", "exchange",
          "read", "write", "release", "call", "open", "consume", "mount", "issue",
          "drop", "creds", "prepare", "delete"}

Jobs == {"use", "start", "callback", "disconnect", "edit", "delete"}

Slots == [job      : Jobs,
          at       : Steps,
          driver   : Drivers \cup {NoDriver},  \* the driver the handler works for
          flow     : Grants \cup {0},          \* the state a callback was called with
          doc      : Documents,                \* getCredentials, when it was read
          auth     : Auths,                    \* the authorization to use, then to save
          token    : Tokens \cup {0},          \* the access token to use
          rejected : Tokens \cup {0},          \* the token the provider answered 401 to
          retried  : BOOLEAN,
          target   : Drivers \cup {NoDriver},  \* an edit: the driver it names, if any,
          given    : BOOLEAN]                  \* and whether it has a document to write

Idle == [job |-> "use", at |-> "idle", driver |-> NoDriver, flow |-> 0, doc |-> NoDocument,
         auth |-> NoAuth, token |-> 0, rejected |-> 0, retried |-> FALSE,
         target |-> NoDriver, given |-> FALSE]

TypeOK ==
  /\ driver \in Drivers \cup {NoDriver}
  /\ creds \in Documents
  /\ lease \in [owner : Handlers \cup {Nobody}, expired : BOOLEAN]
  /\ state \in [flow : Grants \cup {0}, expired : BOOLEAN]
  /\ flows \in [Grants -> [driver : Drivers \cup {NoDriver}, admitted : 0..2]]
  /\ current \in [Grants -> Versions \cup {0}]
  /\ tokens \in [Tokens -> [grant : Grants \cup {0}, life : {"unborn", "good", "refused", "expired"}]]
  /\ slot \in [Handlers -> Slots]
  /\ outlived \in BOOLEAN
  /\ budget \in [edits : 0..MaxEdits, faults : 0..MaxFaults, events : 0..MaxEvents]

NoLease == [owner |-> Nobody, expired |-> FALSE]
NoState == [flow |-> 0, expired |-> FALSE]

Init ==
  /\ driver \in Drivers
  /\ creds \in {NoDocument} \cup
       (IF driver \in OAuthDrivers THEN {[NoDocument EXCEPT !.app = TRUE]}
        ELSE {[NoDocument EXCEPT !.provider = TRUE]})
  /\ lease = NoLease
  /\ state = NoState
  /\ flows = [g \in Grants |-> [driver |-> NoDriver, admitted |-> 0]]
  /\ current = [g \in Grants |-> 0]
  /\ tokens = [t \in Tokens |-> [grant |-> 0, life |-> "unborn"]]
  /\ slot = [s \in Handlers |-> Idle]
  /\ outlived = FALSE
  /\ budget = [edits |-> MaxEdits, faults |-> MaxFaults, events |-> MaxEvents]

Spend(kind) ==
  /\ budget[kind] > 0
  /\ budget.events > 0
  /\ budget' = [budget EXCEPT ![kind] = @ - 1, !.events = @ - 1]

Go(s, h) == slot' = [slot EXCEPT ![s] = h]

Goto(s, step) == Go(s, [slot[s] EXCEPT !.at = step])

End(s) == Go(s, Idle)

-----------------------------------------------------------------------------
(* Credentials.                                                            *)

\* validCredentials: a document without tokens is answered with 409.
Connected(doc) == doc.auth.grant # 0

\* expiresAt > Date.now() + REFRESH_SKEW_MS.
Unexpired(t) == t # 0 /\ tokens[t].life # "expired"

\* A request that was told 401 wants another token than the one it used.
Usable(t, rejected) == IF rejected # 0 THEN t # rejected ELSE Unexpired(t)

\* Mutant: a field the provider did not send keeps its stored value.
PatchedKeepingVersion(doc, auth) ==
  IF doc.auth.grant = 0 THEN [doc EXCEPT !.auth = auth]
  ELSE [doc EXCEPT !.auth.access = auth.access]

\* patchCredentials replaces the nested document auth as a whole.
Patched(doc, auth) == [doc EXCEPT !.auth = auth]

\* The driver an edit leaves the mount with, as far as its handler knows.
Selected(h) == IF h.target = NoDriver THEN h.driver ELSE h.target

\* credentialsForUpdate: what an edit makes of the document it has read.  That of
\* another driver is not reused; without new credentials it is not kept either.
ForUpdate(h, doc) ==
  LET prior == IF Selected(h) # h.driver THEN NoDocument ELSE doc
  IN IF ~h.given THEN NoDocument
     ELSE IF Selected(h) \in OAuthDrivers THEN [prior EXCEPT !.app = TRUE]
     ELSE [prior EXCEPT !.provider = TRUE]

-----------------------------------------------------------------------------
(* A request of a provider client, and the refresh of its access token.    *)

\* createDriver read the mount; the client then asks for a token.
Use(s) ==
  /\ slot[s].at = "idle"
  /\ driver \in OAuthDrivers
  /\ Go(s, [Idle EXCEPT !.job = "use", !.at = "token", !.driver = driver])
  /\ UNCHANGED <<database, flows, provider, outlived, budget>>

\* get...AccessToken.
GetAccessToken(s) ==
  /\ slot[s].at = "token"
  /\ IF ~Connected(creds) THEN End(s)
     ELSE IF Unexpired(creds.auth.access)
     THEN Go(s, [slot[s] EXCEPT !.at = "call", !.token = creds.auth.access])
     ELSE Go(s, [slot[s] EXCEPT !.at = "refresh", !.rejected = 0])
  /\ UNCHANGED <<database, flows, provider, outlived, budget>>

\* A token was found.  After a 401 the client drops it and asks again, unless the
\* body of its request was a stream that cannot be sent twice.
Got(s, t) ==
  \/ slot[s].rejected = 0 /\ Go(s, [slot[s] EXCEPT !.at = "call", !.token = t])
  \/ slot[s].rejected # 0 /\ Go(s, [slot[s] EXCEPT !.at = "token", !.retried = TRUE,
                                                           !.token = 0, !.rejected = 0])
  \/ slot[s].rejected # 0 /\ End(s)

RefreshAccessToken(s) ==
  /\ slot[s].at = "refresh"
  /\ IF ~Connected(creds) THEN End(s)
     ELSE IF Usable(creds.auth.access, slot[s].rejected) THEN Got(s, creds.auth.access)
     ELSE Goto(s, "acquire")
  /\ UNCHANGED <<database, flows, provider, outlived, budget>>

\* Mutant: the lease is taken over without regard to its expiry.
LeaseFreeAlways == TRUE

LeaseFree == lease.owner = Nobody \/ lease.expired

\* The row of the lease belongs to the mount; without the mount the INSERT fails.
AcquireLease(s) ==
  /\ slot[s].at = "acquire"
  /\ IF driver = NoDriver THEN End(s) /\ UNCHANGED lease
     ELSE IF LeaseFree
     THEN lease' = [owner |-> s, expired |-> FALSE] /\ Goto(s, "reread")
     ELSE Goto(s, "wait") /\ UNCHANGED lease
  /\ UNCHANGED <<driver, creds, state, flows, provider, outlived, budget>>

\* waitForRefresh: any token that has not expired will do; after two seconds the
\* request is answered with 503.
WaitForRefresh(s) ==
  /\ slot[s].at = "wait"
  /\ \/ ~Connected(creds) /\ End(s)
     \/ Connected(creds) /\ Unexpired(creds.auth.access) /\ Got(s, creds.auth.access)
     \/ Connected(creds) /\ ~Unexpired(creds.auth.access) /\ End(s)
  /\ UNCHANGED <<database, flows, provider, outlived, budget>>

\* The lease is given back with a token, or without (0).
Release(s, t) ==
  Go(s, [slot[s] EXCEPT !.at = "release", !.token = t, !.auth = NoAuth, !.doc = NoDocument])

\* The winner of the lease reads again: the token may have been refreshed meanwhile.
ReadUnderLease(s) ==
  /\ slot[s].at = "reread"
  /\ IF ~Connected(creds) THEN Release(s, 0)
     ELSE IF Usable(creds.auth.access, slot[s].rejected)
     THEN Release(s, creds.auth.access)
     ELSE Go(s, [slot[s] EXCEPT !.at = "app", !.auth = creds.auth])
  /\ UNCHANGED <<database, flows, provider, outlived, budget>>

\* What follows a failure: a refresh gives its lease back, a flow is over.
Fails(s) == IF slot[s].job = "use" THEN Release(s, 0) ELSE End(s)

\* resolveOAuthApplication reads the document on its own.
ResolveApplication(s) ==
  /\ slot[s].at = "app"
  /\ IF ~(creds.app \/ Legacy) THEN Fails(s)
     ELSE Goto(s, IF slot[s].job = "start" THEN "issue" ELSE "exchange")
  /\ UNCHANGED <<database, flows, provider, outlived, budget>>

ReleaseLease(s) ==
  /\ slot[s].at = "release"
  /\ lease' = IF lease.owner = s THEN NoLease ELSE lease
  /\ IF slot[s].token = 0 THEN End(s) ELSE Got(s, slot[s].token)
  /\ UNCHANGED <<driver, creds, state, flows, provider, outlived, budget>>

\* The request itself.  401 is answered to a token that was refused or expired;
\* the skew makes ilist take a token for expired while the provider still does not.
Call(s) ==
  /\ slot[s].at = "call"
  /\ \/ tokens[slot[s].token].life # "refused" /\ End(s)
     \/ /\ tokens[slot[s].token].life # "good"
        /\ IF slot[s].retried THEN End(s)
           ELSE Go(s, [slot[s] EXCEPT !.at = "refresh", !.rejected = slot[s].token, !.token = 0])
  /\ UNCHANGED <<database, flows, provider, outlived, budget>>

-----------------------------------------------------------------------------
(* The token endpoint of the provider.                                     *)

Unborn == {t \in Tokens : tokens[t].life = "unborn"}

\* The grant that handler s asks about: the consent of its flow, once, or the
\* refresh token it holds.
Accepts(s) ==
  LET h == slot[s]
      g == IF h.job = "callback" THEN h.flow ELSE h.auth.grant
  IN /\ g # 0
     /\ flows[g].driver = h.driver
     /\ IF h.job = "callback" THEN current[g] = 0 ELSE current[g] = h.auth.version

\* A good answer: an access token, and for a consent or a rotation a refresh token.
Issues(s, version) ==
  LET h == slot[s]
      g == IF h.job = "callback" THEN h.flow ELSE h.auth.grant
  IN \E t \in Unborn :
       /\ \A u \in Unborn : t <= u
       /\ tokens' = [tokens EXCEPT ![t] = [grant |-> g, life |-> "good"]]
       /\ current' = [current EXCEPT ![g] = version]
       /\ Go(s, [h EXCEPT !.at = "read", !.token = t,
                          !.auth = [grant |-> g, version |-> version, access |-> t]])

\* The next version is the old one unless the provider rotates.
NextVersions(s) ==
  IF slot[s].job = "callback" THEN {1}
  ELSE {slot[s].auth.version, slot[s].auth.version + 1} \cap Versions

\* request...Tokens.
RequestTokens(s) ==
  /\ slot[s].at = "exchange"
  /\ Unborn # {}
  /\ \/ Accepts(s) /\ \E v \in NextVersions(s) : Issues(s, v)
     \/ ~Accepts(s) /\ Fails(s) /\ UNCHANGED provider
  /\ UNCHANGED <<database, flows, outlived, budget>>

\* The call fails, or its answer is lost: a rotation is then known to nobody.
RequestTokensFails(s) ==
  /\ slot[s].at = "exchange"
  /\ Spend("faults")
  /\ Fails(s)
  /\ \/ UNCHANGED provider
     \/ /\ Accepts(s)
        /\ \E v \in NextVersions(s) :
             current' = [current EXCEPT ![IF slot[s].job = "callback" THEN slot[s].flow
                                          ELSE slot[s].auth.grant] = v]
        /\ UNCHANGED tokens
  /\ UNCHANGED <<database, flows, outlived>>

-----------------------------------------------------------------------------
(* patchCredentials: one statement reads, another writes the whole row.    *)

ReadCredentials(s) ==
  /\ slot[s].at = "read"
  /\ Go(s, [slot[s] EXCEPT !.at = "write", !.doc = creds])
  /\ UNCHANGED <<database, flows, provider, outlived, budget>>

\* The row of the document belongs to the mount too.  `auth` is that of the new
\* tokens, or none for a disconnection.
WriteCredentials(s) ==
  /\ slot[s].at = "write"
  /\ slot[s].job \in {"use", "callback", "disconnect"}
  /\ IF driver = NoDriver THEN Fails(s) /\ UNCHANGED creds
     ELSE /\ creds' = Patched(slot[s].doc, slot[s].auth)
          /\ IF slot[s].job = "use" THEN Release(s, slot[s].token) ELSE End(s)
  /\ UNCHANGED <<driver, lease, state, flows, provider, outlived, budget>>

-----------------------------------------------------------------------------
(* The OAuth flow.                                                         *)

\* /start: the mount must have the driver of the route.
Start(s) ==
  /\ slot[s].at = "idle"
  /\ \E g \in Grants : flows[g].driver = NoDriver
  /\ driver \in OAuthDrivers
  /\ Go(s, [Idle EXCEPT !.job = "start", !.at = "app", !.driver = driver])
  /\ UNCHANGED <<database, flows, provider, outlived, budget>>

\* createOAuthState: a new state takes the place of the others of the mount.
IssueState(s) ==
  /\ slot[s].at = "issue"
  /\ IF driver = NoDriver THEN UNCHANGED <<state, flows>>
     ELSE \E g \in Grants :
            /\ flows[g].driver = NoDriver /\ \A e \in Grants : e < g => flows[e].driver # NoDriver
            /\ state' = [flow |-> g, expired |-> FALSE]
            /\ flows' = [flows EXCEPT ![g].driver = slot[s].driver]
  /\ End(s)
  /\ UNCHANGED <<driver, creds, lease, provider, outlived, budget>>

\* /callback, with any state that was ever issued, as often as the browser likes.
\* consumeOAuthState reads the row: expired ones are deleted.
Callback(s) ==
  /\ slot[s].at = "idle"
  /\ \E g \in Grants :
       /\ flows[g].driver # NoDriver
       /\ IF state.flow # g THEN UNCHANGED <<state, slot>>
          ELSE IF state.expired THEN state' = NoState /\ UNCHANGED slot
          ELSE /\ Go(s, [Idle EXCEPT !.job = "callback", !.at = "consume",
                                     !.driver = flows[g].driver, !.flow = g])
               /\ UNCHANGED state
  /\ UNCHANGED <<driver, creds, lease, flows, provider, outlived, budget>>

\* The DELETE decides which of two callbacks goes on.
\* Mutant: how many rows it changed is not looked at.
ConsumesAlways(h) == TRUE

Consumes(h) == state.flow = h.flow

\* A consent that was denied ends here.
ConsumeState(s) ==
  /\ slot[s].at = "consume"
  /\ state' = IF state.flow = slot[s].flow THEN NoState ELSE state
  /\ IF Consumes(slot[s])
     THEN /\ flows' = [flows EXCEPT ![slot[s].flow].admitted = IF @ < 2 THEN @ + 1 ELSE @]
          /\ Goto(s, "mount") \/ End(s)
     ELSE End(s) /\ UNCHANGED flows
  /\ UNCHANGED <<driver, creds, lease, provider, outlived, budget>>

\* The mount must still exist with the driver of the route.
CallbackMount(s) ==
  /\ slot[s].at = "mount"
  /\ IF driver = slot[s].driver THEN Goto(s, "app") ELSE End(s)
  /\ UNCHANGED <<database, flows, provider, outlived, budget>>

-----------------------------------------------------------------------------
(* The administrator.                                                      *)

\* An account is disconnected by a patch, keys by deleting the document.
Disconnect(s) ==
  /\ slot[s].at = "idle"
  /\ driver # NoDriver
  /\ Spend("edits")
  /\ Go(s, [Idle EXCEPT !.job = "disconnect", !.at = IF driver \in OAuthDrivers THEN "read" ELSE "drop"])
  /\ UNCHANGED <<database, flows, provider, outlived>>

DropCredentials(s) ==
  /\ slot[s].at = "drop"
  /\ creds' = NoDocument
  /\ End(s)
  /\ UNCHANGED <<driver, lease, state, flows, provider, outlived, budget>>

\* PATCH: the mount, then its document, then the mount again are read before one
\* batch writes both.
Edit(s) ==
  /\ slot[s].at = "idle"
  /\ driver # NoDriver
  /\ Spend("edits")
  /\ \E target \in Drivers \cup {NoDriver}, given \in BOOLEAN :
       Go(s, [Idle EXCEPT !.job = "edit", !.at = "creds", !.driver = driver,
                          !.target = target, !.given = given])
  /\ UNCHANGED <<database, flows, provider, outlived>>

EditCredentials(s) ==
  /\ slot[s].at = "creds"
  /\ Go(s, [slot[s] EXCEPT !.at = "prepare", !.doc = ForUpdate(slot[s], creds),
                           !.given = @ \/ Selected(slot[s]) # slot[s].driver])
  /\ UNCHANGED <<database, flows, provider, outlived, budget>>

\* A driver that is not named is the one the row has now.
PrepareMountUpdate(s) ==
  /\ slot[s].at = "prepare"
  /\ IF driver = NoDriver THEN End(s)
     ELSE Go(s, [slot[s] EXCEPT !.at = "write", !.driver = NoDriver,
                               !.target = IF @ = NoDriver THEN driver ELSE @])
  /\ UNCHANGED <<database, flows, provider, outlived, budget>>

\* The batch of UPDATE mounts and, maybe, a write of the document.
WriteMount(s) ==
  /\ slot[s].at = "write"
  /\ slot[s].job = "edit"
  /\ End(s)
  /\ IF driver = NoDriver THEN UNCHANGED <<driver, creds>>
     ELSE /\ driver' = slot[s].target
          /\ creds' = IF slot[s].given THEN slot[s].doc ELSE creds
  /\ UNCHANGED <<lease, state, flows, provider, outlived, budget>>

Delete(s) ==
  /\ slot[s].at = "idle"
  /\ driver # NoDriver
  /\ Go(s, [Idle EXCEPT !.job = "delete", !.at = "delete"])
  /\ UNCHANGED <<database, flows, provider, outlived, budget>>

\* Everything that references the mount goes with it.
DeleteMount(s) ==
  /\ slot[s].at = "delete"
  /\ driver' = NoDriver
  /\ creds' = NoDocument
  /\ lease' = NoLease
  /\ state' = NoState
  /\ End(s)
  /\ UNCHANGED <<flows, provider, outlived, budget>>

-----------------------------------------------------------------------------
(* Time and faults.                                                        *)

\* A refresh that took the lease and has yet to save.
Refreshing(s) == slot[s].job = "use" /\ slot[s].at \in {"reread", "app", "exchange", "read", "write"}

\* REFRESH_LEASE_MS have passed.
LeaseExpires ==
  /\ lease.owner # Nobody
  /\ ~lease.expired
  /\ lease' = [lease EXCEPT !.expired = TRUE]
  /\ outlived' = (outlived \/ Refreshing(lease.owner))
  /\ UNCHANGED <<driver, creds, state, flows, provider, slot, budget>>

\* STATE_TTL_MS have passed.
StateExpires ==
  /\ state.flow # 0
  /\ ~state.expired
  /\ state' = [state EXCEPT !.expired = TRUE]
  /\ UNCHANGED <<driver, creds, lease, flows, provider, slot, outlived, budget>>

\* Of a token that nobody can use any more, it does not matter.
InUse(t) ==
  \/ t = creds.auth.access
  \/ \E s \in Handlers : t \in {slot[s].token, slot[s].auth.access, slot[s].doc.auth.access}

TokenExpires(t) ==
  /\ InUse(t)
  /\ tokens[t].life \in {"good", "refused"}
  /\ tokens' = [tokens EXCEPT ![t].life = "expired"]
  /\ UNCHANGED <<database, flows, current, slot, outlived, budget>>

\* The provider takes a token back before its time.
TokenRefused(t) ==
  /\ InUse(t)
  /\ tokens[t].life = "good"
  /\ Spend("faults")
  /\ tokens' = [tokens EXCEPT ![t].life = "refused"]
  /\ UNCHANGED <<database, flows, current, slot, outlived>>

\* The worker of handler s goes away; a lease it holds stays.
Evict(s) ==
  /\ slot[s].at # "idle"
  /\ Spend("faults")
  /\ End(s)
  /\ UNCHANGED <<database, flows, provider, outlived>>

-----------------------------------------------------------------------------

Request(s) == Use(s) \/ GetAccessToken(s) \/ Call(s)

Refresh(s) ==
  \/ RefreshAccessToken(s) \/ AcquireLease(s) \/ WaitForRefresh(s) \/ ReadUnderLease(s)
  \/ ReleaseLease(s)

Exchange(s) ==
  ResolveApplication(s) \/ RequestTokens(s) \/ RequestTokensFails(s)

Patch(s) == ReadCredentials(s) \/ WriteCredentials(s)

Flow(s) == Start(s) \/ IssueState(s) \/ Callback(s) \/ ConsumeState(s) \/ CallbackMount(s)

Administer(s) ==
  \/ Disconnect(s) \/ DropCredentials(s)
  \/ Edit(s) \/ EditCredentials(s) \/ PrepareMountUpdate(s) \/ WriteMount(s)
  \/ Delete(s) \/ DeleteMount(s)

Next ==
  \/ \E s \in Handlers : Request(s) \/ Refresh(s) \/ Exchange(s) \/ Patch(s)
                           \/ Flow(s) \/ Administer(s) \/ Evict(s)
  \/ \E t \in Tokens : TokenExpires(t) \/ TokenRefused(t)
  \/ LeaseExpires
  \/ StateExpires

Spec == Init /\ [][Next]_vars

-----------------------------------------------------------------------------

\* The access token in the document was issued for the consent its refresh token
\* belongs to, whichever of a late refresh, a callback and an edit wrote last:
\* files of one account are never reached with the refresh token of another.
AuthorizationOfOneGrant ==
  Connected(creds) => /\ creds.auth.access # 0
                      /\ tokens[creds.auth.access].grant = creds.auth.grant

\* A consent is taken once, and only the last one that was asked for: of any
\* number of callbacks with one state at most one goes on to the provider.
StatesAreUsedOnce ==
  /\ \A g \in Grants : flows[g].admitted <= 1
  /\ \A g \in Grants : flows[g].admitted = 1 => state.flow # g

\* A rotated refresh token is not overwritten by the one it replaced, unless a
\* refresh outlived its lease or an edit of the mount brings back the document
\* it read before.
RotationsSurvive ==
  [][creds'.auth.grant = creds.auth.grant /\ creds'.auth.version < creds.auth.version
     => outlived \/ \E s \in Handlers : slot[s].job = "edit" /\ slot'[s] # slot[s]]_vars
=============================================================================
