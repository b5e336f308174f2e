----------------------- MODULE MountCredentialsProofs -----------------------
(***************************************************************************)
(* The invariants of MountCredentials, for every set of drivers and        *)
(* handlers, every number of consents, rotations and tokens, and every     *)
(* number of edits and faults.                                             *)
(***************************************************************************)
EXTENDS MountCredentials, TLAPS

-----------------------------------------------------------------------------
(* Types.                                                                  *)

\* The values the handlers start from.
LEMMA ValueTypes == /\ NoAuth \in Auths /\ NoDocument \in Documents /\ Idle \in Slots
                    /\ NoLease \in [owner : Handlers \cup {Nobody}, expired : BOOLEAN]
                    /\ NoState \in [flow : Grants \cup {0}, expired : BOOLEAN]
<1>1. NoAuth \in Auths
  BY DEF NoAuth, Auths
<1>2. NoDocument \in Documents
  BY <1>1 DEF NoDocument, Documents
<1>3. Idle \in Slots
  BY <1>1, <1>2 DEF Idle, Slots, Jobs, Steps
<1> QED BY <1>1, <1>2, <1>3 DEF NoLease, NoState

\* A handler that goes on does so from a slot to a slot.
LEMMA SlotType ==
  ASSUME slot \in [Handlers -> Slots], NEW s \in Handlers, NEW h \in Slots, Go(s, h)
  PROVE  slot' \in [Handlers -> Slots]
BY DEF Go

\* The ways in which a handler changes its slot.
LEMMA SlotUpdates ==
  ASSUME NEW h \in Slots, NEW st \in Steps
  PROVE  /\ [h EXCEPT !.at = st] \in Slots
         /\ \A t \in Tokens \cup {0} : [h EXCEPT !.at = st, !.token = t] \in Slots
         /\ \A r \in Tokens \cup {0} : [h EXCEPT !.at = st, !.rejected = r] \in Slots
         /\ \A r \in Tokens \cup {0} : [h EXCEPT !.at = st, !.rejected = r, !.token = 0] \in Slots
         /\ [h EXCEPT !.at = st, !.retried = TRUE, !.token = 0, !.rejected = 0] \in Slots
         /\ \A a \in Auths : [h EXCEPT !.at = st, !.auth = a] \in Slots
         /\ \A t \in Tokens \cup {0}, a \in Auths : [h EXCEPT !.at = st, !.token = t, !.auth = a] \in Slots
         /\ \A t \in Tokens \cup {0}, a \in Auths, d \in Documents :
              [h EXCEPT !.at = st, !.token = t, !.auth = a, !.doc = d] \in Slots
         /\ \A d \in Documents : [h EXCEPT !.at = st, !.doc = d] \in Slots
         /\ \A d \in Documents, b \in BOOLEAN : [h EXCEPT !.at = st, !.doc = d, !.given = b] \in Slots
         /\ \A d, e \in Drivers \cup {NoDriver} : [h EXCEPT !.at = st, !.driver = d, !.target = e] \in Slots
<1>1. [h EXCEPT !.at = st] \in Slots
  BY DEF Slots
<1>2. ASSUME NEW t \in Tokens \cup {0} PROVE [h EXCEPT !.at = st, !.token = t] \in Slots
  BY DEF Slots
<1>3. ASSUME NEW r \in Tokens \cup {0}
      PROVE  /\ [h EXCEPT !.at = st, !.rejected = r] \in Slots
             /\ [h EXCEPT !.at = st, !.rejected = r, !.token = 0] \in Slots
  BY DEF Slots
<1>4. [h EXCEPT !.at = st, !.retried = TRUE, !.token = 0, !.rejected = 0] \in Slots
  BY DEF Slots
<1>5. ASSUME NEW a \in Auths PROVE [h EXCEPT !.at = st, !.auth = a] \in Slots
  BY DEF Slots
<1>6. ASSUME NEW t \in Tokens \cup {0}, NEW a \in Auths
      PROVE  [h EXCEPT !.at = st, !.token = t, !.auth = a] \in Slots
  BY DEF Slots
<1>7. ASSUME NEW t \in Tokens \cup {0}, NEW a \in Auths, NEW d \in Documents
      PROVE  [h EXCEPT !.at = st, !.token = t, !.auth = a, !.doc = d] \in Slots
  BY DEF Slots
<1>8. ASSUME NEW d \in Documents PROVE [h EXCEPT !.at = st, !.doc = d] \in Slots
  BY DEF Slots
<1>9. ASSUME NEW d \in Documents, NEW b \in BOOLEAN
      PROVE  [h EXCEPT !.at = st, !.doc = d, !.given = b] \in Slots
  BY DEF Slots
<1>10. ASSUME NEW d \in Drivers \cup {NoDriver}, NEW e \in Drivers \cup {NoDriver}
       PROVE  [h EXCEPT !.at = st, !.driver = d, !.target = e] \in Slots
  BY DEF Slots
<1> QED BY <1>1, <1>2, <1>3, <1>4, <1>5, <1>6, <1>7, <1>8, <1>9, <1>10

\* The slots a handler starts with.
LEMMA SlotStarts ==
  ASSUME NEW j \in Jobs, NEW st \in Steps
  PROVE  /\ [Idle EXCEPT !.job = j, !.at = st] \in Slots
         /\ \A d \in Drivers \cup {NoDriver} : [Idle EXCEPT !.job = j, !.at = st, !.driver = d] \in Slots
         /\ \A d \in Drivers \cup {NoDriver}, g \in Grants \cup {0} :
              [Idle EXCEPT !.job = j, !.at = st, !.driver = d, !.flow = g] \in Slots
         /\ \A d, e \in Drivers \cup {NoDriver}, b \in BOOLEAN :
              [Idle EXCEPT !.job = j, !.at = st, !.driver = d, !.target = e, !.given = b] \in Slots
<1> DEFINE h == Idle
<1>0. h \in Slots
  BY ValueTypes
<1> HIDE DEF h
<1>1. [h EXCEPT !.job = j, !.at = st] \in Slots
  BY <1>0 DEF Slots
<1>2. ASSUME NEW d \in Drivers \cup {NoDriver}
      PROVE  [h EXCEPT !.job = j, !.at = st, !.driver = d] \in Slots
  BY <1>0 DEF Slots
<1>3. ASSUME NEW d \in Drivers \cup {NoDriver}, NEW g \in Grants \cup {0}
      PROVE  [h EXCEPT !.job = j, !.at = st, !.driver = d, !.flow = g] \in Slots
  BY <1>0 DEF Slots
<1>4. ASSUME NEW d \in Drivers \cup {NoDriver}, NEW e \in Drivers \cup {NoDriver}, NEW b \in BOOLEAN
      PROVE  [h EXCEPT !.job = j, !.at = st, !.driver = d, !.target = e, !.given = b] \in Slots
  BY <1>0 DEF Slots
<1> QED BY <1>1, <1>2, <1>3, <1>4 DEF h

LEMMA GotoType ==
  ASSUME slot \in [Handlers -> Slots], NEW s \in Handlers, NEW st \in Steps, Goto(s, st)
  PROVE  slot' \in [Handlers -> Slots]
BY SlotType, SlotUpdates DEF Goto

LEMMA EndType ==
  ASSUME slot \in [Handlers -> Slots], NEW s \in Handlers, End(s)
  PROVE  slot' \in [Handlers -> Slots]
BY SlotType, ValueTypes DEF End

LEMMA ReleaseType ==
  ASSUME slot \in [Handlers -> Slots], NEW s \in Handlers, NEW t \in Tokens \cup {0}, Release(s, t)
  PROVE  slot' \in [Handlers -> Slots]
<1>1. slot[s] \in Slots /\ "release" \in Steps
  BY DEF Steps
<1> QED BY <1>1, SlotType, SlotUpdates, ValueTypes DEF Release

LEMMA FailsType ==
  ASSUME slot \in [Handlers -> Slots], NEW s \in Handlers, Fails(s)
  PROVE  slot' \in [Handlers -> Slots]
BY ReleaseType, EndType DEF Fails

LEMMA GotType ==
  ASSUME slot \in [Handlers -> Slots], NEW s \in Handlers, NEW t \in Tokens \cup {0}, Got(s, t)
  PROVE  slot' \in [Handlers -> Slots]
<1>1. slot[s] \in Slots /\ {"call", "token"} \subseteq Steps
  BY DEF Steps
<1> QED BY <1>1, SlotUpdates, SlotType, EndType DEF Got

\* The bounds count down.
LEMMA SpendType ==
  ASSUME TypeOK, Spend("edits") \/ Spend("faults")
  PROVE  budget' \in [edits : 0..MaxEdits, faults : 0..MaxFaults, events : 0..MaxEvents]
<1> DEFINE B == [edits : 0..MaxEdits, faults : 0..MaxFaults, events : 0..MaxEvents]
<1>1. budget \in B /\ MaxEdits \in Nat /\ MaxFaults \in Nat /\ MaxEvents \in Nat
  BY BoundsAssumption DEF TypeOK
<1>2. \A n \in Nat : \A k \in 0..n : k > 0 => k - 1 \in 0..n
  OBVIOUS
<1>3. ASSUME NEW b \in B, NEW k \in 0..MaxEdits, NEW n \in 0..MaxEvents
      PROVE  [b EXCEPT !.edits = k, !.events = n] \in B
  OBVIOUS
<1>4. ASSUME NEW b \in B, NEW k \in 0..MaxFaults, NEW n \in 0..MaxEvents
      PROVE  [b EXCEPT !.faults = k, !.events = n] \in B
  OBVIOUS
<1>5. CASE Spend("edits")
  <2>1. budget.edits - 1 \in 0..MaxEdits /\ budget.events - 1 \in 0..MaxEvents
    BY <1>1, <1>2, <1>5 DEF Spend
  <2>2. budget' = [budget EXCEPT !.edits = budget.edits - 1, !.events = budget.events - 1]
    BY <1>1, <1>5 DEF Spend
  <2> QED BY <1>1, <1>3, <2>1, <2>2
<1>6. CASE Spend("faults")
  <2>1. budget.faults - 1 \in 0..MaxFaults /\ budget.events - 1 \in 0..MaxEvents
    BY <1>1, <1>2, <1>6 DEF Spend
  <2>2. budget' = [budget EXCEPT !.faults = budget.faults - 1, !.events = budget.events - 1]
    BY <1>1, <1>6 DEF Spend
  <2> QED BY <1>1, <1>4, <2>1, <2>2
<1> QED BY <1>5, <1>6

-----------------------------------------------------------------------------
(* Every action keeps the types.                                           *)

\* The document of the mount and those that are made of it.
LEMMA DocumentTypes ==
  /\ \A doc \in Documents, auth \in Auths : Patched(doc, auth) \in Documents
  /\ \A h \in Slots, doc \in Documents : ForUpdate(h, doc) \in Documents
<1>1. \A doc \in Documents, auth \in Auths : [doc EXCEPT !.auth = auth] \in Documents
  BY DEF Documents
<1>2. \A doc \in Documents : [doc EXCEPT !.app = TRUE] \in Documents /\ [doc EXCEPT !.provider = TRUE] \in Documents
  BY DEF Documents
<1> QED BY <1>1, <1>2, ValueTypes DEF Patched, ForUpdate

\* Making requests with an access token.
LEMMA RequestTypes ==
  ASSUME TypeOK, NEW s \in Handlers, Request(s)
  PROVE  TypeOK'
<1>1. /\ slot \in [Handlers -> Slots] /\ slot[s] \in Slots /\ creds.auth.access \in Tokens \cup {0}
      /\ slot[s].token \in Tokens \cup {0} /\ driver \in Drivers \cup {NoDriver}
  BY DEF TypeOK, Slots, Documents, Auths
<1>2. {"token", "call", "refresh"} \subseteq Steps /\ "use" \in Jobs /\ 0 \in Tokens \cup {0}
  BY DEF Steps, Jobs
<1>3. slot' \in [Handlers -> Slots]
  <2>1. CASE Use(s)
    BY <2>1, <1>1, <1>2, SlotStarts, SlotType DEF Use
  <2>2. CASE GetAccessToken(s)
    BY <2>2, <1>1, <1>2, SlotUpdates, SlotType, EndType DEF GetAccessToken
  <2>3. CASE Call(s)
    BY <2>3, <1>1, <1>2, SlotUpdates, SlotType, EndType DEF Call
  <2> QED BY <2>1, <2>2, <2>3 DEF Request
<1>4. UNCHANGED <<driver, creds, lease, state, flows, current, tokens, outlived, budget>>
  BY DEF Request, Use, GetAccessToken, Call, database, provider
<1> QED BY <1>3, <1>4 DEF TypeOK

LEMMA RefreshTypes ==
  ASSUME TypeOK, NEW s \in Handlers, Refresh(s)
  PROVE  TypeOK'
<1>1. /\ slot \in [Handlers -> Slots] /\ slot[s] \in Slots /\ creds.auth.access \in Tokens \cup {0}
      /\ slot[s].token \in Tokens \cup {0} /\ creds.auth \in Auths
  BY DEF TypeOK, Slots, Documents, Auths
<1>2. {"acquire", "wait", "reread", "app"} \subseteq Steps /\ 0 \in Tokens \cup {0}
  BY DEF Steps
<1>3. slot' \in [Handlers -> Slots]
  <2>1. CASE RefreshAccessToken(s)
    BY <2>1, <1>1, <1>2, EndType, GotType, GotoType DEF RefreshAccessToken
  <2>2. CASE AcquireLease(s)
    BY <2>2, <1>1, <1>2, EndType, GotoType DEF AcquireLease
  <2>3. CASE WaitForRefresh(s)
    BY <2>3, <1>1, EndType, GotType DEF WaitForRefresh
  <2>4. CASE ReadUnderLease(s)
    BY <2>4, <1>1, <1>2, SlotUpdates, SlotType, ReleaseType DEF ReadUnderLease
  <2>5. CASE ReleaseLease(s)
    BY <2>5, <1>1, EndType, GotType DEF ReleaseLease
  <2> QED BY <2>1, <2>2, <2>3, <2>4, <2>5 DEF Refresh
<1>4. lease' \in [owner : Handlers \cup {Nobody}, expired : BOOLEAN]
  <2>1. lease \in [owner : Handlers \cup {Nobody}, expired : BOOLEAN]
    BY DEF TypeOK
  <2>2. CASE AcquireLease(s) \/ ReleaseLease(s)
    <3>1. [owner |-> s, expired |-> FALSE] \in [owner : Handlers \cup {Nobody}, expired : BOOLEAN]
      OBVIOUS
    <3>2. lease' \in {lease, [owner |-> s, expired |-> FALSE], NoLease}
      BY <2>2 DEF AcquireLease, ReleaseLease
    <3> QED BY <2>1, <3>1, <3>2, ValueTypes
  <2>3. CASE RefreshAccessToken(s) \/ WaitForRefresh(s) \/ ReadUnderLease(s)
    BY <2>1, <2>3 DEF RefreshAccessToken, WaitForRefresh, ReadUnderLease, database
  <2> QED BY <2>2, <2>3 DEF Refresh
<1>5. UNCHANGED <<driver, creds, state, flows, current, tokens, outlived, budget>>
  BY DEF Refresh, RefreshAccessToken, AcquireLease, WaitForRefresh, ReadUnderLease, ReleaseLease,
         database, provider
<1> QED BY <1>3, <1>4, <1>5 DEF TypeOK

LEMMA ExchangeTypes ==
  ASSUME TypeOK, NEW s \in Handlers, Exchange(s)
  PROVE  TypeOK'
<1> DEFINE g == IF slot[s].job = "callback" THEN slot[s].flow ELSE slot[s].auth.grant
<1>1. /\ slot \in [Handlers -> Slots] /\ slot[s] \in Slots
      /\ slot[s].auth \in Auths /\ slot[s].auth.version \in Versions \cup {0}
      /\ g \in Grants \cup {0}
  BY DEF TypeOK, Slots, Auths
<1>2. {"issue", "exchange", "read"} \subseteq Steps
  BY DEF Steps
<1>3. NextVersions(s) \subseteq Versions
  BY BoundsAssumption DEF NextVersions, Versions
<1>4. /\ current \in [Grants -> Versions \cup {0}]
      /\ tokens \in [Tokens -> [grant : Grants \cup {0}, life : {"unborn", "good", "refused", "expired"}]]
      /\ budget \in [edits : 0..MaxEdits, faults : 0..MaxFaults, events : 0..MaxEvents]
  BY DEF TypeOK
<1>5. CASE ResolveApplication(s)
  <2>1. slot' \in [Handlers -> Slots]
    BY <1>5, <1>1, <1>2, FailsType, GotoType DEF ResolveApplication
  <2> QED BY <1>5, <2>1 DEF ResolveApplication, TypeOK, database, provider
<1>6. CASE RequestTokens(s)
  <2>1. CASE ~Accepts(s)
    <3>1. slot' \in [Handlers -> Slots]
      BY <1>6, <2>1, <1>1, FailsType DEF RequestTokens
    <3> QED BY <1>6, <2>1, <3>1 DEF RequestTokens, TypeOK, database, provider
  <2>2. CASE Accepts(s)
    <3>1. PICK v \in NextVersions(s) : Issues(s, v)
      BY <1>6, <2>2 DEF RequestTokens
    <3>2. PICK t \in Unborn :
            /\ tokens' = [tokens EXCEPT ![t] = [grant |-> g, life |-> "good"]]
            /\ current' = [current EXCEPT ![g] = v]
            /\ Go(s, [slot[s] EXCEPT !.at = "read", !.token = t,
                                     !.auth = [grant |-> g, version |-> v, access |-> t]])
      BY <3>1 DEF Issues
    <3>3. t \in Tokens /\ v \in Versions
      BY <1>3 DEF Unborn
    <3> HIDE DEF g
    <3>4. [grant |-> g, version |-> v, access |-> t] \in Auths
      BY <1>1, <3>3 DEF Auths
    <3>5. slot' \in [Handlers -> Slots]
      BY <3>2, <3>3, <3>4, <1>1, <1>2, SlotUpdates, SlotType
    <3>6. current' \in [Grants -> Versions \cup {0}]
      BY <1>4, <3>2, <3>3
    <3>7. tokens' \in [Tokens -> [grant : Grants \cup {0}, life : {"unborn", "good", "refused", "expired"}]]
      BY <1>1, <1>4, <3>2, <3>3
    <3> QED BY <1>6, <3>5, <3>6, <3>7 DEF RequestTokens, TypeOK, database
  <2> QED BY <2>1, <2>2
<1>7. CASE RequestTokensFails(s)
  <2>1. slot' \in [Handlers -> Slots]
    BY <1>7, <1>1, FailsType DEF RequestTokensFails
  <2>2. current' \in [Grants -> Versions \cup {0}] /\ tokens' = tokens
    BY <1>7, <1>3, <1>4 DEF RequestTokensFails, provider
  <2>3. budget' \in [edits : 0..MaxEdits, faults : 0..MaxFaults, events : 0..MaxEvents]
    BY <1>7, SpendType DEF RequestTokensFails
  <2> QED BY <1>7, <2>1, <2>2, <2>3 DEF RequestTokensFails, TypeOK, database
<1> QED BY <1>5, <1>6, <1>7 DEF Exchange

LEMMA PatchTypes ==
  ASSUME TypeOK, NEW s \in Handlers, Patch(s)
  PROVE  TypeOK'
<1>1. /\ slot \in [Handlers -> Slots] /\ slot[s] \in Slots /\ creds \in Documents
      /\ slot[s].doc \in Documents /\ slot[s].auth \in Auths /\ slot[s].token \in Tokens \cup {0}
  BY DEF TypeOK, Slots
<1>2. {"write"} \subseteq Steps
  BY DEF Steps
<1>3. CASE ReadCredentials(s)
  <2>1. slot' \in [Handlers -> Slots]
    BY <1>3, <1>1, <1>2, SlotUpdates, SlotType DEF ReadCredentials
  <2> QED BY <1>3, <2>1 DEF ReadCredentials, TypeOK, database, provider
<1>4. CASE WriteCredentials(s)
  <2>1. slot' \in [Handlers -> Slots]
    BY <1>4, <1>1, FailsType, ReleaseType, EndType DEF WriteCredentials
  <2>2. creds' \in Documents
    BY <1>4, <1>1, DocumentTypes DEF WriteCredentials
  <2> QED BY <1>4, <2>1, <2>2 DEF WriteCredentials, TypeOK, provider
<1> QED BY <1>3, <1>4 DEF Patch

LEMMA FlowTypes ==
  ASSUME TypeOK, NEW s \in Handlers, Flow(s)
  PROVE  TypeOK'
<1>1. /\ slot \in [Handlers -> Slots] /\ slot[s] \in Slots /\ driver \in Drivers \cup {NoDriver}
      /\ slot[s].driver \in Drivers \cup {NoDriver} /\ slot[s].flow \in Grants \cup {0}
      /\ flows \in [Grants -> [driver : Drivers \cup {NoDriver}, admitted : 0..2]]
      /\ state \in [flow : Grants \cup {0}, expired : BOOLEAN]
  BY DEF TypeOK, Slots
<1>2. {"app", "consume", "mount"} \subseteq Steps /\ {"start", "callback"} \subseteq Jobs
  BY DEF Steps, Jobs
<1>3. CASE Start(s)
  <2>1. slot' \in [Handlers -> Slots]
    BY <1>3, <1>1, <1>2, SlotStarts, SlotType DEF Start
  <2> QED BY <1>3, <2>1 DEF Start, TypeOK, database, provider
<1>4. CASE CallbackMount(s)
  <2>1. slot' \in [Handlers -> Slots]
    BY <1>4, <1>1, <1>2, GotoType, EndType DEF CallbackMount
  <2> QED BY <1>4, <2>1 DEF CallbackMount, TypeOK, database, provider
<1>5. CASE Callback(s)
  <2>1. \A g \in Grants : flows[g].driver \in Drivers \cup {NoDriver}
    BY <1>1 DEF Drivers
  <2>2. slot' \in [Handlers -> Slots]
    BY <1>5, <1>1, <1>2, <2>1, SlotStarts, SlotType DEF Callback
  <2>3. state' \in [flow : Grants \cup {0}, expired : BOOLEAN]
    BY <1>5, <1>1, ValueTypes DEF Callback
  <2> QED BY <1>5, <2>2, <2>3 DEF Callback, TypeOK, provider
<1>6. CASE ConsumeState(s)
  <2>1. slot' \in [Handlers -> Slots]
    BY <1>6, <1>1, <1>2, GotoType, EndType DEF ConsumeState
  <2>2. state' \in [flow : Grants \cup {0}, expired : BOOLEAN]
    BY <1>6, <1>1, ValueTypes DEF ConsumeState
  <2>3. \A f \in [driver : Drivers \cup {NoDriver}, admitted : 0..2] : f.admitted < 2 => f.admitted + 1 \in 0..2
    OBVIOUS
  <2>4. flows' \in [Grants -> [driver : Drivers \cup {NoDriver}, admitted : 0..2]]
    BY <1>6, <1>1, <2>3 DEF ConsumeState
  <2> QED BY <1>6, <2>1, <2>2, <2>4 DEF ConsumeState, TypeOK, provider
<1>7. CASE IssueState(s)
  <2>1. slot' \in [Handlers -> Slots]
    BY <1>7, <1>1, EndType DEF IssueState
  <2>2. CASE UNCHANGED <<state, flows>>
    BY <1>7, <2>1, <2>2 DEF IssueState, TypeOK, provider
  <2>3. ASSUME NEW g \in Grants, state' = [flow |-> g, expired |-> FALSE],
               flows' = [flows EXCEPT ![g].driver = slot[s].driver]
        PROVE  TypeOK'
    <3>1. state' \in [flow : Grants \cup {0}, expired : BOOLEAN]
      BY <2>3
    <3>2. \A f \in [driver : Drivers \cup {NoDriver}, admitted : 0..2] :
            [f EXCEPT !.driver = slot[s].driver] \in [driver : Drivers \cup {NoDriver}, admitted : 0..2]
      BY <1>1
    <3>3. flows' \in [Grants -> [driver : Drivers \cup {NoDriver}, admitted : 0..2]]
      BY <1>1, <2>3, <3>2
    <3> QED BY <1>7, <2>1, <3>1, <3>3 DEF IssueState, TypeOK, provider
  <2> QED BY <1>7, <2>2, <2>3 DEF IssueState
<1> QED BY <1>3, <1>4, <1>5, <1>6, <1>7 DEF Flow

LEMMA AdministerTypes ==
  ASSUME TypeOK, NEW s \in Handlers, Administer(s)
  PROVE  TypeOK'
<1>1. /\ slot \in [Handlers -> Slots] /\ slot[s] \in Slots /\ driver \in Drivers \cup {NoDriver}
      /\ slot[s].target \in Drivers \cup {NoDriver} /\ slot[s].doc \in Documents /\ slot[s].given \in BOOLEAN
      /\ creds \in Documents
  BY DEF TypeOK, Slots
<1>2. /\ {"read", "drop", "creds", "prepare", "write", "delete"} \subseteq Steps
      /\ {"disconnect", "edit", "delete"} \subseteq Jobs
  BY DEF Steps, Jobs
<1>3. CASE Disconnect(s)
  <2>1. slot' \in [Handlers -> Slots]
    BY <1>3, <1>1, <1>2, SlotStarts, SlotType DEF Disconnect
  <2>2. budget' \in [edits : 0..MaxEdits, faults : 0..MaxFaults, events : 0..MaxEvents]
    BY <1>3, SpendType DEF Disconnect
  <2> QED BY <1>3, <2>1, <2>2 DEF Disconnect, TypeOK, database, provider
<1>4. CASE Edit(s)
  <2>1. slot' \in [Handlers -> Slots]
    BY <1>4, <1>1, <1>2, SlotStarts, SlotType DEF Edit
  <2>2. budget' \in [edits : 0..MaxEdits, faults : 0..MaxFaults, events : 0..MaxEvents]
    BY <1>4, SpendType DEF Edit
  <2> QED BY <1>4, <2>1, <2>2 DEF Edit, TypeOK, database, provider
<1>5. CASE EditCredentials(s)
  <2>1. (slot[s].given \/ Selected(slot[s]) # slot[s].driver) \in BOOLEAN
    OBVIOUS
  <2>2. [slot[s] EXCEPT !.at = "prepare", !.doc = ForUpdate(slot[s], creds),
                        !.given = slot[s].given \/ Selected(slot[s]) # slot[s].driver] \in Slots
    BY <1>1, <1>2, <2>1, DocumentTypes, SlotUpdates
  <2>3. slot' \in [Handlers -> Slots]
    BY <1>5, <1>1, <2>2, SlotType DEF EditCredentials
  <2> QED BY <1>5, <2>3 DEF EditCredentials, TypeOK, database, provider
<1>6. CASE PrepareMountUpdate(s)
  <2>1. (IF slot[s].target = NoDriver THEN driver ELSE slot[s].target) \in Drivers \cup {NoDriver}
    BY <1>1
  <2>2. [slot[s] EXCEPT !.at = "write", !.driver = NoDriver,
                        !.target = IF slot[s].target = NoDriver THEN driver ELSE slot[s].target] \in Slots
    BY <1>1, <1>2, <2>1, SlotUpdates
  <2>3. slot' \in [Handlers -> Slots]
    BY <1>6, <1>1, <2>2, SlotType, EndType DEF PrepareMountUpdate
  <2> QED BY <1>6, <2>3 DEF PrepareMountUpdate, TypeOK, database, provider
<1>7. CASE DropCredentials(s)
  <2>1. slot' \in [Handlers -> Slots]
    BY <1>7, <1>1, EndType DEF DropCredentials
  <2> QED BY <1>7, <2>1, ValueTypes DEF DropCredentials, TypeOK, provider
<1>8. CASE WriteMount(s)
  <2>1. slot' \in [Handlers -> Slots]
    BY <1>8, <1>1, EndType DEF WriteMount
  <2>2. driver' \in Drivers \cup {NoDriver} /\ creds' \in Documents
    BY <1>8, <1>1 DEF WriteMount
  <2> QED BY <1>8, <2>1, <2>2 DEF WriteMount, TypeOK, provider
<1>9. CASE Delete(s)
  <2>1. slot' \in [Handlers -> Slots]
    BY <1>9, <1>1, <1>2, SlotStarts, SlotType DEF Delete
  <2> QED BY <1>9, <2>1 DEF Delete, TypeOK, database, provider
<1>10. CASE DeleteMount(s)
  <2>1. slot' \in [Handlers -> Slots]
    BY <1>10, <1>1, EndType DEF DeleteMount
  <2> QED BY <1>10, <2>1, ValueTypes DEF DeleteMount, TypeOK, provider
<1> QED BY <1>3, <1>4, <1>5, <1>6, <1>7, <1>8, <1>9, <1>10 DEF Administer

\* The clocks of ilist and of the provider, and the end of a Worker.
LEMMA TimeTypes ==
  ASSUME TypeOK,
         \/ \E s \in Handlers : Evict(s)
         \/ \E t \in Tokens : TokenExpires(t) \/ TokenRefused(t)
         \/ LeaseExpires \/ StateExpires
  PROVE  TypeOK'
<1> DEFINE Ts == [grant : Grants \cup {0}, life : {"unborn", "good", "refused", "expired"}]
<1>1. /\ slot \in [Handlers -> Slots] /\ tokens \in [Tokens -> Ts]
      /\ lease \in [owner : Handlers \cup {Nobody}, expired : BOOLEAN]
      /\ state \in [flow : Grants \cup {0}, expired : BOOLEAN]
  BY DEF TypeOK
<1>2. ASSUME NEW s \in Handlers, Evict(s) PROVE TypeOK'
  <2>1. slot' \in [Handlers -> Slots]
    BY <1>2, <1>1, EndType DEF Evict
  <2>2. budget' \in [edits : 0..MaxEdits, faults : 0..MaxFaults, events : 0..MaxEvents]
    BY <1>2, SpendType DEF Evict
  <2> QED BY <1>2, <2>1, <2>2 DEF Evict, TypeOK, database, provider
<1>3. \A u \in Ts : [u EXCEPT !.life = "expired"] \in Ts /\ [u EXCEPT !.life = "refused"] \in Ts
  OBVIOUS
<1>4. ASSUME NEW t \in Tokens, TokenExpires(t) PROVE TypeOK'
  <2>1. tokens' \in [Tokens -> Ts]
    BY <1>4, <1>1, <1>3 DEF TokenExpires
  <2> QED BY <1>4, <2>1 DEF TokenExpires, TypeOK, database
<1>5. ASSUME NEW t \in Tokens, TokenRefused(t) PROVE TypeOK'
  <2>1. tokens' \in [Tokens -> Ts]
    BY <1>5, <1>1, <1>3 DEF TokenRefused
  <2>2. budget' \in [edits : 0..MaxEdits, faults : 0..MaxFaults, events : 0..MaxEvents]
    BY <1>5, SpendType DEF TokenRefused
  <2> QED BY <1>5, <2>1, <2>2 DEF TokenRefused, TypeOK, database
<1>6. CASE LeaseExpires
  <2>1. lease' \in [owner : Handlers \cup {Nobody}, expired : BOOLEAN]
    BY <1>6, <1>1 DEF LeaseExpires
  <2>2. outlived' \in BOOLEAN
    BY <1>6 DEF LeaseExpires, TypeOK
  <2> QED BY <1>6, <2>1, <2>2 DEF LeaseExpires, TypeOK, provider
<1>7. CASE StateExpires
  <2>1. state' \in [flow : Grants \cup {0}, expired : BOOLEAN]
    BY <1>7, <1>1 DEF StateExpires
  <2> QED BY <1>7, <2>1 DEF StateExpires, TypeOK, provider
<1> QED BY <1>2, <1>4, <1>5, <1>6, <1>7

LEMMA InitTypes == Init => TypeOK
<1> SUFFICES ASSUME Init PROVE TypeOK
  OBVIOUS
<1>1. creds \in Documents
  <2>1. [NoDocument EXCEPT !.app = TRUE] \in Documents /\ [NoDocument EXCEPT !.provider = TRUE] \in Documents
    BY ValueTypes DEF Documents
  <2> QED BY <2>1, ValueTypes DEF Init
<1>2. budget \in [edits : 0..MaxEdits, faults : 0..MaxFaults, events : 0..MaxEvents]
  BY BoundsAssumption DEF Init
<1>3. flows \in [Grants -> [driver : Drivers \cup {NoDriver}, admitted : 0..2]]
  BY DEF Init
<1>4. tokens \in [Tokens -> [grant : Grants \cup {0}, life : {"unborn", "good", "refused", "expired"}]]
  BY DEF Init
<1> QED BY <1>1, <1>2, <1>3, <1>4, ValueTypes DEF Init, TypeOK

LEMMA NextTypes == TypeOK /\ [Next]_vars => TypeOK'
<1> SUFFICES ASSUME TypeOK, [Next]_vars PROVE TypeOK'
  OBVIOUS
<1>1. CASE UNCHANGED vars
  BY <1>1 DEF vars, database, provider, TypeOK
<1>2. CASE Next
  BY <1>2, RequestTypes, RefreshTypes, ExchangeTypes, PatchTypes, FlowTypes, AdministerTypes, TimeTypes
     DEF Next
<1> QED BY <1>1, <1>2

\* Every variable of the mount, of the provider and of the handlers stays in its type.
THEOREM TypeCorrect == Spec => []TypeOK
BY InitTypes, NextTypes, PTL DEF Spec

-----------------------------------------------------------------------------
(* The inductive invariant.                                                *)

\* Authorization a, of tokens ts: its access token was issued for its consent.
Paired(ts, a) == a.grant # 0 => a.access # 0 /\ ts[a.access].grant = a.grant

\* Not only the stored document: also what every handler has read and may write back.
AuthInv ==
  /\ Paired(tokens, creds.auth)
  /\ \A s \in Handlers : Paired(tokens, slot[s].auth) /\ Paired(tokens, slot[s].doc.auth)

\* A token that is yet to be issued belongs to no consent.
FreshInv == \A t \in Tokens : tokens[t].life = "unborn" => tokens[t].grant = 0

\* A flow is counted only when it was started, and only a started flow is answered.
FlowInv ==
  /\ StatesAreUsedOnce
  /\ \A g \in Grants : flows[g].driver = NoDriver => flows[g].admitted = 0
  /\ \A s \in Handlers : slot[s].at = "consume" =>
       slot[s].flow \in Grants /\ flows[slot[s].flow].driver # NoDriver

Inv == TypeOK /\ AuthInv /\ FreshInv /\ FlowInv

\* What every step but a good answer of the provider does to the handlers: nobody
\* comes to hold tokens that do not belong together, nor another state to consume.
Stays ==
  \A r \in Handlers : /\ Paired(tokens, slot'[r].auth)
                      /\ Paired(tokens, slot'[r].doc.auth)
                      /\ slot'[r].at = "consume" => slot'[r] = slot[r]

-----------------------------------------------------------------------------
(* Handlers keep what belongs together.                                    *)

LEMMA NothingIsPaired == Paired(tokens, NoAuth) /\ Paired(tokens, NoDocument.auth)
BY DEF Paired, NoAuth, NoDocument

LEMMA GoStays ==
  ASSUME Inv, NEW s \in Handlers, NEW h, Go(s, h), h.at # "consume",
         Paired(tokens, h.auth), Paired(tokens, h.doc.auth)
  PROVE  Stays
<1>1. slot \in [Handlers -> Slots]
  BY DEF Inv, TypeOK
<1>2. \A r \in Handlers : Paired(tokens, slot[r].auth) /\ Paired(tokens, slot[r].doc.auth)
  BY DEF Inv, AuthInv
<1>3. \A r \in Handlers : slot'[r] = IF r = s THEN h ELSE slot[r]
  BY <1>1 DEF Go
<1> QED BY <1>2, <1>3 DEF Stays

LEMMA SlotStays ==
  ASSUME Inv, slot' = slot
  PROVE  Stays
BY DEF Inv, AuthInv, Stays

\* A handler that only moves on keeps the tokens it holds.
LEMMA MoveStays ==
  ASSUME Inv, NEW s \in Handlers, NEW h, Go(s, h), h.at # "consume",
         h.auth = slot[s].auth, h.doc = slot[s].doc
  PROVE  Stays
<1>1. Paired(tokens, slot[s].auth) /\ Paired(tokens, slot[s].doc.auth)
  BY DEF Inv, AuthInv
<1> QED BY <1>1, GoStays

LEMMA GotoStays ==
  ASSUME Inv, NEW s \in Handlers, NEW st, st # "consume", Goto(s, st)
  PROVE  Stays
<1>1. slot[s] \in Slots
  BY DEF Inv, TypeOK
<1>2. \A h \in Slots : LET k == [h EXCEPT !.at = st] IN k.at = st /\ k.auth = h.auth /\ k.doc = h.doc
  BY DEF Slots
<1> QED BY <1>1, <1>2, MoveStays DEF Goto

LEMMA IdleFacts == Idle.at = "idle" /\ Idle.auth = NoAuth /\ Idle.doc = NoDocument
BY DEF Idle

LEMMA EndStays ==
  ASSUME Inv, NEW s \in Handlers, End(s)
  PROVE  Stays
BY GoStays, NothingIsPaired, IdleFacts DEF End

LEMMA ReleaseStays ==
  ASSUME Inv, NEW s \in Handlers, NEW t, Release(s, t)
  PROVE  Stays
<1>1. slot[s] \in Slots
  BY DEF Inv, TypeOK
<1> DEFINE h == [slot[s] EXCEPT !.at = "release", !.token = t, !.auth = NoAuth, !.doc = NoDocument]
<1>2. h.at = "release" /\ h.auth = NoAuth /\ h.doc = NoDocument
  BY <1>1 DEF Slots
<1>3. Go(s, h)
  BY DEF Release
<1> HIDE DEF h
<1> QED BY <1>2, <1>3, GoStays, NothingIsPaired

LEMMA FailsStays ==
  ASSUME Inv, NEW s \in Handlers, Fails(s)
  PROVE  Stays
BY ReleaseStays, EndStays DEF Fails

LEMMA GotStays ==
  ASSUME Inv, NEW s \in Handlers, NEW t, Got(s, t)
  PROVE  Stays
<1>1. slot[s] \in Slots
  BY DEF Inv, TypeOK
<1>2. \A h \in Slots : LET k == [h EXCEPT !.at = "call", !.token = t]
                      IN  k.at = "call" /\ k.auth = h.auth /\ k.doc = h.doc
  BY DEF Slots
<1>3. \A h \in Slots : LET k == [h EXCEPT !.at = "token", !.retried = TRUE, !.token = 0, !.rejected = 0]
                      IN  k.at = "token" /\ k.auth = h.auth /\ k.doc = h.doc
  BY DEF Slots
<1>4. CASE Go(s, [slot[s] EXCEPT !.at = "call", !.token = t])
  BY <1>1, <1>2, <1>4, MoveStays
<1>5. CASE Go(s, [slot[s] EXCEPT !.at = "token", !.retried = TRUE, !.token = 0, !.rejected = 0])
  BY <1>1, <1>3, <1>5, MoveStays
<1> QED BY <1>4, <1>5, EndStays DEF Got

\* The steps that issue no token and start or end no flow.
LEMMA Assemble ==
  ASSUME Inv, TypeOK', Stays, Paired(tokens, creds'.auth), flows' = flows,
         state'.flow \in {0, state.flow},
         \A t \in Tokens : /\ tokens'[t].grant = tokens[t].grant
                           /\ tokens'[t].life = "unborn" => tokens[t].life = "unborn"
  PROVE  Inv'
<1>1. creds'.auth \in Auths /\ \A s \in Handlers : slot'[s].auth \in Auths /\ slot'[s].doc.auth \in Auths
  BY DEF TypeOK, Documents, Slots
<1>2. \A a \in Auths : Paired(tokens, a) => Paired(tokens', a)
  BY DEF Paired, Auths
<1>3. AuthInv'
  BY <1>1, <1>2 DEF AuthInv, Stays
<1>4. FreshInv'
  BY DEF Inv, FreshInv
<1>5. StatesAreUsedOnce'
  <2>1. \A g \in Grants : g # 0
    BY BoundsAssumption DEF Grants
  <2> QED BY <2>1 DEF Inv, FlowInv, StatesAreUsedOnce
<1>6. FlowInv'
  BY <1>5 DEF Inv, FlowInv, Stays
<1> QED BY <1>3, <1>4, <1>6 DEF Inv

-----------------------------------------------------------------------------
(* The steps.                                                              *)

LEMMA RequestInv ==
  ASSUME Inv, NEW s \in Handlers, Request(s)
  PROVE  Inv'
<1>1. slot[s] \in Slots /\ Paired(tokens, creds.auth) /\ TypeOK'
  BY RequestTypes DEF Inv, TypeOK, AuthInv
<1>2. Stays
  <2>1. CASE Use(s)
    <3>1. Go(s, [Idle EXCEPT !.job = "use", !.at = "token", !.driver = driver])
      BY <2>1 DEF Use
    <3> DEFINE h == [Idle EXCEPT !.job = "use", !.at = "token", !.driver = driver]
    <3>2. h.at = "token" /\ h.auth = NoAuth /\ h.doc = NoDocument
      BY DEF Idle
    <3> HIDE DEF h
    <3> QED BY <3>1, <3>2, GoStays, NothingIsPaired DEF h
  <2>2. \A h \in Slots : \A t :
          LET k == [h EXCEPT !.at = "call", !.token = t]
          IN  k.at = "call" /\ k.auth = h.auth /\ k.doc = h.doc
    BY DEF Slots
  <2>3. \A h \in Slots :
          LET k == [h EXCEPT !.at = "refresh", !.rejected = 0]
          IN  k.at = "refresh" /\ k.auth = h.auth /\ k.doc = h.doc
    BY DEF Slots
  <2>4. \A h \in Slots : \A t :
          LET k == [h EXCEPT !.at = "refresh", !.rejected = t, !.token = 0]
          IN  k.at = "refresh" /\ k.auth = h.auth /\ k.doc = h.doc
    BY DEF Slots
  <2>5. CASE GetAccessToken(s)
    <3>1. \/ End(s)
          \/ Go(s, [slot[s] EXCEPT !.at = "call", !.token = creds.auth.access])
          \/ Go(s, [slot[s] EXCEPT !.at = "refresh", !.rejected = 0])
      BY <2>5 DEF GetAccessToken
    <3>2. CASE Go(s, [slot[s] EXCEPT !.at = "call", !.token = creds.auth.access])
      BY <3>2, <2>2, <1>1, MoveStays
    <3>3. CASE Go(s, [slot[s] EXCEPT !.at = "refresh", !.rejected = 0])
      BY <3>3, <2>3, <1>1, MoveStays
    <3> QED BY <3>1, <3>2, <3>3, EndStays
  <2>6. CASE Call(s)
    <3>1. \/ End(s)
          \/ Go(s, [slot[s] EXCEPT !.at = "refresh", !.rejected = slot[s].token, !.token = 0])
      BY <2>6 DEF Call
    <3>2. CASE Go(s, [slot[s] EXCEPT !.at = "refresh", !.rejected = slot[s].token, !.token = 0])
      BY <3>2, <2>4, <1>1, MoveStays
    <3> QED BY <3>1, <3>2, EndStays
  <2> QED BY <2>1, <2>5, <2>6 DEF Request
<1>3. UNCHANGED <<creds, state, flows, tokens>>
  BY DEF Request, Use, GetAccessToken, Call, database, provider
<1> QED BY <1>1, <1>2, <1>3, Assemble

LEMMA RefreshInv ==
  ASSUME Inv, NEW s \in Handlers, Refresh(s)
  PROVE  Inv'
<1>1. slot[s] \in Slots /\ Paired(tokens, creds.auth) /\ TypeOK'
  BY RefreshTypes DEF Inv, TypeOK, AuthInv
<1>2. Stays
  <2>1. CASE RefreshAccessToken(s)
    BY <2>1, EndStays, GotStays, GotoStays DEF RefreshAccessToken
  <2>2. CASE AcquireLease(s)
    BY <2>2, EndStays, GotoStays DEF AcquireLease
  <2>3. CASE WaitForRefresh(s)
    BY <2>3, EndStays, GotStays DEF WaitForRefresh
  <2> DEFINE h == [slot[s] EXCEPT !.at = "app", !.auth = creds.auth]
  <2>4. h.at = "app" /\ h.auth = creds.auth /\ h.doc = slot[s].doc
    BY <1>1 DEF Slots
  <2>5. Paired(tokens, slot[s].doc.auth)
    BY DEF Inv, AuthInv
  <2>6. CASE ReadUnderLease(s)
    <3>1. \/ Go(s, h)
          \/ Release(s, 0) \/ Release(s, creds.auth.access)
      BY <2>6 DEF ReadUnderLease
    <3> HIDE DEF h
    <3> QED BY <2>4, <2>5, <3>1, <1>1, GoStays, ReleaseStays
  <2>7. CASE ReleaseLease(s)
    BY <2>7, EndStays, GotStays DEF ReleaseLease
  <2> QED BY <2>1, <2>2, <2>3, <2>6, <2>7 DEF Refresh
<1>3. UNCHANGED <<creds, state, flows, tokens>>
  BY DEF Refresh, RefreshAccessToken, AcquireLease, WaitForRefresh, ReadUnderLease, ReleaseLease,
         database, provider
<1> QED BY <1>1, <1>2, <1>3, Assemble

\* The good answer of the provider: the new token is paired, and since no old pair has
\* a token that was not issued before, the old pairs stay what they are.
LEMMA IssueInv ==
  ASSUME Inv, NEW s \in Handlers, Exchange(s), NEW v \in NextVersions(s), Issues(s, v),
         UNCHANGED <<database, flows>>
  PROVE  Inv'
<1> DEFINE g == IF slot[s].job = "callback" THEN slot[s].flow ELSE slot[s].auth.grant
<1>1. PICK t \in Unborn :
        /\ tokens' = [tokens EXCEPT ![t] = [grant |-> g, life |-> "good"]]
        /\ Go(s, [slot[s] EXCEPT !.at = "read", !.token = t,
                                 !.auth = [grant |-> g, version |-> v, access |-> t]])
  BY DEF Issues
<1> DEFINE a == [grant |-> g, version |-> v, access |-> t]
           h == [slot[s] EXCEPT !.at = "read", !.token = t, !.auth = a]
<1>2. /\ TypeOK' /\ slot \in [Handlers -> Slots] /\ slot[s] \in Slots /\ creds.auth \in Auths
      /\ \A r \in Handlers : slot[r].auth \in Auths /\ slot[r].doc.auth \in Auths
      /\ tokens \in [Tokens -> [grant : Grants \cup {0}, life : {"unborn", "good", "refused", "expired"}]]
  BY ExchangeTypes DEF Inv, TypeOK, Documents, Slots
<1>3. t \in Tokens /\ t # 0 /\ tokens[t].grant = 0
  BY BoundsAssumption DEF Unborn, Tokens, Inv, FreshInv
<1>4. h.at = "read" /\ h.auth = a /\ h.doc = slot[s].doc
  BY <1>2 DEF Slots
<1>5. a.grant = g /\ a.access = t
  OBVIOUS
<1> HIDE DEF g, a
<1>6. /\ tokens'[t].grant = g /\ tokens'[t].life = "good"
      /\ \A u \in Tokens : u # t => tokens'[u] = tokens[u]
  BY <1>1, <1>2, <1>3
<1>7. \A b \in Auths : Paired(tokens, b) => Paired(tokens', b)
  BY <1>3, <1>6 DEF Paired, Auths
<1>8. Paired(tokens', a)
  BY <1>3, <1>5, <1>6 DEF Paired
<1> HIDE DEF h
<1>9. \A r \in Handlers : slot'[r] = IF r = s THEN h ELSE slot[r]
  BY <1>1, <1>2 DEF Go, h, a
<1>10. AuthInv'
  <2>1. creds' = creds
    BY DEF database
  <2>2. Paired(tokens', creds'.auth)
    BY <2>1, <1>2, <1>7 DEF Inv, AuthInv
  <2>3. \A r \in Handlers : Paired(tokens', slot[r].auth) /\ Paired(tokens', slot[r].doc.auth)
    BY <1>2, <1>7 DEF Inv, AuthInv
  <2>4. \A r \in Handlers : Paired(tokens', slot'[r].auth) /\ Paired(tokens', slot'[r].doc.auth)
    BY <2>3, <1>4, <1>8, <1>9
  <2> QED BY <2>2, <2>4 DEF AuthInv
<1>11. FreshInv'
  BY <1>6 DEF Inv, FreshInv
<1>12. FlowInv'
  BY <1>4, <1>9 DEF Inv, FlowInv, StatesAreUsedOnce, database
<1> QED BY <1>2, <1>10, <1>11, <1>12 DEF Inv

LEMMA ExchangeInv ==
  ASSUME Inv, NEW s \in Handlers, Exchange(s)
  PROVE  Inv'
<1>1. TypeOK' /\ Paired(tokens, creds.auth)
  BY ExchangeTypes DEF Inv, AuthInv
<1>2. CASE ResolveApplication(s)
  <2>1. Stays
    BY <1>2, FailsStays, GotoStays DEF ResolveApplication
  <2> QED BY <1>1, <1>2, <2>1, Assemble DEF ResolveApplication, database, provider
<1>3. CASE RequestTokens(s) /\ Accepts(s)
  <2>1. PICK v \in NextVersions(s) : Issues(s, v)
    BY <1>3 DEF RequestTokens
  <2> QED BY <1>3, <2>1, IssueInv DEF RequestTokens
<1>4. CASE RequestTokens(s) /\ ~Accepts(s)
  <2>1. Stays
    BY <1>4, FailsStays DEF RequestTokens
  <2> QED BY <1>1, <1>4, <2>1, Assemble DEF RequestTokens, database, provider
<1>5. CASE RequestTokensFails(s)
  <2>1. Stays
    BY <1>5, FailsStays DEF RequestTokensFails
  <2>2. UNCHANGED <<creds, state, flows, tokens>>
    BY <1>5 DEF RequestTokensFails, database, provider
  <2> QED BY <1>1, <2>1, <2>2, Assemble
<1> QED BY <1>2, <1>3, <1>4, <1>5 DEF Exchange

LEMMA PatchInv ==
  ASSUME Inv, NEW s \in Handlers, Patch(s)
  PROVE  Inv'
<1>1. /\ TypeOK' /\ Paired(tokens, creds.auth) /\ slot[s] \in Slots /\ slot[s].doc \in Documents
      /\ Paired(tokens, slot[s].auth) /\ Paired(tokens, slot[s].doc.auth)
  BY PatchTypes DEF Inv, TypeOK, AuthInv, Slots
<1>2. CASE ReadCredentials(s)
  <2> DEFINE h == [slot[s] EXCEPT !.at = "write", !.doc = creds]
  <2>1. h.at = "write" /\ h.auth = slot[s].auth /\ h.doc = creds
    BY <1>1 DEF Slots
  <2>2. Go(s, h)
    BY <1>2 DEF ReadCredentials
  <2> HIDE DEF h
  <2>3. Stays
    BY <1>1, <2>1, <2>2, GoStays
  <2>4. UNCHANGED <<creds, state, flows, tokens>>
    BY <1>2 DEF ReadCredentials, database, provider
  <2> QED BY <1>1, <2>3, <2>4, Assemble
<1>3. CASE WriteCredentials(s)
  <2>1. Stays
    BY <1>3, FailsStays, ReleaseStays, EndStays DEF WriteCredentials
  <2>2. Patched(slot[s].doc, slot[s].auth).auth = slot[s].auth
    BY <1>1 DEF Patched, Documents
  <2>3. Paired(tokens, creds'.auth)
    BY <1>1, <1>3, <2>2 DEF WriteCredentials
  <2>4. UNCHANGED <<state, flows, tokens>>
    BY <1>3 DEF WriteCredentials, provider
  <2> QED BY <1>1, <2>1, <2>3, <2>4, Assemble
<1> QED BY <1>2, <1>3 DEF Patch

LEMMA FlowStep ==
  ASSUME Inv, NEW s \in Handlers, Flow(s)
  PROVE  Inv'
<1>1. /\ TypeOK' /\ Paired(tokens, creds.auth) /\ slot \in [Handlers -> Slots] /\ slot[s] \in Slots
      /\ flows \in [Grants -> [driver : Drivers \cup {NoDriver}, admitted : 0..2]]
      /\ \A g \in Grants : g # 0
  BY FlowTypes, BoundsAssumption DEF Inv, TypeOK, AuthInv, Grants
<1>2. CASE Start(s)
  <2> DEFINE h == [Idle EXCEPT !.job = "start", !.at = "app", !.driver = driver]
  <2>1. h.at = "app" /\ h.auth = NoAuth /\ h.doc = NoDocument
    BY DEF Idle
  <2>2. Go(s, h) /\ UNCHANGED <<creds, state, flows, tokens>>
    BY <1>2 DEF Start, database, provider
  <2> HIDE DEF h
  <2>3. Stays
    BY <2>1, <2>2, GoStays, NothingIsPaired
  <2> QED BY <1>1, <2>2, <2>3, Assemble
<1>3. CASE CallbackMount(s)
  <2>1. Stays
    BY <1>3, GotoStays, EndStays DEF CallbackMount
  <2> QED BY <1>1, <1>3, <2>1, Assemble DEF CallbackMount, database, provider
<1>4. CASE IssueState(s)
  <2>1. Stays
    BY <1>4, EndStays DEF IssueState
  <2>2. UNCHANGED <<creds, tokens>>
    BY <1>4 DEF IssueState, provider
  <2>3. CASE UNCHANGED <<state, flows>>
    BY <1>1, <2>1, <2>2, <2>3, Assemble
  <2>4. ASSUME NEW g \in Grants, flows[g].driver = NoDriver, state'.flow = g,
               flows' = [flows EXCEPT ![g].driver = slot[s].driver]
        PROVE  Inv'
    <3>1. \A e \in Grants : /\ flows'[e].admitted = flows[e].admitted
                            /\ e # g => flows'[e] = flows[e]
      BY <1>1, <2>4
    <3>2. flows[g].admitted = 0
      BY <2>4 DEF Inv, FlowInv
    <3>3. FlowInv'
      BY <2>1, <2>4, <3>1, <3>2 DEF Inv, FlowInv, StatesAreUsedOnce, Stays
    <3>4. AuthInv' /\ FreshInv'
      BY <2>1, <2>2 DEF Inv, AuthInv, FreshInv, Stays
    <3> QED BY <1>1, <3>3, <3>4 DEF Inv
  <2> QED BY <1>4, <2>3, <2>4 DEF IssueState
<1>5. CASE ConsumeState(s)
  <2>1. Stays
    BY <1>5, GotoStays, EndStays DEF ConsumeState
  <2>2. UNCHANGED <<creds, tokens>> /\ state'.flow \in {0, state.flow}
    BY <1>5 DEF ConsumeState, NoState, provider
  <2>3. CASE flows' = flows
    BY <1>1, <2>1, <2>2, <2>3, Assemble
  <2> DEFINE f == slot[s].flow
  <2>4. ASSUME state.flow = f, state' = NoState,
               flows' = [flows EXCEPT ![f].admitted = IF @ < 2 THEN @ + 1 ELSE @]
        PROVE  Inv'
    <3>1. f \in Grants /\ flows[f].driver # NoDriver
      BY <1>5 DEF ConsumeState, Inv, FlowInv
    <3>2. flows[f].admitted = 0
      BY <1>1, <2>4, <3>1 DEF Inv, FlowInv, StatesAreUsedOnce
    <3>3. /\ flows'[f].admitted = 1 /\ flows'[f].driver = flows[f].driver
          /\ \A e \in Grants : e # f => flows'[e] = flows[e]
      BY <1>1, <2>4, <3>1, <3>2
    <3>4. state'.flow = 0
      BY <2>4 DEF NoState
    <3> HIDE DEF f
    <3>5. StatesAreUsedOnce'
      BY <1>1, <3>3, <3>4 DEF Inv, FlowInv, StatesAreUsedOnce
    <3>6. FlowInv'
      BY <2>1, <3>1, <3>3, <3>5 DEF Inv, FlowInv, Stays
    <3>7. AuthInv' /\ FreshInv'
      BY <2>1, <2>2 DEF Inv, AuthInv, FreshInv, Stays
    <3> QED BY <1>1, <3>6, <3>7 DEF Inv
  <2> QED BY <1>5, <2>3, <2>4 DEF ConsumeState, Consumes
<1>6. CASE Callback(s)
  <2>1. UNCHANGED <<creds, tokens, flows>>
    BY <1>6 DEF Callback, provider
  <2>2. CASE slot' = slot
    <3>1. state'.flow \in {0, state.flow}
      BY <1>6 DEF Callback, NoState
    <3> QED BY <1>1, <2>1, <2>2, <3>1, SlotStays, Assemble
  <2>3. ASSUME NEW g \in Grants, flows[g].driver # NoDriver, state' = state,
               Go(s, [Idle EXCEPT !.job = "callback", !.at = "consume",
                                  !.driver = flows[g].driver, !.flow = g])
        PROVE  Inv'
    <3> DEFINE h == [Idle EXCEPT !.job = "callback", !.at = "consume",
                                 !.driver = flows[g].driver, !.flow = g]
    <3>1. h.flow = g /\ h.auth = NoAuth /\ h.doc = NoDocument
      BY DEF Idle
    <3>2. Go(s, h)
      BY <2>3
    <3> HIDE DEF h
    <3>3. \A r \in Handlers : slot'[r] = IF r = s THEN h ELSE slot[r]
      BY <1>1, <3>2 DEF Go
    <3>4. FlowInv'
      BY <2>1, <2>3, <3>1, <3>3 DEF Inv, FlowInv, StatesAreUsedOnce
    <3>5. AuthInv'
      BY <2>1, <3>1, <3>3, NothingIsPaired DEF Inv, AuthInv
    <3>6. FreshInv'
      BY <2>1 DEF Inv, FreshInv
    <3> QED BY <1>1, <3>4, <3>5, <3>6 DEF Inv
  <2> QED BY <1>6, <2>2, <2>3 DEF Callback
<1> QED BY <1>2, <1>3, <1>4, <1>5, <1>6 DEF Flow

LEMMA AdministerInv ==
  ASSUME Inv, NEW s \in Handlers, Administer(s)
  PROVE  Inv'
<1>1. /\ TypeOK' /\ Paired(tokens, creds.auth) /\ slot[s] \in Slots /\ creds \in Documents
      /\ Paired(tokens, slot[s].auth) /\ Paired(tokens, slot[s].doc.auth)
  BY AdministerTypes DEF Inv, TypeOK, AuthInv, Slots
<1>2. Stays
  <2>1. CASE Disconnect(s)
    <3> DEFINE h == [Idle EXCEPT !.job = "disconnect", !.at = IF driver \in OAuthDrivers THEN "read" ELSE "drop"]
    <3>1. h.at # "consume" /\ h.auth = NoAuth /\ h.doc = NoDocument
      BY DEF Idle
    <3>2. Go(s, h)
      BY <2>1 DEF Disconnect
    <3> HIDE DEF h
    <3> QED BY <3>1, <3>2, GoStays, NothingIsPaired
  <2>2. CASE Edit(s)
    <3>1. PICK target, given :
            Go(s, [Idle EXCEPT !.job = "edit", !.at = "creds", !.driver = driver,
                               !.target = target, !.given = given])
      BY <2>2 DEF Edit
    <3> DEFINE h == [Idle EXCEPT !.job = "edit", !.at = "creds", !.driver = driver,
                                 !.target = target, !.given = given]
    <3>2. h.at = "creds" /\ h.auth = NoAuth /\ h.doc = NoDocument
      BY DEF Idle
    <3>3. Go(s, h)
      BY <3>1
    <3> HIDE DEF h
    <3> QED BY <3>2, <3>3, GoStays, NothingIsPaired
  <2>3. CASE Delete(s)
    <3> DEFINE h == [Idle EXCEPT !.job = "delete", !.at = "delete"]
    <3>1. h.at = "delete" /\ h.auth = NoAuth /\ h.doc = NoDocument
      BY DEF Idle
    <3>2. Go(s, h)
      BY <2>3 DEF Delete
    <3> HIDE DEF h
    <3> QED BY <3>1, <3>2, GoStays, NothingIsPaired
  <2>4. CASE EditCredentials(s)
    <3> DEFINE d == ForUpdate(slot[s], creds)
               b == slot[s].given \/ Selected(slot[s]) # slot[s].driver
               h == [slot[s] EXCEPT !.at = "prepare", !.doc = d, !.given = b]
    <3>1. d.auth \in {creds.auth, NoDocument.auth}
      <4>1. \A doc \in Documents : /\ [doc EXCEPT !.app = TRUE].auth = doc.auth
                                  /\ [doc EXCEPT !.provider = TRUE].auth = doc.auth
        BY DEF Documents
      <4> QED BY <1>1, <4>1, ValueTypes DEF ForUpdate
    <3>2. h.at = "prepare" /\ h.auth = slot[s].auth /\ h.doc = d
      BY <1>1 DEF Slots
    <3>3. Go(s, h)
      BY <2>4 DEF EditCredentials
    <3> HIDE DEF d, h
    <3> QED BY <1>1, <3>1, <3>2, <3>3, GoStays, NothingIsPaired
  <2>5. CASE PrepareMountUpdate(s)
    <3> DEFINE e == IF slot[s].target = NoDriver THEN driver ELSE slot[s].target
               h == [slot[s] EXCEPT !.at = "write", !.driver = NoDriver, !.target = e]
    <3>1. h.at = "write" /\ h.auth = slot[s].auth /\ h.doc = slot[s].doc
      BY <1>1 DEF Slots
    <3>2. End(s) \/ Go(s, h)
      BY <2>5 DEF PrepareMountUpdate
    <3> HIDE DEF h
    <3> QED BY <3>1, <3>2, MoveStays, EndStays
  <2>6. CASE DropCredentials(s) \/ WriteMount(s) \/ DeleteMount(s)
    BY <2>6, EndStays DEF DropCredentials, WriteMount, DeleteMount
  <2> QED BY <2>1, <2>2, <2>3, <2>4, <2>5, <2>6 DEF Administer
<1>3. Paired(tokens, creds'.auth)
  <2>1. CASE UNCHANGED creds
    BY <2>1, <1>1
  <2>2. CASE DropCredentials(s) \/ DeleteMount(s)
    BY <2>2, NothingIsPaired DEF DropCredentials, DeleteMount
  <2>3. CASE WriteMount(s)
    BY <2>3, <1>1 DEF WriteMount
  <2>4. CASE Disconnect(s) \/ Edit(s) \/ EditCredentials(s) \/ PrepareMountUpdate(s) \/ Delete(s)
    BY <2>1, <2>4 DEF Disconnect, Edit, EditCredentials, PrepareMountUpdate, Delete, database
  <2> QED BY <2>2, <2>3, <2>4 DEF Administer
<1>4. UNCHANGED <<flows, tokens>>
  BY DEF Administer, Disconnect, DropCredentials, Edit, EditCredentials, PrepareMountUpdate,
         WriteMount, Delete, DeleteMount, provider
<1>5. state'.flow \in {0, state.flow}
  <2>1. CASE DeleteMount(s)
    BY <2>1 DEF DeleteMount, NoState
  <2>2. CASE ~DeleteMount(s)
    BY <2>2 DEF Administer, Disconnect, DropCredentials, Edit, EditCredentials, PrepareMountUpdate,
                WriteMount, Delete, database
  <2> QED BY <2>1, <2>2
<1> QED BY <1>1, <1>2, <1>3, <1>4, <1>5, Assemble

LEMMA TimeInv ==
  ASSUME Inv,
         \/ \E s \in Handlers : Evict(s)
         \/ \E t \in Tokens : TokenExpires(t) \/ TokenRefused(t)
         \/ LeaseExpires \/ StateExpires
  PROVE  Inv'
<1>1. /\ TypeOK' /\ Paired(tokens, creds.auth) /\ state \in [flow : Grants \cup {0}, expired : BOOLEAN]
      /\ tokens \in [Tokens -> [grant : Grants \cup {0}, life : {"unborn", "good", "refused", "expired"}]]
  BY TimeTypes DEF Inv, TypeOK, AuthInv
<1>2. ASSUME NEW s \in Handlers, Evict(s) PROVE Inv'
  <2>1. Stays
    BY <1>2, EndStays DEF Evict
  <2> QED BY <1>1, <1>2, <2>1, Assemble DEF Evict, database, provider
<1>3. ASSUME NEW t \in Tokens, TokenExpires(t) \/ TokenRefused(t) PROVE Inv'
  <2>1. UNCHANGED <<creds, slot, flows, state>>
    BY <1>3 DEF TokenExpires, TokenRefused, database
  <2>2. \A u \in Tokens : /\ tokens'[u].grant = tokens[u].grant
                          /\ tokens'[u].life = "unborn" => tokens[u].life = "unborn"
    BY <1>1, <1>3 DEF TokenExpires, TokenRefused
  <2> QED BY <1>1, <2>1, <2>2, SlotStays, Assemble
<1>4. CASE LeaseExpires
  BY <1>1, <1>4, SlotStays, Assemble DEF LeaseExpires, provider
<1>5. CASE StateExpires
  <2>1. state'.flow = state.flow
    BY <1>1, <1>5 DEF StateExpires
  <2> QED BY <1>1, <1>5, <2>1, SlotStays, Assemble DEF StateExpires, provider
<1> QED BY <1>2, <1>3, <1>4, <1>5

LEMMA InitInv == Init => Inv
<1> SUFFICES ASSUME Init PROVE Inv
  OBVIOUS
<1>1. TypeOK
  BY InitTypes
<1>2. creds.auth = NoAuth
  BY DEF Init, NoDocument
<1>3. AuthInv
  BY <1>2, NothingIsPaired, IdleFacts DEF AuthInv, Init
<1>4. FreshInv
  BY DEF FreshInv, Init
<1>5. FlowInv
  BY BoundsAssumption, IdleFacts DEF FlowInv, StatesAreUsedOnce, Init, Grants
<1> QED BY <1>1, <1>3, <1>4, <1>5 DEF Inv

LEMMA NextInv == Inv /\ [Next]_vars => Inv'
<1> SUFFICES ASSUME Inv, [Next]_vars PROVE Inv'
  OBVIOUS
<1>1. CASE UNCHANGED vars
  BY <1>1 DEF vars, database, provider, Inv, TypeOK, AuthInv, FreshInv, FlowInv, StatesAreUsedOnce
<1>2. CASE Next
  BY <1>2, RequestInv, RefreshInv, ExchangeInv, PatchInv, FlowStep, AdministerInv, TimeInv DEF Next
<1> QED BY <1>1, <1>2

LEMMA InvHolds == Spec => []Inv
BY InitInv, NextInv, PTL DEF Spec

-----------------------------------------------------------------------------

\* The stored access token belongs to the stored refresh token: however many refreshes,
\* callbacks, edits and disconnections overlap, and however late each of them writes
\* the document it has read.
THEOREM StoredAuthorizationIsOfOneGrant == Spec => []AuthorizationOfOneGrant
<1>1. Inv => AuthorizationOfOneGrant
  BY DEF Inv, AuthInv, Paired, AuthorizationOfOneGrant, Connected
<1> QED BY <1>1, InvHolds, PTL

\* Of any number of callbacks with one state, consumeOAuthState lets at most one through,
\* and none once a newer flow was started.
THEOREM FlowsAreAnsweredOnce == Spec => []StatesAreUsedOnce
<1>1. Inv => StatesAreUsedOnce
  BY DEF Inv, FlowInv
<1> QED BY <1>1, InvHolds, PTL
-----------------------------------------------------------------------------
(* Rotated tokens: the inductive invariant.                                *)

\* The steps of each kind of request.
StepsOf(job) ==
  CASE job = "use" -> {"idle", "token", "refresh", "acquire", "wait", "reread", "app", "exchange",
                       "read", "write", "release", "call"}
    [] job = "start" -> {"app", "issue"}
    [] job = "callback" -> {"consume", "mount", "app", "exchange", "read", "write"}
    [] job = "disconnect" -> {"read", "write", "drop"}
    [] job = "edit" -> {"creds", "prepare", "write"}
    [] job = "delete" -> {"delete"}

\* Handlers do the steps of their request; one that disconnects holds no tokens.
JobInv ==
  \A s \in Handlers : /\ slot[s].at \in StepsOf(slot[s].job)
                      /\ slot[s].job = "disconnect" => slot[s].auth = NoAuth

\* Authorization a was issued by a provider whose valid versions are c, or before.
Issued(c, a) ==
  IF a.grant = 0 THEN a.version = 0 ELSE 1 <= a.version /\ a.version <= c[a.grant]

IssuedInv ==
  /\ Issued(current, creds.auth)
  /\ \A s \in Handlers : Issued(current, slot[s].auth) /\ Issued(current, slot[s].doc.auth)

\* The mount is there and no refresh has lasted longer than its lease.
InTime == ~outlived /\ driver # NoDriver

\* Who refreshes holds the lease.
LeaseInv ==
  InTime => \A s \in Handlers : Refreshing(s) => lease.owner = s /\ ~lease.expired

\* Handler s is about to store the tokens of a refresh, or of a consent.
Saving(s, job) == slot[s].job = job /\ slot[s].at \in {"read", "write"}

\* Those of a refresh are the latest of their consent.
LatestInv ==
  InTime => \A s \in Handlers : Saving(s, "use") =>
    slot[s].auth.grant # 0 /\ slot[s].auth.version = current[slot[s].auth.grant]

\* Of slots sl nobody but handler s holds tokens of grant g, and a is not of it.
Alone(a, sl, s, g) ==
  /\ a.grant # g /\ sl[s].doc.auth.grant # g
  /\ \A r \in Handlers \ {s} : sl[r].auth.grant # g /\ sl[r].doc.auth.grant # g

\* Those of a consent are its first, and nobody else has any of it.
ConsentInv ==
  \A s \in Handlers : Saving(s, "callback") =>
    /\ slot[s].auth.grant # 0 /\ slot[s].auth.version = 1 /\ current[slot[s].auth.grant] = 1
    /\ Alone(creds.auth, slot, s, slot[s].auth.grant)

RotationInv == JobInv /\ IssuedInv /\ LeaseInv /\ LatestInv /\ ConsentInv

\* The slot k a handler may go on to from slot h without an answer of the provider, when
\* the stored authorization is a.
Follows(k, h, a) ==
  /\ k.at \in StepsOf(k.job)
  /\ k.job = "disconnect" => k.auth = NoAuth
  /\ k.auth \in {NoAuth, a, h.auth} /\ k.doc.auth \in {NoAuth, a, h.doc.auth}
  /\ k.job \in {"use", "callback"} /\ k.at \in {"read", "write"} =>
       h.job = k.job /\ h.at \in {"read", "write"} /\ k.auth = h.auth
  /\ k.job = "use" /\ k.at \in {"app", "exchange"} => h.job = "use" /\ h.at \in {"reread", "app"}

Moves(s) ==
  /\ \A r \in Handlers \ {s} : slot'[r] = slot[r]
  /\ Follows(slot'[s], slot[s], creds.auth)

\* What becomes of the lease.
LeaseMoves(s) ==
  \/ lease' = lease /\ slot'[s].at # "reread"
  \/ LeaseFree /\ lease' = [owner |-> s, expired |-> FALSE]
  \/ lease.owner = s /\ ~Refreshing(s) /\ slot'[s].at # "reread"
  \/ driver' = NoDriver

\* Nothing is made up: what is stored was in a hand before.
Stores(s) ==
  \/ creds' = creds
  \/ /\ creds'.auth \in {NoAuth, slot[s].auth, slot[s].doc.auth}
     /\ slot'[s].at \notin {"read", "write"}

\* Every step of a handler but the answers of the provider keeps the invariant.
LEMMA Carry ==
  ASSUME Inv, RotationInv, NEW s \in Handlers, Moves(s), LeaseMoves(s), Stores(s),
         UNCHANGED <<current, outlived>>, driver = NoDriver => driver' = NoDriver
  PROVE  RotationInv'
<1>1. \A r \in Handlers : r # s => slot'[r] = slot[r]
  BY DEF Moves
<1>2. NoAuth.grant = 0 /\ Issued(current, NoAuth)
  BY DEF NoAuth, Issued
<1>3. /\ creds'.auth \in {NoAuth, creds.auth, slot[s].auth, slot[s].doc.auth}
      /\ slot'[s].auth \in {NoAuth, creds.auth, slot[s].auth}
      /\ slot'[s].doc.auth \in {NoAuth, creds.auth, slot[s].doc.auth}
  BY DEF Stores, Moves, Follows
<1>4. InTime' => InTime
  BY DEF InTime
<1>5. JobInv'
  BY <1>1 DEF RotationInv, JobInv, Moves, Follows
<1>6. IssuedInv'
  <2>1. Issued(current, creds.auth)
        /\ \A r \in Handlers : Issued(current, slot[r].auth) /\ Issued(current, slot[r].doc.auth)
    BY DEF RotationInv, IssuedInv
  <2>2. Issued(current, creds'.auth)
        /\ \A r \in Handlers : Issued(current, slot'[r].auth) /\ Issued(current, slot'[r].doc.auth)
    BY <1>1, <1>2, <1>3, <2>1
  <2> QED BY <2>2 DEF IssuedInv
<1>7. LeaseInv'
  <2> SUFFICES ASSUME InTime', NEW r \in Handlers, Refreshing(r)'
               PROVE  lease'.owner = r /\ ~lease'.expired
    BY DEF LeaseInv
  <2>1. \A q \in Handlers : Refreshing(q) => lease.owner = q /\ ~lease.expired
    BY <1>4 DEF RotationInv, LeaseInv
  <2>2. r # s => Refreshing(r)
    BY <1>1 DEF Refreshing
  <2>3. r = s /\ slot'[s].at # "reread" => Refreshing(s)
    BY DEF Refreshing, Moves, Follows
  <2>4. \A q \in Handlers : q # Nobody
    BY HandlersAssumption
  <2>5. CASE lease' = lease /\ slot'[s].at # "reread"
    BY <2>1, <2>2, <2>3, <2>5
  <2>6. CASE LeaseFree /\ lease' = [owner |-> s, expired |-> FALSE]
    BY <2>1, <2>2, <2>4, <2>6 DEF LeaseFree
  <2>7. CASE lease.owner = s /\ ~Refreshing(s) /\ slot'[s].at # "reread"
    BY <2>1, <2>2, <2>3, <2>7
  <2> QED BY <2>5, <2>6, <2>7 DEF LeaseMoves, InTime
<1>8. LatestInv'
  <2> SUFFICES ASSUME InTime', NEW r \in Handlers, Saving(r, "use")'
               PROVE  slot'[r].auth.grant # 0 /\ slot'[r].auth.version = current[slot'[r].auth.grant]
    BY DEF LatestInv
  <2>1. Saving(r, "use") /\ slot'[r].auth = slot[r].auth
    BY <1>1 DEF Saving, Moves, Follows
  <2> QED BY <1>4, <2>1 DEF RotationInv, LatestInv
<1>9. ConsentInv'
  <2> SUFFICES ASSUME NEW r \in Handlers, Saving(r, "callback")'
               PROVE  /\ slot'[r].auth.grant # 0 /\ slot'[r].auth.version = 1
                      /\ current[slot'[r].auth.grant] = 1
                      /\ Alone(creds'.auth, slot', r, slot'[r].auth.grant)
    BY DEF ConsentInv
  <2>1. Saving(r, "callback") /\ slot'[r].auth = slot[r].auth
    BY <1>1 DEF Saving, Moves, Follows
  <2>2. PICK g : g = slot[r].auth.grant
    OBVIOUS
  <2>3. g # 0 /\ slot[r].auth.version = 1 /\ current[g] = 1 /\ Alone(creds.auth, slot, r, g)
    BY <2>1, <2>2 DEF RotationInv, ConsentInv
  <2>4. ASSUME r = s PROVE Alone(creds'.auth, slot', r, g)
    <3>1. creds' = creds
      BY <2>4 DEF Stores, Saving
    <3> QED BY <1>1, <1>2, <1>3, <2>3, <2>4, <3>1 DEF Alone
  <2>5. ASSUME r # s PROVE Alone(creds'.auth, slot', r, g)
    BY <1>1, <1>2, <1>3, <2>3, <2>5 DEF Alone
  <2> QED BY <2>1, <2>2, <2>3, <2>4, <2>5
<1> QED BY <1>5, <1>6, <1>7, <1>8, <1>9 DEF RotationInv

\* The provider accepts the consent or the refresh token of handler s, of grant g, and
\* makes v its valid version.
Answers(s, g, v) ==
  /\ slot[s].at = "exchange" /\ Accepts(s) /\ v \in NextVersions(s)
  /\ g = IF slot[s].job = "callback" THEN slot[s].flow ELSE slot[s].auth.grant
  /\ current' = [current EXCEPT ![g] = v]
  /\ UNCHANGED <<database, outlived>>

\* A good answer of the provider, whoever hears of it: no authorization becomes invalid,
\* and nobody else is about to store tokens of the same consent.
LEMMA Advance ==
  ASSUME Inv, RotationInv, NEW s \in Handlers, NEW g, NEW v, Answers(s, g, v)
  PROVE  /\ g \in Grants /\ g # 0 /\ v \in Versions /\ current'[g] = v
         /\ \A e \in Grants : e # g => current'[e] = current[e]
         /\ \A a \in Auths : Issued(current, a) => Issued(current', a)
         /\ slot[s].job \in {"use", "callback"}
         /\ slot[s].job = "callback" => v = 1 /\ slot[s].auth.grant # g /\ Alone(creds.auth, slot, s, g)
         /\ \A r \in Handlers \ {s} : ~(InTime /\ slot[s].job = "use" /\ Saving(r, "use"))
         /\ \A r \in Handlers \ {s} : slot[s].job = "callback" \/ Saving(r, "callback") =>
              slot[r].auth.grant # g
<1>1. /\ slot[s] \in Slots /\ slot[s].flow \in Grants \cup {0} /\ slot[s].auth \in Auths
      /\ slot[s].auth.grant \in Grants \cup {0} /\ slot[s].auth.version \in Versions \cup {0}
      /\ current \in [Grants -> Versions \cup {0}] /\ slot[s].job \in Jobs
      /\ creds.auth \in Auths
      /\ \A r \in Handlers : slot[r].auth \in Auths /\ slot[r].doc.auth \in Auths
  BY DEF Inv, TypeOK, Slots, Auths, Documents
<1>2. slot[s].job \in {"use", "callback"}
  BY <1>1 DEF Answers, RotationInv, JobInv, StepsOf, Jobs
<1>3. g # 0 /\ (IF slot[s].job = "callback" THEN current[g] = 0 ELSE current[g] = slot[s].auth.version)
  BY DEF Answers, Accepts
<1>4. g \in Grants /\ Grants \subseteq Nat /\ Versions \subseteq Nat
  <2>1. Grants \subseteq Nat /\ Versions \subseteq Nat
    BY DEF Grants, Versions
  <2> QED BY <1>1, <1>3, <2>1 DEF Answers
<1>5. v \in Versions /\ current[g] <= v
  <2>1. CASE slot[s].job = "callback"
    <3>1. v = 1 /\ current[g] = 0
      BY <2>1, <1>3 DEF Answers, NextVersions
    <3> QED BY <3>1, BoundsAssumption DEF Versions
  <2>2. CASE slot[s].job # "callback"
    <3>1. v \in Versions /\ v \in {slot[s].auth.version, slot[s].auth.version + 1}
          /\ current[g] = slot[s].auth.version
      BY <2>2, <1>3 DEF Answers, NextVersions
    <3> QED BY <3>1, <1>1, <1>4 DEF Versions
  <2> QED BY <2>1, <2>2
<1>6. current'[g] = v /\ \A e \in Grants : e # g => current'[e] = current[e]
  BY <1>1, <1>4 DEF Answers
<1>7. ASSUME NEW a \in Auths, Issued(current, a) PROVE Issued(current', a)
  <2>1. a.grant \in Grants \cup {0} /\ a.version \in Nat
    BY <1>4 DEF Auths, Versions
  <2>2. CASE a.grant = 0
    BY <1>7, <2>2 DEF Issued
  <2>3. CASE a.grant = g
    <3>1. 1 <= a.version /\ a.version <= current[g]
      BY <1>3, <1>7, <2>3 DEF Issued
    <3>2. a.version <= v
      BY <1>1, <1>4, <1>5, <2>1, <3>1 DEF Versions
    <3> QED BY <1>3, <1>6, <2>3, <3>1, <3>2 DEF Issued
  <2>4. CASE a.grant \in Grants /\ a.grant # g /\ a.grant # 0
    BY <1>6, <1>7, <2>4 DEF Issued
  <2> QED BY <2>1, <2>2, <2>3, <2>4
\* What was issued for a consent, the provider knows of.
<1>8. ASSUME slot[s].job = "callback" PROVE \A a \in Auths : Issued(current, a) => a.grant # g
  <2>1. current[g] = 0
    BY <1>3, <1>8
  <2>2. \A a \in Auths : a.version \in Nat
    BY <1>4 DEF Auths, Versions
  <2> QED BY <1>3, <2>1, <2>2 DEF Issued
<1>9. /\ Issued(current, creds.auth)
      /\ \A r \in Handlers : Issued(current, slot[r].auth) /\ Issued(current, slot[r].doc.auth)
  BY DEF RotationInv, IssuedInv
<1>10. slot[s].job = "callback" => v = 1 /\ slot[s].auth.grant # g /\ Alone(creds.auth, slot, s, g)
  BY <1>1, <1>8, <1>9 DEF Answers, NextVersions, Alone
<1>11. ASSUME NEW r \in Handlers \ {s}, InTime, slot[s].job = "use", Saving(r, "use") PROVE FALSE
  <2>1. Refreshing(r) /\ Refreshing(s)
    BY <1>11 DEF Answers, Refreshing, Saving
  <2> QED BY <1>11, <2>1 DEF RotationInv, LeaseInv
<1>12. ASSUME NEW r \in Handlers \ {s}, slot[s].job = "callback" \/ Saving(r, "callback")
       PROVE  slot[r].auth.grant # g
  <2>1. CASE slot[s].job = "callback"
    BY <1>1, <1>8, <1>9, <2>1
  <2>2. CASE slot[s].job = "use" /\ Saving(r, "callback")
    <3>1. g = slot[s].auth.grant
      BY <2>2 DEF Answers
    <3>2. slot[s].auth.grant # slot[r].auth.grant
      BY <2>2 DEF RotationInv, ConsentInv, Alone
    <3> QED BY <3>1, <3>2
  <2> QED BY <1>2, <1>12, <2>1, <2>2
<1> QED BY <1>2, <1>3, <1>4, <1>5, <1>6, <1>7, <1>10, <1>11, <1>12

\* What others are about to store stays the latest, and the first, of its consent.
LEMMA OthersKeep ==
  ASSUME Inv, RotationInv, NEW s \in Handlers, NEW g, NEW v, Answers(s, g, v), NEW r \in Handlers \ {s}
  PROVE  /\ InTime /\ Saving(r, "use") =>
              slot[r].auth.grant # 0 /\ slot[r].auth.version = current'[slot[r].auth.grant]
         /\ Saving(r, "callback") =>
              /\ slot[r].auth.grant # 0 /\ slot[r].auth.version = 1
              /\ current'[slot[r].auth.grant] = 1 /\ slot[r].auth.grant # g
<1>1. slot[r].auth.grant \in Grants \cup {0}
  BY DEF Inv, TypeOK, Slots, Auths
<1>2. /\ \A e \in Grants : e # g => current'[e] = current[e]
      /\ slot[s].job \in {"use", "callback"}
      /\ ~(InTime /\ slot[s].job = "use" /\ Saving(r, "use"))
      /\ slot[s].job = "callback" \/ Saving(r, "callback") => slot[r].auth.grant # g
  BY Advance
<1>3. InTime /\ Saving(r, "use") =>
        slot[r].auth.grant # 0 /\ slot[r].auth.version = current[slot[r].auth.grant]
  BY DEF RotationInv, LatestInv
<1>4. Saving(r, "callback") =>
        slot[r].auth.grant # 0 /\ slot[r].auth.version = 1 /\ current[slot[r].auth.grant] = 1
  BY DEF RotationInv, ConsentInv
<1> QED BY <1>1, <1>2, <1>3, <1>4

\* The answer arrives: its tokens are about to be stored.
LEMMA IssueRotation ==
  ASSUME Inv, RotationInv, NEW s \in Handlers, slot[s].at = "exchange", Accepts(s),
         NEW v \in NextVersions(s), Issues(s, v), UNCHANGED <<database, outlived>>
  PROVE  RotationInv'
<1>0. PICK g : g = IF slot[s].job = "callback" THEN slot[s].flow ELSE slot[s].auth.grant
  OBVIOUS
<1>1. PICK t \in Unborn :
        /\ current' = [current EXCEPT ![g] = v]
        /\ Go(s, [slot[s] EXCEPT !.at = "read", !.token = t,
                                 !.auth = [grant |-> g, version |-> v, access |-> t]])
  BY <1>0 DEF Issues
<1> DEFINE a == [grant |-> g, version |-> v, access |-> t]
           h == [slot[s] EXCEPT !.at = "read", !.token = t, !.auth = a]
<1>2. /\ slot \in [Handlers -> Slots] /\ slot[s] \in Slots /\ creds.auth \in Auths
      /\ \A r \in Handlers : slot[r].auth \in Auths /\ slot[r].doc.auth \in Auths
  BY DEF Inv, TypeOK, Slots, Documents
<1>3. /\ h.at = "read" /\ h.job = slot[s].job /\ h.auth = a /\ h.doc = slot[s].doc
      /\ a.grant = g /\ a.version = v
  BY <1>2 DEF Slots
<1>4. Go(s, h) /\ Answers(s, g, v)
  BY <1>0, <1>1 DEF Answers
<1>5. /\ g \in Grants /\ g # 0 /\ v \in Versions /\ current'[g] = v
      /\ \A b \in Auths : Issued(current, b) => Issued(current', b)
      /\ slot[s].job \in {"use", "callback"}
      /\ slot[s].job = "callback" => v = 1 /\ slot[s].auth.grant # g /\ Alone(creds.auth, slot, s, g)
  BY <1>4, Advance
<1>6. \A r \in Handlers \ {s} :
         /\ InTime /\ Saving(r, "use") =>
              slot[r].auth.grant # 0 /\ slot[r].auth.version = current'[slot[r].auth.grant]
         /\ Saving(r, "callback") =>
              /\ slot[r].auth.grant # 0 /\ slot[r].auth.version = 1
              /\ current'[slot[r].auth.grant] = 1 /\ slot[r].auth.grant # g
  BY <1>4, OthersKeep
<1> HIDE DEF a, h
<1>7. \A r \in Handlers : slot'[r] = IF r = s THEN h ELSE slot[r]
  BY <1>2, <1>4 DEF Go
<1>8. creds' = creds /\ lease' = lease /\ driver' = driver /\ outlived' = outlived /\ InTime' = InTime
  BY DEF database, InTime
<1>9. JobInv'
  BY <1>3, <1>5, <1>7 DEF RotationInv, JobInv, StepsOf
<1>10. IssuedInv'
  <2>1. \A b \in Auths : Issued(current, b) => Issued(current', b)
    BY <1>5
  <2>2. Issued(current', a)
    BY <1>3, <1>5 DEF Issued, Versions
  <2>3. /\ Issued(current, creds.auth)
        /\ \A r \in Handlers : Issued(current, slot[r].auth) /\ Issued(current, slot[r].doc.auth)
    BY DEF RotationInv, IssuedInv
  <2>4. Issued(current', creds'.auth)
    BY <1>2, <1>8, <2>1, <2>3
  <2>5. ASSUME NEW r \in Handlers PROVE Issued(current', slot'[r].auth) /\ Issued(current', slot'[r].doc.auth)
    <3>1. slot'[r].auth \in {a, slot[r].auth} /\ slot'[r].doc.auth = slot[r].doc.auth
      BY <1>3, <1>7
    <3> QED BY <1>2, <2>1, <2>2, <2>3, <3>1
  <2> QED BY <2>4, <2>5 DEF IssuedInv
<1>11. LeaseInv'
  BY <1>3, <1>7, <1>8 DEF RotationInv, LeaseInv, Refreshing
<1>12. LatestInv'
  BY <1>3, <1>5, <1>6, <1>7, <1>8 DEF LatestInv, Saving
<1>13. ConsentInv'
  <2> SUFFICES ASSUME NEW r \in Handlers, Saving(r, "callback")'
               PROVE  /\ slot'[r].auth.grant # 0 /\ slot'[r].auth.version = 1
                      /\ current'[slot'[r].auth.grant] = 1
                      /\ Alone(creds'.auth, slot', r, slot'[r].auth.grant)
    BY DEF ConsentInv
  <2>1. CASE r = s
    <3>1. slot[s].job = "callback" /\ slot'[s].auth = a
      BY <1>3, <1>7, <2>1 DEF Saving
    <3>2. Alone(creds'.auth, slot', s, g)
      BY <1>3, <1>5, <1>7, <1>8, <3>1 DEF Alone
    <3> QED BY <1>3, <1>5, <2>1, <3>1, <3>2
  <2>2. CASE r # s
    <3>1. Saving(r, "callback") /\ slot'[r].auth = slot[r].auth
      BY <1>7, <2>2 DEF Saving
    <3>2. PICK e : e = slot[r].auth.grant
      OBVIOUS
    <3>3. Alone(creds.auth, slot, r, e) /\ e # g
      BY <1>6, <2>2, <3>1, <3>2 DEF RotationInv, ConsentInv
    <3>4. Alone(creds'.auth, slot', r, e)
      BY <1>3, <1>7, <1>8, <2>2, <3>3 DEF Alone
    <3> QED BY <1>6, <2>2, <3>1, <3>2, <3>4
  <2> QED BY <2>1, <2>2
<1> QED BY <1>9, <1>10, <1>11, <1>12, <1>13 DEF RotationInv

\* The answer is lost, and with it the tokens.
LEMMA LostRotation ==
  ASSUME Inv, RotationInv, NEW s \in Handlers, NEW g, NEW v, Answers(s, g, v),
         \A r \in Handlers \ {s} : slot'[r] = slot[r],
         slot'[s].job = "use", slot'[s].at \in {"idle", "release"},
         slot'[s].auth = NoAuth, slot'[s].doc = NoDocument
  PROVE  RotationInv'
<1>1. /\ creds.auth \in Auths /\ NoAuth \in Auths
      /\ \A r \in Handlers : slot[r].auth \in Auths /\ slot[r].doc.auth \in Auths
  BY ValueTypes DEF Inv, TypeOK, Slots, Documents
<1>2. \A b \in Auths : Issued(current, b) => Issued(current', b)
  BY Advance
<1>3. \A r \in Handlers \ {s} :
         /\ InTime /\ Saving(r, "use") =>
              slot[r].auth.grant # 0 /\ slot[r].auth.version = current'[slot[r].auth.grant]
         /\ Saving(r, "callback") =>
              /\ slot[r].auth.grant # 0 /\ slot[r].auth.version = 1
              /\ current'[slot[r].auth.grant] = 1 /\ slot[r].auth.grant # g
  BY OthersKeep
<1>4. creds' = creds /\ lease' = lease /\ driver' = driver /\ outlived' = outlived /\ InTime' = InTime
  BY DEF Answers, database, InTime
<1>5. \A r \in Handlers : r # s => slot'[r] = slot[r]
  OBVIOUS
<1>6. /\ NoAuth.grant = 0 /\ NoAuth.version = 0 /\ NoDocument.auth = NoAuth
  BY DEF NoAuth, NoDocument
<1>7. JobInv'
  BY <1>5 DEF RotationInv, JobInv, StepsOf
<1>8. IssuedInv'
  <2>1. Issued(current, creds.auth)
        /\ \A r \in Handlers : Issued(current, slot[r].auth) /\ Issued(current, slot[r].doc.auth)
    BY DEF RotationInv, IssuedInv
  <2>2. Issued(current', NoAuth)
    BY <1>6 DEF Issued
  <2>3. Issued(current', creds'.auth)
    BY <1>1, <1>2, <1>4, <2>1
  <2>4. ASSUME NEW r \in Handlers
        PROVE  Issued(current', slot'[r].auth) /\ Issued(current', slot'[r].doc.auth)
    BY <1>1, <1>2, <1>5, <1>6, <2>1, <2>2
  <2> QED BY <2>3, <2>4 DEF IssuedInv
<1>9. LeaseInv'
  BY <1>4, <1>5 DEF RotationInv, LeaseInv, Refreshing
<1>10. LatestInv'
  BY <1>3, <1>4, <1>5 DEF LatestInv, Saving
<1>11. ConsentInv'
  <2> SUFFICES ASSUME NEW r \in Handlers, Saving(r, "callback")'
               PROVE  /\ slot'[r].auth.grant # 0 /\ slot'[r].auth.version = 1
                      /\ current'[slot'[r].auth.grant] = 1
                      /\ Alone(creds'.auth, slot', r, slot'[r].auth.grant)
    BY DEF ConsentInv
  <2>1. r # s /\ Saving(r, "callback") /\ slot'[r] = slot[r]
    BY <1>5 DEF Saving
  <2>2. PICK e : e = slot[r].auth.grant
    OBVIOUS
  <2>3. Alone(creds.auth, slot, r, e) /\ e # 0
    BY <2>1, <2>2 DEF RotationInv, ConsentInv
  <2>4. Alone(creds'.auth, slot', r, e)
    BY <1>4, <1>5, <1>6, <2>1, <2>3 DEF Alone
  <2> QED BY <1>3, <2>1, <2>2, <2>4
<1> QED BY <1>7, <1>8, <1>9, <1>10, <1>11 DEF RotationInv

-----------------------------------------------------------------------------
(* How handlers go on.                                                     *)

\* The step of a handler tells what it was asked for.
LEMMA JobOfStep ==
  ASSUME Inv, RotationInv, NEW s \in Handlers
  PROVE  /\ slot[s].at \in {"token", "refresh", "acquire", "wait", "reread", "release", "call"} =>
              slot[s].job = "use"
         /\ slot[s].at \in {"mount", "consume"} => slot[s].job = "callback"
         /\ slot[s].at = "app" => slot[s].job \in {"use", "start", "callback"}
         /\ slot[s].at = "exchange" => slot[s].job \in {"use", "callback"}
         /\ slot[s].at \in {"creds", "prepare"} => slot[s].job = "edit"
         /\ slot[s].job = "disconnect" => slot[s].auth = NoAuth
         /\ slot[s].at \in StepsOf(slot[s].job) /\ slot[s].job \in Jobs
BY DEF Inv, TypeOK, Slots, Jobs, RotationInv, JobInv, StepsOf

LEMMA GoMoves ==
  ASSUME Inv, NEW s \in Handlers, NEW h, Go(s, h), Follows(h, slot[s], creds.auth)
  PROVE  Moves(s) /\ slot'[s] = h
<1>1. slot \in [Handlers -> Slots]
  BY DEF Inv, TypeOK
<1>2. \A r \in Handlers : slot'[r] = IF r = s THEN h ELSE slot[r]
  BY <1>1 DEF Go
<1> QED BY <1>2 DEF Moves

\* A new request holds nothing.
LEMMA StartMoves ==
  ASSUME Inv, NEW s \in Handlers, NEW h, Go(s, h), h.at \in StepsOf(h.job),
         h.auth = NoAuth, h.doc = NoDocument,
         h.job \in {"use", "callback"} => h.at \notin {"app", "exchange", "read", "write"}
  PROVE  Moves(s) /\ slot'[s] = h
<1>1. NoDocument.auth = NoAuth
  BY DEF NoDocument
<1>2. Follows(h, slot[s], creds.auth)
  BY <1>1 DEF Follows
<1> QED BY <1>2, GoMoves

LEMMA EndMoves ==
  ASSUME Inv, NEW s \in Handlers, End(s)
  PROVE  Moves(s) /\ slot'[s] = Idle /\ slot'[s].at = "idle"
<1>1. /\ Idle.job = "use" /\ Idle.at = "idle" /\ Idle.auth = NoAuth /\ Idle.doc = NoDocument
      /\ Idle.at \in StepsOf(Idle.job)
  BY DEF Idle, StepsOf
<1> QED BY <1>1, StartMoves DEF End

LEMMA ReleaseMoves ==
  ASSUME Inv, NEW s \in Handlers, NEW t, Release(s, t), slot[s].job = "use"
  PROVE  /\ Moves(s) /\ slot'[s].at = "release" /\ slot'[s].job = "use"
         /\ slot'[s].auth = NoAuth /\ slot'[s].doc = NoDocument
<1> DEFINE h == [slot[s] EXCEPT !.at = "release", !.token = t, !.auth = NoAuth, !.doc = NoDocument]
<1>1. slot[s] \in Slots
  BY DEF Inv, TypeOK
<1>2. h.job = "use" /\ h.at = "release" /\ h.auth = NoAuth /\ h.doc = NoDocument
  BY <1>1 DEF Slots
<1>3. Go(s, h)
  BY DEF Release
<1> HIDE DEF h
<1>4. h.at \in StepsOf(h.job)
  BY <1>2 DEF StepsOf
<1> QED BY <1>2, <1>3, <1>4, StartMoves

LEMMA FailsMoves ==
  ASSUME Inv, NEW s \in Handlers, Fails(s)
  PROVE  /\ Moves(s) /\ slot'[s].at \in {"idle", "release"} /\ slot'[s].job = "use"
         /\ slot'[s].auth = NoAuth /\ slot'[s].doc = NoDocument
<1>1. Idle.job = "use" /\ Idle.auth = NoAuth /\ Idle.doc = NoDocument
  BY DEF Idle
<1> QED BY <1>1, EndMoves, ReleaseMoves DEF Fails

\* A handler that only moves on keeps what it holds.
LEMMA StepMoves ==
  ASSUME Inv, RotationInv, NEW s \in Handlers, NEW h, Go(s, h),
         h.job = slot[s].job, h.auth = slot[s].auth, h.doc = slot[s].doc, h.at \in StepsOf(h.job),
         h.job \in {"use", "callback"} /\ h.at \in {"read", "write"} => slot[s].at \in {"read", "write"},
         h.job = "use" /\ h.at \in {"app", "exchange"} => slot[s].at \in {"reread", "app"}
  PROVE  Moves(s) /\ slot'[s] = h
<1>1. slot[s].job = "disconnect" => slot[s].auth = NoAuth
  BY JobOfStep
<1>2. Follows(h, slot[s], creds.auth)
  BY <1>1 DEF Follows
<1> QED BY <1>2, GoMoves

LEMMA GotoMoves ==
  ASSUME Inv, RotationInv, NEW s \in Handlers, NEW st, Goto(s, st), st \in StepsOf(slot[s].job),
         st \notin {"read", "write"},
         slot[s].job = "use" /\ st \in {"app", "exchange"} => slot[s].at \in {"reread", "app"}
  PROVE  Moves(s) /\ slot'[s].at = st
<1>1. slot[s] \in Slots
  BY DEF Inv, TypeOK
<1> DEFINE h == [slot[s] EXCEPT !.at = st]
<1>2. h.at = st /\ h.auth = slot[s].auth /\ h.doc = slot[s].doc /\ h.job = slot[s].job
  BY <1>1 DEF Slots
<1>3. Go(s, h)
  BY DEF Goto
<1> HIDE DEF h
<1> QED BY <1>2, <1>3, StepMoves

LEMMA GotMoves ==
  ASSUME Inv, RotationInv, NEW s \in Handlers, NEW t, Got(s, t), slot[s].job = "use"
  PROVE  Moves(s) /\ slot'[s].at \in {"call", "token", "idle"}
<1>1. slot[s] \in Slots
  BY DEF Inv, TypeOK
<1> DEFINE h == [slot[s] EXCEPT !.at = "call", !.token = t]
           k == [slot[s] EXCEPT !.at = "token", !.retried = TRUE, !.token = 0, !.rejected = 0]
<1>2. h.at = "call" /\ h.auth = slot[s].auth /\ h.doc = slot[s].doc /\ h.job = "use"
  BY <1>1 DEF Slots
<1>3. k.at = "token" /\ k.auth = slot[s].auth /\ k.doc = slot[s].doc /\ k.job = "use"
  BY <1>1 DEF Slots
<1>4. {"call", "token"} \subseteq StepsOf("use")
  BY DEF StepsOf
<1>5. Go(s, h) \/ Go(s, k) \/ End(s)
  BY DEF Got
<1> HIDE DEF h, k
<1>6. CASE Go(s, h)
  BY <1>2, <1>4, <1>6, StepMoves
<1>7. CASE Go(s, k)
  BY <1>3, <1>4, <1>7, StepMoves
<1> QED BY <1>5, <1>6, <1>7, EndMoves

-----------------------------------------------------------------------------
(* Every step keeps the invariant of the rotated tokens.                   *)

LEMMA RequestRotation ==
  ASSUME Inv, RotationInv, NEW s \in Handlers, Request(s)
  PROVE  RotationInv'
<1>1. slot[s] \in Slots
  BY DEF Inv, TypeOK
<1>2. {"token", "call", "refresh"} \subseteq StepsOf("use")
  BY DEF StepsOf
<1>3. UNCHANGED <<creds, driver, lease, current, outlived>>
  BY DEF Request, Use, GetAccessToken, Call, database, provider
<1>4. Moves(s) /\ slot'[s].at # "reread"
  <2>1. CASE Use(s)
    <3> DEFINE h == [Idle EXCEPT !.job = "use", !.at = "token", !.driver = driver]
    <3>1. Go(s, h)
      BY <2>1 DEF Use
    <3>2. h.job = "use" /\ h.at = "token" /\ h.auth = NoAuth /\ h.doc = NoDocument
      BY DEF Idle
    <3> HIDE DEF h
    <3> QED BY <1>2, <3>1, <3>2, StartMoves
  <2>2. CASE GetAccessToken(s)
    <3> DEFINE h == [slot[s] EXCEPT !.at = "call", !.token = creds.auth.access]
               k == [slot[s] EXCEPT !.at = "refresh", !.rejected = 0]
    <3>1. End(s) \/ Go(s, h) \/ Go(s, k)
      BY <2>2 DEF GetAccessToken
    <3>2. h.at = "call" /\ h.auth = slot[s].auth /\ h.doc = slot[s].doc /\ h.job = slot[s].job
      BY <1>1 DEF Slots
    <3>3. k.at = "refresh" /\ k.auth = slot[s].auth /\ k.doc = slot[s].doc /\ k.job = slot[s].job
      BY <1>1 DEF Slots
    <3>4. slot[s].job = "use"
      BY <2>2, JobOfStep DEF GetAccessToken
    <3> HIDE DEF h, k
    <3>5. CASE Go(s, h)
      BY <1>2, <3>2, <3>4, <3>5, StepMoves
    <3>6. CASE Go(s, k)
      BY <1>2, <3>3, <3>4, <3>6, StepMoves
    <3> QED BY <3>1, <3>5, <3>6, EndMoves
  <2>3. CASE Call(s)
    <3> DEFINE h == [slot[s] EXCEPT !.at = "refresh", !.rejected = slot[s].token, !.token = 0]
    <3>1. End(s) \/ Go(s, h)
      BY <2>3 DEF Call
    <3>2. h.at = "refresh" /\ h.auth = slot[s].auth /\ h.doc = slot[s].doc /\ h.job = slot[s].job
      BY <1>1 DEF Slots
    <3>3. slot[s].job = "use"
      BY <2>3, JobOfStep DEF Call
    <3> HIDE DEF h
    <3>4. CASE Go(s, h)
      BY <1>2, <3>2, <3>3, <3>4, StepMoves
    <3> QED BY <3>1, <3>4, EndMoves
  <2> QED BY <2>1, <2>2, <2>3 DEF Request
<1> QED BY <1>3, <1>4, Carry DEF LeaseMoves, Stores

LEMMA RefreshRotation ==
  ASSUME Inv, RotationInv, NEW s \in Handlers, Refresh(s)
  PROVE  RotationInv'
<1>1. slot[s] \in Slots /\ slot[s].job = "use"
  BY JobOfStep DEF Inv, TypeOK, Refresh, RefreshAccessToken, AcquireLease, WaitForRefresh,
                   ReadUnderLease, ReleaseLease
<1>2. {"acquire", "wait", "reread", "app"} \subseteq StepsOf("use")
  BY DEF StepsOf
<1>3. UNCHANGED <<creds, driver, current, outlived>>
  BY DEF Refresh, RefreshAccessToken, AcquireLease, WaitForRefresh, ReadUnderLease, ReleaseLease,
         database, provider
<1>4. Moves(s) /\ LeaseMoves(s)
  <2>1. CASE RefreshAccessToken(s)
    <3>1. lease' = lease
      BY <2>1 DEF RefreshAccessToken, database
    <3>2. End(s) \/ Got(s, creds.auth.access) \/ Goto(s, "acquire")
      BY <2>1 DEF RefreshAccessToken
    <3>3. Moves(s) /\ slot'[s].at # "reread"
      BY <1>1, <1>2, <3>2, EndMoves, GotMoves, GotoMoves
    <3> QED BY <3>1, <3>3 DEF LeaseMoves
  <2>2. CASE AcquireLease(s)
    <3>1. \/ lease' = lease /\ (End(s) \/ Goto(s, "wait"))
          \/ LeaseFree /\ lease' = [owner |-> s, expired |-> FALSE] /\ Goto(s, "reread")
      BY <2>2 DEF AcquireLease
    <3>2. CASE lease' = lease /\ (End(s) \/ Goto(s, "wait"))
      <4>1. Moves(s) /\ slot'[s].at # "reread"
        BY <1>1, <1>2, <3>2, EndMoves, GotoMoves
      <4> QED BY <3>2, <4>1 DEF LeaseMoves
    <3>3. CASE LeaseFree /\ lease' = [owner |-> s, expired |-> FALSE] /\ Goto(s, "reread")
      <4>1. Moves(s)
        BY <1>1, <1>2, <3>3, GotoMoves
      <4> QED BY <3>3, <4>1 DEF LeaseMoves
    <3> QED BY <3>1, <3>2, <3>3
  <2>3. CASE WaitForRefresh(s)
    <3>1. lease' = lease
      BY <2>3 DEF WaitForRefresh, database
    <3>2. End(s) \/ Got(s, creds.auth.access)
      BY <2>3 DEF WaitForRefresh
    <3>3. Moves(s) /\ slot'[s].at # "reread"
      BY <1>1, <3>2, EndMoves, GotMoves
    <3> QED BY <3>1, <3>3 DEF LeaseMoves
  <2>4. CASE ReadUnderLease(s)
    <3> DEFINE h == [slot[s] EXCEPT !.at = "app", !.auth = creds.auth]
    <3>1. lease' = lease /\ slot[s].at = "reread"
      BY <2>4 DEF ReadUnderLease, database
    <3>2. Release(s, 0) \/ Release(s, creds.auth.access) \/ Go(s, h)
      BY <2>4 DEF ReadUnderLease
    <3>3. h.at = "app" /\ h.job = "use" /\ h.auth = creds.auth /\ h.doc = slot[s].doc
      BY <1>1 DEF Slots
    <3> HIDE DEF h
    <3>4. Follows(h, slot[s], creds.auth)
      BY <1>1, <1>2, <3>1, <3>3 DEF Follows
    <3>5. CASE Go(s, h)
      <4>1. Moves(s) /\ slot'[s] = h
        BY <3>4, <3>5, GoMoves
      <4> QED BY <3>1, <3>3, <4>1 DEF LeaseMoves
    <3>6. CASE Release(s, 0) \/ Release(s, creds.auth.access)
      <4>1. Moves(s) /\ slot'[s].at = "release"
        BY <1>1, <3>6, ReleaseMoves
      <4> QED BY <3>1, <4>1 DEF LeaseMoves
    <3> QED BY <3>2, <3>5, <3>6
  <2>5. CASE ReleaseLease(s)
    <3>1. slot[s].at = "release" /\ lease' = (IF lease.owner = s THEN NoLease ELSE lease)
      BY <2>5 DEF ReleaseLease
    <3>2. End(s) \/ Got(s, slot[s].token)
      BY <2>5 DEF ReleaseLease
    <3>3. Moves(s) /\ slot'[s].at # "reread"
      BY <1>1, <3>2, EndMoves, GotMoves
    <3> QED BY <3>1, <3>3 DEF LeaseMoves, Refreshing
  <2> QED BY <2>1, <2>2, <2>3, <2>4, <2>5 DEF Refresh
<1> QED BY <1>3, <1>4, Carry DEF Stores

LEMMA ExchangeRotation ==
  ASSUME Inv, RotationInv, NEW s \in Handlers, Exchange(s)
  PROVE  RotationInv'
<1>1. UNCHANGED <<creds, driver, lease, outlived>> /\ UNCHANGED <<database, outlived>>
  BY DEF Exchange, ResolveApplication, RequestTokens, RequestTokensFails, database
<1>2. ASSUME Fails(s), current' = current PROVE RotationInv'
  <2>1. Moves(s) /\ slot'[s].at # "reread"
    BY <1>2, FailsMoves
  <2> QED BY <1>1, <1>2, <2>1, Carry DEF LeaseMoves, Stores
<1>3. CASE ResolveApplication(s)
  <2>1. current' = current /\ slot[s].at = "app"
    BY <1>3 DEF ResolveApplication, provider
  <2>2. Fails(s) \/ Goto(s, IF slot[s].job = "start" THEN "issue" ELSE "exchange")
    BY <1>3 DEF ResolveApplication
  <2>3. ASSUME Goto(s, IF slot[s].job = "start" THEN "issue" ELSE "exchange") PROVE RotationInv'
    <3>1. (IF slot[s].job = "start" THEN "issue" ELSE "exchange") \in StepsOf(slot[s].job) \ {"read", "write"}
      BY <2>1, JobOfStep DEF StepsOf
    <3>2. Moves(s) /\ slot'[s].at # "reread"
      BY <2>1, <2>3, <3>1, GotoMoves
    <3> QED BY <1>1, <2>1, <3>2, Carry DEF LeaseMoves, Stores
  <2> QED BY <1>2, <2>1, <2>2, <2>3
<1>4. CASE RequestTokens(s) /\ Accepts(s)
  <2>1. PICK v \in NextVersions(s) : Issues(s, v)
    BY <1>4 DEF RequestTokens
  <2> QED BY <1>1, <1>4, <2>1, IssueRotation DEF RequestTokens
<1>5. CASE RequestTokens(s) /\ ~Accepts(s)
  BY <1>2, <1>5 DEF RequestTokens, provider
<1>6. CASE RequestTokensFails(s) /\ UNCHANGED provider
  BY <1>2, <1>6 DEF RequestTokensFails, provider
<1>7. CASE RequestTokensFails(s) /\ ~UNCHANGED provider
  <2>1. PICK g : g = IF slot[s].job = "callback" THEN slot[s].flow ELSE slot[s].auth.grant
    OBVIOUS
  <2>2. PICK v \in NextVersions(s) : current' = [current EXCEPT ![g] = v]
    BY <1>7, <2>1 DEF RequestTokensFails
  <2>3. Answers(s, g, v)
    BY <1>1, <1>7, <2>1, <2>2 DEF RequestTokensFails, Answers
  <2>4. /\ \A r \in Handlers \ {s} : slot'[r] = slot[r]
        /\ slot'[s].at \in {"idle", "release"} /\ slot'[s].job = "use"
        /\ slot'[s].auth = NoAuth /\ slot'[s].doc = NoDocument
    BY <1>7, FailsMoves DEF RequestTokensFails, Moves
  <2> QED BY <2>3, <2>4, LostRotation
<1> QED BY <1>3, <1>4, <1>5, <1>6, <1>7 DEF Exchange

LEMMA PatchRotation ==
  ASSUME Inv, RotationInv, NEW s \in Handlers, Patch(s)
  PROVE  RotationInv'
<1>1. slot[s] \in Slots /\ slot[s].doc \in Documents
  BY DEF Inv, TypeOK, Slots
<1>2. UNCHANGED <<driver, lease, current, outlived>>
  BY DEF Patch, ReadCredentials, WriteCredentials, database, provider
<1>3. CASE ReadCredentials(s)
  <2> DEFINE h == [slot[s] EXCEPT !.at = "write", !.doc = creds]
  <2>1. h.at = "write" /\ h.job = slot[s].job /\ h.auth = slot[s].auth /\ h.doc = creds
    BY <1>1 DEF Slots
  <2>2. Go(s, h) /\ creds' = creds /\ slot[s].at = "read"
    BY <1>3 DEF ReadCredentials, database
  <2> HIDE DEF h
  <2>3. "write" \in StepsOf(slot[s].job) /\ (slot[s].job = "disconnect" => slot[s].auth = NoAuth)
    BY <2>2, JobOfStep DEF StepsOf, Jobs
  <2>4. Follows(h, slot[s], creds.auth)
    BY <2>1, <2>2, <2>3 DEF Follows
  <2>5. Moves(s) /\ slot'[s].at # "reread"
    BY <2>1, <2>2, <2>4, GoMoves
  <2> QED BY <1>2, <2>2, <2>5, Carry DEF LeaseMoves, Stores
<1>4. CASE WriteCredentials(s)
  <2>1. Fails(s) \/ End(s) \/ (Release(s, slot[s].token) /\ slot[s].job = "use")
    BY <1>4 DEF WriteCredentials
  <2>2. Moves(s) /\ slot'[s].at \in {"idle", "release"}
    BY <2>1, FailsMoves, EndMoves, ReleaseMoves
  <2>3. Patched(slot[s].doc, slot[s].auth).auth = slot[s].auth
    BY <1>1 DEF Patched, Documents
  <2>4. creds' = creds \/ creds'.auth = slot[s].auth
    BY <1>4, <2>3 DEF WriteCredentials
  <2> QED BY <1>2, <2>2, <2>4, Carry DEF LeaseMoves, Stores
<1> QED BY <1>3, <1>4 DEF Patch

LEMMA FlowRotation ==
  ASSUME Inv, RotationInv, NEW s \in Handlers, Flow(s)
  PROVE  RotationInv'
<1>1. UNCHANGED <<creds, driver, lease, current, outlived>>
  BY DEF Flow, Start, IssueState, Callback, ConsumeState, CallbackMount, database, provider
<1>2. (Moves(s) /\ slot'[s].at # "reread") \/ slot' = slot
  <2>1. CASE Start(s)
    <3> DEFINE h == [Idle EXCEPT !.job = "start", !.at = "app", !.driver = driver]
    <3>1. h.job = "start" /\ h.at = "app" /\ h.auth = NoAuth /\ h.doc = NoDocument
      BY DEF Idle
    <3>2. Go(s, h)
      BY <2>1 DEF Start
    <3> HIDE DEF h
    <3>3. h.at \in StepsOf(h.job)
      BY <3>1 DEF StepsOf
    <3> QED BY <3>1, <3>2, <3>3, StartMoves
  <2>2. CASE IssueState(s)
    BY <2>2, EndMoves DEF IssueState
  <2>3. CASE Callback(s)
    <3>1. slot' = slot \/ \E g \in Grants :
            Go(s, [Idle EXCEPT !.job = "callback", !.at = "consume",
                               !.driver = flows[g].driver, !.flow = g])
      BY <2>3 DEF Callback
    <3>2. ASSUME NEW g \in Grants,
                 Go(s, [Idle EXCEPT !.job = "callback", !.at = "consume",
                                    !.driver = flows[g].driver, !.flow = g])
          PROVE  Moves(s) /\ slot'[s].at # "reread"
      <4> DEFINE h == [Idle EXCEPT !.job = "callback", !.at = "consume",
                                   !.driver = flows[g].driver, !.flow = g]
      <4>1. h.job = "callback" /\ h.at = "consume" /\ h.auth = NoAuth /\ h.doc = NoDocument
        BY DEF Idle
      <4>2. Go(s, h)
        BY <3>2
      <4> HIDE DEF h
      <4>3. h.at \in StepsOf(h.job)
        BY <4>1 DEF StepsOf
      <4> QED BY <4>1, <4>2, <4>3, StartMoves
    <3> QED BY <3>1, <3>2
  <2>4. CASE ConsumeState(s)
    <3>1. slot[s].job = "callback" /\ "mount" \in StepsOf("callback")
      BY <2>4, JobOfStep DEF ConsumeState, StepsOf
    <3>2. Goto(s, "mount") \/ End(s)
      BY <2>4 DEF ConsumeState
    <3> QED BY <3>1, <3>2, GotoMoves, EndMoves
  <2>5. CASE CallbackMount(s)
    <3>1. slot[s].job = "callback" /\ "app" \in StepsOf("callback")
      BY <2>5, JobOfStep DEF CallbackMount, StepsOf
    <3>2. Goto(s, "app") \/ End(s)
      BY <2>5 DEF CallbackMount
    <3> QED BY <3>1, <3>2, GotoMoves, EndMoves
  <2> QED BY <2>1, <2>2, <2>3, <2>4, <2>5 DEF Flow
<1>3. CASE Moves(s) /\ slot'[s].at # "reread"
  BY <1>1, <1>3, Carry DEF LeaseMoves, Stores
<1>4. CASE slot' = slot
  BY <1>1, <1>4 DEF RotationInv, JobInv, IssuedInv, LeaseInv, LatestInv, ConsentInv, InTime,
                    Refreshing, Saving
<1> QED BY <1>2, <1>3, <1>4

LEMMA AdministerRotation ==
  ASSUME Inv, RotationInv, NEW s \in Handlers, Administer(s)
  PROVE  RotationInv'
<1>1. slot[s] \in Slots /\ creds \in Documents /\ NoDocument.auth = NoAuth
  BY DEF Inv, TypeOK, NoDocument
<1>2. UNCHANGED <<current, outlived>>
  BY DEF Administer, Disconnect, DropCredentials, Edit, EditCredentials, PrepareMountUpdate,
         WriteMount, Delete, DeleteMount, provider
<1>3. Moves(s) /\ slot'[s].at # "reread" /\ (creds' = creds \/ slot'[s].at = "idle")
  <2>1. CASE Disconnect(s)
    <3> DEFINE h == [Idle EXCEPT !.job = "disconnect", !.at = IF driver \in OAuthDrivers THEN "read" ELSE "drop"]
    <3>1. h.job = "disconnect" /\ h.at \in {"read", "drop"} /\ h.auth = NoAuth /\ h.doc = NoDocument
      BY DEF Idle
    <3>2. Go(s, h) /\ creds' = creds
      BY <2>1 DEF Disconnect, database
    <3> HIDE DEF h
    <3>3. h.at \in StepsOf(h.job)
      BY <3>1 DEF StepsOf
    <3> QED BY <3>1, <3>2, <3>3, StartMoves
  <2>2. CASE Edit(s)
    <3>1. PICK target, given :
            Go(s, [Idle EXCEPT !.job = "edit", !.at = "creds", !.driver = driver,
                               !.target = target, !.given = given])
      BY <2>2 DEF Edit
    <3> DEFINE h == [Idle EXCEPT !.job = "edit", !.at = "creds", !.driver = driver,
                                 !.target = target, !.given = given]
    <3>2. h.job = "edit" /\ h.at = "creds" /\ h.auth = NoAuth /\ h.doc = NoDocument
      BY DEF Idle
    <3>3. Go(s, h) /\ creds' = creds
      BY <2>2, <3>1 DEF Edit, database
    <3> HIDE DEF h
    <3>4. h.at \in StepsOf(h.job)
      BY <3>2 DEF StepsOf
    <3> QED BY <3>2, <3>3, <3>4, StartMoves
  <2>3. CASE Delete(s)
    <3> DEFINE h == [Idle EXCEPT !.job = "delete", !.at = "delete"]
    <3>1. h.job = "delete" /\ h.at = "delete" /\ h.auth = NoAuth /\ h.doc = NoDocument
      BY DEF Idle
    <3>2. Go(s, h) /\ creds' = creds
      BY <2>3 DEF Delete, database
    <3> HIDE DEF h
    <3>3. h.at \in StepsOf(h.job)
      BY <3>1 DEF StepsOf
    <3> QED BY <3>1, <3>2, <3>3, StartMoves
  <2>4. CASE EditCredentials(s)
    <3> DEFINE d == ForUpdate(slot[s], creds)
               b == slot[s].given \/ Selected(slot[s]) # slot[s].driver
               h == [slot[s] EXCEPT !.at = "prepare", !.doc = d, !.given = b]
    <3>1. d.auth \in {creds.auth, NoAuth}
      <4>1. \A doc \in Documents : /\ [doc EXCEPT !.app = TRUE].auth = doc.auth
                                  /\ [doc EXCEPT !.provider = TRUE].auth = doc.auth
        BY DEF Documents
      <4> QED BY <1>1, <4>1, ValueTypes DEF ForUpdate
    <3>2. h.at = "prepare" /\ h.auth = slot[s].auth /\ h.doc = d /\ h.job = slot[s].job
      BY <1>1 DEF Slots
    <3>3. Go(s, h) /\ creds' = creds
      BY <2>4 DEF EditCredentials, database
    <3>4. slot[s].job = "edit" /\ "prepare" \in StepsOf("edit")
      BY <2>4, JobOfStep DEF EditCredentials, StepsOf
    <3> HIDE DEF d, h
    <3>5. Follows(h, slot[s], creds.auth)
      BY <3>1, <3>2, <3>4 DEF Follows
    <3> QED BY <3>2, <3>3, <3>5, GoMoves
  <2>5. CASE PrepareMountUpdate(s)
    <3> DEFINE e == IF slot[s].target = NoDriver THEN driver ELSE slot[s].target
               h == [slot[s] EXCEPT !.at = "write", !.driver = NoDriver, !.target = e]
    <3>1. h.at = "write" /\ h.auth = slot[s].auth /\ h.doc = slot[s].doc /\ h.job = slot[s].job
      BY <1>1 DEF Slots
    <3>2. (End(s) \/ Go(s, h)) /\ creds' = creds
      BY <2>5 DEF PrepareMountUpdate, database
    <3>3. slot[s].job = "edit" /\ "write" \in StepsOf("edit")
      BY <2>5, JobOfStep DEF PrepareMountUpdate, StepsOf
    <3> HIDE DEF h
    <3>4. CASE Go(s, h)
      BY <3>1, <3>2, <3>3, <3>4, StepMoves
    <3> QED BY <3>2, <3>4, EndMoves
  <2>6. CASE DropCredentials(s) \/ WriteMount(s) \/ DeleteMount(s)
    BY <2>6, EndMoves DEF DropCredentials, WriteMount, DeleteMount
  <2> QED BY <2>1, <2>2, <2>3, <2>4, <2>5, <2>6 DEF Administer
<1>4. Stores(s)
  <2>1. CASE DropCredentials(s) \/ DeleteMount(s)
    BY <1>1, <1>3, <2>1 DEF DropCredentials, DeleteMount, Stores
  <2>2. CASE WriteMount(s)
    BY <1>3, <2>2 DEF WriteMount, Stores
  <2>3. CASE Disconnect(s) \/ Edit(s) \/ EditCredentials(s) \/ PrepareMountUpdate(s) \/ Delete(s)
    BY <2>3 DEF Disconnect, Edit, EditCredentials, PrepareMountUpdate, Delete, database, Stores
  <2> QED BY <2>1, <2>2, <2>3 DEF Administer
<1>5. LeaseMoves(s) /\ (driver = NoDriver => driver' = NoDriver)
  <2>1. CASE DeleteMount(s)
    BY <2>1 DEF DeleteMount, LeaseMoves
  <2>2. CASE ~DeleteMount(s)
    <3>1. lease' = lease /\ (driver = NoDriver => driver' = NoDriver)
      BY <2>2 DEF Administer, Disconnect, DropCredentials, Edit, EditCredentials, PrepareMountUpdate,
                  WriteMount, Delete, database
    <3> QED BY <1>3, <3>1 DEF LeaseMoves
  <2> QED BY <2>1, <2>2
<1> QED BY <1>2, <1>3, <1>4, <1>5, Carry

LEMMA TimeRotation ==
  ASSUME Inv, RotationInv,
         \/ \E s \in Handlers : Evict(s)
         \/ \E t \in Tokens : TokenExpires(t) \/ TokenRefused(t)
         \/ LeaseExpires \/ StateExpires
  PROVE  RotationInv'
<1>1. ASSUME NEW s \in Handlers, Evict(s) PROVE RotationInv'
  <2>1. Moves(s) /\ slot'[s].at # "reread" /\ UNCHANGED <<creds, driver, lease, current, outlived>>
    BY <1>1, EndMoves DEF Evict, database, provider
  <2> QED BY <2>1, Carry DEF LeaseMoves, Stores
<1>2. CASE LeaseExpires
  <2>1. UNCHANGED <<creds, driver, current, slot>> /\ outlived' = (outlived \/ Refreshing(lease.owner))
    BY <1>2 DEF LeaseExpires, provider
  <2>2. InTime' => InTime /\ ~Refreshing(lease.owner)
    BY <2>1 DEF InTime
  <2>3. JobInv' /\ IssuedInv' /\ ConsentInv'
    BY <2>1 DEF RotationInv, JobInv, IssuedInv, ConsentInv, Saving
  <2>4. LatestInv'
    BY <2>1, <2>2 DEF RotationInv, LatestInv, Saving
  <2>5. LeaseInv'
    BY <2>1, <2>2 DEF RotationInv, LeaseInv, Refreshing
  <2> QED BY <2>3, <2>4, <2>5 DEF RotationInv
<1>3. CASE UNCHANGED <<creds, driver, lease, current, slot, outlived>>
  BY <1>3 DEF RotationInv, JobInv, IssuedInv, LeaseInv, LatestInv, ConsentInv, InTime, Refreshing, Saving
<1>4. ASSUME NEW t \in Tokens, TokenExpires(t) \/ TokenRefused(t) PROVE RotationInv'
  BY <1>3, <1>4 DEF TokenExpires, TokenRefused, database
<1>5. CASE StateExpires
  BY <1>3, <1>5 DEF StateExpires, provider
<1> QED BY <1>1, <1>2, <1>4, <1>5

LEMMA InitRotation == Init => RotationInv
<1> SUFFICES ASSUME Init PROVE RotationInv
  OBVIOUS
<1>1. /\ creds.auth = NoAuth /\ NoDocument.auth = NoAuth
      /\ \A s \in Handlers : slot[s] = Idle
  BY DEF Init, NoDocument
<1>2. /\ Idle.at = "idle" /\ Idle.job = "use" /\ Idle.auth = NoAuth /\ Idle.doc = NoDocument
      /\ "idle" \in StepsOf("use")
  BY DEF Idle, StepsOf
<1>3. Issued(current, NoAuth)
  BY DEF Issued, NoAuth
<1> QED BY <1>1, <1>2, <1>3 DEF RotationInv, JobInv, IssuedInv, LeaseInv, LatestInv, ConsentInv,
                                Refreshing, Saving

LEMMA NextRotation == Inv /\ RotationInv /\ [Next]_vars => RotationInv'
<1> SUFFICES ASSUME Inv, RotationInv, [Next]_vars PROVE RotationInv'
  OBVIOUS
<1>1. CASE UNCHANGED vars
  BY <1>1 DEF vars, database, provider, RotationInv, JobInv, IssuedInv, LeaseInv, LatestInv,
              ConsentInv, InTime, Refreshing, Saving
<1>2. CASE Next
  BY <1>2, RequestRotation, RefreshRotation, ExchangeRotation, PatchRotation, FlowRotation,
     AdministerRotation, TimeRotation DEF Next
<1> QED BY <1>1, <1>2

LEMMA RotationHolds == Spec => []RotationInv
BY InitRotation, NextRotation, InvHolds, PTL DEF Spec

\* What a handler stores is no older than what it replaces, or is an edit.
LEMMA WritesAreNewer ==
  ASSUME Inv, RotationInv, [Next]_vars,
         creds'.auth.grant = creds.auth.grant, creds'.auth.version < creds.auth.version
  PROVE  outlived \/ \E s \in Handlers : slot[s].job = "edit" /\ slot'[s] # slot[s]
<1>1. creds.auth \in Auths /\ \A a \in Auths : a.version \in Nat
  BY DEF Inv, TypeOK, Documents, Auths, Versions
<1>2. creds.auth.version \in Nat /\ Issued(current, creds.auth)
  BY <1>1 DEF RotationInv, IssuedInv
<1>3. creds' # creds
  BY <1>2
<1>4. creds.auth.grant = 0 => creds'.auth.version # 0
  BY <1>2 DEF Issued
<1>5. creds'.auth # NoAuth
  BY <1>2, <1>4 DEF NoAuth
<1>6. PICK s \in Handlers : WriteCredentials(s) \/ DropCredentials(s) \/ WriteMount(s) \/ DeleteMount(s)
  BY <1>3 DEF Next, vars, database, Request, Use, GetAccessToken, Call, Refresh, RefreshAccessToken,
              AcquireLease, WaitForRefresh, ReadUnderLease, ReleaseLease, Exchange, ResolveApplication,
              RequestTokens, RequestTokensFails, Patch, ReadCredentials, Flow, Start, IssueState,
              Callback, ConsumeState, CallbackMount, Administer, Disconnect, Edit, EditCredentials,
              PrepareMountUpdate, Delete, Evict, TokenExpires, TokenRefused, LeaseExpires, StateExpires
<1>7. NoDocument.auth = NoAuth
  BY DEF NoDocument
<1>8. CASE DropCredentials(s) \/ DeleteMount(s)
  BY <1>5, <1>7, <1>8 DEF DropCredentials, DeleteMount
<1>9. CASE WriteMount(s)
  <2>1. slot'[s] = Idle
    BY <1>9, EndMoves DEF WriteMount
  <2>2. slot[s].job = "edit" /\ Idle.job = "use"
    BY <1>9 DEF WriteMount, Idle
  <2> QED BY <2>1, <2>2
<1>10. CASE WriteCredentials(s)
  <2>1. /\ slot[s].doc \in Documents /\ slot[s].auth \in Auths
        /\ slot[s].job \in {"use", "callback", "disconnect"}
    BY <1>10 DEF Inv, TypeOK, Slots, WriteCredentials
  <2>2. Patched(slot[s].doc, slot[s].auth).auth = slot[s].auth
    BY <2>1 DEF Patched, Documents
  <2>3. driver # NoDriver /\ creds'.auth = slot[s].auth
    BY <1>3, <1>10, <2>2 DEF WriteCredentials
  <2>4. slot[s].job # "disconnect"
    BY <1>5, <2>3, JobOfStep
  <2>5. creds.auth.grant # 0 => creds.auth.version <= current[creds.auth.grant]
    BY <1>2 DEF Issued
  <2>6. CASE slot[s].job = "callback"
    <3>1. creds.auth.grant # slot[s].auth.grant
      BY <1>10, <2>6 DEF WriteCredentials, Saving, RotationInv, ConsentInv, Alone
    <3> QED BY <2>3, <3>1
  <2>7. CASE slot[s].job = "use" /\ ~outlived
    <3>1. slot[s].auth.grant # 0 /\ slot[s].auth.version = current[slot[s].auth.grant]
      BY <1>10, <2>3, <2>7 DEF WriteCredentials, Saving, RotationInv, LatestInv, InTime
    <3>2. creds.auth.version <= creds'.auth.version
      BY <2>3, <2>5, <3>1
    <3>3. creds'.auth.version \in Nat
      BY <1>1, <2>1, <2>3
    <3> QED BY <1>2, <3>2, <3>3
  <2> QED BY <2>1, <2>4, <2>6, <2>7
<1> QED BY <1>6, <1>8, <1>9, <1>10

\* A refresh token that was rotated is never replaced by an older one of its consent, but by
\* a refresh that outlived its lease or by an edit of the mount: whatever number of
\* requests refresh, however their answers are lost, and whoever disconnects meanwhile.
THEOREM RotatedTokensSurvive == Spec => RotationsSurvive
<1>1. Inv /\ RotationInv /\ [Next]_vars =>
        [creds'.auth.grant = creds.auth.grant /\ creds'.auth.version < creds.auth.version
         => outlived \/ \E s \in Handlers : slot[s].job = "edit" /\ slot'[s] # slot[s]]_vars
  BY WritesAreNewer
<1> QED BY <1>1, InvHolds, RotationHolds, PTL DEF Spec, RotationsSurvive
=============================================================================
