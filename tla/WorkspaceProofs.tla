-------------------------- MODULE WorkspaceProofs --------------------------
(* What holds of Workspace for every number of people, workspaces, accounts  *)
(* and requests: its types, and the four invariants the run checks.  The     *)
(* inductive invariant WsInv adds to them what a request in progress knows:  *)
(* the time it took is not ahead of the clock, what it saw deleted stays     *)
(* deleted, a deletion that saw none has a time that does not lie after the  *)
(* first deletion, and one that has looked for the accounts to disconnect    *)
(* has found every connected one but those written since.                    *)
EXTENDS Workspace, TLAPS

\* The places of a handler that works on a workspace.
Working == {"load", "stamp", "select", "cut", "signOut", "consent", "exchange",
            "pages", "update", "insertAccount", "subscribe", "remove"}

\* Those of them from the read of the workspace to the COMMIT of its deletion.
Deleting == {"stamp", "select", "cut"}

Found(q) ==
  q.pc = "cut" => \A g \in IgUsers :
    accounts[q.tenant][g] = "live" =>
      g \in q.rows \cup q.cut \/ <<q.tenant, g>> \in lateLinks

ReqOK(q) ==
  /\ q \in Request
  /\ q.now <= clock
  /\ \A t \in q.seesDeleted : Deleted(t)
  /\ q.op = "callback" \/ q.pc \in Working => q.tenant \in Tenants
  /\ q.pc \notin {"idle", "auth", "ctx"} => q.now # 0 /\ q.tenant \notin q.seesDeleted
  /\ q.pc \in Deleting /\ ~q.already =>
       \/ tenants[q.tenant].gone = 0
       \/ q.now <= tenants[q.tenant].gone
  /\ q.pc \in Deleting /\ q.already => Deleted(q.tenant)
  /\ Found(q)

ReqsInv ==
  /\ requests \in [Requests -> Request]
  /\ \A r \in Requests : ReqOK(requests[r])

PeopleInv ==
  /\ auth \in [Users -> {"none", "pending", "out", "in"}]
  /\ users \subseteq Users
  /\ tabs \in [Users -> Tab]
  /\ wsEnv \in WsScenarios

TablesInv ==
  /\ tenants \in [Tenants -> Tenant]
  /\ members \subseteq Member
  /\ accounts \in [Tenants -> [IgUsers -> Account]]
  /\ lateLinks \subseteq Tenants \X IgUsers
  /\ clock \in 1..MaxClock

StampsInv ==
  \A t \in Tenants :
    /\ tenants[t].deletedAt = tenants[t].requestedAt
    /\ tenants[t].deletedAt <= tenants[t].gone
    /\ tenants[t].deletedAt = 0 => tenants[t].gone = 0
    /\ tenants[t].gone <= clock

DataInv == TablesInv /\ OneWorkspaceEach /\ StampsInv /\ DeletionCutsAccounts

WsInv == ReqsInv /\ PeopleInv /\ DataInv

\* What a step may do to the facts a request rests on.
Onwards ==
  /\ clock \in Nat /\ clock' \in Nat /\ clock <= clock'
  /\ \A t \in Tenants :
       /\ Deleted(t) => Deleted(t)'
       /\ \/ tenants'[t].gone = tenants[t].gone
          \/ tenants[t].gone = 0 /\ tenants'[t].gone = clock'
  /\ \A t \in Tenants, g \in IgUsers :
       Looked(t) /\ accounts'[t][g] = "live" /\ <<t, g>> \notin lateLinks'
         => accounts[t][g] = "live" /\ <<t, g>> \notin lateLinks

Tables == <<tenants, members, accounts, lateLinks, clock>>

-----------------------------------------------------------------------------
(* Lemmas.                                                                   *)

LEMMA IdleIsARequest == Idle \in Request
<1>1. (CHOOSE u \in Users : TRUE) \in Users
  BY WorkspaceAssumption
<1>2. (CHOOSE g \in IgUsers : TRUE) \in IgUsers
  BY WorkspaceAssumption
<1> QED
  BY <1>1, <1>2, WorkspaceAssumption, SMTT(60) DEF Idle, Request, Ops

LEMMA IdleIsOK ==
  ASSUME clock \in Nat
  PROVE  ReqOK(Idle)
BY IdleIsARequest, SMTT(60) DEF ReqOK, Idle, Working, Deleting, Found

\* A request that does not move keeps what it knows.
LEMMA OthersStayOK ==
  ASSUME NEW q, ReqOK(q), TablesInv, Onwards, q.pc = "cut" => Looked(q.tenant)
  PROVE  ReqOK(q)'
<1>1. q \in Request /\ q.now \in Nat /\ q.seesDeleted \subseteq Tenants
  BY SMTT(60) DEF ReqOK, Request
<1>2. q.now <= clock'
  BY <1>1, SMTT(60) DEF ReqOK, Onwards
<1>3. \A t \in q.seesDeleted : Deleted(t)'
  BY <1>1, SMTT(60) DEF ReqOK, Onwards
<1>4. q.pc \in Deleting => q.tenant \in Tenants
  BY DEF ReqOK, Working, Deleting
<1>5. ASSUME q.pc \in Deleting, ~q.already
      PROVE  tenants'[q.tenant].gone = 0 \/ q.now <= tenants'[q.tenant].gone
  BY <1>1, <1>2, <1>4, <1>5, SMTT(60) DEF ReqOK, Onwards
<1>6. q.pc \in Deleting /\ q.already => Deleted(q.tenant)'
  BY <1>4 DEF ReqOK, Onwards
<1>7. Found(q)'
  <2>1. q.pc = "cut" => q.pc \in Deleting
    BY DEF Deleting
  <2> QED BY <1>4, <2>1, SMTT(60) DEF ReqOK, Found, Onwards
<1>8. /\ q.op = "callback" \/ q.pc \in Working => q.tenant \in Tenants
      /\ q.pc \notin {"idle", "auth", "ctx"} => q.now # 0 /\ q.tenant \notin q.seesDeleted
  BY DEF ReqOK
<1> QED
  BY <1>1, <1>2, <1>3, <1>5, <1>6, <1>7, <1>8 DEF ReqOK

\* The requests that do not move, in a step of whichever other.
LEMMA RestStaysOK ==
  ASSUME ReqsInv, TablesInv, Onwards, NEW p \in Requests
  PROVE  ReqOK(requests[p]) /\ requests[p] \in Request
         /\ \A q : q = requests[p] => ReqOK(q)'
<1>1. PICK q : q = requests[p]
  OBVIOUS
<1>2. ReqOK(q) /\ q \in Request
  BY <1>1 DEF ReqsInv
<1>3. q.pc = "cut" => Looked(q.tenant)
  BY <1>1 DEF Looked
<1>4. ReqOK(q)'
  BY <1>2, <1>3, OthersStayOK
<1> QED BY <1>1, <1>2, <1>4

\* A step of one request.
LEMMA OneRequestMoves ==
  ASSUME ReqsInv, TablesInv, Onwards, NEW r \in Requests, NEW q,
         requests' = [requests EXCEPT ![r] = q], ReqOK(q)'
  PROVE  ReqsInv'
<1>1. q \in Request
  BY DEF ReqOK
<1>2. requests' \in [Requests -> Request]
  BY <1>1, SMTT(60) DEF ReqsInv
<1>3. ASSUME NEW p \in Requests
      PROVE  ReqOK(requests[p])'
  <2>1. CASE p = r
    <3>1. requests'[p] = q
      BY <2>1, SMTT(60) DEF ReqsInv
    <3> QED BY <3>1 DEF ReqOK, Found
  <2>2. CASE p # r
    <3>1. requests'[p] = requests[p]
      BY <2>2, SMTT(60) DEF ReqsInv
    <3>2. PICK s : s = requests[p] /\ ReqOK(s)'
      BY RestStaysOK
    <3> QED BY <3>1, <3>2 DEF ReqOK, Found
  <2> QED BY <2>1, <2>2
<1> QED BY <1>2, <1>3 DEF ReqsInv

Pcs == {"idle", "auth", "ctx", "exists", "insert", "load", "stamp", "select",
        "cut", "signOut", "consent", "exchange", "pages", "update",
        "insertAccount", "subscribe", "remove"}

\* A request that goes on to another place, or is answered.
LEMMA GoingOn ==
  ASSUME ReqsInv, TablesInv, Onwards, NEW r \in Requests, NEW pc \in Pcs \ Deleting,
         WsGoto(r, pc),
         pc \in Working => requests[r].tenant \in Tenants,
         pc \notin {"idle", "auth", "ctx"} =>
           requests[r].now # 0 /\ requests[r].tenant \notin requests[r].seesDeleted
  PROVE  ReqsInv'
<1>1. PICK s : s = requests[r] /\ ReqOK(s)'
  BY RestStaysOK
<1>2. PICK q : q = [s EXCEPT !.pc = pc]
  OBVIOUS
<1>3. ReqOK(s) /\ ReqOK(s)'
  BY <1>1 DEF ReqsInv
<1>4. s \in Request
  BY <1>3 DEF ReqOK
<1>5. q \in Request /\ q.pc = pc /\ q.now = s.now /\ q.tenant = s.tenant
      /\ q.op = s.op /\ q.seesDeleted = s.seesDeleted
  BY <1>2, <1>4, SMTT(60) DEF Request, Pcs
<1>6. ReqOK(q)'
  BY <1>1, <1>3, <1>5, SMTT(60) DEF ReqOK, Found, Deleting
<1>7. requests' = [requests EXCEPT ![r] = q]
  BY <1>1, <1>2, SMTT(60) DEF WsGoto, ReqsInv
<1> QED BY <1>6, <1>7, OneRequestMoves

LEMMA Answered ==
  ASSUME ReqsInv, TablesInv, Onwards, NEW r \in Requests, Answer(r)
  PROVE  ReqsInv'
<1>1. PICK q : q = Idle
  OBVIOUS
<1>2. ReqOK(q)'
  BY <1>1, IdleIsARequest, SMTT(60) DEF ReqOK, Idle, Working, Onwards, Deleting, Found
<1>3. requests' = [requests EXCEPT ![r] = q]
  BY <1>1 DEF Answer
<1> QED BY <1>2, <1>3, OneRequestMoves

\* Steps that leave the rows alone.
LEMMA TablesStay ==
  ASSUME DataInv, UNCHANGED Tables
  PROVE  DataInv' /\ Onwards
<1>1. UNCHANGED <<tenants, members, accounts, lateLinks, clock>>
  BY DEF Tables
<1>2. TablesInv' /\ OneWorkspaceEach' /\ StampsInv' /\ DeletionCutsAccounts'
  BY <1>1, SMTT(60) DEF DataInv, TablesInv, OneWorkspaceEach, StampsInv,
     DeletionCutsAccounts, Deleted
<1>3. clock \in Nat
  BY SMTT(60) DEF DataInv, TablesInv, WorkspaceAssumption
<1>4. Onwards
  BY <1>1, <1>3, SMTT(60) DEF Onwards, Deleted
<1> QED BY <1>2, <1>4 DEF DataInv

LEMMA RequestsStay ==
  ASSUME ReqsInv, TablesInv, Onwards, UNCHANGED requests
  PROVE  ReqsInv'
<1>1. ASSUME NEW p \in Requests
      PROVE  ReqOK(requests[p])'
  <2>1. PICK s : s = requests[p] /\ ReqOK(s)'
    BY RestStaysOK
  <2> QED BY <2>1 DEF ReqOK, Found
<1> QED BY <1>1 DEF ReqsInv

LEMMA Visits ==
  ASSUME PeopleInv, NEW u \in Users, NEW q \in Paths, Visit(u, q)
  PROVE  tabs' \in [Users -> Tab]
BY SMTT(60) DEF PeopleInv, Visit, Tab, Paths, PublicPaths

LEMMA TabChanges ==
  ASSUME NEW tab \in Tab, NEW q \in Paths
  PROVE  /\ [tab EXCEPT !.loading = FALSE] \in Tab
         /\ [tab EXCEPT !.path = q, !.returnTo = tab.path] \in Tab
BY ZenonT(60) DEF Tab

-----------------------------------------------------------------------------
(* People.                                                                   *)

People(u) ==
  \/ SignUp(u) \/ Verify(u) \/ SignIn(u) \/ Recover(u) \/ ResetPassword(u)
  \/ SignOut(u) \/ Hop(u) \/ Open(u)

LEMMA PeopleStep ==
  ASSUME WsInv, NEW u \in Users, People(u)
  PROVE  WsInv'
<1> USE DEF WsInv
<1>1. UNCHANGED <<Tables, requests, wsEnv>>
  BY SMTT(60) DEF People, SignUp, Verify, SignIn, Recover, ResetPassword, SignOut,
     Hop, Open, Tables
<1>2. DataInv' /\ ReqsInv'
  BY <1>1, TablesStay, RequestsStay DEF DataInv
<1>3. auth' \in [Users -> {"none", "pending", "out", "in"}]
  BY SMTT(60) DEF People, SignUp, Verify, SignIn, Recover, ResetPassword, SignOut,
     Hop, Open, PeopleInv
<1>4. users' \subseteq Users
  BY SMTT(60) DEF People, SignUp, Verify, SignIn, Recover, ResetPassword, SignOut,
     Hop, Open, PeopleInv
<1>5. tabs' \in [Users -> Tab]
  <2>1. CASE SignUp(u)
    BY <2>1 DEF SignUp, PeopleInv
  <2>2. CASE Verify(u) \/ Recover(u) \/ ResetPassword(u) \/ SignOut(u)
    <3>1. PICK q \in Paths : Visit(u, q)
      BY <2>2, SMTT(60) DEF Verify, Recover, ResetPassword, SignOut, Paths, PublicPaths
    <3> QED BY <3>1, Visits
  <2>3. CASE SignIn(u)
    <3>1. tabs[u].returnTo \in Paths
      BY SMTT(60) DEF PeopleInv, Tab
    <3> QED BY <2>3, <3>1, Visits DEF SignIn
  <2>4. CASE Open(u)
    BY <2>4, Visits DEF Open
  <2>5. CASE Hop(u)
    <3>1. tabs[u] \in Tab /\ tabs[u].path \in Paths
      BY SMTT(60) DEF PeopleInv, Tab
    <3>2. LayoutRedirects(u, tabs[u].path) \subseteq Paths
      <4>1. \/ LayoutRedirects(u, tabs[u].path) = {"dashboard"}
            \/ LayoutRedirects(u, tabs[u].path) = {}
            \/ LayoutRedirects(u, tabs[u].path) = {"deleted"}
            \/ LayoutRedirects(u, tabs[u].path) = {"onboarding"}
        BY ZenonT(60) DEF LayoutRedirects
      <4> QED BY <4>1, SMTT(60) DEF Paths, PublicPaths
    <3>3. PageRedirects(u, tabs[u].path) \subseteq Paths
      <4>1. \/ PageRedirects(u, tabs[u].path) = {"dashboard"}
            \/ PageRedirects(u, tabs[u].path) = {"onboarding"}
            \/ PageRedirects(u, tabs[u].path) = {}
        BY ZenonT(60) DEF PageRedirects
      <4> QED BY <4>1, SMTT(60) DEF Paths, PublicPaths
    <3>4. \/ tabs' = [tabs EXCEPT ![u].loading = FALSE]
          \/ tabs' = [tabs EXCEPT ![u].path = "login", ![u].returnTo = tabs[u].path]
          \/ \E q \in LayoutRedirects(u, tabs[u].path)
                        \cup PageRedirects(u, tabs[u].path) : Visit(u, q)
      BY <2>5, ZenonT(60) DEF Hop
    <3>5. CASE tabs' = [tabs EXCEPT ![u].loading = FALSE]
      <4>1. [tabs[u] EXCEPT !.loading = FALSE] \in Tab
        BY <3>1, TabChanges
      <4>2. tabs' = [tabs EXCEPT ![u] = [tabs[u] EXCEPT !.loading = FALSE]]
        BY <3>5
      <4> QED BY <4>1, <4>2, SMTT(60) DEF PeopleInv
    <3>6. CASE tabs' = [tabs EXCEPT ![u].path = "login", ![u].returnTo = tabs[u].path]
      <4>1. "login" \in Paths
        BY DEF Paths, PublicPaths
      <4>2. [tabs[u] EXCEPT !.path = "login", !.returnTo = tabs[u].path] \in Tab
        BY <3>1, <4>1, TabChanges
      <4>3. PICK tab \in Tab :
              tab = [tabs[u] EXCEPT !.path = "login", !.returnTo = tabs[u].path]
        BY <4>2
      <4>4. tabs' = [tabs EXCEPT ![u] = tab]
        BY <3>6, <4>3
      <4> QED BY <4>4, SMTT(60) DEF PeopleInv
    <3>7. CASE \E q \in LayoutRedirects(u, tabs[u].path)
                          \cup PageRedirects(u, tabs[u].path) : Visit(u, q)
      <4>1. PICK q \in Paths : Visit(u, q)
        BY <3>2, <3>3, <3>7
      <4> QED BY <4>1, Visits
    <3> QED BY <3>4, <3>5, <3>6, <3>7
  <2> QED BY <2>1, <2>2, <2>3, <2>4, <2>5 DEF People
<1> QED BY <1>1, <1>2, <1>3, <1>4, <1>5 DEF PeopleInv

-----------------------------------------------------------------------------
(* Requests that leave the rows of workspaces and accounts alone.            *)

\* Where a request stands, and that one with a workspace works on one that was
\* there when it was sent.
LEMMA RequestFacts ==
  ASSUME WsInv, NEW r \in Requests
  PROVE  /\ requests[r] \in Request /\ ReqOK(requests[r])
         /\ requests[r].user \in Users /\ requests[r].pc \in Pcs
         /\ clock \in Nat \ {0}
<1>1. requests[r] \in Request /\ ReqOK(requests[r])
  BY DEF WsInv, ReqsInv
<1>2. requests[r].user \in Users /\ requests[r].pc \in Pcs
  BY <1>1, ZenonT(60) DEF Request, Pcs
<1>3. clock \in Nat \ {0}
  BY WorkspaceAssumption, SMTT(60) DEF WsInv, DataInv, TablesInv
<1> QED BY <1>1, <1>2, <1>3

\* The workspace a request finds is there, and not deleted.
LEMMA CtxTenantIsLive ==
  ASSUME WsInv, NEW u \in Users
  PROVE  \/ CtxTenant(u) = NoTenant
         \/ CtxTenant(u) \in Tenants /\ ~Deleted(CtxTenant(u))
<1>1. TenantOf(u) \subseteq Tenants
  BY SMTT(60) DEF TenantOf, WsInv, DataInv, TablesInv, Member
<1>2. CASE \E t \in TenantOf(u) : ~Deleted(t)
  <2>1. CtxTenant(u) = CHOOSE t \in TenantOf(u) : ~Deleted(t)
    BY <1>2 DEF CtxTenant
  <2>2. CtxTenant(u) \in TenantOf(u) /\ ~Deleted(CtxTenant(u))
    BY <1>2, <2>1
  <2> QED BY <1>1, <2>2
<1>3. CASE ~\E t \in TenantOf(u) : ~Deleted(t)
  <2>1. CtxTenant(u) = NoTenant
    BY <1>3, ZenonT(60) DEF CtxTenant
  <2> QED BY <2>1
<1> QED BY <1>2, <1>3

LEMMA SubmitStep ==
  ASSUME WsInv, NEW r \in Requests, NEW u \in Users, Submit(r, u)
  PROVE  ReqsInv'
<1>1. UNCHANGED Tables
  BY SMTT(60) DEF Submit, Tables
<1>2. PICK op \in Ops \ {"callback"} :
        requests' = [requests EXCEPT ![r] =
            [Idle EXCEPT !.pc = "auth", !.op = op, !.user = u,
                         !.seesDeleted = {t \in Tenants : Deleted(t)}]]
  BY DEF Submit
<1>3. PICK S \in SUBSET Tenants : S = {t \in Tenants : Deleted(t)}
  OBVIOUS
<1>4. PICK q : q = [Idle EXCEPT !.pc = "auth", !.op = op, !.user = u,
                                !.seesDeleted = S]
  OBVIOUS
<1>5. q \in Request
  <2>1. PICK idle \in Request : idle = Idle
    BY IdleIsARequest
  <2> QED BY <1>4, <2>1, ZenonT(60) DEF Request
<1>6. q.pc = "auth" /\ q.op = op /\ q.now = 0 /\ q.seesDeleted = S
  BY <1>4, SMTT(60) DEF Idle
<1>7. Onwards /\ TablesInv
  BY <1>1, TablesStay DEF WsInv, DataInv
<1>8. ReqOK(q)'
  BY <1>3, <1>5, <1>6, <1>7, SMTT(60) DEF ReqOK, Working, Onwards, Deleting, Found
<1> QED BY <1>2, <1>3, <1>4, <1>7, <1>8, OneRequestMoves DEF WsInv

LEMMA AuthenticateStep ==
  ASSUME WsInv, NEW r \in Requests, Authenticate(r)
  PROVE  ReqsInv' /\ users' \subseteq Users
<1>1. UNCHANGED Tables
  BY DEF Authenticate, Tables
<1>2. Onwards /\ TablesInv /\ ReqsInv /\ PeopleInv
  BY <1>1, TablesStay DEF WsInv, DataInv
<1>3. CASE WsGoto(r, "ctx") /\ users' = users \cup {requests[r].user}
  <2>1. ReqsInv'
    BY <1>2, <1>3, GoingOn, "ctx" \notin Working, "ctx" \in Pcs \ Deleting
       DEF Working, Deleting, Pcs
  <2> QED BY <1>2, <1>3, <2>1, RequestFacts DEF PeopleInv
<1>4. CASE Answer(r) /\ users' = users
  BY <1>2, <1>4, Answered DEF PeopleInv
<1> QED BY <1>3, <1>4 DEF Authenticate

LEMMA ReadCtxStep ==
  ASSUME WsInv, NEW r \in Requests, ReadCtx(r)
  PROVE  ReqsInv'
<1> DEFINE t == CtxTenant(requests[r].user)
<1>1. UNCHANGED Tables
  BY DEF ReadCtx, Tables
<1>2. Onwards /\ TablesInv /\ ReqsInv
  BY <1>1, TablesStay DEF WsInv, DataInv
<1>3. CASE Answer(r)
  BY <1>2, <1>3, Answered
<1>4. ASSUME NEW pc \in Pcs \ (Deleting \cup {"idle", "auth", "ctx"}),
             requests' = [requests EXCEPT ![r].pc = pc, ![r].tenant = t,
                                          ![r].now = clock],
             requests[r].op = "callback" \/ pc \in Working => t # NoTenant
      PROVE  ReqsInv'
  <2>1. PICK s : s = requests[r]
    OBVIOUS
  <2>2. s \in Request /\ ReqOK(s) /\ clock \in 1..MaxClock /\ clock \in Nat \ {0}
    BY <2>1, RequestFacts DEF WsInv, DataInv, TablesInv
  <2>3. PICK to \in Tenants \cup {NoTenant} : to = t
    BY CtxTenantIsLive, RequestFacts
  <2>4. to = NoTenant \/ (to \in Tenants /\ ~Deleted(to))
    BY <2>3, CtxTenantIsLive, RequestFacts
  <2>5. PICK q : q = [s EXCEPT !.pc = pc, !.tenant = to, !.now = clock]
    OBVIOUS
  <2>6. clock \in 0..MaxClock
    BY <2>2, WorkspaceAssumption, SMTT(60)
  <2>7. q \in Request
    BY <2>2, <2>5, <2>6, ZenonT(60) DEF Request, Pcs
  <2>8. q.pc = pc /\ q.tenant = to /\ q.now = clock /\ q.op = s.op
        /\ q.seesDeleted = s.seesDeleted
    BY <2>2, <2>5, SMTT(60) DEF Request
  <2>9. \A d \in s.seesDeleted : Deleted(d) /\ d \in Tenants
    BY <2>2, SMTT(60) DEF ReqOK, Request
  <2>10. to \notin s.seesDeleted
    BY <2>4, <2>9, WorkspaceAssumption
  <2>11. ReqOK(q)'
    BY <1>1, <1>4, <2>1, <2>2, <2>3, <2>4, <2>7, <2>8, <2>9, <2>10, SMTT(60)
       DEF ReqOK, Tables, Deleted, Found, Deleting
  <2>12. requests' = [requests EXCEPT ![r] = q]
    BY <1>4, <2>1, <2>3, <2>5, ZenonT(60)
  <2> QED BY <1>2, <2>11, <2>12, OneRequestMoves
<1> QED
  <2>1. requests[r].op \in Ops /\ ReqOK(requests[r])
    BY RequestFacts, ZenonT(60) DEF Request
  <2>2. requests[r].op = "callback" => requests[r].tenant \in Tenants
    BY <2>1 DEF ReqOK
  <2> DEFINE goes(pc) == requests' = [requests EXCEPT ![r].pc = pc, ![r].tenant = t,
                                                      ![r].now = clock]
  <2>3. \/ Answer(r)
        \/ /\ requests[r].op = "create" /\ goes("exists")
        \/ /\ t # NoTenant
           /\ \/ requests[r].op = "delete" /\ goes("load")
              \/ requests[r].op = "start" /\ goes("consent")
              \/ requests[r].op = "disconnect" /\ goes("remove")
        \/ /\ requests[r].op = "callback" /\ requests[r].tenant = t
           /\ goes("exchange")
    BY <2>1, ZenonT(60) DEF ReadCtx, ReadOnly, StateFits, Ops
  <2>4. {"exists", "load", "consent", "remove", "exchange"}
          \subseteq Pcs \ (Deleting \cup {"idle", "auth", "ctx"})
        /\ "exists" \notin Working
    BY SMTT(60) DEF Pcs, Working, Deleting
  <2>5. CASE requests[r].op = "create" /\ goes("exists")
    BY <1>4, <2>4, <2>5
  <2>6. CASE t # NoTenant /\ \E pc \in {"load", "consent", "remove"} : goes(pc)
    BY <1>4, <2>4, <2>6
  <2>7. CASE requests[r].op = "callback" /\ requests[r].tenant = t /\ goes("exchange")
    BY <1>4, <2>2, <2>4, <2>7, WorkspaceAssumption
  <2> QED
    BY <1>3, <2>3, <2>5, <2>6, <2>7

\* The other steps of requests that change no row.
Quiet(r) ==
  \/ HasExistingTenant(r) \/ LoadTenant(r) \/ StampTenant(r) \/ SelectAccounts(r)
  \/ CutAccount(r) \/ DeletionFails(r) \/ EndSession(r) \/ Consent(r)
  \/ Exchange(r) \/ NextPage(r) \/ Subscribe(r) \/ Abandon(r)

LEMMA LoadTenantStep ==
  ASSUME WsInv, NEW r \in Requests, LoadTenant(r)
  PROVE  ReqsInv'
<1>1. UNCHANGED Tables
  BY DEF LoadTenant, Tables
<1>2. Onwards /\ TablesInv /\ ReqsInv /\ StampsInv
  BY <1>1, TablesStay DEF WsInv, DataInv
<1>3. PICK s : s = requests[r]
  OBVIOUS
<1>4. s \in Request /\ ReqOK(s) /\ s.pc = "load"
  BY <1>3, RequestFacts DEF LoadTenant
<1>5. PICK b \in BOOLEAN : b = Deleted(s.tenant)
  BY DEF Deleted
<1>6. PICK pc \in {"stamp", "select"} : pc = IF b THEN "select" ELSE "stamp"
  OBVIOUS
<1>13. PICK q : q = [s EXCEPT !.already = b, !.pc = pc]
  OBVIOUS
<1>7. q \in Request
  BY <1>4, <1>13, ZenonT(60) DEF Request
<1>8. q.pc = pc /\ (q.already <=> b) /\ q.now = s.now /\ q.op = s.op
      /\ q.tenant = s.tenant /\ q.seesDeleted = s.seesDeleted
  BY <1>4, <1>13, ZenonT(60) DEF Request
<1>9. s.tenant \in Tenants /\ s.now # 0 /\ s.tenant \notin s.seesDeleted
  BY <1>4 DEF ReqOK, Working
<1>10. ~q.already => tenants[q.tenant].gone = 0
  <2>1. ASSUME ~q.already PROVE tenants[s.tenant].deletedAt = 0
    BY <1>5, <1>8, <2>1, ZenonT(60) DEF Deleted
  <2>2. tenants[s.tenant].deletedAt = 0 => tenants[s.tenant].gone = 0
    BY <1>2, <1>9 DEF StampsInv
  <2> QED BY <1>8, <2>1, <2>2
<1>14. q.already => Deleted(q.tenant)
  BY <1>5, <1>8
<1>11. ReqOK(q)'
  BY <1>1, <1>4, <1>6, <1>7, <1>8, <1>9, <1>10, <1>14, SMTT(60)
     DEF ReqOK, Tables, Deleted, Working, Found
<1>12. requests' = [requests EXCEPT ![r] = q]
  BY <1>3, <1>5, <1>6, <1>13, ZenonT(60) DEF LoadTenant
<1> QED BY <1>2, <1>11, <1>12, OneRequestMoves

\* A statement of the transaction of a deletion: the request goes on, and keeps
\* what it knows of its workspace.
LEMMA DeletionGoesOn ==
  ASSUME WsInv, NEW r \in Requests, UNCHANGED Tables,
         requests[r].pc \in Deleting,
         NEW pc \in {"select", "cut"}, NEW rows \in SUBSET IgUsers,
         NEW cut \in SUBSET IgUsers,
         requests' = [requests EXCEPT ![r] =
           [requests[r] EXCEPT !.pc = pc, !.rows = rows, !.cut = cut]],
         pc = "cut" =>
           \A g \in IgUsers : accounts[requests[r].tenant][g] = "live" =>
             g \in rows \cup cut \/ <<requests[r].tenant, g>> \in lateLinks
  PROVE  ReqsInv'
<1>1. Onwards /\ TablesInv /\ ReqsInv
  BY TablesStay DEF WsInv, DataInv
<1>2. PICK s : s = requests[r]
  OBVIOUS
<1>3. s \in Request /\ ReqOK(s) /\ s.pc \in Deleting
  BY <1>2, RequestFacts
<1>4. PICK q : q = [s EXCEPT !.pc = pc, !.rows = rows, !.cut = cut]
  OBVIOUS
<1>5. q \in Request
  BY <1>3, <1>4, ZenonT(60) DEF Request
<1>6. /\ q.pc = pc /\ (q.already <=> s.already) /\ q.now = s.now /\ q.op = s.op
      /\ q.tenant = s.tenant /\ q.seesDeleted = s.seesDeleted
      /\ q.rows = rows /\ q.cut = cut
  BY <1>3, <1>4, ZenonT(60) DEF Request
<1>7. s.tenant \in Tenants /\ s.now # 0 /\ s.tenant \notin s.seesDeleted
  BY <1>3 DEF ReqOK, Working, Deleting
<1>8. Found(q)
  BY <1>2, <1>6 DEF Found
<1>9. ReqOK(q)
  BY <1>3, <1>5, <1>6, <1>7, <1>8, SMTT(60) DEF ReqOK, Deleting
<1>10. UNCHANGED <<tenants, members, accounts, lateLinks, clock>>
  BY DEF Tables
<1>11. ReqOK(q)'
  BY <1>9, <1>10 DEF ReqOK, Found, Deleted
<1>12. requests' = [requests EXCEPT ![r] = q]
  BY <1>2, <1>4
<1> QED BY <1>1, <1>11, <1>12, OneRequestMoves

\* UPDATE tenants, SELECT the connected accounts, and UPDATE one of them.
LEMMA DeletionStep ==
  ASSUME WsInv, NEW r \in Requests,
         StampTenant(r) \/ SelectAccounts(r) \/ CutAccount(r)
  PROVE  ReqsInv'
<1>1. UNCHANGED Tables
  BY DEF StampTenant, SelectAccounts, CutAccount, Tables
<1>2. PICK s : s = requests[r]
  OBVIOUS
<1>3. s \in Request /\ ReqOK(s)
  BY <1>2, RequestFacts
<1>4. s.rows \in SUBSET IgUsers /\ s.cut \in SUBSET IgUsers
  BY <1>3, ZenonT(60) DEF Request
<1>5. CASE StampTenant(r)
  <2>1. s.pc = "stamp" /\ requests' = [requests EXCEPT ![r].pc = "select"]
    BY <1>2, <1>5 DEF StampTenant, WsGoto
  <2>2. [s EXCEPT !.pc = "select"]
          = [s EXCEPT !.pc = "select", !.rows = s.rows, !.cut = s.cut]
    BY <1>3, ZenonT(60) DEF Request
  <2>3. requests' = [requests EXCEPT ![r] =
          [requests[r] EXCEPT !.pc = "select", !.rows = s.rows, !.cut = s.cut]]
    BY <1>2, <2>1, <2>2, ZenonT(60)
  <2>4. requests[r].pc \in Deleting
    BY <1>2, <2>1 DEF Deleting
  <2> QED BY <1>1, <1>4, <2>3, <2>4, DeletionGoesOn
<1>6. CASE SelectAccounts(r)
  <2>1. PICK rows \in SUBSET IgUsers :
          rows = {g \in IgUsers : accounts[requests[r].tenant][g] = "live"}
    OBVIOUS
  <2>2. s.pc = "select"
        /\ requests' = [requests EXCEPT ![r].pc = "cut", ![r].rows = rows]
    BY <1>2, <1>6, <2>1 DEF SelectAccounts
  <2>3. [s EXCEPT !.pc = "cut", !.rows = rows]
          = [s EXCEPT !.pc = "cut", !.rows = rows, !.cut = s.cut]
    BY <1>3, ZenonT(60) DEF Request
  <2>4. requests' = [requests EXCEPT ![r] =
          [requests[r] EXCEPT !.pc = "cut", !.rows = rows, !.cut = s.cut]]
    BY <1>2, <2>2, <2>3, ZenonT(60)
  <2>5. requests[r].pc \in Deleting
    BY <1>2, <2>2 DEF Deleting
  <2> QED BY <1>1, <1>4, <2>1, <2>4, <2>5, DeletionGoesOn
<1>7. CASE CutAccount(r)
  <2>1. PICK g \in s.rows :
          requests' = [requests EXCEPT ![r].rows = @ \ {g}, ![r].cut = @ \cup {g}]
    BY <1>2, <1>7 DEF CutAccount
  <2>2. s.pc = "cut"
    BY <1>2, <1>7 DEF CutAccount
  <2>3. PICK rows \in SUBSET IgUsers, cut \in SUBSET IgUsers :
          rows = s.rows \ {g} /\ cut = s.cut \cup {g}
    BY <1>4, <2>1
  <2>4. [s EXCEPT !.rows = rows, !.cut = cut]
          = [s EXCEPT !.pc = "cut", !.rows = rows, !.cut = cut]
    BY <1>3, <2>2, ZenonT(60) DEF Request
  <2>5. requests' = [requests EXCEPT ![r] =
          [requests[r] EXCEPT !.pc = "cut", !.rows = rows, !.cut = cut]]
    BY <1>2, <2>1, <2>3, <2>4, ZenonT(60)
  <2>6. \A h \in IgUsers : accounts[requests[r].tenant][h] = "live" =>
          h \in rows \cup cut \/ <<requests[r].tenant, h>> \in lateLinks
    BY <1>2, <1>3, <2>2, <2>3 DEF ReqOK, Found
  <2>7. requests[r].pc \in Deleting
    BY <1>2, <2>2 DEF Deleting
  <2> QED BY <1>1, <2>5, <2>6, <2>7, DeletionGoesOn
<1> QED BY <1>5, <1>6, <1>7

LEMMA ConsentStep ==
  ASSUME WsInv, NEW r \in Requests, Consent(r)
  PROVE  ReqsInv'
<1>1. UNCHANGED Tables
  BY DEF Consent, Tables
<1>2. Onwards /\ TablesInv /\ ReqsInv
  BY <1>1, TablesStay DEF WsInv, DataInv
<1>3. CASE Answer(r)
  BY <1>2, <1>3, Answered
<1>4. CASE requests' = [requests EXCEPT ![r].pc = "auth", ![r].op = "callback",
                          ![r].seesDeleted = {t \in Tenants : Deleted(t)}]
  <2>1. PICK s : s = requests[r]
    OBVIOUS
  <2>2. s \in Request /\ ReqOK(s) /\ s.pc = "consent"
    BY <2>1, RequestFacts DEF Consent
  <2>3. PICK S \in SUBSET Tenants : S = {t \in Tenants : Deleted(t)}
    OBVIOUS
  <2>4. PICK q : q = [s EXCEPT !.pc = "auth", !.op = "callback", !.seesDeleted = S]
    OBVIOUS
  <2>5. q \in Request
    BY <2>2, <2>4, ZenonT(60) DEF Request, Ops
  <2>6. q.pc = "auth" /\ q.now = s.now /\ q.tenant = s.tenant /\ q.seesDeleted = S
    BY <2>2, <2>4, ZenonT(60) DEF Request
  <2>7. s.tenant \in Tenants
    BY <2>2 DEF ReqOK, Working
  <2>8. ReqOK(q)'
    BY <1>1, <2>2, <2>3, <2>5, <2>6, <2>7, SMTT(60)
       DEF ReqOK, Tables, Deleted, Found, Deleting
  <2>9. requests' = [requests EXCEPT ![r] = q]
    BY <1>4, <2>1, <2>3, <2>4, ZenonT(60)
  <2> QED BY <1>2, <2>8, <2>9, OneRequestMoves
<1> QED BY <1>3, <1>4 DEF Consent

\* A step to a page of the account list keeps all but the place and the pages.
LEMMA PagesStep ==
  ASSUME WsInv, NEW r \in Requests, Exchange(r) \/ NextPage(r)
  PROVE  ReqsInv'
<1>1. UNCHANGED Tables
  BY DEF Exchange, NextPage, Tables
<1>2. Onwards /\ TablesInv /\ ReqsInv
  BY <1>1, TablesStay DEF WsInv, DataInv
<1>3. PICK s : s = requests[r]
  OBVIOUS
<1>4. s \in Request /\ ReqOK(s) /\ s.pc \in {"exchange", "pages"}
  BY <1>3, RequestFacts DEF Exchange, NextPage
<1>5. s.tenant \in Tenants /\ s.now # 0 /\ s.tenant \notin s.seesDeleted
  BY <1>4 DEF ReqOK, Working
<1>6. ASSUME NEW pc \in {"pages", "update", "insertAccount"}, NEW q \in Request,
             requests' = [requests EXCEPT ![r] = q],
             q.pc = pc, q.now = s.now, q.tenant = s.tenant, q.op = s.op,
             q.seesDeleted = s.seesDeleted
      PROVE  ReqsInv'
  <2>1. ReqOK(q)'
    BY <1>1, <1>4, <1>5, <1>6, SMTT(60) DEF ReqOK, Tables, Deleted, Found, Deleting
  <2> QED BY <1>2, <1>6, <2>1, OneRequestMoves
<1>7. CASE Answer(r)
  BY <1>2, <1>7, Answered
<1>8. CASE Exchange(r) /\ ~Answer(r)
  <2>1. PICK todo \in SUBSET IgUsers :
          requests' = [requests EXCEPT ![r].pc = "pages", ![r].todo = todo]
    BY <1>8 DEF Exchange
  <2>2. PICK q : q = [s EXCEPT !.pc = "pages", !.todo = todo]
    OBVIOUS
  <2>3. q \in Request /\ q.pc = "pages" /\ q.now = s.now /\ q.tenant = s.tenant
        /\ q.op = s.op /\ q.seesDeleted = s.seesDeleted
    BY <1>4, <2>2, ZenonT(60) DEF Request
  <2>4. requests' = [requests EXCEPT ![r] = q]
    BY <1>3, <2>1, <2>2, ZenonT(60)
  <2> QED BY <1>6, <2>3, <2>4
<1>9. CASE NextPage(r) /\ ~Answer(r)
  <2>1. s.todo \subseteq IgUsers
    BY <1>4, ZenonT(60) DEF Request
  <2>2. PICK g \in s.todo :
          \/ requests' = [requests EXCEPT ![r].pc = "update", ![r].ig = g,
                                          ![r].todo = s.todo \ {g}, ![r].rows = {g}]
          \/ requests' = [requests EXCEPT ![r].pc = "insertAccount", ![r].ig = g,
                                          ![r].todo = s.todo \ {g}]
    BY <1>3, <1>9, ZenonT(60) DEF NextPage
  <2>3. g \in IgUsers /\ {g} \in SUBSET IgUsers
    BY <2>1
  <2>4. PICK todo \in SUBSET IgUsers : todo = s.todo \ {g}
    BY <2>1
  <2>5. CASE requests' = [requests EXCEPT ![r].pc = "update", ![r].ig = g,
                            ![r].todo = s.todo \ {g}, ![r].rows = {g}]
    <3>1. PICK q : q = [s EXCEPT !.pc = "update", !.ig = g, !.todo = todo,
                                 !.rows = {g}]
      OBVIOUS
    <3>2. q \in Request
      BY <1>4, <2>3, <3>1, ZenonT(60) DEF Request
    <3>3. q.pc = "update" /\ q.now = s.now /\ q.tenant = s.tenant
          /\ q.op = s.op /\ q.seesDeleted = s.seesDeleted
      BY <1>4, <3>1, ZenonT(60) DEF Request
    <3>4. requests' = [requests EXCEPT ![r] = q]
      BY <1>3, <2>4, <2>5, <3>1, ZenonT(60)
    <3> QED BY <1>6, <3>2, <3>3, <3>4
  <2>6. CASE requests' = [requests EXCEPT ![r].pc = "insertAccount", ![r].ig = g,
                            ![r].todo = s.todo \ {g}]
    <3>1. PICK q : q = [s EXCEPT !.pc = "insertAccount", !.ig = g, !.todo = todo]
      OBVIOUS
    <3>2. q \in Request
      BY <1>4, <2>3, <3>1, ZenonT(60) DEF Request
    <3>3. q.pc = "insertAccount" /\ q.now = s.now /\ q.tenant = s.tenant
          /\ q.op = s.op /\ q.seesDeleted = s.seesDeleted
      BY <1>4, <3>1, ZenonT(60) DEF Request
    <3>4. requests' = [requests EXCEPT ![r] = q]
      BY <1>3, <2>4, <2>6, <3>1, ZenonT(60)
    <3> QED BY <1>6, <3>2, <3>3, <3>4
  <2> QED BY <2>2, <2>5, <2>6
<1> QED BY <1>7, <1>8, <1>9

LEMMA QuietStep ==
  ASSUME WsInv, NEW r \in Requests, Quiet(r)
  PROVE  ReqsInv'
<1>1. UNCHANGED Tables
  BY DEF Quiet, HasExistingTenant, LoadTenant, StampTenant, SelectAccounts,
     CutAccount, DeletionFails, EndSession, Consent, Exchange, NextPage,
     Subscribe, Abandon, Tables
<1>2. Onwards /\ TablesInv /\ ReqsInv
  BY <1>1, TablesStay DEF WsInv, DataInv
<1>3. CASE HasExistingTenant(r) \/ Subscribe(r)
  <2>1. \/ requests[r].pc = "exists" /\ (Answer(r) \/ WsGoto(r, "insert"))
        \/ requests[r].pc = "subscribe" /\ WsGoto(r, "pages")
    BY <1>3 DEF HasExistingTenant, Subscribe
  <2>2. ReqOK(requests[r])
    BY RequestFacts
  <2>3. requests[r].now # 0 /\ requests[r].tenant \notin requests[r].seesDeleted
        /\ (requests[r].pc = "subscribe" => requests[r].tenant \in Tenants)
    BY <2>1, <2>2 DEF ReqOK, Working
  <2>4. {"insert", "pages"} \subseteq Pcs \ Deleting /\ "insert" \notin Working
    BY SMTT(60) DEF Pcs, Working, Deleting
  <2>5. CASE Answer(r)
    BY <1>2, <2>5, Answered
  <2>6. CASE WsGoto(r, "insert")
    BY <1>2, <2>3, <2>4, <2>6, GoingOn
  <2>7. CASE WsGoto(r, "pages") /\ requests[r].pc = "subscribe"
    BY <1>2, <2>3, <2>4, <2>7, GoingOn
  <2> QED BY <2>1, <2>5, <2>6, <2>7
<1>4. CASE DeletionFails(r) \/ EndSession(r) \/ Abandon(r)
  BY <1>2, <1>4, Answered DEF DeletionFails, EndSession, Abandon
<1> QED
  BY <1>3, <1>4, LoadTenantStep, DeletionStep, ConsentStep, PagesStep DEF Quiet

-----------------------------------------------------------------------------
(* Requests that write rows of workspaces and accounts.                      *)

\* A new workspace is made for a user who has none, with its owner.
LEMMA CreateTenantStep ==
  ASSUME WsInv, NEW r \in Requests, CreateTenant(r)
  PROVE  DataInv' /\ ReqsInv' /\ tabs' \in [Users -> Tab]
<1> DEFINE u == requests[r].user
<1>1. u \in Users /\ clock \in Nat \ {0}
  BY RequestFacts
<1>2. CASE UNCHANGED <<tenants, members, tabs>>
  <2>1. UNCHANGED Tables
    BY <1>2 DEF CreateTenant, Tables
  <2>2. DataInv' /\ Onwards
    BY <2>1, TablesStay DEF WsInv
  <2>3. ReqsInv'
    BY <2>2, Answered DEF CreateTenant, WsInv, DataInv
  <2> QED BY <1>2, <2>2, <2>3 DEF WsInv, PeopleInv
<1>3. ASSUME TenantOf(u) = {}, NEW t \in Tenants, ~tenants[t].made,
             tenants' = [tenants EXCEPT ![t].made = TRUE],
             members' = members \cup {[tenant |-> t, user |-> u]},
             Visit(u, "dashboard")
      PROVE  DataInv' /\ ReqsInv' /\ tabs' \in [Users -> Tab]
  <2>1. UNCHANGED <<accounts, lateLinks, clock>>
    BY DEF CreateTenant
  <2>2. DataInv
    BY DEF WsInv
  <2>3. tenants' \in [Tenants -> Tenant]
    <3>1. [tenants[t] EXCEPT !.made = TRUE] \in Tenant
      <4>1. PICK row \in Tenant : row = tenants[t]
        BY <2>2 DEF DataInv, TablesInv
      <4> QED BY <4>1, ZenonT(60) DEF Tenant
    <3>2. tenants' = [tenants EXCEPT ![t] = [tenants[t] EXCEPT !.made = TRUE]]
      BY <1>3
    <3> QED BY <2>2, <3>1, <3>2, SMTT(60) DEF DataInv, TablesInv
  <2>4. \A d \in Tenants : /\ tenants'[d].deletedAt = tenants[d].deletedAt
                           /\ tenants'[d].requestedAt = tenants[d].requestedAt
                           /\ tenants'[d].gone = tenants[d].gone
                           /\ tenants'[d].made <=> (d = t \/ tenants[d].made)
    BY <1>3, <2>2, ZenonT(60) DEF DataInv, TablesInv, Tenant
  <2>5. members' \subseteq Member
    BY <1>1, <1>3, <2>2, SMTT(60) DEF DataInv, TablesInv, Member
  <2>6. OneWorkspaceEach'
    <3>1. \A m \in members : m.user # u
      <4>1. \A m \in members : m.user = u => m.tenant \in TenantOf(u)
        BY ZenonT(60) DEF TenantOf
      <4> QED BY <1>3, <4>1
    <3>2. \A m \in members : m.tenant # t
      BY <1>3, <2>2, SMTT(60) DEF OneWorkspaceEach, DataInv, TablesInv, Member
    <3>3. PICK new : new = [tenant |-> t, user |-> u]
      OBVIOUS
    <3>4. new.tenant = t /\ new.user = u /\ members' = members \cup {new}
      BY <1>3, <3>3
    <3>5. ASSUME NEW m \in members', NEW n \in members',
                 m.user = n.user \/ m.tenant = n.tenant
          PROVE  m = n
      <4>1. CASE m = new /\ n = new
        BY <4>1
      <4>2. CASE m \in members /\ n \in members
        BY <2>2, <3>5, <4>2 DEF DataInv, OneWorkspaceEach
      <4>3. CASE (m = new /\ n \in members) \/ (m \in members /\ n = new)
        BY <3>1, <3>2, <3>4, <3>5, <4>3
      <4> QED BY <3>4, <4>1, <4>2, <4>3
    <3>6. ASSUME NEW d \in Tenants
          PROVE  tenants'[d].made <=> \E m \in members' : m.tenant = d
      <4>1. CASE d = t
        <5>1. tenants'[d].made
          BY <2>4, <4>1
        <5> QED BY <3>4, <4>1, <5>1
      <4>2. CASE d # t
        <5>1. tenants'[d].made <=> tenants[d].made
          BY <2>4, <4>2
        <5>2. tenants[d].made <=> \E m \in members : m.tenant = d
          BY <2>2 DEF DataInv, OneWorkspaceEach
        <5>3. (\E m \in members' : m.tenant = d) <=> \E m \in members : m.tenant = d
          BY <3>4, <4>2
        <5> QED BY <5>1, <5>2, <5>3
      <4> QED BY <4>1, <4>2
    <3> QED BY <3>5, <3>6 DEF OneWorkspaceEach
  <2>7. StampsInv' /\ DeletionCutsAccounts'
    <3>1. \A d \in Tenants : /\ tenants'[d].deletedAt = tenants[d].deletedAt
                             /\ tenants'[d].requestedAt = tenants[d].requestedAt
                             /\ tenants'[d].gone = tenants[d].gone
      BY <2>4
    <3>2. StampsInv'
      BY <2>1, <2>2, <3>1, SMTT(60) DEF DataInv, StampsInv
    <3>3. DeletionCutsAccounts'
      BY <2>1, <2>2, <3>1, ZenonT(60) DEF DataInv, DeletionCutsAccounts, Deleted
    <3> QED BY <3>2, <3>3
  <2>8. Onwards
    BY <1>1, <2>1, <2>4, SMTT(60) DEF Onwards, Deleted
  <2>9. ReqsInv'
    BY <2>8, Answered DEF CreateTenant, WsInv, DataInv
  <2>10. tabs' \in [Users -> Tab]
    BY <1>1, <1>3, Visits DEF WsInv, Paths
  <2>11. TablesInv'
    BY <2>1, <2>2, <2>3, <2>5 DEF DataInv, TablesInv
  <2> QED BY <2>6, <2>7, <2>9, <2>10, <2>11 DEF DataInv
<1> QED BY <1>2, <1>3 DEF CreateTenant

\* The time of a deletion is not after the first deletion of the workspace.
LEMMA CommitDeletionStep ==
  ASSUME WsInv, NEW r \in Requests, CommitDeletion(r)
  PROVE  DataInv' /\ ReqsInv'
<1> DEFINE t == requests[r].tenant
<1>1. requests[r].pc = "cut" /\ requests[r].rows = {}
  BY DEF CommitDeletion
<1>2. DataInv /\ ReqsInv /\ TablesInv
  BY DEF WsInv, DataInv
<1>3. PICK s : s = requests[r]
  OBVIOUS
<1>4. s \in Request /\ ReqOK(s) /\ s.pc = "cut" /\ s.rows = {}
  BY <1>1, <1>3, RequestFacts
<1>5. PICK cut \in SUBSET IgUsers : cut = s.cut
  BY <1>4, ZenonT(60) DEF Request
<1>6. /\ tenants' = IF requests[r].already THEN tenants
                    ELSE [tenants EXCEPT ![t] = Stamp(@, requests[r].now)]
      /\ accounts' = [accounts EXCEPT ![t] =
           [g \in IgUsers |-> IF g \in cut THEN "cut" ELSE @[g]]]
      /\ lateLinks' = lateLinks \ ({t} \X cut)
      /\ requests' = [requests EXCEPT ![r].pc = "signOut", ![r].cut = {}]
  BY <1>3, <1>5 DEF CommitDeletion
<1>7. \A g \in IgUsers : accounts[t][g] = "live" => g \in cut \/ <<t, g>> \in lateLinks
  BY <1>3, <1>4, <1>5 DEF ReqOK, Found
<1>8. DataInv' /\ ReqsInv'
  <2>1. UNCHANGED <<members, clock>>
    BY DEF CommitDeletion
  <2>2. PICK now : now = requests[r].now
    OBVIOUS
  <2>3. /\ t \in Tenants /\ now \in Nat \ {0} /\ now <= clock /\ now \in 0..MaxClock
        /\ clock \in Nat \ {0} /\ clock \in 0..MaxClock
        /\ t \notin requests[r].seesDeleted
        /\ ~requests[r].already => tenants[t].gone = 0 \/ now <= tenants[t].gone
        /\ requests[r].already => Deleted(t)
    <3>1. requests[r].now \in 0..MaxClock
      BY RequestFacts, ZenonT(60) DEF Request
    <3>2. clock \in Nat \ {0} /\ clock \in 0..MaxClock
      BY <1>2, RequestFacts, WorkspaceAssumption, SMTT(60) DEF TablesInv
    <3>3. ReqOK(requests[r])
      BY RequestFacts
    <3>4. t \in Tenants /\ now # 0 /\ now <= clock /\ t \notin requests[r].seesDeleted
          /\ (~requests[r].already => tenants[t].gone = 0 \/ now <= tenants[t].gone)
          /\ (requests[r].already => Deleted(t))
      BY <1>1, <2>2, <3>3, ZenonT(60) DEF ReqOK, Working, Deleting
    <3> QED BY <2>2, <3>1, <3>2, <3>4, SMTT(60)
  <2>4. PICK row : row = tenants[t]
    OBVIOUS
  <2>5. row \in Tenant /\ row.gone \in Nat /\ row.gone \in 0..MaxClock
    BY <1>2, <2>3, <2>4, SMTT(60) DEF TablesInv, Tenant
  <2> DEFINE Ahead == \A d \in Tenants :
               /\ Deleted(d) => Deleted(d)'
               /\ \/ tenants'[d].gone = tenants[d].gone
                  \/ tenants[d].gone = 0 /\ tenants'[d].gone = clock'
  <2> DEFINE Stamped == /\ tenants' \in [Tenants -> Tenant]
                        /\ \A d \in Tenants : tenants'[d].made <=> tenants[d].made
                        /\ StampsInv' /\ Ahead
                        /\ tenants'[t].deletedAt # 0
                        /\ \A d \in Tenants \ {t} : Deleted(d)' => Deleted(d)
  <2>6. ASSUME ~requests[r].already PROVE Stamped
    <3>1. PICK gone \in 0..MaxClock : gone = IF row.gone = 0 THEN clock ELSE row.gone
      BY <2>3, <2>5
    <3>2. now <= gone /\ gone # 0 /\ gone <= clock
      BY <1>2, <2>3, <2>4, <2>5, <2>6, <3>1, SMTT(60) DEF DataInv, StampsInv
    <3>3. PICK new : new = [row EXCEPT !.deletedAt = now, !.requestedAt = now,
                                       !.gone = gone]
      OBVIOUS
    <3>4. new = Stamp(row, now)
      BY <2>5, <3>1, <3>3, ZenonT(60) DEF Stamp
    <3>5. tenants' = [tenants EXCEPT ![t] = new]
      BY <1>6, <2>2, <2>4, <2>6, <3>4
    <3>6. new \in Tenant
      BY <2>3, <2>5, <3>3, ZenonT(60) DEF Tenant
    <3>7. new.deletedAt = now /\ new.requestedAt = now /\ new.gone = gone
          /\ (new.made <=> row.made)
      BY <2>5, <3>3, ZenonT(60) DEF Tenant
    <3>8. tenants' \in [Tenants -> Tenant]
      BY <1>2, <3>5, <3>6 DEF TablesInv
    <3>9. \A d \in Tenants : tenants'[d] = IF d = t THEN new ELSE tenants[d]
      BY <1>2, <3>5 DEF TablesInv
    <3>10. \A d \in Tenants : tenants'[d].made <=> tenants[d].made
      BY <2>4, <3>7, <3>9, ZenonT(60)
    <3>11. StampsInv'
      BY <1>2, <2>1, <2>3, <3>2, <3>7, <3>9, SMTT(60) DEF DataInv, StampsInv
    <3>12. Ahead
      BY <2>1, <2>3, <2>4, <3>1, <3>7, <3>9, SMTT(60) DEF Deleted
    <3>13. tenants'[t].deletedAt # 0
      BY <2>3, <3>7, <3>9, SMTT(60)
    <3>14. \A d \in Tenants \ {t} : Deleted(d)' => Deleted(d)
      BY <3>9 DEF Deleted
    <3> QED BY <3>8, <3>10, <3>11, <3>12, <3>13, <3>14
  <2>7. ASSUME requests[r].already PROVE Stamped
    <3>1. tenants' = tenants
      BY <1>6, <2>7
    <3>2. StampsInv' /\ Ahead
      BY <1>2, <2>1, <2>3, <3>1, SMTT(60) DEF DataInv, StampsInv, Deleted
    <3>3. tenants'[t].deletedAt # 0
      BY <2>3, <2>7, <3>1 DEF Deleted
    <3> QED BY <1>2, <3>1, <3>2, <3>3 DEF TablesInv, Deleted
  <2>8. Stamped
    BY <2>6, <2>7
  <2> HIDE DEF Stamped
  <2>9. PICK row2 \in [IgUsers -> Account] :
          row2 = [g \in IgUsers |-> IF g \in cut THEN "cut" ELSE accounts[t][g]]
    <3>1. \A g \in IgUsers : accounts[t][g] \in Account
      BY <1>2, <2>3 DEF TablesInv
    <3> QED BY <3>1 DEF Account
  <2>10. accounts' = [accounts EXCEPT ![t] = row2]
    BY <1>6, <2>9
  <2>11. accounts' \in [Tenants -> [IgUsers -> Account]]
         /\ \A d \in Tenants : accounts'[d] = IF d = t THEN row2 ELSE accounts[d]
    BY <1>2, <2>9, <2>10 DEF TablesInv
  <2>12. \A g \in IgUsers : row2[g] = IF g \in cut THEN "cut" ELSE accounts[t][g]
    BY <2>9
  <2>13. lateLinks' \subseteq Tenants \X IgUsers
         /\ \A d \in Tenants, g \in IgUsers :
              <<d, g>> \in lateLinks' <=> <<d, g>> \in lateLinks /\ (d # t \/ g \notin cut)
    BY <1>2, <1>6 DEF TablesInv
  <2>14. \A d \in Tenants, g \in IgUsers :
           accounts'[d][g] = "live" =>
             accounts[d][g] = "live"
             /\ (<<d, g>> \in lateLinks => <<d, g>> \in lateLinks')
    BY <2>11, <2>12, <2>13
  <2>15. DeletionCutsAccounts'
    <3>1. ASSUME NEW d \in Tenants, NEW g \in IgUsers,
                 Deleted(d)', accounts'[d][g] = "live"
          PROVE  <<d, g>> \in lateLinks'
      <4>1. accounts[d][g] = "live"
        BY <2>14, <3>1
      <4>2. CASE d = t
        BY <1>7, <2>11, <2>12, <2>14, <3>1, <4>1, <4>2
      <4>3. CASE d # t
        <5>1. Deleted(d)
          BY <2>8, <3>1, <4>3 DEF Stamped
        <5> QED BY <1>2, <2>14, <3>1, <4>1, <5>1 DEF DataInv, DeletionCutsAccounts
      <4> QED BY <4>2, <4>3
    <3>2. ASSUME NEW d \in Tenants, NEW g \in IgUsers, accounts'[d][g] = "cut"
          PROVE  Deleted(d)'
      <4>1. CASE d = t
        BY <2>8, <4>1 DEF Stamped, Deleted
      <4>2. CASE d # t
        <5>1. Deleted(d)
          BY <1>2, <2>11, <3>2, <4>2 DEF DataInv, DeletionCutsAccounts
        <5> QED BY <2>8, <5>1 DEF Stamped
      <4> QED BY <4>1, <4>2
    <3> QED BY <3>1, <3>2 DEF DeletionCutsAccounts
  <2>16. OneWorkspaceEach'
    BY <1>2, <2>1, <2>8, ZenonT(60) DEF Stamped, DataInv, OneWorkspaceEach
  <2>17. DataInv'
    BY <1>2, <2>1, <2>8, <2>11, <2>13, <2>15, <2>16 DEF Stamped, DataInv, TablesInv
  <2>18. Onwards
    <3>1. clock \in Nat /\ clock' \in Nat /\ clock <= clock'
      BY <2>1, <2>3, SMTT(60)
    <3> QED BY <2>8, <2>14, <3>1 DEF Stamped, Onwards
  <2>19. ReqsInv'
    <3>1. PICK q : q = [s EXCEPT !.pc = "signOut", !.cut = {}]
      OBVIOUS
    <3>2. q \in Request
      BY <1>4, <3>1, ZenonT(60) DEF Request
    <3>3. q.pc = "signOut" /\ q.now = s.now /\ q.tenant = s.tenant
          /\ q.op = s.op /\ q.seesDeleted = s.seesDeleted
      BY <1>4, <3>1, ZenonT(60) DEF Request
    <3>4. requests' = [requests EXCEPT ![r] = q]
      BY <1>3, <1>6, <3>1, ZenonT(60)
    <3>5. s.tenant \in Tenants /\ s.now # 0 /\ s.tenant \notin s.seesDeleted
      BY <1>4 DEF ReqOK, Working
    <3>6. s.now <= clock' /\ \A d \in s.seesDeleted : Deleted(d)'
      <4>1. s.seesDeleted \subseteq Tenants
        BY <1>4, ZenonT(60) DEF Request
      <4> QED BY <1>4, <2>1, <2>18, <4>1 DEF ReqOK, Onwards
    <3>7. ReqOK(q)'
      BY <3>2, <3>3, <3>5, <3>6, SMTT(60) DEF ReqOK, Found, Deleting
    <3> QED BY <1>2, <2>18, <3>4, <3>7, OneRequestMoves
  <2> QED BY <2>17, <2>19
<1> QED BY <1>8

\* A request that has written an account, or found none to write, goes on to
\* the subscription.
LEMMA SubscribesStep ==
  ASSUME WsInv, NEW r \in Requests, Subscribes(r), Onwards,
         requests[r].pc \in {"update", "insertAccount"}
  PROVE  ReqsInv'
<1>1. ReqsInv /\ TablesInv
  BY DEF WsInv, DataInv
<1>2. PICK s : s = requests[r] /\ ReqOK(s)'
  BY <1>1, RestStaysOK
<1>3. s \in Request /\ ReqOK(s) /\ s.pc \in {"update", "insertAccount"}
  BY <1>2, RequestFacts
<1>4. PICK q : q = [s EXCEPT !.pc = "subscribe", !.rows = {}]
  OBVIOUS
<1>5. q \in Request
  BY <1>3, <1>4, ZenonT(60) DEF Request
<1>6. q.pc = "subscribe" /\ q.now = s.now /\ q.tenant = s.tenant
      /\ q.op = s.op /\ q.seesDeleted = s.seesDeleted
  BY <1>3, <1>4, ZenonT(60) DEF Request
<1>7. ReqOK(q)'
  BY <1>2, <1>3, <1>5, <1>6, SMTT(60) DEF ReqOK, Found, Deleting, Working
<1>8. requests' = [requests EXCEPT ![r] = q]
  BY <1>2, <1>4, ZenonT(60) DEF Subscribes
<1> QED BY <1>1, <1>7, <1>8, OneRequestMoves

\* An account is written live, and noted if a deletion has looked for accounts.
LEMMA LinkStep ==
  ASSUME WsInv, NEW r \in Requests, Link(r), UNCHANGED <<tenants, members, clock>>,
         requests[r].pc \in {"update", "insertAccount"}
  PROVE  DataInv' /\ ReqsInv'
<1> DEFINE t == requests[r].tenant
           g == requests[r].ig
<1>1. t \in Tenants
  BY RequestFacts DEF ReqOK, Working
<1>2. g \in IgUsers
  BY RequestFacts, ZenonT(60) DEF Request
<1>3. DataInv /\ ReqsInv /\ TablesInv
  BY DEF WsInv, DataInv
<1>4. accounts' = [accounts EXCEPT ![t][g] = "live"]
      /\ lateLinks' = (IF Looked(t) THEN lateLinks \cup {<<t, g>>} ELSE lateLinks)
      /\ Subscribes(r)
  BY DEF Link
<1>5. accounts' \in [Tenants -> [IgUsers -> Account]]
      /\ \A d \in Tenants, h \in IgUsers :
           accounts'[d][h] = IF d = t /\ h = g THEN "live" ELSE accounts[d][h]
  BY <1>1, <1>2, <1>3, <1>4, SMTT(60) DEF TablesInv, Account
<1>6. lateLinks' \subseteq Tenants \X IgUsers /\ lateLinks \subseteq lateLinks'
      /\ (Looked(t) => <<t, g>> \in lateLinks')
  BY <1>1, <1>2, <1>3, <1>4 DEF TablesInv
<1>7. \A d \in Tenants, h \in IgUsers :
        Looked(d) /\ accounts'[d][h] = "live" /\ <<d, h>> \notin lateLinks'
          => accounts[d][h] = "live" /\ <<d, h>> \notin lateLinks
  BY <1>5, <1>6
<1>8. DeletionCutsAccounts'
  <2>1. \A d \in Tenants : Deleted(d)' <=> Deleted(d)
    BY DEF Deleted
  <2>2. ASSUME NEW d \in Tenants, NEW h \in IgUsers,
               Deleted(d)', accounts'[d][h] = "live"
        PROVE  <<d, h>> \in lateLinks'
    <3>1. Deleted(d) /\ Looked(d)
      BY <2>1, <2>2 DEF Looked
    <3> QED BY <1>3, <1>7, <2>2, <3>1 DEF DataInv, DeletionCutsAccounts
  <2>3. ASSUME NEW d \in Tenants, NEW h \in IgUsers, accounts'[d][h] = "cut"
        PROVE  Deleted(d)'
    <3>1. accounts[d][h] = "cut"
      BY <1>5, <2>3
    <3> QED BY <1>3, <2>1, <3>1 DEF DataInv, DeletionCutsAccounts
  <2> QED BY <2>2, <2>3 DEF DeletionCutsAccounts
<1>9. OneWorkspaceEach' /\ StampsInv'
  BY <1>3 DEF DataInv, OneWorkspaceEach, StampsInv
<1>10. TablesInv'
  BY <1>3, <1>5, <1>6 DEF TablesInv
<1>11. Onwards
  BY <1>3, <1>7, RequestFacts DEF Onwards, Deleted
<1>12. ReqsInv'
  BY <1>4, <1>11, SubscribesStep
<1> QED BY <1>8, <1>9, <1>10, <1>12 DEF DataInv

LEMMA AccountStep ==
  ASSUME WsInv, NEW r \in Requests, UpdateAccount(r) \/ InsertAccount(r)
  PROVE  DataInv' /\ ReqsInv'
<1>1. requests[r].pc \in {"update", "insertAccount"}
      /\ UNCHANGED <<tenants, members, clock>>
  BY DEF UpdateAccount, InsertAccount
<1>2. \/ Link(r)
      \/ (Subscribes(r) \/ Answer(r)) /\ UNCHANGED <<accounts, lateLinks>>
  BY ZenonT(60) DEF UpdateAccount, InsertAccount
<1>3. CASE Link(r)
  BY <1>1, <1>3, LinkStep
<1>4. CASE (Subscribes(r) \/ Answer(r)) /\ UNCHANGED <<accounts, lateLinks>>
  <2>1. UNCHANGED Tables
    BY <1>1, <1>4 DEF Tables
  <2>2. DataInv' /\ Onwards /\ ReqsInv /\ TablesInv
    BY <2>1, TablesStay DEF WsInv, DataInv
  <2>3. CASE Subscribes(r)
    BY <1>1, <2>2, <2>3, SubscribesStep
  <2>4. CASE Answer(r)
    BY <2>2, <2>4, Answered
  <2> QED BY <1>4, <2>2, <2>3, <2>4
<1> QED BY <1>2, <1>3, <1>4

\* The row of an account goes, and the requests that read it find none.
LEMMA DisconnectStep ==
  ASSUME WsInv, NEW r \in Requests, Disconnect(r)
  PROVE  DataInv' /\ ReqsInv'
<1> DEFINE t == requests[r].tenant
<1>1. t \in Tenants
  BY RequestFacts DEF Disconnect, ReqOK, Working
<1>2. PICK g \in IgUsers :
        /\ accounts' = [accounts EXCEPT ![t][g] = "none"]
        /\ lateLinks' = lateLinks \ {<<t, g>>}
        /\ requests' = [q \in Requests |->
             IF q = r THEN Idle ELSE Forget(requests[q], t, g)]
  BY DEF Disconnect
<1>3. UNCHANGED <<tenants, members, clock>>
  BY DEF Disconnect
<1>4. DataInv /\ ReqsInv /\ TablesInv
  BY DEF WsInv, DataInv
<1>5. accounts' \in [Tenants -> [IgUsers -> Account]]
      /\ \A d \in Tenants, h \in IgUsers :
           accounts'[d][h] = IF d = t /\ h = g THEN "none" ELSE accounts[d][h]
  BY <1>1, <1>2, <1>4, SMTT(60) DEF TablesInv, Account
<1>6. lateLinks' \subseteq Tenants \X IgUsers
      /\ \A d \in Tenants, h \in IgUsers :
           <<d, h>> \in lateLinks' <=> <<d, h>> \in lateLinks /\ (d # t \/ h # g)
  BY <1>2, <1>4 DEF TablesInv
<1>7. \A d \in Tenants : Deleted(d)' <=> Deleted(d)
  BY <1>3 DEF Deleted
<1>8. DeletionCutsAccounts'
  <2>1. ASSUME NEW d \in Tenants, NEW h \in IgUsers
        PROVE  /\ Deleted(d)' /\ accounts'[d][h] = "live" => <<d, h>> \in lateLinks'
               /\ accounts'[d][h] = "cut" => Deleted(d)'
    <3>1. CASE d = t /\ h = g
      <4>1. accounts'[d][h] = "none"
        BY <1>5, <3>1
      <4> QED BY <4>1
    <3>2. CASE d # t \/ h # g
      <4>1. accounts'[d][h] = accounts[d][h]
            /\ (<<d, h>> \in lateLinks => <<d, h>> \in lateLinks')
        BY <1>5, <1>6, <3>2
      <4> QED BY <1>4, <1>7, <4>1 DEF DataInv, DeletionCutsAccounts
    <3> QED BY <3>1, <3>2
  <2> QED BY <2>1 DEF DeletionCutsAccounts
<1>9. OneWorkspaceEach' /\ StampsInv'
  BY <1>3, <1>4 DEF DataInv, OneWorkspaceEach, StampsInv
<1>10. TablesInv'
  BY <1>3, <1>4, <1>5, <1>6 DEF TablesInv
<1>11. Onwards
  BY <1>3, <1>4, <1>5, <1>6, <1>7, RequestFacts DEF Onwards
<1>12. ASSUME NEW p \in Requests, p # r
       PROVE  /\ requests'[p] \in Request
              /\ ReqOK(requests[p])'
  <2>1. PICK s : s = requests[p] /\ s \in Request /\ ReqOK(s)'
    BY <1>4, <1>11, RestStaysOK
  <2>2. PICK q : q = Forget(s, t, g)
    OBVIOUS
  <2>3. q = s \/ (s.tenant = t /\ q = [s EXCEPT !.rows = s.rows \ {g}])
    BY <2>2, ZenonT(60) DEF Forget
  <2>4. /\ q \in Request /\ q.pc = s.pc /\ q.op = s.op /\ q.now = s.now
        /\ q.tenant = s.tenant /\ (q.already <=> s.already)
        /\ q.seesDeleted = s.seesDeleted /\ q.cut = s.cut
        /\ (q.rows = s.rows \/ (s.tenant = t /\ q.rows = s.rows \ {g}))
    <3>1. s.rows \ {g} \in SUBSET IgUsers
      BY <2>1, ZenonT(60) DEF Request
    <3> QED BY <2>1, <2>3, <3>1, ZenonT(60) DEF Request
  <2>5. Found(q)'
    <3>1. ASSUME q.pc = "cut", NEW h \in IgUsers, accounts'[q.tenant][h] = "live"
          PROVE  h \in q.rows \cup q.cut \/ <<q.tenant, h>> \in lateLinks'
      <4>1. q.tenant \in Tenants
        BY <2>1, <2>4, <3>1 DEF ReqOK, Working
      <4>2. q.tenant # t \/ h # g
        BY <1>5, <3>1, <4>1
      <4>3. h \in s.rows \cup s.cut \/ <<s.tenant, h>> \in lateLinks'
        BY <2>1, <2>4, <3>1 DEF ReqOK, Found
      <4> QED BY <2>4, <4>2, <4>3
    <3> QED BY <3>1 DEF Found
  <2>6. ReqOK(q)'
    BY <2>1, <2>4, <2>5, SMTT(60) DEF ReqOK, Deleting
  <2>7. requests'[p] = q
    BY <1>2, <1>12, <2>1, <2>2
  <2> QED BY <2>4, <2>6, <2>7 DEF ReqOK, Found
<1>13. requests'[r] \in Request /\ ReqOK(requests[r])'
  <2>1. PICK q : q = Idle
    OBVIOUS
  <2>2. q \in Request /\ ReqOK(q)'
    BY <1>11, <2>1, IdleIsARequest, SMTT(60)
       DEF ReqOK, Idle, Working, Onwards, Deleting, Found
  <2>3. requests'[r] = q
    BY <1>2, <2>1
  <2> QED BY <2>2, <2>3 DEF ReqOK, Found
<1>14. ReqsInv'
  <2>1. requests' = [p \in Requests |-> requests'[p]]
    BY <1>2
  <2>2. \A p \in Requests : requests'[p] \in Request
    BY <1>12, <1>13
  <2>3. \A p \in Requests : ReqOK(requests[p])'
    BY <1>12, <1>13
  <2>4. requests' \in [Requests -> Request]
    BY <2>1, <2>2
  <2> QED BY <2>3, <2>4 DEF ReqsInv
<1> QED BY <1>8, <1>9, <1>10, <1>14 DEF DataInv

-----------------------------------------------------------------------------
(* The invariant.                                                            *)

LEMMA TickStep ==
  ASSUME WsInv, Tick
  PROVE  WsInv'
<1>1. clock' = clock + 1 /\ clock < MaxClock
      /\ UNCHANGED <<auth, users, tenants, members, accounts, requests, tabs,
                     lateLinks, wsEnv>>
  BY DEF Tick
<1>2. DataInv /\ ReqsInv /\ TablesInv /\ PeopleInv
  BY DEF WsInv, DataInv
<1>3. clock \in 1..MaxClock /\ clock' \in 1..MaxClock /\ clock \in Nat /\ clock' \in Nat
  BY <1>1, <1>2, WorkspaceAssumption, SMTT(60) DEF TablesInv
<1>4. TablesInv'
  BY <1>1, <1>2, <1>3 DEF TablesInv
<1>5. StampsInv'
  <2>1. \A t \in Tenants : tenants[t].gone \in Nat
    BY <1>2, WorkspaceAssumption, SMTT(60) DEF TablesInv, Tenant
  <2> QED BY <1>1, <1>2, <1>3, <2>1, SMTT(60) DEF DataInv, StampsInv
<1>6. OneWorkspaceEach' /\ DeletionCutsAccounts'
  BY <1>1, <1>2 DEF DataInv, OneWorkspaceEach, DeletionCutsAccounts, Deleted
<1>7. Onwards
  BY <1>1, <1>3, SMTT(60) DEF Onwards, Deleted
<1>8. ReqsInv'
  BY <1>1, <1>2, <1>7, RequestsStay
<1>9. PeopleInv'
  BY <1>1, <1>2, SMTT(60) DEF PeopleInv
<1> QED BY <1>4, <1>5, <1>6, <1>8, <1>9 DEF WsInv, DataInv

\* The people a step of a request touches: the user mirrored, the browser the
\* answer sends on, and the session the deletion ends.
LEMMA ServeKeepsPeople ==
  ASSUME WsInv, NEW r \in Requests, Serve(r)
  PROVE  PeopleInv'
<1>1. PeopleInv /\ requests[r].user \in Users
  BY RequestFacts DEF WsInv
<1>2. CASE Authenticate(r)
  BY <1>1, <1>2, AuthenticateStep DEF Authenticate, PeopleInv
<1>3. CASE CreateTenant(r)
  BY <1>1, <1>3, CreateTenantStep DEF CreateTenant, PeopleInv
<1>4. CASE EndSession(r)
  <2>1. tabs' \in [Users -> Tab]
    BY <1>1, <1>4, Visits DEF EndSession, Paths, PublicPaths
  <2>2. auth' \in [Users -> {"none", "pending", "out", "in"}]
    BY <1>1, <1>4, SMTT(60) DEF EndSession, PeopleInv
  <2> QED BY <1>1, <1>4, <2>1, <2>2 DEF EndSession, PeopleInv
<1>5. CASE UNCHANGED <<auth, users, tabs, wsEnv>>
  BY <1>1, <1>5 DEF PeopleInv
<1> QED
  BY <1>2, <1>3, <1>4, <1>5, ZenonT(60) DEF Serve, ReadCtx, HasExistingTenant, LoadTenant,
     StampTenant, SelectAccounts, CutAccount, CommitDeletion, DeletionFails, Consent,
     Exchange, NextPage, UpdateAccount, InsertAccount, Subscribe, Disconnect

LEMMA ServeStep ==
  ASSUME WsInv, NEW r \in Requests, Serve(r)
  PROVE  WsInv'
<1>1. CASE CreateTenant(r)
  BY <1>1, CreateTenantStep, ServeKeepsPeople DEF WsInv
<1>2. CASE CommitDeletion(r)
  BY <1>2, CommitDeletionStep, ServeKeepsPeople DEF WsInv
<1>3. CASE UpdateAccount(r) \/ InsertAccount(r)
  BY <1>3, AccountStep, ServeKeepsPeople DEF WsInv
<1>4. CASE Disconnect(r)
  BY <1>4, DisconnectStep, ServeKeepsPeople DEF WsInv
<1>5. CASE Authenticate(r) \/ ReadCtx(r) \/ Quiet(r)
  <2>1. ReqsInv'
    BY SMTT(60), <1>5, AuthenticateStep, ReadCtxStep, QuietStep
  <2>2. UNCHANGED Tables
    BY <1>5 DEF Authenticate, ReadCtx, Quiet, HasExistingTenant, LoadTenant,
       StampTenant, SelectAccounts, CutAccount, DeletionFails, EndSession, Consent,
       Exchange, NextPage, Subscribe, Abandon, Tables
  <2>3. DataInv'
    BY <2>2, TablesStay DEF WsInv
  <2> QED BY <2>1, <2>3, ServeKeepsPeople DEF WsInv
<1> QED
  BY <1>1, <1>2, <1>3, <1>4, <1>5 DEF Serve, Quiet

\* A request sent or lost changes nothing else.
LEMMA SendOrLose ==
  ASSUME WsInv, NEW r \in Requests,
         Abandon(r) \/ \E u \in Users : Submit(r, u)
  PROVE  WsInv'
<1>1. ReqsInv'
  BY SubmitStep, QuietStep DEF Quiet
<1>2. UNCHANGED <<Tables, auth, users, tabs, wsEnv>>
  BY DEF Abandon, Submit, Tables
<1>3. DataInv'
  BY <1>2, TablesStay DEF WsInv
<1>4. PeopleInv'
  BY <1>2 DEF WsInv, PeopleInv
<1> QED BY <1>1, <1>3, <1>4 DEF WsInv

LEMMA WsStep ==
  ASSUME WsInv, [WsNext]_wsVars
  PROVE  WsInv'
<1>1. ASSUME NEW u \in Users, People(u) PROVE WsInv'
  BY <1>1, PeopleStep
<1>2. ASSUME NEW r \in Requests, Serve(r) PROVE WsInv'
  BY <1>2, ServeStep
<1>3. ASSUME NEW r \in Requests, Abandon(r) \/ \E u \in Users : Submit(r, u)
      PROVE  WsInv'
  BY <1>3, SendOrLose
<1>4. CASE Tick
  BY <1>4, TickStep
<1>5. CASE UNCHANGED wsVars
  <2>1. UNCHANGED <<Tables, auth, users, tabs, requests, wsEnv>>
    BY <1>5 DEF wsVars, Tables
  <2>2. DataInv' /\ ReqsInv' /\ PeopleInv'
    BY <2>1, TablesStay, RequestsStay DEF WsInv, DataInv, PeopleInv
  <2> QED BY <2>2 DEF WsInv
<1> QED
  BY <1>1, <1>2, <1>3, <1>4, <1>5 DEF WsNext, People

LEMMA WsStart ==
  ASSUME WsInit
  PROVE  WsInv
<1>1. clock = 1 /\ clock \in 1..MaxClock /\ clock \in Nat
  BY WorkspaceAssumption, SMTT(60) DEF WsInit
<1>2. PICK row : row = [made |-> FALSE, deletedAt |-> 0, requestedAt |-> 0,
                        gone |-> 0]
  OBVIOUS
<1>3. /\ ~row.made /\ row.deletedAt = 0 /\ row.requestedAt = 0 /\ row.gone = 0
      /\ tenants = [t \in Tenants |-> row]
  BY <1>2, ZenonT(60) DEF WsInit
<1>4. row \in Tenant
  <2>1. 0 \in 0..MaxClock
    BY WorkspaceAssumption, SMTT(60)
  <2> QED BY <1>2, <2>1, ZenonT(60) DEF Tenant
<1>5. TablesInv
  <2>1. [g \in IgUsers |-> "none"] \in [IgUsers -> Account]
    BY DEF Account
  <2> QED BY <1>1, <1>3, <1>4, <2>1, ZenonT(60) DEF WsInit, TablesInv
<1>6. OneWorkspaceEach /\ StampsInv /\ DeletionCutsAccounts
  BY <1>1, <1>3, SMTT(60) DEF WsInit, OneWorkspaceEach, StampsInv,
     DeletionCutsAccounts, Deleted
<1>7. ReqsInv
  <2>1. Idle \in Request /\ ReqOK(Idle)
    BY <1>1, IdleIsARequest, IdleIsOK
  <2> QED BY <2>1 DEF WsInit, ReqsInv
<1>8. PeopleInv
  <2>1. [path |-> "home", loading |-> FALSE, returnTo |-> "app"] \in Tab
    BY ZenonT(60) DEF Tab, Paths, PublicPaths
  <2> QED BY <2>1, ZenonT(60) DEF WsInit, PeopleInv
<1> QED BY <1>5, <1>6, <1>7, <1>8 DEF WsInv, DataInv

LEMMA WsAlways == WsSpec => []WsInv
<1>1. WsInit => WsInv
  BY WsStart
<1>2. WsInv /\ [WsNext]_wsVars => WsInv'
  BY WsStep
<1> QED BY <1>1, <1>2, PTL DEF WsSpec

-----------------------------------------------------------------------------
(* The theorems.                                                             *)

\* Every row, request and page keeps the shape its table, handler or browser
\* gives it, for any number of people and requests.
THEOREM WorkspaceTypes == WsSpec => []WsTypeOK
<1>1. WsInv => WsTypeOK
  BY DEF WsInv, WsTypeOK, ReqsInv, PeopleInv, DataInv, TablesInv
<1> QED BY <1>1, WsAlways, PTL

\* POST /tenants: however many creations overlap, are lost or are sent again,
\* nobody gets two workspaces and no workspace is left without its owner.
THEOREM OneWorkspaceEachAlways == WsSpec => []OneWorkspaceEach
<1>1. WsInv => OneWorkspaceEach
  BY DEF WsInv, DataInv
<1> QED BY <1>1, WsAlways, PTL

\* POST /privacy/delete: deletion requests that overlap may write the stamp
\* again, but never move the erasure past the instant of the first deletion.
THEOREM DeletionNotPostponedAlways == WsSpec => []DeletionNotPostponed
<1>1. WsInv => DeletionNotPostponed
  BY DEF WsInv, DataInv, StampsInv, DeletionNotPostponed
<1> QED BY <1>1, WsAlways, PTL

\* requestTenantDeletion: of the accounts of a deleted workspace only those are
\* still connected that a callback, past its checks, wrote after the statements
\* of the transaction had looked for them, however deletions, callbacks and
\* disconnections interleave; and a rollback leaves no account disconnected.
THEOREM DeletionCutsAccountsAlways == WsSpec => []DeletionCutsAccounts
<1>1. WsInv => DeletionCutsAccounts
  BY DEF WsInv, DataInv
<1> QED BY <1>1, WsAlways, PTL

\* buildCtx hides a deleted workspace from every request sent after its
\* deletion, whichever handler the request reaches.
THEOREM DeletedIsInvisibleAlways == WsSpec => []DeletedIsInvisible
<1>1. WsInv => DeletedIsInvisible
  BY DEF WsInv, ReqsInv, ReqOK, DeletedIsInvisible
<1> QED BY <1>1, WsAlways, PTL

=============================================================================
