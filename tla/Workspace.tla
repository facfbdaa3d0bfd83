----------------------------- MODULE Workspace -----------------------------
(* Accounts of people, workspaces and Instagram accounts: the requests the   *)
(* web application serves for them, the session that guards every request,   *)
(* and the pages a browser is sent to.                                       *)
(*                                                                           *)
(* A request is served by one of the slots of Requests and takes one step    *)
(* per statement that reads or writes the database or calls Meta; other      *)
(* requests run between its steps.  Supabase Auth and Meta are external.     *)
EXTENDS Integers, FiniteSets

CONSTANTS Users,        \* people with a browser
          Tenants,      \* ids of workspaces to come
          IgUsers,      \* Instagram business accounts, as Meta names them
          Requests,     \* requests the web server handles at once
          MaxClock,     \* bound on the clock that stamps deletions
          WsScenarios,  \* what may happen, one set per family of behaviours
          NoTenant      \* null

ASSUME WorkspaceAssumption ==
  /\ Users # {} /\ IgUsers # {} /\ NoTenant \notin Tenants
  /\ MaxClock \in Nat \ {0}

VARIABLES
  auth,        \* Supabase Auth: "none", "pending", "out" or "in", per person
  users,       \* rows of public.users
  tenants,     \* rows of tenants; gone is the clock at the first deletion
  members,     \* rows of tenantUsers
  accounts,    \* rows of igAccounts, by tenant and Instagram id
  requests,    \* handlers in progress
  tabs,        \* the page each browser shows or loads
  lateLinks,   \* accounts written after a deletion had looked for them
  clock,
  wsEnv        \* what may happen in this behaviour: requests and faults

wsVars == <<auth, users, tenants, members, accounts, requests, tabs,
            lateLinks, clock, wsEnv>>

Tenant == [made : BOOLEAN, deletedAt : 0..MaxClock, requestedAt : 0..MaxClock,
           gone : 0..MaxClock]

Member == [tenant : Tenants, user : Users]

Account == {"none", "live", "cut"}

PublicPaths == {"home", "login", "reset", "deleted"}

Paths == PublicPaths \cup {"app", "dashboard", "settings", "onboarding"}

Ops == {"create", "delete", "export", "start", "callback", "disconnect"}

\* rows are the accounts a request has read and is to update by their ids, and
\* cut those that the transaction of a deletion has updated and keeps locked.
Request == [pc : {"idle", "auth", "ctx", "exists", "insert", "load", "stamp",
                  "select", "cut", "signOut", "consent", "exchange", "pages",
                  "update", "insertAccount", "subscribe", "remove"},
            op : Ops, user : Users, tenant : Tenants \cup {NoTenant},
            now : 0..MaxClock, already : BOOLEAN, todo : SUBSET IgUsers,
            ig : IgUsers, rows : SUBSET IgUsers, cut : SUBSET IgUsers,
            seesDeleted : SUBSET Tenants]

Tab == [path : Paths, loading : BOOLEAN, returnTo : Paths]

WsTypeOK ==
  /\ auth \in [Users -> {"none", "pending", "out", "in"}]
  /\ users \subseteq Users
  /\ tenants \in [Tenants -> Tenant]
  /\ members \subseteq Member
  /\ accounts \in [Tenants -> [IgUsers -> Account]]
  /\ requests \in [Requests -> Request]
  /\ tabs \in [Users -> Tab]
  /\ lateLinks \subseteq Tenants \X IgUsers
  /\ clock \in 1..MaxClock
  /\ wsEnv \in WsScenarios

Idle == [pc |-> "idle", op |-> "create", user |-> CHOOSE u \in Users : TRUE,
         tenant |-> NoTenant, now |-> 0, already |-> FALSE, todo |-> {},
         ig |-> CHOOSE g \in IgUsers : TRUE, rows |-> {}, cut |-> {},
         seesDeleted |-> {}]

WsInit ==
  /\ auth = [u \in Users |-> "none"]
  /\ users = {}
  /\ tenants = [t \in Tenants |-> [made |-> FALSE, deletedAt |-> 0,
                                   requestedAt |-> 0, gone |-> 0]]
  /\ members = {}
  /\ accounts = [t \in Tenants |-> [g \in IgUsers |-> "none"]]
  /\ requests = [r \in Requests |-> Idle]
  /\ tabs = [u \in Users |-> [path |-> "home", loading |-> FALSE,
                              returnTo |-> "app"]]
  /\ lateLinks = {}
  /\ clock = 1
  /\ wsEnv \in WsScenarios

-----------------------------------------------------------------------------
(* What a request knows of its user.                                         *)

Deleted(t) == tenants[t].deletedAt # 0

TenantOf(u) == {m.tenant : m \in {n \in members : n.user = u}}

\* Mutant: deletedAt is not looked at.
CtxTenantAny(u) ==
  IF TenantOf(u) # {} THEN CHOOSE t \in TenantOf(u) : TRUE ELSE NoTenant

\* buildCtx: the workspace the user acts in, none when it is deleted.  The
\* two reads act as one: a row of tenantUsers is never removed, so a missing
\* row decides at the first read and a present one at the second.
CtxTenant(u) ==
  IF \E t \in TenantOf(u) : ~Deleted(t)
  THEN CHOOSE t \in TenantOf(u) : ~Deleted(t)
  ELSE NoTenant

TenantDeleted(u) == \E t \in TenantOf(u) : Deleted(t)

WsGoto(r, pc) == requests' = [requests EXCEPT ![r].pc = pc]

Answer(r) == requests' = [requests EXCEPT ![r] = Idle]

-----------------------------------------------------------------------------
(* Sessions.                                                                 *)

\* The people of this behaviour.
Newcomers == IF "second" \in wsEnv THEN Users ELSE {CHOOSE u \in Users : TRUE}

Visit(u, p) ==
  tabs' = [tabs EXCEPT ![u] = [path |-> p, loading |-> TRUE, returnTo |-> "app"]]

\* The sign-up form: Supabase mails a link to the callback route.
SignUp(u) ==
  /\ auth[u] = "none" /\ u \in Newcomers
  /\ auth' = [auth EXCEPT ![u] = "pending"]
  /\ UNCHANGED <<users, tenants, members, accounts, requests, tabs,
                 lateLinks, clock, wsEnv>>

\* The link of the mail: the callback route takes the code for a session and
\* redirects to next, "/app" unless the mail says otherwise.
Verify(u) ==
  /\ auth[u] = "pending" /\ auth' = [auth EXCEPT ![u] = "in"]
  /\ Visit(u, "app")
  /\ UNCHANGED <<users, tenants, members, accounts, requests, lateLinks,
                 clock, wsEnv>>

\* The sign-in form goes on to the path the middleware noted.
SignIn(u) ==
  /\ auth[u] = "out" /\ tabs[u].path = "login" /\ ~tabs[u].loading
  /\ auth' = [auth EXCEPT ![u] = "in"]
  /\ Visit(u, tabs[u].returnTo)
  /\ UNCHANGED <<users, tenants, members, accounts, requests, lateLinks,
                 clock, wsEnv>>

\* The link of the forgotten-password mail opens a session.
Recover(u) ==
  /\ "recover" \in wsEnv /\ auth[u] = "out"
  /\ auth' = [auth EXCEPT ![u] = "in"]
  /\ Visit(u, "reset")
  /\ UNCHANGED <<users, tenants, members, accounts, requests, lateLinks,
                 clock, wsEnv>>

\* The new password sends the browser to the sign-in page, with the session.
ResetPassword(u) ==
  /\ auth[u] = "in" /\ tabs[u].path = "reset" /\ ~tabs[u].loading
  /\ Visit(u, "login")
  /\ UNCHANGED <<auth, users, tenants, members, accounts, requests, lateLinks,
                 clock, wsEnv>>

SignOut(u) ==
  /\ auth[u] = "in" /\ auth' = [auth EXCEPT ![u] = "out"]
  /\ Visit(u, "home")
  /\ UNCHANGED <<users, tenants, members, accounts, requests, lateLinks,
                 clock, wsEnv>>

-----------------------------------------------------------------------------
(* Pages.  The layout and the page of a path are rendered side by side, and  *)
(* either of them may redirect first.                                        *)

\* Mutant: onboarding is not exempt from the redirect to it.
LayoutRedirectsAlways(u, p) ==
  IF CtxTenant(u) # NoTenant THEN {} ELSE {"onboarding"}

LayoutRedirects(u, p) ==
  IF CtxTenant(u) # NoTenant
  THEN IF p = "onboarding" THEN {"dashboard"} ELSE {}
  ELSE IF TenantDeleted(u) THEN {"deleted"}
  ELSE IF p = "onboarding" THEN {} ELSE {"onboarding"}

PageRedirects(u, p) ==
  CASE p = "app" -> {"dashboard"}
    [] p \in {"dashboard", "settings"} /\ CtxTenant(u) = NoTenant -> {"onboarding"}
    [] OTHER -> {}

\* One page load: the middleware, then the layout and the page.
Hop(u) ==
  /\ tabs[u].loading
  /\ LET p == tabs[u].path IN
     \/ /\ p \in PublicPaths
        /\ tabs' = [tabs EXCEPT ![u].loading = FALSE]
        /\ users' = users
     \/ /\ p \notin PublicPaths /\ auth[u] # "in"
        /\ tabs' = [tabs EXCEPT ![u].path = "login", ![u].returnTo = p]
        /\ users' = users
     \/ /\ p \notin PublicPaths /\ auth[u] = "in"
        /\ users' = users \cup {u}
        /\ LET to == LayoutRedirects(u, p) \cup PageRedirects(u, p) IN
           IF to = {} THEN tabs' = [tabs EXCEPT ![u].loading = FALSE]
           ELSE \E q \in to : Visit(u, q)
  /\ UNCHANGED <<auth, tenants, members, accounts, requests, lateLinks,
                 clock, wsEnv>>

\* Somebody follows a link.
Open(u) ==
  /\ "browse" \in wsEnv /\ ~tabs[u].loading
  /\ \E p \in Paths : Visit(u, p)
  /\ UNCHANGED <<auth, users, tenants, members, accounts, requests,
                 lateLinks, clock, wsEnv>>

-----------------------------------------------------------------------------
(* A request, from the middleware to the handler it reaches.                 *)

\* A form or a link of the browser; a form whose answer was lost asks again.
Submit(r, u) ==
  /\ requests[r].pc = "idle" /\ auth[u] # "none"
  /\ "alone" \in wsEnv => \A q \in Requests : requests[q].pc = "idle"
  /\ \E op \in Ops \ {"callback"} :
       /\ op \in wsEnv
       /\ requests' = [requests EXCEPT ![r] =
            [Idle EXCEPT !.pc = "auth", !.op = op, !.user = u,
                         !.seesDeleted = {t \in Tenants : Deleted(t)}]]
  /\ UNCHANGED <<auth, users, tenants, members, accounts, tabs, lateLinks,
                 clock, wsEnv>>

\* The middleware and getCtx ask Supabase who is there (401 for nobody) and
\* buildCtx mirrors the user.
Authenticate(r) ==
  /\ requests[r].pc = "auth"
  /\ IF auth[requests[r].user] = "in"
     THEN WsGoto(r, "ctx") /\ users' = users \cup {requests[r].user}
     ELSE Answer(r) /\ users' = users
  /\ UNCHANGED <<auth, tenants, members, accounts, tabs, lateLinks, clock,
                 wsEnv>>

\* exportTenantData reads every table of the workspace and changes no row.
ReadOnly == {"export"}

\* verifyState: the workspace signed into the state is the one of the session.
StateFits(r, t) == requests[r].tenant = t

\* Each route's checks on ctx, up to the first statement of its handler.
ReadCtx(r) ==
  LET t == CtxTenant(requests[r].user)
      op == requests[r].op
      first == CASE op = "create" -> "exists" [] op = "delete" -> "load"
                 [] op = "start" -> "consent" [] op = "callback" -> "exchange"
                 [] op = "disconnect" -> "remove" [] op \in ReadOnly -> "idle"
      refused == \/ op \notin {"create", "callback"} /\ t = NoTenant
                 \/ op = "callback" /\ ~StateFits(r, t)
  IN /\ requests[r].pc = "ctx"
     /\ IF refused \/ op \in ReadOnly THEN Answer(r)
        ELSE requests' = [requests EXCEPT ![r].pc = first, ![r].tenant = t,
                                          ![r].now = clock]
     /\ UNCHANGED <<auth, users, tenants, members, accounts, tabs, lateLinks,
                    clock, wsEnv>>

-----------------------------------------------------------------------------
(* POST /tenants.                                                            *)

HasExistingTenant(r) ==
  /\ requests[r].pc = "exists"
  /\ IF TenantOf(requests[r].user) # {} THEN Answer(r) ELSE WsGoto(r, "insert")
  /\ UNCHANGED <<auth, users, tenants, members, accounts, tabs, lateLinks,
                 clock, wsEnv>>

\* Mutant: nothing but hasExistingTenant stands against a second workspace.
CreateTenantTwice(r) ==
  LET u == requests[r].user IN
  /\ requests[r].pc = "insert" /\ Answer(r) /\ Visit(u, "dashboard")
  /\ \E t \in Tenants :
       /\ ~tenants[t].made
       /\ tenants' = [tenants EXCEPT ![t].made = TRUE]
       /\ members' = members \cup {[tenant |-> t, user |-> u]}
  /\ UNCHANGED <<auth, users, accounts, lateLinks, clock, wsEnv>>

\* createTenant's transaction: both rows, or none when the user already has a
\* row of tenantUsers (answer 409) or the database fails (500).
CreateTenant(r) ==
  LET u == requests[r].user IN
  /\ requests[r].pc = "insert"
  /\ Answer(r)
  /\ \/ /\ TenantOf(u) = {}
        /\ \E t \in Tenants :
             /\ ~tenants[t].made
             /\ tenants' = [tenants EXCEPT ![t].made = TRUE]
             /\ members' = members \cup {[tenant |-> t, user |-> u]}
        /\ Visit(u, "dashboard")
     \/ /\ TenantOf(u) # {} \/ "dbFails" \in wsEnv
        /\ UNCHANGED <<tenants, members, tabs>>
  /\ UNCHANGED <<auth, users, accounts, lateLinks, clock, wsEnv>>

-----------------------------------------------------------------------------
(* POST /privacy/delete.                                                     *)

\* requestTenantDeletion reads the row outside its transaction; `now` was
\* taken before.
LoadTenant(r) ==
  LET already == Deleted(requests[r].tenant) IN
  /\ requests[r].pc = "load"
  /\ requests' = [requests EXCEPT ![r].already = already,
                                  ![r].pc = IF already THEN "select" ELSE "stamp"]
  /\ UNCHANGED <<auth, users, tenants, members, accounts, tabs, lateLinks,
                 clock, wsEnv>>

\* The transaction, at READ COMMITTED: what it writes is seen by nobody until it
\* commits, and until then the rows it wrote are locked against other writers.
TenantLocked(t) ==
  \E q \in Requests : /\ requests[q].pc \in {"select", "cut"}
                      /\ requests[q].tenant = t /\ ~requests[q].already

AccountLocked(t, g) ==
  \E q \in Requests : requests[q].tenant = t /\ g \in requests[q].cut

\* A deletion has looked for the accounts to disconnect.
Looked(t) ==
  Deleted(t) \/ \E q \in Requests : requests[q].pc = "cut" /\ requests[q].tenant = t

\* UPDATE tenants.
StampTenant(r) ==
  /\ requests[r].pc = "stamp" /\ ~TenantLocked(requests[r].tenant)
  /\ WsGoto(r, "select")
  /\ UNCHANGED <<auth, users, tenants, members, accounts, tabs, lateLinks,
                 clock, wsEnv>>

\* SELECT the connected accounts, as they are committed by now.
SelectAccounts(r) ==
  /\ requests[r].pc = "select"
  /\ requests' = [requests EXCEPT ![r].pc = "cut",
       ![r].rows = {g \in IgUsers : accounts[requests[r].tenant][g] = "live"}]
  /\ UNCHANGED <<auth, users, tenants, members, accounts, tabs, lateLinks,
                 clock, wsEnv>>

\* Mutant: the update is not part of the transaction.
CutAccountAtOnce(r) ==
  /\ requests[r].pc = "cut"
  /\ \E g \in requests[r].rows :
       /\ requests' = [requests EXCEPT ![r].rows = @ \ {g}]
       /\ accounts' = [accounts EXCEPT ![requests[r].tenant][g] = "cut"]
  /\ UNCHANGED <<auth, users, tenants, members, tabs, lateLinks, clock, wsEnv>>

\* UPDATE one of them, by its id.
CutAccount(r) ==
  /\ requests[r].pc = "cut"
  /\ \E g \in requests[r].rows :
       /\ ~AccountLocked(requests[r].tenant, g)
       /\ requests' = [requests EXCEPT ![r].rows = @ \ {g}, ![r].cut = @ \cup {g}]
  /\ UNCHANGED <<auth, users, tenants, members, accounts, tabs, lateLinks,
                 clock, wsEnv>>

\* Mutants: the time of the write, and the time of the erasure.
StampNow(row, now) == [row EXCEPT !.deletedAt = clock, !.requestedAt = clock,
                                  !.gone = IF row.gone = 0 THEN clock ELSE @]

StampErasure(row, now) == [row EXCEPT !.deletedAt = now + MaxClock,
                                      !.requestedAt = now, !.gone = clock]

Stamp(row, now) == [row EXCEPT !.deletedAt = now, !.requestedAt = now,
                               !.gone = IF row.gone = 0 THEN clock ELSE @]

\* COMMIT.
CommitDeletion(r) ==
  LET t == requests[r].tenant
      cut == requests[r].cut
  IN /\ requests[r].pc = "cut" /\ requests[r].rows = {}
     /\ tenants' = IF requests[r].already THEN tenants
                   ELSE [tenants EXCEPT ![t] = Stamp(@, requests[r].now)]
     /\ accounts' = [accounts EXCEPT ![t] =
          [g \in IgUsers |-> IF g \in cut THEN "cut" ELSE @[g]]]
     /\ lateLinks' = lateLinks \ ({t} \X cut)
     /\ requests' = [requests EXCEPT ![r].pc = "signOut", ![r].cut = {}]
     /\ UNCHANGED <<auth, users, members, tabs, clock, wsEnv>>

\* A statement fails, or two deletions wait for one another, and the database
\* rolls the transaction back: nothing of it was ever seen.
DeletionFails(r) ==
  /\ "dbFails" \in wsEnv /\ requests[r].pc \in {"stamp", "select", "cut"}
  /\ Answer(r)
  /\ UNCHANGED <<auth, users, tenants, members, accounts, tabs, lateLinks,
                 clock, wsEnv>>

\* The route signs the user out, and the modal goes to /deleted.
EndSession(r) ==
  LET u == requests[r].user IN
  /\ requests[r].pc = "signOut"
  /\ auth' = [auth EXCEPT ![u] = IF @ = "in" THEN "out" ELSE @]
  /\ Answer(r)
  /\ Visit(u, "deleted")
  /\ UNCHANGED <<users, tenants, members, accounts, lateLinks, clock, wsEnv>>

-----------------------------------------------------------------------------
(* Connecting Instagram: GET /auth/meta/start signs the workspace into the   *)
(* state, the person consents at Meta, and the callback connects each page.  *)

\* The browser comes back with a code and the state; or it never does, is
\* refused, or comes back after the state expired.
Consent(r) ==
  /\ requests[r].pc = "consent"
  /\ \/ requests' = [requests EXCEPT ![r].pc = "auth", ![r].op = "callback",
                       ![r].seesDeleted = {t \in Tenants : Deleted(t)}]
     \/ Answer(r)
  /\ UNCHANGED <<auth, users, tenants, members, accounts, tabs, lateLinks,
                 clock, wsEnv>>

\* The two token exchanges and the list of pages; a page whose account cannot
\* be read is skipped.
Exchange(r) ==
  /\ requests[r].pc = "exchange"
  /\ \/ \E gs \in SUBSET IgUsers :
          requests' = [requests EXCEPT ![r].pc = "pages", ![r].todo = gs]
     \/ Answer(r)
  /\ UNCHANGED <<auth, users, tenants, members, accounts, tabs, lateLinks,
                 clock, wsEnv>>

\* The next page: the row of this workspace for it, if any.  A lookup that
\* fails counts as none.
NextPage(r) ==
  LET t == requests[r].tenant IN
  /\ requests[r].pc = "pages"
  /\ \/ requests[r].todo = {} /\ Answer(r)
     \/ \E g \in requests[r].todo :
          \/ /\ accounts[t][g] # "none"
             /\ requests' = [requests EXCEPT ![r].pc = "update", ![r].ig = g,
                                             ![r].todo = @ \ {g}, ![r].rows = {g}]
          \/ /\ accounts[t][g] = "none" \/ "dbFails" \in wsEnv
             /\ requests' = [requests EXCEPT ![r].pc = "insertAccount", ![r].ig = g,
                                             ![r].todo = @ \ {g}]
  /\ UNCHANGED <<auth, users, tenants, members, accounts, tabs, lateLinks,
                 clock, wsEnv>>

Subscribes(r) ==
  requests' = [requests EXCEPT ![r].pc = "subscribe", ![r].rows = {}]

Link(r) ==
  LET t == requests[r].tenant
      g == requests[r].ig
  IN /\ accounts' = [accounts EXCEPT ![t][g] = "live"]
     /\ lateLinks' = IF Looked(t) THEN lateLinks \cup {<<t, g>>} ELSE lateLinks
     /\ Subscribes(r)

\* The update of the row by its id, which waits for a deletion that has it
\* locked; a row deleted since is not there to update.
UpdateAccount(r) ==
  /\ requests[r].pc = "update"
  /\ ~AccountLocked(requests[r].tenant, requests[r].ig)
  /\ IF requests[r].ig \in requests[r].rows THEN Link(r)
     ELSE Subscribes(r) /\ UNCHANGED <<accounts, lateLinks>>
  /\ UNCHANGED <<auth, users, tenants, members, tabs, clock, wsEnv>>

\* The insert; a row written since breaks UNIQUE (tenantId, igUserId) and ends
\* the whole callback.
InsertAccount(r) ==
  /\ requests[r].pc = "insertAccount"
  /\ IF accounts[requests[r].tenant][requests[r].ig] = "none" THEN Link(r)
     ELSE Answer(r) /\ UNCHANGED <<accounts, lateLinks>>
  /\ UNCHANGED <<auth, users, tenants, members, tabs, clock, wsEnv>>

\* The webhook subscription of the page, whose failure is only logged.
Subscribe(r) ==
  /\ requests[r].pc = "subscribe" /\ WsGoto(r, "pages")
  /\ UNCHANGED <<auth, users, tenants, members, accounts, tabs, lateLinks,
                 clock, wsEnv>>

\* A request that read a row by now deleted finds none with its id.
Forget(request, t, g) ==
  IF request.tenant = t THEN [request EXCEPT !.rows = @ \ {g}] ELSE request

\* DELETE /igAccounts/[id]: the row goes, after a deletion that has it locked.
Disconnect(r) ==
  LET t == requests[r].tenant IN
  /\ requests[r].pc = "remove"
  /\ \E g \in IgUsers :
       /\ ~AccountLocked(t, g)
       /\ accounts' = [accounts EXCEPT ![t][g] = "none"]
       /\ lateLinks' = lateLinks \ {<<t, g>>}
       /\ requests' = [q \in Requests |->
            IF q = r THEN Idle ELSE Forget(requests[q], t, g)]
  /\ UNCHANGED <<auth, users, tenants, members, tabs, clock, wsEnv>>

-----------------------------------------------------------------------------
\* The server dies, or the platform ends the function, in any handler.
Abandon(r) ==
  /\ "crash" \in wsEnv /\ requests[r].pc # "idle"
  /\ Answer(r)
  /\ UNCHANGED <<auth, users, tenants, members, accounts, tabs, lateLinks,
                 clock, wsEnv>>

Tick ==
  /\ clock < MaxClock /\ clock' = clock + 1
  /\ UNCHANGED <<auth, users, tenants, members, accounts, requests, tabs,
                 lateLinks, wsEnv>>

Serve(r) ==
  \/ Authenticate(r) \/ ReadCtx(r) \/ HasExistingTenant(r) \/ CreateTenant(r)
  \/ LoadTenant(r) \/ StampTenant(r) \/ SelectAccounts(r) \/ CutAccount(r)
  \/ CommitDeletion(r) \/ DeletionFails(r) \/ EndSession(r)
  \/ Consent(r) \/ Exchange(r) \/ NextPage(r) \/ UpdateAccount(r)
  \/ InsertAccount(r) \/ Subscribe(r) \/ Disconnect(r)

WsNext ==
  \/ \E u \in Users : \/ SignUp(u) \/ Verify(u) \/ SignIn(u) \/ Recover(u)
                      \/ ResetPassword(u) \/ SignOut(u) \/ Hop(u) \/ Open(u)
  \/ \E r \in Requests : Serve(r) \/ Abandon(r) \/ \E u \in Users : Submit(r, u)
  \/ Tick

\* A browser follows a redirect without being asked.
WsSpec == /\ WsInit /\ [][WsNext]_wsVars
          /\ \A u \in Users : WF_wsVars(Hop(u))

-----------------------------------------------------------------------------
(* Properties.                                                               *)

\* However many creations of a person run at once, or are sent again after a
\* lost answer, there is one workspace per person, and no workspace without
\* its owner: hasExistingTenant and createTenant's insert are two steps, and
\* only the transaction and UNIQUE (userId) decide.
OneWorkspaceEach ==
  /\ \A m, n \in members : (m.user = n.user \/ m.tenant = n.tenant) => m = n
  /\ \A t \in Tenants : tenants[t].made <=> \E m \in members : m.tenant = t

\* Deletion requests that overlap both find the workspace undeleted and both
\* stamp it, against the comment in requestTenantDeletion (WorkspaceClaims); but
\* since each took its time before it looked, the last stamp is never later than
\* the instant the workspace disappeared: the 30 days until the erasure end no
\* later than they would for that instant.
DeletionNotPostponed ==
  \A t \in Tenants :
    /\ tenants[t].deletedAt = tenants[t].requestedAt
    /\ tenants[t].deletedAt <= tenants[t].gone
    /\ tenants[t].gone # 0 => tenants[t].deletedAt # 0

\* A deleted workspace keeps a connected account only if a callback that had
\* passed its checks wrote the row after the deletion had looked for accounts;
\* and no account is found disconnected by a deletion that was rolled back.
DeletionCutsAccounts ==
  \A t \in Tenants, g \in IgUsers :
    /\ Deleted(t) /\ accounts[t][g] = "live" => <<t, g>> \in lateLinks
    /\ accounts[t][g] = "cut" => Deleted(t)

\* A request sent after the deletion of a workspace never works on it, the
\* callback of an authorisation begun before the deletion included.
DeletedIsInvisible ==
  \A r \in Requests :
    requests[r].pc \notin {"idle", "auth", "ctx"}
      => requests[r].tenant \notin requests[r].seesDeleted

\* Every page load comes to rest: whatever the session and the workspace do
\* meanwhile, the redirects of the middleware, the layout and the pages never
\* send a browser around in a circle.
PagesSettle == \A u \in Users : tabs[u].loading ~> ~tabs[u].loading

=============================================================================
