-------------------------------- MODULE Portal --------------------------------
(***************************************************************************)
(* The web portal of producers and administrators: their accounts in the   *)
(* backend and one browser whose tabs share the auth_token cookie.         *)
(*                                                                         *)
(* A tab's request carries the cookie of the moment it is sent; the proxy, *)
(* the layout (with its call of GET /me) and the login page each answer it *)
(* in a step of its own, and what an answer does to the cookie it does     *)
(* when it arrives.  A call of the backend may fail at any time.           *)
(***************************************************************************)
EXTENDS Naturals

CONSTANTS
    Tabs,        \* tabs of the browser; one may also be a run of make_admin
    Emails,      \* what people register with
    Passwords,   \* what people type
    Unusable,    \* the passwords under 10 characters or over 72 bytes
    JwtTtl,      \* jwt_expiry_hours and the cookie's maxAge, in ticks
    MaxNow,      \* bound on the clock
    MaxSessions, \* bound on the sign-ins of the browser
    NoToken,     \* the browser holds no cookie
    NoAccount    \* no such row

ASSUME PortalAssumption ==
    /\ JwtTtl \in Nat /\ MaxNow \in Nat /\ MaxSessions \in Nat
    /\ NoToken \notin [role : {"producer", "admin"}, email : Emails, exp : Nat]
    /\ NoAccount \notin [password : Passwords, suspended : BOOLEAN]

VARIABLES
    now,      \* the clock of every party
    accounts, \* the rows of producers and of admins, by their unique email
    cookie,   \* auth_token in the browser
    tabs,     \* what each tab shows or waits for
    sessions, \* number of sign-ins of the browser so far
    told      \* history: the credentials whose owner was told of success

vars == <<now, accounts, cookie, tabs, sessions, told>>

Roles == {"producer", "admin"}
Account == [password : Passwords, suspended : BOOLEAN]
Token == [role : Roles, email : Emails, exp : Nat]
Credentials == [role : Roles, email : Emails, password : Passwords]

IdleTab == [pc : {"idle"}, page : {"home", "form", "dashboard"}, role : Roles]
AskingTab == [pc : {"proxy", "layout", "login"}, role : Roles,
              sent : Token \cup {NoToken}, refused : BOOLEAN]
CreatingTab == [pc : {"insert"}, role : Roles, email : Emails, password : Passwords]

Exists(role, e) == accounts[role][e] # NoAccount
HasAccount(s) == s = NoToken \/ Exists(s.role, s.email)

(* Type invariant: every token the browser keeps or sends was minted for   *)
(* an account of its role.                                                 *)
TypeOK ==
    /\ now \in Nat
    /\ accounts \in [Roles -> [Emails -> Account \cup {NoAccount}]]
    /\ cookie \in Token \cup {NoToken} /\ HasAccount(cookie)
    /\ tabs \in [Tabs -> IdleTab \cup AskingTab \cup CreatingTab]
    /\ \A t \in Tabs : tabs[t].pc \in {"proxy", "layout", "login"} => HasAccount(tabs[t].sent)
    /\ sessions \in 0..MaxSessions
    /\ told \subseteq Credentials

Busy(t) == tabs[t].pc # "idle"
Shows(t, page) == tabs[t].pc = "idle" /\ tabs[t].page = page

Init ==
    /\ now = 0
    /\ accounts = [role \in Roles |-> [e \in Emails |-> NoAccount]]
    /\ cookie = NoToken
    /\ tabs = [t \in Tabs |-> [pc |-> "idle", page |-> "home", role |-> "producer"]]
    /\ sessions = 0
    /\ told = {}

-----------------------------------------------------------------------------
(* What answers do *)

Show(t, page, role) ==
    tabs' = [tabs EXCEPT ![t] = [pc |-> "idle", page |-> page, role |-> role]]

Ask(t, pc, role, sent, refused) ==
    tabs' = [tabs EXCEPT ![t] = [pc |-> pc, role |-> role, sent |-> sent,
                                 refused |-> refused]]

Minted(role, e) == [role |-> role, email |-> e, exp |-> now + JwtTtl]

(* setAuthCookie, then the form pushes the dashboard of its role. *)
SignIn(t, role, e) ==
    /\ sessions < MaxSessions
    /\ sessions' = sessions + 1
    /\ cookie' = Minted(role, e)
    /\ Ask(t, "proxy", role, Minted(role, e), FALSE)

(* jwtVerify: the signature holds, the expiry is in the future. *)
Valid(s) == s # NoToken /\ s.exp > now
ValidFor(s, role) == Valid(s) /\ s.role = role

-----------------------------------------------------------------------------
(* Pages *)

(* The matcher sends dashboards through the proxy, not the login pages. *)
Visit(t, pc, role) ==
    /\ ~Busy(t)
    /\ Ask(t, pc, role, cookie, FALSE)
    /\ UNCHANGED <<now, accounts, cookie, sessions, told>>

(* Mistake: whatever is redirected loses its cookie. *)
ProxyDeletesAlways(t) ==
    /\ tabs[t].pc = "proxy"
    /\ IF ValidFor(tabs[t].sent, tabs[t].role)
       THEN Ask(t, "layout", tabs[t].role, tabs[t].sent, FALSE) /\ UNCHANGED cookie
       ELSE cookie' = NoToken /\ Ask(t, "login", tabs[t].role, NoToken, FALSE)
    /\ UNCHANGED <<now, accounts, sessions, told>>

(* A missing cookie and a wrong role are redirected; a token that does not *)
(* verify is redirected and its cookie deleted, whatever it is by then.    *)
Proxy(t) ==
    LET sent == tabs[t].sent
        role == tabs[t].role
    IN
    /\ tabs[t].pc = "proxy"
    /\ \/ /\ ValidFor(sent, role)
          /\ Ask(t, "layout", role, sent, FALSE) /\ UNCHANGED cookie
       \/ /\ sent = NoToken \/ (Valid(sent) /\ sent.role # role)
          /\ Ask(t, "login", role, cookie, FALSE) /\ UNCHANGED cookie
       \/ /\ sent # NoToken /\ ~Valid(sent)
          /\ Ask(t, "login", role, NoToken, FALSE) /\ cookie' = NoToken
    /\ UNCHANGED <<now, accounts, sessions, told>>

(* get_current_principal, for these two roles.  decode_access_jwt takes a  *)
(* token at the instant of its expiry too.                                 *)
Principal(s) ==
    /\ s # NoToken /\ s.exp >= now
    /\ Exists(s.role, s.email) /\ ~accounts[s.role][s.email].suspended

(* Any failure of /me is answered as if nobody were signed in. *)
Layout(t) ==
    /\ tabs[t].pc = "layout"
    /\ \/ Principal(tabs[t].sent) /\ Show(t, "dashboard", tabs[t].role)
       \/ Ask(t, "login", tabs[t].role, cookie, Valid(tabs[t].sent))
    /\ UNCHANGED <<now, accounts, cookie, sessions, told>>

(* Mistake: whoever is signed in has no business here. *)
LoginPageAnyRole(t) ==
    /\ tabs[t].pc = "login"
    /\ IF Valid(tabs[t].sent) THEN Ask(t, "proxy", tabs[t].role, cookie, FALSE)
                              ELSE Show(t, "form", tabs[t].role)
    /\ UNCHANGED <<now, accounts, cookie, sessions, told>>

(* The login and register pages redirect whoever is signed in already. *)
LoginPage(t) ==
    /\ tabs[t].pc = "login"
    /\ IF ValidFor(tabs[t].sent, tabs[t].role)
       THEN Ask(t, "proxy", tabs[t].role, cookie, FALSE)
       ELSE Show(t, "form", tabs[t].role)
    /\ UNCHANGED <<now, accounts, cookie, sessions, told>>

(* The sidebar's form posts to the logout route. *)
Logout(t) ==
    /\ Shows(t, "dashboard")
    /\ cookie' = NoToken
    /\ Show(t, "home", tabs[t].role)
    /\ UNCHANGED <<now, accounts, sessions, told>>

-----------------------------------------------------------------------------
(* Forms.  A refusal leaves the form as it is. *)

(* Mistake: the account is looked for in either table. *)
LoginOfAnyRole(t, e, p) ==
    /\ Shows(t, "form")
    /\ \E role \in Roles : Exists(role, e) /\ accounts[role][e].password = p
    /\ SignIn(t, tabs[t].role, e)
    /\ UNCHANGED <<now, accounts, told>>

(* login_producer, login_admin: a suspended account signs in too. *)
Login(t, e, p) ==
    /\ Shows(t, "form")
    /\ Exists(tabs[t].role, e) /\ accounts[tabs[t].role][e].password = p
    /\ SignIn(t, tabs[t].role, e)
    /\ UNCHANGED <<now, accounts, told>>

(* An account is created: up to the SELECT and the hash, which refuses     *)
(* what bcrypt cannot take.                                                *)
Prepare(t, role, e, p) ==
    /\ p \notin Unusable
    /\ ~Exists(role, e)
    /\ tabs' = [tabs EXCEPT ![t] = [pc |-> "insert", role |-> role, email |-> e,
                                    password |-> p]]
    /\ UNCHANGED <<now, accounts, cookie, sessions, told>>

Register(t, e, p) ==
    Shows(t, "form") /\ tabs[t].role = "producer" /\ Prepare(t, "producer", e, p)

(* make_admin: no browser takes part. *)
CreateAdmin(t, e, p) == ~Busy(t) /\ Prepare(t, "admin", e, p)

Back(t) == Show(t, IF tabs[t].role = "producer" THEN "form" ELSE "home", tabs[t].role)

(* The answer to a registration; a reply on its way may be lost. *)
Registered(t) ==
    LET me == tabs[t] IN
    \/ /\ told' = told \cup {[role |-> me.role, email |-> me.email, password |-> me.password]}
       /\ IF me.role = "producer"
          THEN SignIn(t, me.role, me.email)
          ELSE Show(t, "home", me.role) /\ UNCHANGED <<cookie, sessions>>
    \/ Back(t) /\ UNCHANGED <<cookie, sessions, told>>

(* Mistake: a row that appeared since the SELECT is overwritten. *)
CreateAnyway(t) ==
    /\ tabs[t].pc = "insert"
    /\ accounts' = [accounts EXCEPT ![tabs[t].role][tabs[t].email] =
                      [password |-> tabs[t].password, suspended |-> FALSE]]
    /\ Registered(t)
    /\ UNCHANGED now

Create(t) ==
    /\ tabs[t].pc = "insert"
    /\ ~Exists(tabs[t].role, tabs[t].email)
    /\ accounts' = [accounts EXCEPT ![tabs[t].role][tabs[t].email] =
                      [password |-> tabs[t].password, suspended |-> FALSE]]
    /\ Registered(t)
    /\ UNCHANGED now

(* The unique email refuses the INSERT, or the call fails. *)
CreateFails(t) ==
    /\ tabs[t].pc = "insert"
    /\ Back(t)
    /\ UNCHANGED <<now, accounts, cookie, sessions, told>>

-----------------------------------------------------------------------------
(* The environment *)

(* No code sets the column; an operator does. *)
Suspend(role, e, suspended) ==
    /\ Exists(role, e)
    /\ accounts' = [accounts EXCEPT ![role][e].suspended = suspended]
    /\ UNCHANGED <<now, cookie, tabs, sessions, told>>

(* maxAge counts from the answer, the token's expiry from a moment before. *)
CookieExpires ==
    /\ cookie # NoToken /\ ~Valid(cookie)
    /\ cookie' = NoToken
    /\ UNCHANGED <<now, accounts, tabs, sessions, told>>

Tick ==
    /\ now < MaxNow
    /\ now' = now + 1
    /\ UNCHANGED <<accounts, cookie, tabs, sessions, told>>

Answered(t) == Proxy(t) \/ Layout(t) \/ LoginPage(t) \/ Create(t) \/ CreateFails(t)

Next ==
    \/ Tick \/ CookieExpires
    \/ \E role \in Roles, e \in Emails, b \in BOOLEAN : Suspend(role, e, b)
    \/ \E t \in Tabs :
         \/ Answered(t) \/ Logout(t)
         \/ \E pc \in {"proxy", "login"}, role \in Roles : Visit(t, pc, role)
         \/ \E e \in Emails, p \in Passwords :
              Login(t, e, p) \/ Register(t, e, p) \/ CreateAdmin(t, e, p)

Spec == Init /\ [][Next]_vars

(* The servers answer, and the browser follows every redirect at once. *)
FairSpec == Spec /\ \A t \in Tabs : WF_vars(Answered(t))

-----------------------------------------------------------------------------
(* Properties *)

(* Who was told of a registration can sign in with it ever after: of two   *)
(* registrations of one email that both found it free, one is refused      *)
(* (auth_service.py:35-47, auth.py:222-241, make_admin.py:31-38).          *)
RegistrationsKept ==
    \A c \in told : Exists(c.role, c.email) /\ accounts[c.role][c.email].password = c.password

(* A session that still verifies ends only by a sign-in in the same        *)
(* browser, by a logout, or by the late answer to a request that carried   *)
(* an older, expired cookie (proxy.ts:15-33, auth.ts:7-21, route.ts:3-10). *)
SessionEndsStep ==
    Valid(cookie) /\ cookie' # cookie
    => \E t \in Tabs :
         \/ sessions' > sessions
         \/ Shows(t, "dashboard") /\ tabs'[t].pc = "idle" /\ tabs'[t].page = "home"
         \/ /\ tabs[t].pc = "proxy" /\ tabs'[t].pc = "login"
            /\ tabs[t].sent \notin {cookie, NoToken} /\ ~Valid(tabs[t].sent)
SessionEnds == [][SessionEndsStep]_vars

(* The proxy, the layout and the login page agree on who is signed in:     *)
(* redirects from one to the other end at a page, unless the layout's call *)
(* of /me refused a token that the other two accept: then they may go on   *)
(* for as long as it does (proxy.ts:15-34, layout.tsx:20-31, page.tsx:28). *)
Refused(t) == tabs[t].pc = "login" /\ tabs[t].refused
NavigationsEnd == \A t \in Tabs : Busy(t) ~> ~Busy(t) \/ Refused(t)
=============================================================================
