----------------------------- MODULE PortalProofs -----------------------------
(***************************************************************************)
(* Proofs about Portal for any tabs, emails, passwords and lifetimes: the  *)
(* types, that a registration someone was told of stays, and what may end  *)
(* a session that still verifies.                                          *)
(***************************************************************************)
EXTENDS Portal, TLAPS

-----------------------------------------------------------------------------
(* What the helpers keep *)

LEMMA TabKinds ==
  ASSUME TypeOK, NEW t \in Tabs
  PROVE  /\ tabs[t].role \in Roles
         /\ tabs[t].pc \in {"proxy", "layout", "login"} =>
              tabs[t].sent \in Token \cup {NoToken} /\ HasAccount(tabs[t].sent)
         /\ tabs[t].pc = "insert" => tabs[t].email \in Emails /\ tabs[t].password \in Passwords
BY DEF TypeOK, IdleTab, AskingTab, CreatingTab

LEMMA AskOK ==
  ASSUME TypeOK, NEW t \in Tabs, NEW pc \in {"proxy", "layout", "login"}, NEW role \in Roles,
         NEW sent \in Token \cup {NoToken}, NEW refused \in BOOLEAN, Ask(t, pc, role, sent, refused)
  PROVE  /\ tabs' \in [Tabs -> IdleTab \cup AskingTab \cup CreatingTab]
         /\ tabs'[t].sent = sent
         /\ \A u \in Tabs \ {t} : tabs'[u] = tabs[u]
<1>1. [pc |-> pc, role |-> role, sent |-> sent, refused |-> refused] \in AskingTab
  BY DEF AskingTab
<1> QED
  BY <1>1 DEF Ask, TypeOK

LEMMA ShowOK ==
  ASSUME TypeOK, NEW t \in Tabs, NEW page \in {"home", "form", "dashboard"}, NEW role \in Roles,
         Show(t, page, role)
  PROVE  /\ tabs' \in [Tabs -> IdleTab \cup AskingTab \cup CreatingTab]
         /\ tabs'[t].pc = "idle"
         /\ \A u \in Tabs \ {t} : tabs'[u] = tabs[u]
<1>1. [pc |-> "idle", page |-> page, role |-> role] \in IdleTab
  BY DEF IdleTab
<1> QED
  BY <1>1 DEF Show, TypeOK

LEMMA MintedOK ==
  ASSUME TypeOK, NEW role \in Roles, NEW e \in Emails
  PROVE  /\ Minted(role, e) \in Token /\ Minted(role, e) # NoToken
         /\ Minted(role, e).role = role /\ Minted(role, e).email = e
BY PortalAssumption DEF TypeOK, Minted, Token, Roles

(* Accounts are created and never dropped. *)
AccountsKept == \A s \in Token : HasAccount(s) => HasAccount(s)'

LEMMA SameAccounts ==
  ASSUME UNCHANGED accounts
  PROVE  AccountsKept
BY DEF AccountsKept, HasAccount, Exists

(* A tab that waits carries a token of an account, before and after. *)
Waits(u) == tabs[u].pc \in {"proxy", "layout", "login"}

LEMMA OtherTabs ==
  ASSUME TypeOK, AccountsKept, NEW t \in Tabs,
         \A u \in Tabs \ {t} : tabs'[u] = tabs[u],
         (Waits(t) => HasAccount(tabs[t].sent))'
  PROVE  (\A u \in Tabs : Waits(u) => HasAccount(tabs[u].sent))'
<1>1. ASSUME NEW u \in Tabs \ {t}, Waits(u)'
      PROVE  HasAccount(tabs[u].sent)'
  <2>1. tabs[u].sent \in Token \cup {NoToken} /\ HasAccount(tabs[u].sent)
    BY <1>1, TabKinds DEF Waits
  <2> QED
    BY <1>1, <2>1 DEF AccountsKept, HasAccount, Exists
<1> QED
  BY <1>1

(* What Create and Suspend do to the accounts. *)
LEMMA CreatedAccount ==
  ASSUME TypeOK, NEW role \in Roles, NEW e \in Emails, NEW p \in Passwords,
         accounts' = [accounts EXCEPT ![role][e] = [password |-> p, suspended |-> FALSE]]
  PROVE  /\ accounts' \in [Roles -> [Emails -> Account \cup {NoAccount}]]
         /\ AccountsKept
         /\ Exists(role, e)'
         /\ accounts'[role][e].password = p
<1>1. [password |-> p, suspended |-> FALSE] \in Account
  BY DEF Account
<1>2. accounts' \in [Roles -> [Emails -> Account \cup {NoAccount}]]
  BY <1>1 DEF TypeOK
<1>3. accounts'[role][e] = [password |-> p, suspended |-> FALSE]
  BY DEF TypeOK
<1>4. \A x \in Roles, f \in Emails : x # role \/ f # e => accounts'[x][f] = accounts[x][f]
  BY DEF TypeOK
<1>5. Exists(role, e)'
  BY <1>1, <1>3, PortalAssumption DEF Exists, Account
<1>6. AccountsKept
  BY <1>4, <1>5 DEF AccountsKept, HasAccount, Exists, Token, Roles
<1> QED
  BY <1>2, <1>3, <1>5, <1>6

LEMMA SuspendedAccount ==
  ASSUME TypeOK, NEW role \in Roles, NEW e \in Emails, NEW b \in BOOLEAN, Suspend(role, e, b)
  PROVE  /\ accounts' \in [Roles -> [Emails -> Account \cup {NoAccount}]]
         /\ AccountsKept
         /\ \A x \in Roles, f \in Emails :
              Exists(x, f) => Exists(x, f)'
                              /\ accounts'[x][f].password = accounts[x][f].password
<1>1. accounts[role][e] \in Account
  BY DEF Suspend, Exists, TypeOK
<1> DEFINE new == [accounts[role][e] EXCEPT !.suspended = b]
<1>2. new \in Account /\ new.password = accounts[role][e].password
  BY <1>1 DEF Account
<1>3. accounts' = [accounts EXCEPT ![role] = [accounts[role] EXCEPT ![e] = new]]
  BY DEF Suspend, TypeOK
<1>4. accounts' \in [Roles -> [Emails -> Account \cup {NoAccount}]]
  BY <1>2, <1>3 DEF TypeOK
<1>5. accounts'[role][e] = new
      /\ \A x \in Roles, f \in Emails : x # role \/ f # e => accounts'[x][f] = accounts[x][f]
  BY <1>3 DEF TypeOK
<1>6. new # NoAccount
  BY <1>2, PortalAssumption DEF Account
<1>7. \A x \in Roles, f \in Emails :
        Exists(x, f) => Exists(x, f)' /\ accounts'[x][f].password = accounts[x][f].password
  BY <1>2, <1>5, <1>6 DEF Exists
<1>8. AccountsKept
  BY <1>7 DEF AccountsKept, HasAccount, Exists, Token, Roles
<1> QED
  BY <1>4, <1>7, <1>8

-----------------------------------------------------------------------------
(* Types *)

(* A sign-in leaves a cookie and a tab for an account that exists by then. *)
LEMMA SignInOK ==
  ASSUME TypeOK, AccountsKept, NEW t \in Tabs, NEW role \in Roles, NEW e \in Emails,
         SignIn(t, role, e), Exists(role, e)'
  PROVE  /\ cookie' \in Token \cup {NoToken} /\ HasAccount(cookie)'
         /\ tabs' \in [Tabs -> IdleTab \cup AskingTab \cup CreatingTab]
         /\ (\A u \in Tabs : Waits(u) => HasAccount(tabs[u].sent))'
         /\ sessions' \in 0..MaxSessions
<1>1. Minted(role, e) \in Token
      /\ Minted(role, e).role = role /\ Minted(role, e).email = e
  BY MintedOK
<1>2. cookie' = Minted(role, e) /\ Ask(t, "proxy", role, Minted(role, e), FALSE)
  BY DEF SignIn
<1>3. HasAccount(cookie)'
  BY <1>1, <1>2 DEF HasAccount
<1>4. /\ tabs' \in [Tabs -> IdleTab \cup AskingTab \cup CreatingTab]
      /\ tabs'[t].sent = Minted(role, e)
      /\ \A u \in Tabs \ {t} : tabs'[u] = tabs[u]
  BY <1>1, <1>2, AskOK
<1>5. (\A u \in Tabs : Waits(u) => HasAccount(tabs[u].sent))'
  BY <1>2, <1>3, <1>4, OtherTabs
<1>6. sessions' \in 0..MaxSessions
  BY PortalAssumption DEF SignIn, TypeOK
<1> QED
  BY <1>1, <1>2, <1>3, <1>4, <1>5, <1>6

(* An answer that leads a tab on to a page that asks again, or to one that *)
(* is shown, with the accounts as they were.                               *)
LEMMA AskedOK ==
  ASSUME TypeOK, UNCHANGED <<now, accounts, sessions, told>>, NEW t \in Tabs,
         NEW pc \in {"proxy", "layout", "login"}, NEW role \in Roles,
         NEW sent \in Token \cup {NoToken}, NEW refused \in BOOLEAN,
         Ask(t, pc, role, sent, refused), HasAccount(sent),
         cookie' = cookie \/ cookie' = NoToken
  PROVE  TypeOK'
<1>1. /\ tabs' \in [Tabs -> IdleTab \cup AskingTab \cup CreatingTab]
      /\ tabs'[t].sent = sent
      /\ \A u \in Tabs \ {t} : tabs'[u] = tabs[u]
  BY AskOK
<1>2. (\A u \in Tabs : Waits(u) => HasAccount(tabs[u].sent))'
  <2>1. HasAccount(tabs[t].sent)'
    BY <1>1 DEF HasAccount, Exists
  <2> QED
    BY <1>1, <2>1, OtherTabs, SameAccounts
<1> QED
  BY <1>1, <1>2 DEF TypeOK, Waits, HasAccount, Exists

LEMMA ShownOK ==
  ASSUME TypeOK, UNCHANGED <<now, accounts, sessions, told>>, NEW t \in Tabs,
         NEW page \in {"home", "form", "dashboard"}, NEW role \in Roles, Show(t, page, role),
         cookie' = cookie \/ cookie' = NoToken
  PROVE  TypeOK'
<1>1. /\ tabs' \in [Tabs -> IdleTab \cup AskingTab \cup CreatingTab]
      /\ tabs'[t].pc = "idle"
      /\ \A u \in Tabs \ {t} : tabs'[u] = tabs[u]
  BY ShowOK
<1>2. (\A u \in Tabs : Waits(u) => HasAccount(tabs[u].sent))'
  BY <1>1, OtherTabs, SameAccounts DEF Waits
<1> QED
  BY <1>1, <1>2 DEF TypeOK, Waits, HasAccount, Exists

LEMMA CreateOK ==
  ASSUME TypeOK, NEW t \in Tabs, Create(t)
  PROVE  TypeOK'
<1>1. PICK role \in Roles, e \in Emails, p \in Passwords :
        role = tabs[t].role /\ e = tabs[t].email /\ p = tabs[t].password
  BY TabKinds DEF Create
<1>2. /\ accounts' \in [Roles -> [Emails -> Account \cup {NoAccount}]]
      /\ AccountsKept /\ Exists(role, e)'
  BY <1>1, CreatedAccount DEF Create
<1>3. told' \subseteq Credentials /\ now' = now
  BY <1>1 DEF Create, Registered, Credentials, TypeOK
<1>4. CASE SignIn(t, role, e)
  <2>1. /\ cookie' \in Token \cup {NoToken} /\ HasAccount(cookie)'
        /\ tabs' \in [Tabs -> IdleTab \cup AskingTab \cup CreatingTab]
        /\ (\A u \in Tabs : Waits(u) => HasAccount(tabs[u].sent))'
        /\ sessions' \in 0..MaxSessions
    BY <1>2, <1>4, SignInOK
  <2> QED
    BY <1>2, <1>3, <2>1 DEF TypeOK, Waits
<1>5. CASE (\E page \in {"home", "form"} : Show(t, page, role))
           /\ UNCHANGED <<cookie, sessions>>
  <2>1. /\ tabs' \in [Tabs -> IdleTab \cup AskingTab \cup CreatingTab]
        /\ tabs'[t].pc = "idle"
        /\ \A u \in Tabs \ {t} : tabs'[u] = tabs[u]
    BY <1>1, <1>5, ShowOK
  <2>2. (\A u \in Tabs : Waits(u) => HasAccount(tabs[u].sent))'
    BY <1>2, <2>1, OtherTabs DEF Waits
  <2>3. HasAccount(cookie)'
    BY <1>2, <1>5 DEF TypeOK, AccountsKept, HasAccount
  <2> QED
    BY <1>2, <1>3, <1>5, <2>1, <2>2, <2>3 DEF TypeOK, Waits
<1> QED
  BY <1>1, <1>4, <1>5 DEF Create, Registered, Back

LEMMA TypeStep ==
  ASSUME TypeOK, [Next]_vars
  PROVE  TypeOK'
<1>1. HasAccount(cookie) /\ cookie \in Token \cup {NoToken} /\ HasAccount(NoToken)
  BY DEF TypeOK, HasAccount
<1>2. CASE Tick \/ CookieExpires \/ UNCHANGED vars
  <2>1. UNCHANGED <<accounts, tabs, sessions, told>> /\ now' \in Nat
        /\ (cookie' = cookie \/ cookie' = NoToken)
    BY <1>2 DEF Tick, CookieExpires, vars, TypeOK
  <2> QED
    BY <2>1, <1>1 DEF TypeOK, HasAccount, Exists
<1>3. ASSUME NEW role \in Roles, NEW e \in Emails, NEW b \in BOOLEAN, Suspend(role, e, b)
      PROVE  TypeOK'
  <2>1. accounts' \in [Roles -> [Emails -> Account \cup {NoAccount}]] /\ AccountsKept
    BY <1>3, SuspendedAccount
  <2>2. UNCHANGED <<now, cookie, tabs, sessions, told>>
    BY <1>3 DEF Suspend
  <2>3. HasAccount(cookie)'
    BY <1>1, <2>1, <2>2 DEF AccountsKept, HasAccount
  <2>4. (\A u \in Tabs : Waits(u) => HasAccount(tabs[u].sent))'
    BY <2>1, <2>2, TabKinds DEF Waits, AccountsKept, HasAccount
  <2> QED
    BY <2>1, <2>2, <2>3, <2>4 DEF TypeOK, Waits
<1>4. ASSUME NEW t \in Tabs, Proxy(t) \/ Layout(t) \/ LoginPage(t) PROVE TypeOK'
  <2>1. UNCHANGED <<now, accounts, sessions, told>> /\ (cookie' = cookie \/ cookie' = NoToken)
    BY <1>4 DEF Proxy, Layout, LoginPage
  <2>2. tabs[t].role \in Roles /\ tabs[t].sent \in Token \cup {NoToken}
        /\ HasAccount(tabs[t].sent)
    BY <1>4, TabKinds DEF Proxy, Layout, LoginPage
  <2>3. CASE \E pc \in {"proxy", "layout", "login"}, refused \in BOOLEAN,
                sent \in {tabs[t].sent, cookie, NoToken} :
               Ask(t, pc, tabs[t].role, sent, refused)
    BY <1>1, <2>1, <2>2, <2>3, AskedOK
  <2>4. CASE \E page \in {"form", "dashboard"} : Show(t, page, tabs[t].role)
    BY <2>1, <2>2, <2>4, ShownOK
  <2>5. Valid(tabs[t].sent) \in BOOLEAN
    BY DEF Valid
  <2> QED
    BY <1>4, <2>3, <2>4, <2>5 DEF Proxy, Layout, LoginPage
<1>5. ASSUME NEW t \in Tabs, Create(t) \/ CreateFails(t) \/ Logout(t) PROVE TypeOK'
  <2>1. tabs[t].role \in Roles
    BY TabKinds
  <2>2. CASE CreateFails(t) \/ Logout(t)
    <3>1. UNCHANGED <<now, accounts, sessions, told>> /\ (cookie' = cookie \/ cookie' = NoToken)
          /\ \E page \in {"home", "form"} : Show(t, page, tabs[t].role)
      BY <2>2 DEF CreateFails, Back, Logout
    <3> QED
      BY <2>1, <3>1, ShownOK
  <2> QED
    BY <1>5, <2>2, CreateOK
<1>6. ASSUME NEW t \in Tabs, NEW pc \in {"proxy", "login"}, NEW role \in Roles,
             Visit(t, pc, role)
      PROVE  TypeOK'
  <2>1. UNCHANGED <<now, accounts, cookie, sessions, told>> /\ Ask(t, pc, role, cookie, FALSE)
    BY <1>6 DEF Visit
  <2> QED
    BY <1>1, <2>1, AskedOK
<1>7. ASSUME NEW t \in Tabs, NEW e \in Emails, NEW p \in Passwords, Login(t, e, p)
      PROVE  TypeOK'
  <2>1. PICK role \in Roles : role = tabs[t].role
    BY TabKinds
  <2>2. UNCHANGED <<now, accounts, told>> /\ SignIn(t, role, e) /\ Exists(role, e)'
    BY <1>7, <2>1 DEF Login, Exists
  <2>3. /\ cookie' \in Token \cup {NoToken} /\ HasAccount(cookie)'
        /\ tabs' \in [Tabs -> IdleTab \cup AskingTab \cup CreatingTab]
        /\ (\A u \in Tabs : Waits(u) => HasAccount(tabs[u].sent))'
        /\ sessions' \in 0..MaxSessions
    BY <2>2, SameAccounts, SignInOK
  <2> QED
    BY <2>2, <2>3 DEF TypeOK, Waits
<1>8. ASSUME NEW t \in Tabs, NEW e \in Emails, NEW p \in Passwords,
             Register(t, e, p) \/ CreateAdmin(t, e, p)
      PROVE  TypeOK'
  <2>1. PICK role \in Roles : Prepare(t, role, e, p)
    BY <1>8 DEF Register, CreateAdmin, Roles
  <2> DEFINE new == [pc |-> "insert", role |-> role, email |-> e, password |-> p]
  <2>2. new \in CreatingTab /\ new.pc = "insert"
    BY DEF CreatingTab
  <2>3. tabs' = [tabs EXCEPT ![t] = new] /\ UNCHANGED <<now, accounts, cookie, sessions, told>>
    BY <2>1 DEF Prepare
  <2>4. tabs' \in [Tabs -> IdleTab \cup AskingTab \cup CreatingTab] /\ tabs'[t].pc = "insert"
        /\ \A u \in Tabs \ {t} : tabs'[u] = tabs[u]
    BY <2>2, <2>3 DEF TypeOK
  <2>5. (\A u \in Tabs : Waits(u) => HasAccount(tabs[u].sent))'
    BY <2>3, <2>4, OtherTabs, SameAccounts DEF Waits
  <2> QED
    BY <2>3, <2>4, <2>5 DEF TypeOK, Waits, HasAccount, Exists
<1> QED
  BY <1>2, <1>3, <1>4, <1>5, <1>6, <1>7, <1>8 DEF Next, Answered

(* A token was minted for an account that exists (auth.py:222-278). *)
THEOREM PortalTypeCorrect == Spec => []TypeOK
<1>1. Init => TypeOK
  BY PortalAssumption DEF Init, TypeOK, IdleTab, Roles, HasAccount
<1> QED
  BY <1>1, TypeStep, PTL DEF Spec

-----------------------------------------------------------------------------
(* Registrations and sessions *)

LEMMA KeptStep ==
  ASSUME TypeOK, RegistrationsKept, [Next]_vars
  PROVE  RegistrationsKept'
<1> DEFINE Keeps == \A x \in Roles, f \in Emails :
                      Exists(x, f) => Exists(x, f)'
                                      /\ accounts'[x][f].password = accounts[x][f].password
<1>1. \A c \in told : c.role \in Roles /\ c.email \in Emails
  BY DEF TypeOK, Credentials
<1>2. CASE told' = told /\ Keeps
  BY <1>1, <1>2 DEF RegistrationsKept
<1>3. CASE told' = told /\ accounts' = accounts
  BY <1>3 DEF RegistrationsKept, Exists
<1>4. ASSUME NEW t \in Tabs, Create(t) PROVE RegistrationsKept'
  <2>1. PICK role \in Roles, e \in Emails, p \in Passwords :
          role = tabs[t].role /\ e = tabs[t].email /\ p = tabs[t].password
    BY <1>4, TabKinds DEF Create
  <2>2. Exists(role, e)' /\ accounts'[role][e].password = p
    BY <1>4, <2>1, CreatedAccount DEF Create
  <2>3. Keeps
    <3>1. ~Exists(role, e)
      BY <1>4, <2>1 DEF Create
    <3>2. \A x \in Roles, f \in Emails :
            x # role \/ f # e => accounts'[x][f] = accounts[x][f]
      BY <1>4, <2>1 DEF Create, TypeOK
    <3> QED
      BY <3>1, <3>2 DEF Exists
  <2>4. \A c \in told' :
          c \in told \/ (c.role = role /\ c.email = e /\ c.password = p)
    BY <1>4, <2>1 DEF Create, Registered
  <2> QED
    BY <1>1, <2>2, <2>3, <2>4 DEF RegistrationsKept
<1>5. ASSUME NEW role \in Roles, NEW e \in Emails, NEW b \in BOOLEAN, Suspend(role, e, b)
      PROVE  told' = told /\ Keeps
  BY <1>5, SuspendedAccount DEF Suspend
<1>6. CASE \/ Tick \/ CookieExpires \/ UNCHANGED vars
           \/ \E t \in Tabs :
                \/ Proxy(t) \/ Layout(t) \/ LoginPage(t) \/ CreateFails(t) \/ Logout(t)
                \/ \E pc \in {"proxy", "login"}, role \in Roles : Visit(t, pc, role)
                \/ \E e \in Emails, p \in Passwords :
                     Login(t, e, p) \/ Register(t, e, p) \/ CreateAdmin(t, e, p)
  BY <1>3, <1>6 DEF Tick, CookieExpires, vars, Proxy, Layout, LoginPage, CreateFails, Logout,
                    Visit, Login, Register, CreateAdmin, Prepare
<1> QED
  BY <1>2, <1>4, <1>5, <1>6 DEF Next, Answered

(* Who was told of a registration can sign in with it ever after: the      *)
(* unique email lets one of any number of registrations through            *)
(* (auth_service.py:35-47, auth.py:222-241, make_admin.py:31-38).          *)
THEOREM RegistrationsStay == Spec => []RegistrationsKept
<1>1. Init => RegistrationsKept
  BY DEF Init, RegistrationsKept
<1>2. TypeOK /\ RegistrationsKept /\ [Next]_vars => RegistrationsKept'
  BY KeptStep
<1> QED
  BY <1>1, <1>2, PortalTypeCorrect, PTL DEF Spec

LEMMA EndStep ==
  ASSUME TypeOK, Next
  PROVE  SessionEndsStep
<1>1. SUFFICES ASSUME Valid(cookie), cookie' # cookie
               PROVE  \E t \in Tabs :
                        \/ sessions' > sessions
                        \/ /\ Shows(t, "dashboard")
                           /\ tabs'[t].pc = "idle" /\ tabs'[t].page = "home"
                        \/ /\ tabs[t].pc = "proxy" /\ tabs'[t].pc = "login"
                           /\ tabs[t].sent \notin {cookie, NoToken} /\ ~Valid(tabs[t].sent)
  BY DEF SessionEndsStep
<1>2. PICK t \in Tabs : Proxy(t) \/ Logout(t) \/ \E role, e : SignIn(t, role, e)
  BY <1>1 DEF Next, Answered, Tick, CookieExpires, Suspend, Layout, LoginPage, Create,
              Registered, CreateFails, Visit, Login, Register, CreateAdmin, Prepare
<1>3. CASE Proxy(t)
  <2>1. /\ tabs[t].pc = "proxy" /\ tabs[t].sent # NoToken /\ ~Valid(tabs[t].sent)
        /\ Ask(t, "login", tabs[t].role, NoToken, FALSE)
    BY <1>1, <1>3 DEF Proxy
  <2>2. tabs'[t].pc = "login"
    BY <2>1 DEF Ask, TypeOK
  <2> QED
    BY <1>1, <2>1, <2>2
<1>4. CASE Logout(t)
  <2>1. Shows(t, "dashboard") /\ Show(t, "home", tabs[t].role)
    BY <1>4 DEF Logout
  <2>2. tabs'[t].pc = "idle" /\ tabs'[t].page = "home"
    BY <2>1 DEF Show, TypeOK
  <2> QED
    BY <2>1, <2>2
<1>5. CASE \E role, e : SignIn(t, role, e)
  <2>1. sessions' > sessions
    BY <1>5, PortalAssumption DEF SignIn, TypeOK
  <2> QED
    BY <2>1
<1> QED
  BY <1>2, <1>3, <1>4, <1>5

(* A session that still verifies ends by a sign-in, a logout or the late   *)
(* answer to a request with an older cookie (proxy.ts:15-33,               *)
(* auth.ts:7-21, route.ts:3-10).                                           *)
THEOREM SessionsEndBy == Spec => SessionEnds
<1>1. TypeOK /\ [Next]_vars => [SessionEndsStep]_vars
  BY EndStep
<1> QED
  BY <1>1, PortalTypeCorrect, PTL DEF Spec, SessionEnds
=============================================================================
