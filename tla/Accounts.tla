------------------------------ MODULE Accounts ------------------------------
(***************************************************************************)
(* Accounts of the Python service (auth.py): an in-memory store keyed by   *)
(* e-mail address, seeded with demo accounts at every start, and signed    *)
(* tokens that stay valid for 72 hours whatever happens to the store.      *)
(* Requests run in threads: a registration that passed its check computes  *)
(* a password hash before it stores the account.                           *)
(***************************************************************************)
EXTENDS Naturals

CONSTANTS
  Emails,          \* addresses that people use
  DemoRole,        \* [demo addresses -> role]: the seeded accounts
  RequestRoles,    \* roles that a registration may ask for
  Clients,         \* who sends requests; each chooses a password of its own
  Demo,            \* the published password of the demo accounts
  MaxBoots,        \* bound on the restarts of the service
  NoUser, NoToken, Idle   \* sentinels

Roles == {"buyer", "seller", "admin"}
Passwords == Clients \cup {Demo}
Ids == Emails \X (0 .. MaxBoots) \X Passwords    \* fresh at every creation
Accounts == [id : Ids, email : Emails, role : Roles, password : Passwords]
Tokens == [sub : Ids, email : Emails, role : Roles]
Requests ==
  {Idle} \cup [at : {"hash"}, account : Accounts, page : BOOLEAN,
                 seen : Accounts \cup {NoUser}]
         \cup [at : {"answer"}, account : Accounts, token : Tokens]

ASSUME AccountsAssumption ==
  /\ DOMAIN DemoRole \subseteq Emails /\ \A e \in DOMAIN DemoRole : DemoRole[e] \in Roles
  /\ Demo \notin Clients
  /\ NoUser \notin Accounts /\ NoToken \notin Tokens
  /\ MaxBoots \in Nat

VARIABLES
  users,     \* _USER_STORE
  boots,     \* history: restarts so far
  request,   \* request[c]: the register or login request of c under way;
             \* page: the page that sent it still waits
  expired,   \* tokens past their 72 hours (same claims, same token)
  reborn     \* history: addresses whose stored account was lost or replaced

accountVars == <<users, boots, request, expired, reborn>>

NewAccount(e, role, pw, boot) ==
  [id |-> <<e, boot, pw>>, email |-> e, role |-> role, password |-> pw]

SeedDemoUsers(boot) ==
  [e \in Emails |-> IF e \in DOMAIN DemoRole THEN NewAccount(e, DemoRole[e], Demo, boot)
                                             ELSE NoUser]

AccountsInit ==
  /\ users = SeedDemoUsers(0)
  /\ boots = 0
  /\ request = [c \in Clients |-> Idle]
  /\ expired = {}
  /\ reborn = {}

CreateToken(account) ==
  [sub |-> account.id, email |-> account.email, role |-> account.role]

(* A token is judged by its signature and its age alone.                  *)
DecodeToken(token) == token # NoToken /\ token \notin expired

RequireRole(token, roles) == DecodeToken(token) /\ token.role \in roles

(* mutant: the address is not checked *)
FreeAddressAlways(e) == TRUE

FreeAddress(e) == users[e] = NoUser

RegisterUser(c, e, role) ==
  /\ request[c] = Idle
  /\ IF FreeAddress(e) /\ role \in Roles
     THEN request' = [request EXCEPT ![c] =
            [at |-> "hash", account |-> NewAccount(e, role, c, boots), page |-> TRUE,
             seen |-> users[e]]]
     ELSE UNCHANGED request       \* 409 or 400
  /\ UNCHANGED <<users, boots, expired, reborn>>

(* The token of the answer is minted now, so it is not expired.           *)
Answered(c, account) ==
  /\ request' = [request EXCEPT ![c] =
       [at |-> "answer", account |-> account, token |-> CreateToken(account)]]
  /\ expired' = expired \ {CreateToken(account)}

StoreUser(c) ==
  /\ request[c] # Idle /\ request[c].at = "hash"
  /\ LET account == request[c].account IN
       /\ users' = [users EXCEPT ![account.email] = account]
       /\ reborn' = IF users[account.email] = NoUser THEN reborn
                                                     ELSE reborn \cup {account.email}
       /\ IF request[c].page THEN Answered(c, account)
          ELSE request' = [request EXCEPT ![c] = Idle] /\ UNCHANGED expired
  /\ UNCHANGED boots

VerifyPassword(pw, account) == pw = account.password

(* A wrong password or an unknown address is answered 401.                *)
LoginUser(c, e, pw) ==
  /\ request[c] = Idle
  /\ IF users[e] # NoUser /\ VerifyPassword(pw, users[e])
     THEN Answered(c, users[e])
     ELSE UNCHANGED <<request, expired>>
  /\ UNCHANGED <<users, boots, reborn>>

(* GET /auth/me: the stored account of the token's address, or the claims  *)
(* of the token, which have no field "id".                                *)
AuthMe(token) ==
  IF users[token.email] # NoUser
  THEN [id |-> users[token.email].id, email |-> token.email]
  ELSE [id |-> NoUser, email |-> token.email]

(* mutant: the figures are looked up by the token's subject *)
UserMetricsBySub(token) == "demo"

(* GET /user/metrics: the figures of the stored account or the demo ones. *)
UserMetrics(token) == IF users[token.email] # NoUser THEN "stored" ELSE "demo"

(* GET /auth/users: every stored account.                                 *)
ListUsers(token) ==
  IF RequireRole(token, {"admin"}) THEN {e \in Emails : users[e] # NoUser} ELSE {}

Expire(token) ==
  /\ expired' = expired \cup {token}
  /\ UNCHANGED <<users, boots, request, reborn>>

(* The process ends: accounts and computations are gone, answers already   *)
(* sent arrive, tokens stay valid.                                        *)
Restart ==
  /\ boots < MaxBoots
  /\ boots' = boots + 1
  /\ users' = SeedDemoUsers(boots + 1)
  /\ reborn' = reborn \cup {e \in Emails : users[e] # NoUser}
  /\ request' = [c \in Clients |->
       IF request[c] # Idle /\ request[c].at = "hash" THEN Idle ELSE request[c]]
  /\ UNCHANGED expired

-----------------------------------------------------------------------------
(* A stored account is replaced only by a registration whose check saw      *)
(* another state of the store (two registrations of one address overlap),  *)
(* or by a restart: register_user checks and stores in two steps.          *)
OnlyRacesReplaceAccounts ==
  [][\A e \in Emails :
       users[e] # NoUser /\ users'[e] # users[e] =>
         \/ boots' # boots
         \/ \E c \in Clients :
              /\ request[c] # Idle /\ request[c].at = "hash"
              /\ request[c].account.email = e /\ request[c].seen # users[e]
              /\ users'[e] = request[c].account]_accountVars
=============================================================================
