----------------------------- MODULE WebSession -----------------------------
(***************************************************************************)
(* The session of the web client (AuthContext.tsx) over the accounts of    *)
(* the service.  The tabs of one browser share the token in localStorage;  *)
(* each tab keeps the user it shows.  A page that loads with a token shows *)
(* the claims at once and asks /auth/me in the background.                 *)
(***************************************************************************)
EXTENDS Accounts

VARIABLES
  stored,    \* the token in localStorage, shared by the tabs
  shown,     \* shown[c]: id and address of the user the tab shows
  flight     \* flight[c]: the silent refresh of the tab under way

clientVars == <<stored, shown, flight>>
sessionVars == <<accountVars, clientVars>>

Shown == [id : Ids \cup {NoUser}, email : Emails]

ASSUME ShownAssumption == NoUser \notin Shown

Flights == [token : Tokens, profile : Shown \cup {Idle}]

SessionInit ==
  /\ AccountsInit
  /\ stored = NoToken
  /\ shown = [c \in Clients |-> NoUser]
  /\ flight = [c \in Clients |-> Idle]

Server(A) == A /\ UNCHANGED clientVars

SignedIn(c) == shown[c] # NoUser

(* The sign-in page is shown only to a tab without a user.                *)
Ask(c) ==
  /\ ~SignedIn(c)
  /\ \E e \in Emails :
       \/ \E role \in RequestRoles : Server(RegisterUser(c, e, role))
       \/ \E pw \in {c, Demo} : Server(LoginUser(c, e, pw))

(* login and register: token and user of the answer, both.                *)
SignIn(c) ==
  /\ request[c] # Idle /\ request[c].at = "answer"
  /\ stored' = request[c].token
  /\ shown' = [shown EXCEPT ![c] =
       [id |-> request[c].account.id, email |-> request[c].account.email]]
  /\ request' = [request EXCEPT ![c] = Idle]
  /\ UNCHANGED <<users, boots, expired, reborn, flight>>

(* The answer does not arrive: the page shows an error.                   *)
AnswerLost(c) ==
  /\ request[c] # Idle /\ request[c].at = "answer"
  /\ request' = [request EXCEPT ![c] = Idle]
  /\ UNCHANGED <<users, boots, expired, reborn, clientVars>>

(* mutant: signing out leaves the token in localStorage *)
LogoutKeepsToken(c) ==
  /\ SignedIn(c)
  /\ shown' = [shown EXCEPT ![c] = NoUser]
  /\ UNCHANGED <<accountVars, stored, flight>>

Logout(c) ==
  /\ SignedIn(c)
  /\ stored' = NoToken
  /\ shown' = [shown EXCEPT ![c] = NoUser]
  /\ UNCHANGED <<accountVars, flight>>

(* mutant: the claims are shown as they are, without an id *)
LocalUserRaw(token) == token

LocalUser(token) == [id |-> token.sub, email |-> token.email]

(* A page load drops what the tab had under way and calls refreshUser: an  *)
(* expired token is removed, another one is shown and refreshed.  The      *)
(* service finishes a registration whose page is gone.                    *)
RefreshUser(c) ==
  /\ IF DecodeToken(stored)
     THEN /\ shown' = [shown EXCEPT ![c] = LocalUser(stored)]
          /\ flight' = [flight EXCEPT ![c] = [token |-> stored, profile |-> Idle]]
          /\ UNCHANGED stored
     ELSE /\ stored' = NoToken
          /\ shown' = [shown EXCEPT ![c] = NoUser]
          /\ flight' = [flight EXCEPT ![c] = Idle]
  /\ request' = [request EXCEPT ![c] =
       IF @ # Idle /\ @.at = "hash" THEN [@ EXCEPT !.page = FALSE] ELSE Idle]
  /\ UNCHANGED <<users, boots, expired, reborn>>

(* The service answers the refresh; a refused or failed one ends quietly.  *)
RefreshAnswered(c) ==
  /\ flight[c] # Idle /\ flight[c].profile = Idle
  /\ flight' = [flight EXCEPT ![c] =
       IF DecodeToken(flight[c].token) THEN [@ EXCEPT !.profile = AuthMe(flight[c].token)]
                                       ELSE Idle]
  /\ UNCHANGED <<accountVars, stored, shown>>

RefreshFailed(c) ==
  /\ flight[c] # Idle
  /\ flight' = [flight EXCEPT ![c] = Idle]
  /\ UNCHANGED <<accountVars, stored, shown>>

(* setUser without a look at the token that is stored now.                *)
RefreshArrives(c) ==
  /\ flight[c] # Idle /\ flight[c].profile # Idle
  /\ shown' = [shown EXCEPT ![c] = flight[c].profile]
  /\ flight' = [flight EXCEPT ![c] = Idle]
  /\ UNCHANGED <<accountVars, stored>>

SessionNext ==
  \/ \E c \in Clients : Ask(c) \/ Server(StoreUser(c)) \/ SignIn(c) \/ AnswerLost(c)
                        \/ Logout(c) \/ RefreshUser(c) \/ RefreshAnswered(c)
                        \/ RefreshFailed(c) \/ RefreshArrives(c)
  \/ stored # NoToken /\ stored \notin expired /\ Server(Expire(stored))
  \/ Server(Restart)

SessionSpec == SessionInit /\ [][SessionNext]_sessionVars

-----------------------------------------------------------------------------
(* Types of the store, of the requests and of the browser.                *)
SessionTypeOK ==
  /\ users \in [Emails -> Accounts \cup {NoUser}]
  /\ boots \in 0 .. MaxBoots
  /\ request \in [Clients -> Requests]
  /\ expired \subseteq Tokens
  /\ reborn \subseteq Emails
  /\ stored \in Tokens \cup {NoToken}
  /\ shown \in [Clients -> Shown \cup {NoUser}]
  /\ flight \in [Clients -> Flights \cup {Idle}]

(* The tab shows a user exactly when a token is stored, and its user.     *)
Agrees(c) ==
  IF stored = NoToken THEN ~SignedIn(c) ELSE SignedIn(c) /\ shown[c].email = stored.email

(* A tab stops agreeing with the stored token in two ways only: another    *)
(* tab changed the token, or the answer of a silent refresh arrived after   *)
(* the token it was asked with had been dropped or replaced                *)
(* (AuthContext.tsx:116 sets the user without a look at the token).        *)
OnlyLateAnswersMislead ==
  [][\A c \in Clients :
       Agrees(c) /\ ~Agrees(c)' =>
         \/ shown'[c] = shown[c]
         \/ /\ flight[c] # Idle /\ flight'[c] = Idle
            /\ flight[c].token # stored]_sessionVars

(* As long as no account of the token's address was lost by a restart or    *)
(* replaced by a racing registration: a tab signed in under that address    *)
(* shows the account the token was issued for, /user/metrics answers with   *)
(* its figures and not the demo ones, and only an administrator's token     *)
(* lists the accounts.                                                    *)
ProfileIsHolders ==
  stored # NoToken /\ stored.email \notin reborn =>
    /\ \A c \in Clients :
         SignedIn(c) /\ shown[c].email = stored.email => shown[c].id = stored.sub
    /\ UserMetrics(stored) = "stored"
    /\ ListUsers(stored) # {} => users[stored.email].role = "admin"
=============================================================================
