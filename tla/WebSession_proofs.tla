--------------------------- MODULE WebSession_proofs ---------------------------
(***************************************************************************)
(* Accounts, tokens and tabs, for every number of addresses, clients, demo   *)
(* accounts and restarts.                                                  *)
(***************************************************************************)
EXTENDS WebSession, TLAPS

(* What the store and the requests hold beyond their types: an account is    *)
(* stored under its own address, a registration passed its check with the   *)
(* address free, and the token of an answer is that of its account.         *)
StoreInv ==
  /\ \A e \in Emails : users[e] # NoUser => users[e].email = e
  /\ \A c \in Clients : request[c] # Idle =>
       /\ request[c].at = "hash" => request[c].seen = NoUser
       /\ request[c].at = "answer" => request[c].token = CreateToken(request[c].account)

(* A profile under way is the one of its token's address.                   *)
ProfileInv ==
  \A c \in Clients : flight[c] # Idle /\ flight[c].profile # Idle =>
    flight[c].profile.email = flight[c].token.email

SessionTypes == SessionTypeOK /\ StoreInv /\ ProfileInv

LEMMA NewAccountType ==
  ASSUME NEW e \in Emails, NEW role \in Roles, NEW pw \in Passwords, NEW boot \in 0 .. MaxBoots
  PROVE  NewAccount(e, role, pw, boot) \in Accounts /\ NewAccount(e, role, pw, boot).email = e
  BY DEF NewAccount, Accounts, Ids

LEMMA SeedType ==
  ASSUME NEW boot \in 0 .. MaxBoots
  PROVE  /\ SeedDemoUsers(boot) \in [Emails -> Accounts \cup {NoUser}]
         /\ \A e \in Emails : SeedDemoUsers(boot)[e] # NoUser => SeedDemoUsers(boot)[e].email = e
<1>1. ASSUME NEW e \in Emails, e \in DOMAIN DemoRole
      PROVE  /\ NewAccount(e, DemoRole[e], Demo, boot) \in Accounts
             /\ NewAccount(e, DemoRole[e], Demo, boot).email = e
  BY <1>1, AccountsAssumption, NewAccountType DEF Passwords
<1> QED
  BY <1>1 DEF SeedDemoUsers

LEMMA TokenType ==
  ASSUME NEW account \in Accounts
  PROVE  /\ CreateToken(account) \in Tokens
         /\ CreateToken(account).email = account.email
         /\ CreateToken(account).sub = account.id
         /\ CreateToken(account).role = account.role
  BY DEF CreateToken, Accounts, Tokens

(* The forms of a request.                                                  *)
LEMMA RequestForms ==
  /\ Idle \in Requests
  /\ \A account \in Accounts, page \in BOOLEAN, seen \in Accounts \cup {NoUser} :
       [at |-> "hash", account |-> account, page |-> page, seen |-> seen] \in Requests
  /\ \A account \in Accounts, token \in Tokens :
       [at |-> "answer", account |-> account, token |-> token] \in Requests
  BY DEF Requests

LEMMA HashRequest ==
  ASSUME NEW r \in Requests, r # Idle, r.at = "hash"
  PROVE  /\ r = [at |-> "hash", account |-> r.account, page |-> r.page, seen |-> r.seen]
         /\ r.account \in Accounts /\ r.page \in BOOLEAN /\ r.seen \in Accounts \cup {NoUser}
  BY DEF Requests

LEMMA AnswerRequest ==
  ASSUME NEW r \in Requests, r # Idle, r.at = "answer"
  PROVE  r.account \in Accounts /\ r.token \in Tokens
  BY DEF Requests

LEMMA InitTypes == SessionInit => SessionTypes
<1> SUFFICES ASSUME SessionInit PROVE SessionTypes
  OBVIOUS
<1>1. 0 \in 0 .. MaxBoots
  BY AccountsAssumption
<1>2. SessionTypeOK
  BY <1>1, SeedType, RequestForms DEF SessionInit, AccountsInit, SessionTypeOK
<1>3. StoreInv /\ ProfileInv
  BY <1>1, SeedType DEF SessionInit, AccountsInit, StoreInv, ProfileInv
<1> QED
  BY <1>2, <1>3 DEF SessionTypes

(* A registration that passes its check, one that stores, and a login.      *)
LEMMA RegisterTypes ==
  ASSUME SessionTypes, NEW c \in Clients, NEW e \in Emails, NEW role \in RequestRoles,
         RegisterUser(c, e, role)
  PROVE  /\ request' \in [Clients -> Requests] /\ boots' \in 0 .. MaxBoots
         /\ expired' \subseteq Tokens /\ reborn' \subseteq Emails
         /\ users' \in [Emails -> Accounts \cup {NoUser}] /\ StoreInv'
<1> USE DEF SessionTypes, SessionTypeOK
<1>1. CASE FreeAddress(e) /\ role \in Roles
  <2> DEFINE account == NewAccount(e, role, c, boots)
             new == [at |-> "hash", account |-> account, page |-> TRUE, seen |-> users[e]]
  <2>1. account \in Accounts
    BY <1>1, NewAccountType DEF Passwords
  <2>2. new \in Requests
    BY <2>1, RequestForms
  <2>3. request' = [request EXCEPT ![c] = new] /\ UNCHANGED <<users, boots, expired, reborn>>
    BY <1>1 DEF RegisterUser
  <2>4. new.at = "hash" /\ new.seen = NoUser
    BY <1>1 DEF FreeAddress
  <2> HIDE DEF new, account
  <2> QED
    BY <2>2, <2>3, <2>4 DEF StoreInv
<1>2. CASE ~(FreeAddress(e) /\ role \in Roles)
  BY <1>2 DEF RegisterUser, StoreInv
<1> QED
  BY <1>1, <1>2

(* The request of c is answered with an account.                            *)
LEMMA AnsweredTypes ==
  ASSUME SessionTypes, NEW c \in Clients, NEW account \in Accounts, Answered(c, account)
  PROVE  /\ request' \in [Clients -> Requests] /\ expired' \subseteq Tokens
         /\ request' = [request EXCEPT ![c] =
              [at |-> "answer", account |-> account, token |-> CreateToken(account)]]
  BY TokenType, RequestForms DEF SessionTypes, SessionTypeOK, Answered

LEMMA LoginTypes ==
  ASSUME SessionTypes, NEW c \in Clients, NEW e \in Emails, NEW pw, LoginUser(c, e, pw)
  PROVE  /\ request' \in [Clients -> Requests] /\ boots' \in 0 .. MaxBoots
         /\ expired' \subseteq Tokens /\ reborn' \subseteq Emails
         /\ users' \in [Emails -> Accounts \cup {NoUser}] /\ StoreInv'
<1> USE DEF SessionTypes, SessionTypeOK
<1>1. CASE users[e] # NoUser /\ VerifyPassword(pw, users[e])
  <2>1. users[e] \in Accounts /\ Answered(c, users[e]) /\ UNCHANGED <<users, boots, reborn>>
    BY <1>1 DEF LoginUser
  <2>2. request' = [request EXCEPT ![c] =
          [at |-> "answer", account |-> users[e], token |-> CreateToken(users[e])]]
    BY <2>1, AnsweredTypes
  <2> QED
    BY <2>1, <2>2, AnsweredTypes DEF StoreInv
<1>2. CASE ~(users[e] # NoUser /\ VerifyPassword(pw, users[e]))
  BY <1>2 DEF LoginUser, StoreInv
<1> QED
  BY <1>1, <1>2

LEMMA StoreTypes ==
  ASSUME SessionTypes, NEW c \in Clients, StoreUser(c)
  PROVE  /\ request' \in [Clients -> Requests] /\ boots' \in 0 .. MaxBoots
         /\ expired' \subseteq Tokens /\ reborn' \subseteq Emails
         /\ users' \in [Emails -> Accounts \cup {NoUser}] /\ StoreInv'
<1> USE DEF SessionTypes, SessionTypeOK
<1> DEFINE account == request[c].account
<1>1. request[c] \in Requests /\ request[c] # Idle /\ request[c].at = "hash"
  BY DEF StoreUser
<1>2. account \in Accounts /\ account.email \in Emails
  BY <1>1, HashRequest DEF Accounts
<1>3. /\ users' = [users EXCEPT ![account.email] = account]
      /\ reborn' \subseteq reborn \cup {account.email} /\ boots' = boots
  BY DEF StoreUser
<1>4. \/ Answered(c, account)
      \/ request' = [request EXCEPT ![c] = Idle] /\ UNCHANGED expired
  BY DEF StoreUser
<1>5. CASE Answered(c, account)
  <2>1. request' = [request EXCEPT ![c] =
          [at |-> "answer", account |-> account, token |-> CreateToken(account)]]
    BY <1>2, <1>5, AnsweredTypes
  <2>2. \A d \in Clients : d # c => request'[d] = request[d]
    BY <2>1
  <2>3. request'[c].at = "answer" /\ request'[c].token = CreateToken(request'[c].account)
    BY <2>1
  <2>4. StoreInv'
    BY <1>2, <1>3, <2>2, <2>3 DEF StoreInv
  <2> QED
    BY <1>2, <1>3, <1>5, <2>4, AnsweredTypes
<1>6. CASE request' = [request EXCEPT ![c] = Idle] /\ UNCHANGED expired
  BY <1>2, <1>3, <1>6, RequestForms DEF StoreInv
<1> QED
  BY <1>4, <1>5, <1>6

(* The profile that /auth/me answers and the claims shown at a page load.    *)
LEMMA ProfileTypes ==
  ASSUME SessionTypeOK, NEW token \in Tokens
  PROVE  /\ AuthMe(token) \in Shown /\ AuthMe(token).email = token.email
         /\ LocalUser(token) \in Shown /\ LocalUser(token).email = token.email
  BY DEF SessionTypeOK, AuthMe, LocalUser, Shown, Tokens, Accounts

LEMMA FlightForms ==
  /\ \A token \in Tokens, profile \in Shown \cup {Idle} :
       [token |-> token, profile |-> profile] \in Flights
  /\ \A f \in Flights : f.token \in Tokens /\ f.profile \in Shown \cup {Idle}
  BY DEF Flights

LEMMA NextTypes == SessionTypes /\ [SessionNext]_sessionVars => SessionTypes'
<1> SUFFICES ASSUME SessionTypes, [SessionNext]_sessionVars PROVE SessionTypes'
  OBVIOUS
<1> USE DEF SessionTypes
<1>1. ASSUME NEW c \in Clients, Ask(c) PROVE SessionTypes'
  <2>1. UNCHANGED clientVars
    BY <1>1 DEF Ask, Server
  <2>2. \/ \E e \in Emails, role \in RequestRoles : RegisterUser(c, e, role)
        \/ \E e \in Emails, pw \in {c, Demo} : LoginUser(c, e, pw)
    BY <1>1 DEF Ask, Server
  <2> QED
    BY <2>1, <2>2, RegisterTypes, LoginTypes DEF SessionTypeOK, ProfileInv, clientVars
<1>2. ASSUME NEW c \in Clients, Server(StoreUser(c)) PROVE SessionTypes'
  BY <1>2, StoreTypes DEF Server, SessionTypeOK, ProfileInv, clientVars
<1>3. ASSUME NEW c \in Clients, SignIn(c) PROVE SessionTypes'
  <2>1. request[c].account \in Accounts /\ request[c].token \in Tokens
    BY <1>3, AnswerRequest DEF SignIn, SessionTypeOK
  <2>2. [id |-> request[c].account.id, email |-> request[c].account.email] \in Shown
    BY <2>1 DEF Shown, Accounts
  <2>3. SessionTypeOK'
    BY <1>3, <2>1, <2>2, RequestForms DEF SignIn, SessionTypeOK
  <2> QED
    BY <1>3, <2>3 DEF SignIn, SessionTypeOK, StoreInv, ProfileInv
<1>4. ASSUME NEW c \in Clients, AnswerLost(c) PROVE SessionTypes'
  BY <1>4, RequestForms DEF AnswerLost, SessionTypeOK, StoreInv, ProfileInv, clientVars
<1>5. ASSUME NEW c \in Clients, Logout(c) PROVE SessionTypes'
  BY <1>5 DEF Logout, SessionTypeOK, StoreInv, ProfileInv, accountVars
<1>6. ASSUME NEW c \in Clients, RefreshUser(c) PROVE SessionTypes'
  <2> DEFINE r == request[c]
             kept == IF r # Idle /\ r.at = "hash" THEN [r EXCEPT !.page = FALSE] ELSE Idle
  <2>1. kept \in Requests /\ (kept # Idle => kept.at = "hash" /\ kept.seen = r.seen)
    <3>1. CASE r # Idle /\ r.at = "hash"
      <4>1. r = [at |-> "hash", account |-> r.account, page |-> r.page, seen |-> r.seen]
            /\ r.account \in Accounts /\ r.seen \in Accounts \cup {NoUser}
        BY <3>1, HashRequest DEF SessionTypeOK
      <4>2. kept = [at |-> "hash", account |-> r.account, page |-> FALSE, seen |-> r.seen]
        BY <3>1, <4>1
      <4> QED
        BY <4>1, <4>2, RequestForms
    <3> QED
      BY <3>1, RequestForms
  <2>2. request' = [request EXCEPT ![c] = kept] /\ UNCHANGED <<users, boots, expired, reborn>>
    BY <1>6 DEF RefreshUser
  <2>3. StoreInv' /\ request' \in [Clients -> Requests]
    <3>1. kept # Idle => r # Idle /\ r.at = "hash"
      OBVIOUS
    <3> HIDE DEF kept
    <3> QED
      BY <2>1, <2>2, <3>1 DEF SessionTypeOK, StoreInv
  <2>4. CASE DecodeToken(stored)
    <3>1. stored \in Tokens
      BY <2>4 DEF DecodeToken, SessionTypeOK
    <3>2. LocalUser(stored) \in Shown /\ [token |-> stored, profile |-> Idle] \in Flights
      BY <3>1, ProfileTypes, FlightForms
    <3>3. /\ shown' = [shown EXCEPT ![c] = LocalUser(stored)] /\ stored' = stored
          /\ flight' = [flight EXCEPT ![c] = [token |-> stored, profile |-> Idle]]
      BY <1>6, <2>4 DEF RefreshUser
    <3> QED
      BY <2>2, <2>3, <3>2, <3>3 DEF SessionTypeOK, ProfileInv
  <2>5. CASE ~DecodeToken(stored)
    BY <1>6, <2>2, <2>3, <2>5 DEF RefreshUser, SessionTypeOK, ProfileInv
  <2> QED
    BY <2>4, <2>5
<1>7. ASSUME NEW c \in Clients, RefreshAnswered(c) PROVE SessionTypes'
  <2> DEFINE token == flight[c].token
             answered == [token |-> token, profile |-> AuthMe(token)]
  <2>1. flight[c] \in Flights /\ token \in Tokens
    BY <1>7, FlightForms DEF RefreshAnswered, SessionTypeOK
  <2>2. answered \in Flights /\ answered.profile.email = answered.token.email
    BY <2>1, ProfileTypes, FlightForms
  <2>3. /\ flight' = [flight EXCEPT ![c] = answered] \/ flight' = [flight EXCEPT ![c] = Idle]
        /\ UNCHANGED <<accountVars, stored, shown>>
    <3>1. [flight[c] EXCEPT !.profile = AuthMe(token)] = answered
      BY <2>1 DEF Flights
    <3> QED
      BY <1>7, <3>1 DEF RefreshAnswered
  <2> HIDE DEF answered
  <2> QED
    BY <2>2, <2>3 DEF SessionTypeOK, StoreInv, ProfileInv, accountVars
<1>8. ASSUME NEW c \in Clients, RefreshFailed(c) PROVE SessionTypes'
  BY <1>8 DEF RefreshFailed, SessionTypeOK, StoreInv, ProfileInv, accountVars
<1>9. ASSUME NEW c \in Clients, RefreshArrives(c) PROVE SessionTypes'
  BY <1>9, FlightForms DEF RefreshArrives, SessionTypeOK, StoreInv, ProfileInv, accountVars
<1>10. CASE stored # NoToken /\ stored \notin expired /\ Server(Expire(stored))
  BY <1>10 DEF Server, Expire, SessionTypeOK, StoreInv, ProfileInv, clientVars
<1>11. CASE Server(Restart)
  <2>1. boots + 1 \in 0 .. MaxBoots
    BY <1>11, AccountsAssumption DEF Server, Restart, SessionTypeOK
  <2> QED
    BY <1>11, <2>1, SeedType, RequestForms
       DEF Server, Restart, SessionTypeOK, StoreInv, ProfileInv, clientVars
<1>12. CASE UNCHANGED sessionVars
  BY <1>12 DEF sessionVars, accountVars, clientVars, SessionTypeOK, StoreInv, ProfileInv
<1> QED
  BY <1>1, <1>2, <1>3, <1>4, <1>5, <1>6, <1>7, <1>8, <1>9, <1>10, <1>11, <1>12 DEF SessionNext

LEMMA SessionAlways == SessionSpec => []SessionTypes
  BY InitTypes, NextTypes, PTL DEF SessionSpec

(* Store, requests, tokens and tabs keep their types.                       *)
THEOREM SessionTypeCorrect == SessionSpec => []SessionTypeOK
<1>1. SessionTypes => SessionTypeOK
  BY DEF SessionTypes
<1> QED
  BY <1>1, SessionAlways, PTL

-----------------------------------------------------------------------------
(* A stored account is replaced only by a restart or by a registration whose *)
(* check had found the address free (register_user stores what it checked   *)
(* before it hashed the password).                                         *)
THEOREM AccountsReplacedOnlyByRaces == SessionSpec => OnlyRacesReplaceAccounts
<1> DEFINE Excused ==
             \A e \in Emails : users[e] # NoUser /\ users'[e] # users[e] =>
               \/ boots' # boots
               \/ \E c \in Clients :
                    /\ request[c] # Idle /\ request[c].at = "hash"
                    /\ request[c].account.email = e /\ request[c].seen # users[e]
                    /\ users'[e] = request[c].account
<1>1. ASSUME SessionTypes, [SessionNext]_sessionVars PROVE Excused
  <2> USE <1>1 DEF SessionTypes
  <2>1. ASSUME NEW c \in Clients, StoreUser(c) PROVE Excused
    <3> DEFINE account == request[c].account
    <3>1. request[c] # Idle /\ request[c].at = "hash" /\ request[c].seen = NoUser
      BY <2>1 DEF StoreUser, StoreInv
    <3>2. users' = [users EXCEPT ![account.email] = account] /\ account.email \in Emails
      BY <2>1, <3>1, HashRequest DEF StoreUser, SessionTypeOK, Accounts
    <3>3. ASSUME NEW e \in Emails, users[e] # NoUser, users'[e] # users[e]
          PROVE  \E d \in Clients :
                   /\ request[d] # Idle /\ request[d].at = "hash"
                   /\ request[d].account.email = e /\ request[d].seen # users[e]
                   /\ users'[e] = request[d].account
      BY <3>1, <3>2, <3>3 DEF SessionTypeOK
    <3> QED
      BY <3>3
  <2>2. ASSUME Restart PROVE boots' # boots
    BY <2>2 DEF Restart, SessionTypeOK
  <2>3. \/ UNCHANGED users \/ Restart \/ \E c \in Clients : StoreUser(c)
    BY <1>1 DEF SessionNext, sessionVars, accountVars, Server, Ask, RegisterUser, LoginUser, SignIn, AnswerLost,
                Logout, RefreshUser, RefreshAnswered, RefreshFailed, RefreshArrives, Expire
  <2> QED
    BY <2>1, <2>2, <2>3
<1>2. SessionTypes /\ [SessionNext]_sessionVars => [Excused]_accountVars
  BY <1>1
<1> QED
  BY <1>2, SessionAlways, PTL DEF SessionSpec, OnlyRacesReplaceAccounts

-----------------------------------------------------------------------------
(* Why a tab may be trusted: as long as the account of an address was        *)
(* neither lost nor replaced, every token, profile and answer that mentions *)
(* the address, stored, shown or under way, is of that very account.        *)
KnownToken(token) ==
  token.email \notin reborn =>
    users[token.email] # NoUser /\ users[token.email].id = token.sub
      /\ users[token.email].role = token.role

KnownUser(user) ==
  user.email \notin reborn => users[user.email] # NoUser /\ users[user.email].id = user.id

KnownInv ==
  /\ stored # NoToken => KnownToken(stored)
  /\ \A c \in Clients :
       /\ shown[c] # NoUser => KnownUser(shown[c])
       /\ flight[c] # Idle =>
            /\ KnownToken(flight[c].token)
            /\ flight[c].profile # Idle => KnownUser(flight[c].profile)
       /\ request[c] # Idle /\ request[c].at = "answer" => KnownToken(request[c].token)

(* A step that replaces or drops accounts only at addresses that it notes.   *)
Noted ==
  /\ reborn \subseteq reborn'
  /\ \A e \in Emails : e \notin reborn' /\ users[e] # NoUser => users'[e] = users[e]

LEMMA KnownStays ==
  ASSUME Noted
  PROVE  /\ \A token \in Tokens : KnownToken(token) => KnownToken(token)'
         /\ \A user \in Shown : KnownUser(user) => KnownUser(user)'
  BY DEF Noted, KnownToken, KnownUser, Tokens, Shown

LEMMA StepsNote == ASSUME SessionTypes, [SessionNext]_sessionVars PROVE Noted
<1> USE DEF SessionTypes
<1>1. ASSUME NEW c \in Clients, StoreUser(c) PROVE Noted
  <2> DEFINE account == request[c].account
  <2>1. account.email \in Emails
    BY <1>1, HashRequest DEF StoreUser, SessionTypeOK, Accounts
  <2>2. /\ users' = [users EXCEPT ![account.email] = account]
        /\ reborn' = IF users[account.email] = NoUser THEN reborn
                                                     ELSE reborn \cup {account.email}
    BY <1>1 DEF StoreUser
  <2> QED
    BY <2>1, <2>2 DEF Noted, SessionTypeOK
<1>2. ASSUME Restart PROVE Noted
  BY <1>2 DEF Restart, Noted
<1>3. \/ UNCHANGED <<users, reborn>> \/ Restart \/ \E c \in Clients : StoreUser(c)
  BY DEF SessionNext, sessionVars, accountVars, Server, Ask, RegisterUser, LoginUser, SignIn, AnswerLost,
         Logout, RefreshUser, RefreshAnswered, RefreshFailed, RefreshArrives, Expire
<1> QED
  BY <1>1, <1>2, <1>3 DEF Noted

LEMMA KnownInit == SessionInit => KnownInv
  BY DEF SessionInit, AccountsInit, KnownInv

(* A step that leaves the requests of others alone and brings nothing in     *)
(* that is not known keeps everything known.                               *)
LEMMA KnownStep ==
  ASSUME SessionTypes, SessionTypes', KnownInv, Noted, NEW d \in Clients,
         stored' \in {stored, NoToken} \/ KnownToken(stored)',
         shown'[d] \in {shown[d], NoUser} \/ KnownUser(shown[d])',
         flight'[d] \in {flight[d], Idle} \/
           (KnownToken(flight[d].token)' /\ (flight'[d].profile # Idle => KnownUser(flight[d].profile)')),
         request'[d] = request[d] \/ request'[d] = Idle \/
           (request'[d].at = "answer" => KnownToken(request[d].token)'),
         \A c \in Clients : c # d => UNCHANGED <<shown[c], flight[c], request[c]>>
  PROVE  KnownInv'
<1> USE DEF SessionTypes
<1>1. stored' # NoToken => KnownToken(stored)'
  BY KnownStays DEF KnownInv, SessionTypeOK
<1>2. ASSUME NEW c \in Clients
      PROVE  /\ shown'[c] # NoUser => KnownUser(shown[c])'
             /\ flight'[c] # Idle =>
                  /\ KnownToken(flight[c].token)'
                  /\ flight'[c].profile # Idle => KnownUser(flight[c].profile)'
             /\ request'[c] # Idle /\ request'[c].at = "answer" => KnownToken(request[c].token)'
  <2>1. shown'[c] = shown[c] /\ shown[c] # NoUser => KnownUser(shown[c])'
    BY KnownStays DEF KnownInv, SessionTypeOK
  <2>2. flight'[c] = flight[c] /\ flight[c] # Idle =>
          /\ KnownToken(flight[c].token)'
          /\ flight'[c].profile # Idle => KnownUser(flight[c].profile)'
    BY KnownStays, FlightForms DEF KnownInv, SessionTypeOK
  <2>3. request'[c] = request[c] /\ request[c] # Idle /\ request[c].at = "answer" =>
          KnownToken(request[c].token)'
    BY KnownStays, AnswerRequest DEF KnownInv, SessionTypeOK
  <2> QED
    BY <2>1, <2>2, <2>3
<1> QED
  BY <1>1, <1>2 DEF KnownInv

(* What is answered about an account that is stored is known.               *)
LEMMA AnswerKnown ==
  ASSUME SessionTypes, SessionTypes', NEW c \in Clients,
         NEW account \in Accounts, Answered(c, account), users'[account.email] = account
  PROVE  request'[c].at = "answer" => KnownToken(request[c].token)'
<1>1. request'[c] = [at |-> "answer", account |-> account, token |-> CreateToken(account)]
  BY AnsweredTypes DEF SessionTypes, SessionTypeOK
<1>2. account # NoUser
  BY AccountsAssumption
<1> QED
  BY <1>1, <1>2, TokenType DEF KnownToken

LEMMA KnownNext ==
  ASSUME SessionTypes, SessionTypes', KnownInv, [SessionNext]_sessionVars
  PROVE  KnownInv'
<1> USE DEF SessionTypes
<1>0. Noted
  BY StepsNote
<1>1. ASSUME NEW c \in Clients, Ask(c) PROVE KnownInv'
  <2>1. UNCHANGED clientVars
    BY <1>1 DEF Ask, Server
  <2>2. ASSUME NEW e \in Emails, NEW role \in RequestRoles, RegisterUser(c, e, role) PROVE KnownInv'
    <3>1. request'[c].at = "hash" \/ request'[c] = request[c]
      BY <2>2 DEF RegisterUser, SessionTypeOK
    <3>2. \A d \in Clients : d # c => request'[d] = request[d]
      BY <2>2 DEF RegisterUser, SessionTypeOK
    <3> QED
      BY <1>0, <2>1, <3>1, <3>2, KnownStep DEF clientVars
  <2>3. ASSUME NEW e \in Emails, NEW pw, LoginUser(c, e, pw) PROVE KnownInv'
    <3>1. CASE UNCHANGED request
      BY <1>0, <2>1, <3>1, KnownStep DEF clientVars
    <3>2. CASE users[e] # NoUser /\ Answered(c, users[e]) /\ UNCHANGED users
      <4>1. users[e] \in Accounts /\ users[e].email = e
        BY <3>2 DEF SessionTypeOK, StoreInv
      <4>2. request'[c].at = "answer" => KnownToken(request[c].token)'
        BY <3>2, <4>1, AnswerKnown
      <4>3. \A d \in Clients : d # c => request'[d] = request[d]
        BY <3>2, <4>1, AnsweredTypes DEF SessionTypeOK
      <4> QED
        BY <1>0, <2>1, <4>2, <4>3, KnownStep DEF clientVars
    <3> QED
      BY <2>3, <3>1, <3>2 DEF LoginUser
  <2> QED
    BY <1>1, <2>2, <2>3 DEF Ask, Server
<1>2. ASSUME NEW c \in Clients, Server(StoreUser(c)) PROVE KnownInv'
  <2> DEFINE account == request[c].account
  <2>1. account \in Accounts /\ account.email \in Emails
    BY <1>2, HashRequest DEF Server, StoreUser, SessionTypeOK, Accounts
  <2>2. users'[account.email] = account
    BY <1>2, <2>1 DEF Server, StoreUser, SessionTypeOK
  <2>3. \/ Answered(c, account)
        \/ request' = [request EXCEPT ![c] = Idle]
    BY <1>2 DEF Server, StoreUser
  <2>4. CASE Answered(c, account)
    <3>1. request'[c].at = "answer" => KnownToken(request[c].token)'
      BY <2>1, <2>2, <2>4, AnswerKnown
    <3>2. \A d \in Clients : d # c => request'[d] = request[d]
      BY <2>1, <2>4, AnsweredTypes DEF SessionTypeOK
    <3> QED
      BY <1>0, <1>2, <3>1, <3>2, KnownStep DEF Server, clientVars
  <2>5. CASE request' = [request EXCEPT ![c] = Idle]
    BY <1>0, <1>2, <2>5, KnownStep DEF Server, clientVars, SessionTypeOK
  <2> QED
    BY <2>3, <2>4, <2>5
<1>3. ASSUME NEW c \in Clients, SignIn(c) PROVE KnownInv'
  <2> DEFINE account == request[c].account
  <2>1. account \in Accounts /\ request[c].token = CreateToken(account) /\ KnownToken(request[c].token)
    BY <1>3, AnswerRequest DEF SignIn, SessionTypeOK, StoreInv, KnownInv
  <2>2. /\ stored' = request[c].token /\ UNCHANGED <<users, reborn, flight>>
        /\ shown' = [shown EXCEPT ![c] = [id |-> account.id, email |-> account.email]]
        /\ request' = [request EXCEPT ![c] = Idle]
    BY <1>3 DEF SignIn
  <2>3. KnownToken(stored)'
    BY <2>1, <2>2 DEF KnownToken
  <2>4. KnownUser(shown[c])'
    BY <2>1, <2>2, TokenType DEF KnownToken, KnownUser, SessionTypeOK
  <2> QED
    BY <1>0, <2>2, <2>3, <2>4, KnownStep DEF SessionTypeOK
<1>4. ASSUME NEW c \in Clients, AnswerLost(c) PROVE KnownInv'
  BY <1>0, <1>4, KnownStep DEF AnswerLost, SessionTypeOK, clientVars
<1>5. ASSUME NEW c \in Clients, Logout(c) PROVE KnownInv'
  BY <1>0, <1>5, KnownStep DEF Logout, SessionTypeOK, accountVars
<1>6. ASSUME NEW c \in Clients, RefreshUser(c) PROVE KnownInv'
  <2>1. request'[c] = Idle \/ request'[c].at = "hash"
    <3>1. CASE request[c] # Idle /\ request[c].at = "hash"
      <4>1. request'[c] = [request[c] EXCEPT !.page = FALSE]
        BY <1>6, <3>1 DEF RefreshUser, SessionTypeOK
      <4>2. request[c] = [at |-> "hash", account |-> request[c].account, page |-> request[c].page,
                          seen |-> request[c].seen]
        BY <3>1, HashRequest DEF SessionTypeOK
      <4> QED
        BY <4>1, <4>2, <3>1
    <3> QED
      BY <1>6, <3>1 DEF RefreshUser, SessionTypeOK
  <2>2. \A d \in Clients : d # c => UNCHANGED <<shown[d], flight[d], request[d]>>
    BY <1>6 DEF RefreshUser, SessionTypeOK
  <2>3. CASE DecodeToken(stored)
    <3>1. stored \in Tokens /\ KnownToken(stored)
      BY <2>3 DEF DecodeToken, SessionTypeOK, KnownInv
    <3>2. /\ shown'[c] = LocalUser(stored) /\ stored' = stored /\ UNCHANGED <<users, reborn>>
          /\ flight'[c] = [token |-> stored, profile |-> Idle]
      BY <1>6, <2>3 DEF RefreshUser, SessionTypeOK
    <3>3. KnownUser(shown[c])' /\ KnownToken(flight[c].token)'
      BY <3>1, <3>2 DEF KnownToken, KnownUser, LocalUser
    <3> QED
      BY <1>0, <2>1, <2>2, <3>2, <3>3, KnownStep
  <2>4. CASE ~DecodeToken(stored)
    BY <1>0, <1>6, <2>1, <2>2, <2>4, KnownStep DEF RefreshUser, SessionTypeOK
  <2> QED
    BY <2>3, <2>4
<1>7. ASSUME NEW c \in Clients, RefreshAnswered(c) PROVE KnownInv'
  <2> DEFINE token == flight[c].token
  <2>1. flight[c] \in Flights /\ token \in Tokens /\ KnownToken(token)
    BY <1>7, FlightForms DEF RefreshAnswered, SessionTypeOK, KnownInv
  <2>2. KnownUser(AuthMe(token))
    BY <2>1 DEF KnownToken, KnownUser, AuthMe
  <2>3. /\ flight'[c] = Idle \/ flight'[c] = [token |-> token, profile |-> AuthMe(token)]
        /\ \A d \in Clients : d # c => flight'[d] = flight[d]
        /\ UNCHANGED <<accountVars, stored, shown>>
    <3>1. [flight[c] EXCEPT !.profile = AuthMe(token)] = [token |-> token, profile |-> AuthMe(token)]
      BY <2>1 DEF Flights
    <3> QED
      BY <1>7, <3>1 DEF RefreshAnswered, SessionTypeOK
  <2>4. flight'[c] # Idle => KnownToken(flight[c].token)' /\ KnownUser(flight[c].profile)'
    BY <2>1, <2>2, <2>3 DEF accountVars, KnownToken, KnownUser
  <2> QED
    BY <1>0, <2>3, <2>4, KnownStep DEF accountVars
<1>8. ASSUME NEW c \in Clients, RefreshFailed(c) PROVE KnownInv'
  BY <1>0, <1>8, KnownStep DEF RefreshFailed, SessionTypeOK, accountVars
<1>9. ASSUME NEW c \in Clients, RefreshArrives(c) PROVE KnownInv'
  <2>1. KnownUser(flight[c].profile)
    BY <1>9 DEF RefreshArrives, KnownInv
  <2>2. KnownUser(shown[c])'
    BY <1>9, <2>1 DEF RefreshArrives, SessionTypeOK, KnownUser, accountVars
  <2> QED
    BY <1>0, <1>9, <2>2, KnownStep DEF RefreshArrives, SessionTypeOK, accountVars
<1>10. CASE Server(Expire(stored))
  BY <1>0, <1>10, KnownStays, FlightForms, AnswerRequest
     DEF Server, Expire, clientVars, KnownInv, SessionTypeOK
<1>11. CASE Server(Restart)
  BY <1>0, <1>11, KnownStays, FlightForms, AnswerRequest
     DEF Server, Restart, clientVars, KnownInv, SessionTypeOK
<1>12. CASE UNCHANGED sessionVars
  BY <1>0, <1>12, KnownStays, FlightForms, AnswerRequest
     DEF sessionVars, accountVars, clientVars, KnownInv, SessionTypeOK
<1> QED
  BY <1>1, <1>2, <1>3, <1>4, <1>5, <1>6, <1>7, <1>8, <1>9, <1>10, <1>11, <1>12 DEF SessionNext

(* While the account of the stored token's address was neither lost nor      *)
(* replaced: tabs signed in under it show its account, its figures are those *)
(* of a stored account, and only an administrator's token lists accounts.    *)
THEOREM ProfilesAreHolders == SessionSpec => []ProfileIsHolders
<1>1. SessionTypes /\ KnownInv => ProfileIsHolders
  <2> SUFFICES ASSUME SessionTypes, KnownInv, stored # NoToken, stored.email \notin reborn
               PROVE  /\ \A c \in Clients :
                           SignedIn(c) /\ shown[c].email = stored.email => shown[c].id = stored.sub
                      /\ UserMetrics(stored) = "stored"
                      /\ ListUsers(stored) # {} => users[stored.email].role = "admin"
    BY DEF ProfileIsHolders
  <2>1. /\ users[stored.email] # NoUser /\ users[stored.email].id = stored.sub
        /\ users[stored.email].role = stored.role
    BY DEF KnownInv, KnownToken
  <2>2. ListUsers(stored) # {} => stored.role = "admin"
    BY DEF ListUsers, RequireRole
  <2> QED
    BY <2>1, <2>2 DEF KnownInv, KnownUser, SignedIn, UserMetrics
<1>2. SessionInit => KnownInv
  BY KnownInit
<1>3. SessionTypes /\ SessionTypes' /\ KnownInv /\ [SessionNext]_sessionVars => KnownInv'
  BY KnownNext
<1> QED
  BY <1>1, <1>2, <1>3, SessionAlways, PTL DEF SessionSpec

-----------------------------------------------------------------------------
(* A tab that agreed with the stored token stops doing so only when another  *)
(* tab changed the token or when the late answer of a silent refresh arrives *)
(* (refreshUser sets the user without a look at the token stored by then).   *)
THEOREM TabsMisledOnlyByLateAnswers == SessionSpec => OnlyLateAnswersMislead
<1> DEFINE Excused ==
             \A c \in Clients :
               Agrees(c) /\ ~Agrees(c)' =>
                 \/ shown'[c] = shown[c]
                 \/ /\ flight[c] # Idle /\ flight'[c] = Idle
                    /\ flight[c].token # stored
<1>1. ASSUME SessionTypes, [SessionNext]_sessionVars PROVE Excused
  <2> USE <1>1 DEF SessionTypes
  <2>1. ASSUME NEW c \in Clients, SignIn(c) PROVE Excused
    <3> DEFINE account == request[c].account
    <3>1. account \in Accounts /\ request[c].token = CreateToken(account)
      BY <2>1, AnswerRequest DEF SignIn, SessionTypeOK, StoreInv
    <3>2. stored' # NoToken /\ stored'.email = account.email
      BY <2>1, <3>1, TokenType, AccountsAssumption DEF SignIn
    <3>3. shown'[c] = [id |-> account.id, email |-> account.email] /\ shown'[c] \in Shown
      BY <2>1, <3>1 DEF SignIn, SessionTypeOK, Shown, Accounts
    <3>4. Agrees(c)'
      BY <3>2, <3>3, ShownAssumption DEF Agrees, SignedIn
    <3>5. \A d \in Clients : d # c => shown'[d] = shown[d]
      BY <2>1 DEF SignIn, SessionTypeOK
    <3> QED
      BY <3>4, <3>5
  <2>2. ASSUME NEW c \in Clients, Logout(c) PROVE Excused
    BY <2>2 DEF Logout, SessionTypeOK, Agrees, SignedIn
  <2>3. ASSUME NEW c \in Clients, RefreshUser(c) PROVE Excused
    <3>1. \A d \in Clients : d # c => shown'[d] = shown[d]
      BY <2>3 DEF RefreshUser, SessionTypeOK
    <3>2. CASE DecodeToken(stored)
      <4>1. stored \in Tokens /\ stored # NoToken
        BY <3>2 DEF DecodeToken, SessionTypeOK
      <4>2. stored' = stored /\ shown'[c] = LocalUser(stored)
        BY <2>3, <3>2 DEF RefreshUser, SessionTypeOK
      <4>3. Agrees(c)'
        BY <4>1, <4>2, ProfileTypes, ShownAssumption DEF Agrees, SignedIn
      <4> QED
        BY <3>1, <4>3
    <3>3. CASE ~DecodeToken(stored)
      BY <2>3, <3>1, <3>3 DEF RefreshUser, SessionTypeOK, Agrees, SignedIn
    <3> QED
      BY <3>2, <3>3
  <2>4. ASSUME NEW c \in Clients, RefreshArrives(c) PROVE Excused
    <3>1. /\ flight[c] \in Flights /\ flight[c] # Idle /\ flight'[c] = Idle
          /\ flight[c].profile \in Shown /\ flight[c].profile.email = flight[c].token.email
      BY <2>4, FlightForms DEF RefreshArrives, SessionTypeOK, ProfileInv
    <3>2. /\ shown'[c] = flight[c].profile /\ stored' = stored
          /\ \A d \in Clients : d # c => shown'[d] = shown[d]
      BY <2>4 DEF RefreshArrives, SessionTypeOK
    <3>3. flight[c].token = stored => Agrees(c)'
      BY <3>1, <3>2, FlightForms, AccountsAssumption, ShownAssumption DEF Agrees, SignedIn
    <3> QED
      BY <3>1, <3>2, <3>3
  <2>5. \/ UNCHANGED shown
        \/ \E c \in Clients : SignIn(c) \/ Logout(c) \/ RefreshUser(c) \/ RefreshArrives(c)
    BY <1>1 DEF SessionNext, sessionVars, clientVars, Server, Ask, AnswerLost, RefreshAnswered, RefreshFailed
  <2> QED
    BY <2>1, <2>2, <2>3, <2>4, <2>5
<1>2. SessionTypes /\ [SessionNext]_sessionVars => [Excused]_sessionVars
  BY <1>1
<1> QED
  BY <1>2, SessionAlways, PTL DEF SessionSpec, OnlyLateAnswersMislead
=============================================================================
