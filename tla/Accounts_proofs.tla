-------------------------- MODULE Accounts_proofs --------------------------
(***************************************************************************)
(* Proofs about Accounts for any requests, addresses, passwords, tokens    *)
(* and bounds.                                                             *)
(***************************************************************************)
EXTENDS Accounts, TLAPS

-----------------------------------------------------------------------------
(* The inductive invariant. *)

Users == [email : Emails \cup {Malformed}, password : Passwords,
          active : BOOLEAN, role : {"admin", "user"}]

\* Users are numbered in the order of their creation, so a new number is of nobody.
Numbered ==
  /\ created \in 1..MaxUsers + 1
  /\ DOMAIN users \subseteq 0..created - 1
  /\ users \in [DOMAIN users -> Users]

\* A token that is not used has changed nothing; one that was withdrawn is used.
TokenInv(t) ==
  /\ DOMAIN tokens[t] = {"user", "used", "withdrawn", "expired", "changes"}
  /\ tokens[t].user \in Ids
  /\ tokens[t].used \in BOOLEAN /\ tokens[t].withdrawn \in BOOLEAN
  /\ tokens[t].changes \in {0, 1}
  /\ ~tokens[t].used => tokens[t].changes = 0
  /\ tokens[t].withdrawn => tokens[t].used /\ tokens[t].changes = 0

Rest ==
  /\ profiles \in [Ids -> {0, 1}]
  /\ found = [u \in Ids |-> found[u]]
  /\ sessions \subseteq Ids
  /\ DOMAIN request = Requests
  /\ \A r \in Requests : request[r].at \in {"idle", "read", "admitted"}

Tables == Numbered /\ Rest

Inv == Tables /\ (\A t \in DOMAIN tokens : TokenInv(t)) /\ OneUserPerAddress

-----------------------------------------------------------------------------
(* What a handler does to the table of users. *)

\* A change of a user leaves the domain as it is, and all other users.
LEMMA UpdatedUsers ==
  ASSUME Numbered, NEW u, NEW doc \in Users, NEW new,
         new = IF u \in DOMAIN users THEN [users EXCEPT ![u] = doc] ELSE users
  PROVE  /\ DOMAIN new = DOMAIN users
         /\ new \in [DOMAIN users -> Users]
         /\ \A v \in DOMAIN users : new[v] = IF v = u THEN doc ELSE users[v]
BY DEF Numbered

\* What the changes of this program make of a user.
LEMMA MergedUser ==
  ASSUME NEW doc \in Users
  PROVE  /\ \A e \in Emails \cup {Malformed} :
              /\ Merged(doc, [email |-> e]) \in Users
              /\ Merged(doc, [email |-> e]).email = e
         /\ \A active \in BOOLEAN, role \in {"admin", "user"} :
              /\ Merged(doc, [active |-> active, role |-> role]) \in Users
              /\ Merged(doc, [active |-> active, role |-> role]).email = doc.email
         /\ \A password \in Passwords :
              /\ Merged(doc, [password |-> password]) \in Users
              /\ Merged(doc, [password |-> password]).email = doc.email
<1> DEFINE User(e, p, a, r) == [email |-> e, password |-> p, active |-> a, role |-> r]
<1>1. doc = User(doc.email, doc.password, doc.active, doc.role) BY DEF Users
<1>2. ASSUME NEW e \in Emails \cup {Malformed}
      PROVE  Merged(doc, [email |-> e]) = User(e, doc.password, doc.active, doc.role)
  BY <1>1 DEF Merged, Users
<1>3. ASSUME NEW active \in BOOLEAN, NEW role \in {"admin", "user"}
      PROVE  Merged(doc, [active |-> active, role |-> role])
               = User(doc.email, doc.password, active, role)
  <2> DEFINE new == Merged(doc, [active |-> active, role |-> role])
  <2>1. DOMAIN doc = {"email", "password", "active", "role"} BY DEF Users
  <2>2. new = [f \in {"email", "password", "active", "role"} |->
                 IF f \in {"active", "role"} THEN [active |-> active, role |-> role][f]
                 ELSE doc[f]]
    BY <2>1 DEF Merged
  <2>3. DOMAIN new = {"email", "password", "active", "role"} BY <2>2
  <2>4. /\ new["email"] = doc.email /\ new["password"] = doc.password
        /\ new["active"] = active /\ new["role"] = role
    BY <2>2
  <2> QED BY <2>2, <2>3, <2>4
<1>4. ASSUME NEW password \in Passwords
      PROVE  Merged(doc, [password |-> password])
               = User(doc.email, password, doc.active, doc.role)
  BY <1>1 DEF Merged, Users
<1>5. /\ doc.email \in Emails \cup {Malformed} /\ doc.password \in Passwords
      /\ doc.active \in BOOLEAN /\ doc.role \in {"admin", "user"}
  BY DEF Users
<1>6. ASSUME NEW e \in Emails \cup {Malformed}, NEW p \in Passwords, NEW a \in BOOLEAN,
             NEW r \in {"admin", "user"}
      PROVE  User(e, p, a, r) \in Users /\ User(e, p, a, r).email = e
  BY DEF Users
<1> HIDE DEF User
<1> QED BY <1>2, <1>3, <1>4, <1>5, <1>6

LEMMA InitInv == ASSUME Init PROVE Inv
<1>1. PICK e \in Emails, p \in Passwords :
        users = [u \in {Admin} |-> [email |-> e, password |-> p, active |-> TRUE, role |-> "admin"]]
  BY DEF Init
<1>2. Numbered BY <1>1, MaxUsersAssumption DEF Init, Numbered, Users, Admin
<1>3. Tables BY <1>2 DEF Init, Tables, Rest, Ids, Waiting
<1>4. OneUserPerAddress BY <1>1 DEF OneUserPerAddress
<1>5. \A t \in DOMAIN tokens : TokenInv(t) BY DEF Init
<1> QED BY <1>3, <1>4, <1>5 DEF Inv

LEMMA RegistersInv ==
  ASSUME Inv, NEW e \in Emails, NEW p \in Passwords, NEW n \in {0, 1}, Registers(e, p, n)
  PROVE  Numbered' /\ OneUserPerAddress'
<1> USE DEF Inv, Tables, Numbered, Registers, Ids
<1>1. created \in 0..MaxUsers /\ created' = created + 1 /\ created \notin DOMAIN users
  BY MaxUsersAssumption
<1>2. /\ DOMAIN users' = DOMAIN users \cup {created}
      /\ users'[created] = NewUser(e, p)
      /\ \A v \in DOMAIN users : users'[v] = users[v]
  BY <1>1
<1>3. NewUser(e, p) \in Users BY DEF NewUser, Users
<1>4. Numbered' 
  <2>1. created' \in 1..MaxUsers + 1 BY <1>1, MaxUsersAssumption
  <2>2. DOMAIN users' \subseteq 0..created' - 1 BY <1>1, <1>2, MaxUsersAssumption
  <2>3. users' \in [DOMAIN users' -> Users] BY <1>2, <1>3
  <2> QED BY <2>1, <2>2, <2>3
<1>5. \A v \in DOMAIN users : users[v].email # e BY DEF WithEmail
<1>6. OneUserPerAddress' BY <1>1, <1>2, <1>5 DEF OneUserPerAddress, NewUser
<1> QED BY <1>4, <1>6

\* Changes that keep the address.
LEMMA KeepsAddress ==
  ASSUME Inv, NEW u, NEW doc \in Users, created' = created,
         users' = IF u \in DOMAIN users THEN [users EXCEPT ![u] = doc] ELSE users,
         u \in DOMAIN users => doc.email = users[u].email
  PROVE  Numbered' /\ OneUserPerAddress'
<1>1. /\ DOMAIN users' = DOMAIN users
      /\ users' \in [DOMAIN users -> Users]
      /\ \A v \in DOMAIN users : users'[v] = IF v = u THEN doc ELSE users[v]
  BY UpdatedUsers DEF Inv, Tables
<1>2. Numbered' BY <1>1 DEF Numbered, Inv, Tables
<1>3. OneUserPerAddress' BY <1>1 DEF OneUserPerAddress, Inv
<1> QED BY <1>2, <1>3

\* A new address is looked up among all users first.
LEMMA UpdatesEmailInv ==
  ASSUME Inv, NEW r \in Requests, NEW u \in Ids, NEW e \in Emails \cup {Malformed},
         UpdatesEmail(r, u, e)
  PROVE  Numbered' /\ OneUserPerAddress'
<1>1. /\ created' = created
      /\ users' = IF u \in DOMAIN users
                  THEN [users EXCEPT ![u] = Merged(users[u], [email |-> e])] ELSE users
      /\ WithEmail(e) \subseteq {u}
  BY DEF UpdatesEmail, Updates, Updated, AddressIsFree
<1>2. CASE u \notin DOMAIN users
  BY <1>1, <1>2 DEF Inv, Tables, Numbered, OneUserPerAddress
<1>3. CASE u \in DOMAIN users
  <2> DEFINE doc == Merged(users[u], [email |-> e])
  <2>1. doc \in Users /\ doc.email = e
    BY <1>3, MergedUser DEF Inv, Tables, Numbered
  <2>2. users' = IF u \in DOMAIN users THEN [users EXCEPT ![u] = doc] ELSE users
    BY <1>1, <1>3
  <2> HIDE DEF doc
  <2>3. /\ DOMAIN users' = DOMAIN users
        /\ users' \in [DOMAIN users -> Users]
        /\ \A v \in DOMAIN users : users'[v] = IF v = u THEN doc ELSE users[v]
    BY <2>1, <2>2, UpdatedUsers DEF Inv, Tables
  <2>4. Numbered' BY <1>1, <2>3 DEF Inv, Tables, Numbered
  <2>5. \A v \in DOMAIN users : v # u => users[v].email # e
    BY <1>1 DEF WithEmail
  <2>6. OneUserPerAddress' BY <2>1, <2>3, <2>5 DEF Inv, OneUserPerAddress
  <2> QED BY <2>4, <2>6
<1> QED BY <1>2, <1>3

LEMMA UpdatesStandingInv ==
  ASSUME Inv, NEW r \in Requests, NEW u \in Ids, NEW active \in BOOLEAN,
         NEW role \in {"admin", "user"}, UpdatesStanding(r, u, active, role)
  PROVE  Numbered' /\ OneUserPerAddress'
<1>1. /\ created' = created
      /\ users' = IF u \in DOMAIN users
                  THEN [users EXCEPT ![u] = Merged(users[u], [active |-> active, role |-> role])]
                  ELSE users
  BY DEF UpdatesStanding, Updates, Updated
<1>2. CASE u \notin DOMAIN users
  BY <1>1, <1>2 DEF Inv, Tables, Numbered, OneUserPerAddress
<1>3. CASE u \in DOMAIN users
  <2> DEFINE doc == Merged(users[u], [active |-> active, role |-> role])
  <2>1. doc \in Users /\ doc.email = users[u].email
    BY <1>3, MergedUser DEF Inv, Tables, Numbered
  <2>2. users' = IF u \in DOMAIN users THEN [users EXCEPT ![u] = doc] ELSE users
    BY <1>1, <1>3
  <2> HIDE DEF doc
  <2> QED BY <1>1, <2>1, <2>2, KeepsAddress
<1> QED BY <1>2, <1>3

LEMMA PasswordInv ==
  ASSUME Inv, NEW u, NEW password \in Passwords, created' = created,
         users' = WithPassword(u, password)
  PROVE  Numbered' /\ OneUserPerAddress'
<1>1. users' = IF u \in DOMAIN users
               THEN [users EXCEPT ![u] = Merged(users[u], [password |-> password])] ELSE users
  BY DEF WithPassword, Updated
<1>2. CASE u \notin DOMAIN users
  BY <1>1, <1>2 DEF Inv, Tables, Numbered, OneUserPerAddress
<1>3. CASE u \in DOMAIN users
  <2> DEFINE doc == Merged(users[u], [password |-> password])
  <2>1. doc \in Users /\ doc.email = users[u].email
    BY <1>3, MergedUser DEF Inv, Tables, Numbered
  <2>2. users' = IF u \in DOMAIN users THEN [users EXCEPT ![u] = doc] ELSE users
    BY <1>1, <1>3
  <2> HIDE DEF doc
  <2> QED BY <1>1, <2>1, <2>2, KeepsAddress
<1> QED BY <1>2, <1>3

LEMMA RemovesInv ==
  ASSUME Inv, NEW u \in Ids, NEW whole \in BOOLEAN, Removes(u, whole), created' = created
  PROVE  Numbered' /\ OneUserPerAddress'
<1>1. /\ DOMAIN users' \subseteq DOMAIN users
      /\ users' = [v \in DOMAIN users' |-> users[v]]
  BY DEF Removes, Restrict, Inv, Tables, Numbered
<1> HIDE DEF Removes
<1> QED BY <1>1 DEF Inv, Tables, Numbered, OneUserPerAddress

-----------------------------------------------------------------------------
(* The other tables. *)

LEMMA HandlesRest ==
  ASSUME Rest, NEW r \in Requests, Handles(r)
  PROVE  /\ DOMAIN request' = Requests
         /\ \A q \in Requests : request'[q].at \in {"idle", "read", "admitted"}
BY DEF Rest, Handles, Waiting

LEMMA ServesRest ==
  ASSUME Inv, NEW r \in Requests, Serves(r)
  PROVE  Rest'
<1>0. Rest /\ created \in 0..MaxUsers + 1
  BY MaxUsersAssumption DEF Inv, Tables, Rest, Numbered
<1> USE <1>0, HandlesRest
<1>1. ASSUME NEW u \in Ids, NEW e \in Emails \cup {Malformed}, UpdatesEmail(r, u, e) PROVE Rest'
  BY <1>1 DEF UpdatesEmail, Updates, Rest
<1>2. ASSUME NEW u \in Ids, NEW active \in BOOLEAN, NEW role \in {"admin", "user"},
             UpdatesStanding(r, u, active, role)
      PROVE  Rest'
  BY <1>2 DEF UpdatesStanding, Updates, Rest
<1>3. ASSUME NEW u \in Ids, NEW whole \in BOOLEAN, Deletes(r, u, whole) PROVE Rest'
  BY <1>3 DEF Deletes, Removes, Forgets, Rest
<1>4. CASE SavesProfile(r)
  BY <1>4 DEF SavesProfile, CreatesProfile, Profiled, Rest
<1>5. ASSUME NEW current \in Passwords, NEW password \in Passwords,
             ChangesPassword(r, current, password)
      PROVE  Rest'
  BY <1>5 DEF ChangesPassword, Forgets, Rest
<1> QED BY <1>1, <1>2, <1>3, <1>4, <1>5 DEF Serves

-----------------------------------------------------------------------------
(* Tokens. *)

TokensInv == \A t \in DOMAIN tokens : TokenInv(t)

LEMMA ForgotInv ==
  ASSUME Inv, NEW t \in Tokens, NEW u \in Ids, NEW withdrawn \in BOOLEAN, Forgot(t, u, withdrawn)
  PROVE  TokensInv'
BY DEF Forgot, NewToken, Inv, TokensInv, TokenInv

LEMMA ExpiresInv ==
  ASSUME Inv, NEW t \in DOMAIN tokens, Expires(t)
  PROVE  TokensInv'
BY DEF Expires, Inv, TokensInv, TokenInv

LEMMA ResetsPasswordInv ==
  ASSUME Inv, NEW t \in DOMAIN tokens, NEW password \in Passwords, NEW whole \in BOOLEAN,
         ResetsPassword(t, password, whole)
  PROVE  TokensInv'
<1>1. TokenInv(t) BY DEF Inv
<1>2. tokens[t].used = FALSE /\ tokens[t].changes = 0 /\ tokens[t].withdrawn = FALSE
  BY <1>1 DEF ResetsPassword, Valid, TokenInv
<1>3. PICK n \in {0, 1} : tokens' = [tokens EXCEPT ![t] = [@ EXCEPT !.used = TRUE, !.changes = n]]
  <2>1. CASE whole
    <3>1. tokens' = [tokens EXCEPT ![t] = [@ EXCEPT !.used = TRUE, !.changes = tokens[t].changes + 1]]
      BY <2>1 DEF ResetsPassword, Consumes
    <3>2. tokens[t].changes + 1 = 1 BY <1>2
    <3> QED BY <3>1, <3>2
  <2>2. CASE ~whole
    <3>1. tokens' = [tokens EXCEPT ![t] = [@ EXCEPT !.used = TRUE, !.changes = tokens[t].changes]]
      BY <2>2 DEF ResetsPassword, Consumes
    <3> QED BY <1>2, <3>1
  <2> QED BY <2>1, <2>2
<1>4. TokenInv(t)' BY <1>1, <1>2, <1>3 DEF TokenInv
<1>5. \A s \in DOMAIN tokens \ {t} : tokens'[s] = tokens[s] BY <1>3
<1>6. DOMAIN tokens' = DOMAIN tokens BY <1>3
<1> QED BY <1>4, <1>5, <1>6 DEF Inv, TokensInv, TokenInv

-----------------------------------------------------------------------------

LEMMA InvStep ==
  ASSUME Inv, [Next]_vars
  PROVE  Inv'
<1>0. Numbered /\ Rest /\ TokensInv /\ OneUserPerAddress
  BY DEF Inv, Tables, TokensInv
<1>p. ASSUME Numbered', Rest', TokensInv', OneUserPerAddress' PROVE Inv'
  BY <1>p DEF Inv, Tables, TokensInv
<1>u. ASSUME UNCHANGED <<users, created>> PROVE Numbered' /\ OneUserPerAddress'
  BY <1>0, <1>u DEF Numbered, OneUserPerAddress
<1>t. ASSUME UNCHANGED tokens PROVE TokensInv'
  BY <1>0, <1>t DEF TokensInv, TokenInv
<1>1. ASSUME NEW r \in Requests, NEW u \in Ids, SearchHits(r, u) \/ SearchReads(r, u) PROVE Inv'
  <2>1. UNCHANGED <<users, created, tokens>> BY <1>1 DEF SearchHits, SearchReads
  <2>2. Rest' BY <1>0, <1>1 DEF SearchHits, SearchReads, Admitted, Waiting, Rest
  <2> QED BY <1>p, <1>u, <1>t, <2>1, <2>2
<1>2. ASSUME NEW r \in Requests, SearchStores(r) \/ RequestFails(r) PROVE Inv'
  <2>1. UNCHANGED <<users, created, tokens>> BY <1>2 DEF SearchStores, RequestFails
  <2>2. Rest' BY <1>0, <1>2 DEF SearchStores, RequestFails, Admitted, Waiting, Rest
  <2> QED BY <1>p, <1>u, <1>t, <2>1, <2>2
<1>3. ASSUME NEW r \in Requests, Serves(r) PROVE Inv'
  <2>1. Rest' BY <1>3, ServesRest
  <2>2. ASSUME NEW u \in Ids, NEW e \in Emails \cup {Malformed}, UpdatesEmail(r, u, e) PROVE Inv'
    <3>1. UNCHANGED tokens BY <2>2 DEF UpdatesEmail, Updates
    <3> QED BY <1>p, <1>t, <2>1, <2>2, <3>1, UpdatesEmailInv
  <2>3. ASSUME NEW u \in Ids, NEW active \in BOOLEAN, NEW role \in {"admin", "user"},
               UpdatesStanding(r, u, active, role)
        PROVE  Inv'
    <3>1. UNCHANGED tokens BY <2>3 DEF UpdatesStanding, Updates
    <3> QED BY <1>p, <1>t, <2>1, <2>3, <3>1, UpdatesStandingInv
  <2>4. ASSUME NEW u \in Ids, NEW whole \in BOOLEAN, Deletes(r, u, whole) PROVE Inv'
    <3>1. UNCHANGED <<tokens, created>> /\ Removes(u, whole) BY <2>4 DEF Deletes
    <3> QED BY <1>p, <1>t, <2>1, <3>1, RemovesInv
  <2>5. CASE SavesProfile(r)
    <3>1. UNCHANGED <<users, created, tokens>> BY <2>5 DEF SavesProfile
    <3> QED BY <1>p, <1>u, <1>t, <2>1, <3>1
  <2>6. ASSUME NEW current \in Passwords, NEW password \in Passwords,
               ChangesPassword(r, current, password)
        PROVE  Inv'
    <3>1. /\ UNCHANGED <<created, tokens>>
          /\ users' = WithPassword(request[r].user, password)
      BY <2>6 DEF ChangesPassword
    <3> QED BY <1>p, <1>t, <2>1, <3>1, PasswordInv
  <2> QED BY <1>3, <2>2, <2>3, <2>4, <2>5, <2>6 DEF Serves
<1>4. ASSUME NEW e \in Emails, NEW p \in Passwords, NEW n \in {0, 1}, Registers(e, p, n) PROVE Inv'
  <2>1. UNCHANGED tokens BY <1>4 DEF Registers
  <2>2. Rest' BY <1>0, <1>4 DEF Registers, Rest
  <2> QED BY <1>p, <1>t, <1>4, <2>1, <2>2, RegistersInv
<1>5. ASSUME NEW u \in Ids, LogsIn(u) PROVE Inv'
  <2>1. UNCHANGED <<users, created, tokens>> BY <1>5 DEF LogsIn
  <2>2. Rest' BY <1>0, <1>5 DEF LogsIn, Rest
  <2> QED BY <1>p, <1>u, <1>t, <2>1, <2>2
<1>6. ASSUME NEW t \in Tokens, NEW u \in Ids, NEW withdrawn \in BOOLEAN, Forgot(t, u, withdrawn)
      PROVE  Inv'
  <2>1. UNCHANGED <<users, created>> BY <1>6 DEF Forgot
  <2>2. Rest' BY <1>0, <1>6 DEF Forgot, Rest
  <2> QED BY <1>p, <1>u, <1>6, <2>1, <2>2, ForgotInv
<1>7. ASSUME NEW t \in DOMAIN tokens, Expires(t) PROVE Inv'
  <2>1. UNCHANGED <<users, created>> BY <1>7 DEF Expires
  <2>2. Rest' BY <1>0, <1>7 DEF Expires, Rest
  <2> QED BY <1>p, <1>u, <1>7, <2>1, <2>2, ExpiresInv
<1>8. ASSUME NEW t \in DOMAIN tokens, NEW password \in Passwords, NEW whole \in BOOLEAN,
             ResetsPassword(t, password, whole)
      PROVE  Inv'
  <2>1. TokensInv' BY <1>8, ResetsPasswordInv
  <2>2. Rest' BY <1>0, <1>8 DEF ResetsPassword, Forgets, Rest
  <2>3. Numbered' /\ OneUserPerAddress'
    <3>1. CASE whole
      <4>1. created' = created /\ users' = WithPassword(tokens[t].user, password)
        BY <1>8, <3>1 DEF ResetsPassword
      <4> QED BY <4>1, PasswordInv
    <3>2. CASE ~whole
      BY <1>u, <1>8, <3>2 DEF ResetsPassword
    <3> QED BY <3>1, <3>2
  <2> QED BY <1>p, <2>1, <2>2, <2>3
<1>9. CASE UNCHANGED vars
  <2>1. Rest' BY <1>0, <1>9 DEF vars, Rest
  <2> QED BY <1>p, <1>u, <1>t, <1>9, <2>1 DEF vars
<1>10. CASE Next
  BY <1>1, <1>2, <1>3, <1>4, <1>5, <1>6, <1>7, <1>8, <1>10 DEF Next
<1> QED BY <1>9, <1>10

THEOREM AccountsInvariant == Spec => []Inv
<1>1. Init => Inv BY InitInv
<1>2. Inv /\ [Next]_vars => Inv' BY InvStep
<1> QED BY <1>1, <1>2, PTL DEF Spec

\* The tables stay in their domains, and a user has one profile at most.
THEOREM TypeInvariant == Spec => []TypeOK
<1>1. Inv => TypeOK
  <2> SUFFICES ASSUME Inv PROVE TypeOK OBVIOUS
  <2>1. \A u \in DOMAIN users : users[u] \in Users BY DEF Inv, Tables, Numbered
  <2>2. DOMAIN found = Ids
    <3>1. found = [u \in Ids |-> found[u]] BY DEF Inv, Tables, Rest
    <3> DEFINE g == [u \in Ids |-> found[u]]
    <3>2. DOMAIN g = Ids OBVIOUS
    <3> HIDE DEF g
    <3> QED BY <3>1, <3>2 DEF g
  <2> QED BY <2>1, <2>2 DEF Inv, Tables, Numbered, Rest, TokenInv, TypeOK, Users
<1> QED BY <1>1, AccountsInvariant, PTL

\* No two users ever have one address: every registration and every change of address looks
\* it up first, in the step that writes.
THEOREM AddressesAreUnique == Spec => []OneUserPerAddress
BY AccountsInvariant, PTL DEF Inv

\* What NothingIsBroughtBack says of one step.
UpdatesOnly ==
  \A u \in 0 .. created - 1 :
    /\ u \notin DOMAIN users => u \notin DOMAIN users'
    /\ u \in DOMAIN users \cap DOMAIN users' =>
         \E changed \in {{"email"}, {"password"}, {"active", "role"}} :
           \A f \in DOMAIN users[u] \ changed : users'[u][f] = users[u][f]

\* A change of a user by the fields it is given.
LEMMA UpdateBringsNothingBack ==
  ASSUME NEW u, NEW change, users' = Updated(u, change),
         DOMAIN change \in {{"email"}, {"password"}, {"active", "role"}}
  PROVE  UpdatesOnly
<1>1. DOMAIN users' = DOMAIN users BY DEF Updated
<1>2. ASSUME NEW v \in DOMAIN users, NEW f \in DOMAIN users[v] \ DOMAIN change
      PROVE  users'[v][f] = users[v][f]
  <2>1. Merged(users[v], change)[f] = users[v][f] BY DEF Merged
  <2>2. users'[v] = users[v] \/ users'[v] = Merged(users[v], change) BY DEF Updated
  <2> QED BY <2>1, <2>2
<1> QED BY <1>1, <1>2 DEF UpdatesOnly

\* Nobody returns, and one of three parts of a user changes: every write names its fields,
\* and TinyDB changes them in what is stored, not in what the handler has found.
THEOREM NothingComesBack == Spec => NothingIsBroughtBack
<1>1. ASSUME UNCHANGED users PROVE UpdatesOnly
  BY <1>1 DEF UpdatesOnly
<1>2. ASSUME NEW r \in Requests, Serves(r) PROVE UpdatesOnly
  <2>1. ASSUME NEW u \in Ids, NEW e \in Emails \cup {Malformed}, UpdatesEmail(r, u, e)
        PROVE  UpdatesOnly
    BY <2>1, UpdateBringsNothingBack DEF UpdatesEmail, Updates
  <2>2. ASSUME NEW u \in Ids, NEW active \in BOOLEAN, NEW role \in {"admin", "user"},
               UpdatesStanding(r, u, active, role)
        PROVE  UpdatesOnly
    <3> DEFINE change == [active |-> active, role |-> role]
    <3>1. DOMAIN change = {"active", "role"} OBVIOUS
    <3>2. users' = Updated(u, change) BY <2>2 DEF UpdatesStanding, Updates
    <3> HIDE DEF change
    <3> QED BY <3>1, <3>2, UpdateBringsNothingBack
  <2>3. ASSUME NEW u \in Ids, NEW whole \in BOOLEAN, Deletes(r, u, whole) PROVE UpdatesOnly
    <3>1. /\ DOMAIN users' \subseteq DOMAIN users
          /\ \A v \in DOMAIN users' : users'[v] = users[v]
      BY <2>3 DEF Deletes, Removes, Restrict
    <3> QED BY <3>1 DEF UpdatesOnly
  <2>4. CASE SavesProfile(r) BY <1>1, <2>4 DEF SavesProfile
  <2>5. ASSUME NEW current \in Passwords, NEW password \in Passwords,
               ChangesPassword(r, current, password)
        PROVE  UpdatesOnly
    BY <2>5, UpdateBringsNothingBack DEF ChangesPassword, WithPassword
  <2> QED BY <1>2, <2>1, <2>2, <2>3, <2>4, <2>5 DEF Serves
<1>3. ASSUME NEW e \in Emails, NEW p \in Passwords, NEW n \in {0, 1}, Registers(e, p, n), Inv
      PROVE  UpdatesOnly
  <2>1. /\ DOMAIN users' = DOMAIN users \cup {created}
        /\ \A v \in DOMAIN users \ {created} : users'[v] = users[v]
    BY <1>3 DEF Registers
  <2>2. created \notin DOMAIN users /\ created \notin 0 .. created - 1
    BY <1>3, MaxUsersAssumption DEF Inv, Tables, Numbered
  <2> QED BY <2>1, <2>2 DEF UpdatesOnly
<1>4. ASSUME NEW t \in DOMAIN tokens, NEW p \in Passwords, NEW whole \in BOOLEAN,
             ResetsPassword(t, p, whole)
      PROVE  UpdatesOnly
  BY <1>1, <1>4, UpdateBringsNothingBack DEF ResetsPassword, WithPassword
<1>5. Inv /\ Next => UpdatesOnly
  BY <1>1, <1>2, <1>3, <1>4
  DEF Next, SearchHits, SearchReads, SearchStores, RequestFails, LogsIn, Forgot, Expires
<1>6. Inv /\ [Next]_vars => [UpdatesOnly]_vars
  BY <1>5
<1> QED BY <1>6, AccountsInvariant, PTL DEF Spec, NothingIsBroughtBack, UpdatesOnly

\* A reset token changes a password once at most, and never after it was withdrawn: it is
\* consumed before the password changes, so a failure between the two wastes it.
THEOREM TokensWorkOnce == Spec => []ResetTokensWorkOnce
<1>1. Inv => ResetTokensWorkOnce BY DEF Inv, TokenInv, ResetTokensWorkOnce
<1> QED BY <1>1, AccountsInvariant, PTL
=============================================================================
