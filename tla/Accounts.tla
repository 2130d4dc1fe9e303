------------------------------ MODULE Accounts ------------------------------
(***************************************************************************)
(* Users, their profiles and their password-reset tokens, in the TinyDB    *)
(* tables of services/api/auth_database.py.  The handlers of /auth, /users *)
(* and /profiles are coroutines that never await: each runs to its end on  *)
(* the event loop.  get_current_user is not: it runs in a worker thread,   *)
(* before the handler, and reads the same tables meanwhile.                *)
(*                                                                         *)
(* TinyDB keeps the results of searches by id until the next write to the  *)
(* table, and does not lock: a search may store what it read before the    *)
(* write after it.                                                         *)
(***************************************************************************)
EXTENDS Integers, Functions

CONSTANTS Requests,   \* requests in flight
          MaxUsers,   \* bound: users that register
          Emails,     \* acceptable addresses
          Malformed,  \* an address without @
          Passwords,
          Tokens,     \* reset tokens that may ever be issued
          MaxWrites,  \* bound: handlers that write
          Nothing, Gone

ASSUME MaxUsersAssumption == MaxUsers \in Nat

\* Users in the order of their creation.  The first is an administrator, who is not
\* created by the API.
Ids == 0..MaxUsers
Admin == 0

VARIABLES users, profiles, tokens,
          created,   \* users created so far
          found,     \* query cache of the table of users, for searches by id
          sessions,  \* users with an access token
          request,   \* what is known of the user of each request
          writes

vars == <<users, profiles, tokens, created, found, sessions, request, writes>>

Waiting == [at |-> "idle"]

\* UserInDB; profiles counts the documents of each user.
Init ==
  /\ \E e \in Emails, p \in Passwords :
       users = [u \in {Admin} |-> [email |-> e, password |-> p, active |-> TRUE, role |-> "admin"]]
  /\ profiles = [u \in Ids |-> 0]
  /\ tokens = <<>>
  /\ created = 1
  /\ found = [u \in Ids |-> Nothing]
  /\ sessions = {}
  /\ request = [r \in Requests |-> Waiting]
  /\ writes = 0

-----------------------------------------------------------------------------
(* TinyDB. *)

Stored(u) == IF u \in DOMAIN users THEN users[u] ELSE Gone

\* _find_user_doc_by_id
Found(u) == IF found[u] = Nothing THEN Stored(u) ELSE found[u]

WithEmail(e) == {u \in DOMAIN users : users[u].email = e}

\* A write to the table forgets every search of it.
Forgets == found' = [u \in Ids |-> Nothing]

\* A document with the fields of a change.
Merged(doc, change) ==
  [f \in DOMAIN doc |-> IF f \in DOMAIN change THEN change[f] ELSE doc[f]]

\* Mutant: the document that was found is changed and written back.
Updated_WritesBack(u, change) ==
  IF Found(u) = Gone THEN users
  ELSE [v \in DOMAIN users \cup {u} |-> IF v = u THEN Merged(Found(u), change) ELSE users[v]]

\* users.update changes the fields it is given of what is there, and nothing if it is not.
Updated(u, change) ==
  IF u \in DOMAIN users THEN [users EXCEPT ![u] = Merged(users[u], change)] ELSE users

\* UserInDB(**doc)
Readable(doc) == doc # Gone /\ doc.email # Malformed

CountsWrite == writes < MaxWrites /\ writes' = writes + 1

-----------------------------------------------------------------------------
(* get_current_user, in its thread. *)

Admitted(r, u, doc) ==
  request' = [request EXCEPT ![r] =
                IF Readable(doc) /\ doc.active THEN [at |-> "admitted", user |-> u, doc |-> doc]
                ELSE Waiting]

SearchHits(r, u) ==
  /\ request[r] = Waiting
  /\ u \in sessions
  /\ found[u] # Nothing
  /\ Admitted(r, u, found[u])
  /\ UNCHANGED <<users, profiles, tokens, created, found, sessions, writes>>

SearchReads(r, u) ==
  /\ request[r] = Waiting
  /\ u \in sessions
  /\ found[u] = Nothing
  /\ request' = [request EXCEPT ![r] = [at |-> "read", user |-> u, doc |-> Stored(u)]]
  /\ UNCHANGED <<users, profiles, tokens, created, found, sessions, writes>>

SearchStores(r) ==
  /\ request[r].at = "read"
  /\ found' = [found EXCEPT ![request[r].user] = request[r].doc]
  /\ Admitted(r, request[r].user, request[r].doc)
  /\ UNCHANGED <<users, profiles, tokens, created, sessions, writes>>

\* The file is read while it is written, or the connection is lost.
RequestFails(r) ==
  /\ request[r] # Waiting
  /\ request' = [request EXCEPT ![r] = Waiting]
  /\ UNCHANGED <<users, profiles, tokens, created, found, sessions, writes>>

\* The handler of an admitted request runs.
Handles(r) == /\ request[r].at = "admitted"
              /\ request' = [request EXCEPT ![r] = Waiting]

IsAdmin(r) == request[r].doc.role = "admin"

\* get_user_by_id before the change: 404 or 500 otherwise.
MayChange(r, u) == (request[r].user = u \/ IsAdmin(r)) /\ Readable(Found(u))

-----------------------------------------------------------------------------
(* routes/users.py and routes/profiles.py *)

\* create_user
NewUser(e, password) == [email |-> e, password |-> password, active |-> TRUE, role |-> "user"]

\* register_user.  Whatever interrupts create_profile leaves a user without profile.
Registers(e, password, profile) ==
  /\ created \in Ids
  /\ WithEmail(e) = {}
  /\ CountsWrite
  /\ created' = created + 1
  /\ users' = [u \in DOMAIN users \cup {created} |->
                 IF u = created THEN NewUser(e, password) ELSE users[u]]
  /\ profiles' = [profiles EXCEPT ![created] = profile]
  /\ found' = [u \in Ids |-> IF u = created /\ profile = 1 THEN users'[u] ELSE Nothing]
  /\ UNCHANGED <<tokens, sessions, request>>

\* update_user writes first and validates what it wrote, by another search: a malformed
\* address is answered with 409 and stays.
Updates(u, change) ==
  /\ CountsWrite
  /\ users' = Updated(u, change)
  /\ found' = [i \in Ids |-> IF i # u THEN Nothing
                            ELSE IF u \in DOMAIN users' THEN users'[u] ELSE Gone]
  /\ UNCHANGED <<profiles, tokens, created, sessions>>

AddressIsFree(u, e) == WithEmail(e) \subseteq {u}

UpdatesEmail(r, u, e) ==
  /\ Handles(r)
  /\ MayChange(r, u)
  /\ AddressIsFree(u, e)
  /\ Updates(u, [email |-> e])

UpdatesStanding(r, u, active, role) ==
  /\ Handles(r)
  /\ MayChange(r, u) /\ IsAdmin(r)
  /\ Updates(u, [active |-> active, role |-> role])

\* delete_user: the profile first; the rest may fail.
Removes(u, whole) ==
  /\ profiles' = [profiles EXCEPT ![u] = 0]
  /\ users' = IF whole THEN Restrict(users, DOMAIN users \ {u}) ELSE users
  /\ IF whole THEN Forgets ELSE found' = [found EXCEPT ![u] = Found(u)]

Deletes(r, u, whole) ==
  /\ Handles(r)
  /\ MayChange(r, u)
  /\ CountsWrite
  /\ Removes(u, whole)
  /\ UNCHANGED <<tokens, created, sessions>>

\* Mutant: an existing profile is not looked up.
Profiled_Never(u) == FALSE

Profiled(u) == profiles[u] > 0

\* create_profile looks the user up, and leaves what it found in the query cache.
CreatesProfile(u) ==
  /\ CountsWrite
  /\ profiles' = [profiles EXCEPT ![u] = @ + 1]
  /\ found' = [found EXCEPT ![u] = Found(u)]

\* update_my_profile: an existing profile changes in ways that nothing here depends on.
SavesProfile(r) ==
  LET u == request[r].user
  IN /\ Handles(r)
     /\ IF Profiled(u) \/ Found(u) = Gone THEN UNCHANGED <<profiles, found, writes>>
        ELSE CreatesProfile(u)
     /\ UNCHANGED <<users, tokens, created, sessions>>

-----------------------------------------------------------------------------
(* routes/auth.py *)

LogsIn(u) ==
  /\ u \in DOMAIN users
  /\ Readable(users[u]) /\ users[u].active
  /\ sessions' = sessions \cup {u}
  /\ UNCHANGED <<users, profiles, tokens, created, found, request, writes>>

\* issue_password_reset_token, and what forgot_password makes of the record afterwards.
NewToken(u, withdrawn) ==
  [user |-> u, used |-> withdrawn, withdrawn |-> withdrawn, expired |-> FALSE, changes |-> 0]

\* forgot_password: a token whose mail is not known to be accepted is withdrawn, and may
\* have been delivered all the same.  The withdrawal may fail too.
Forgot(t, u, withdrawn) ==
  /\ t \notin DOMAIN tokens
  /\ Readable(Stored(u))
  /\ CountsWrite
  /\ tokens' = [i \in DOMAIN tokens \cup {t} |->
                  IF i = t THEN NewToken(u, withdrawn) ELSE tokens[i]]
  /\ UNCHANGED <<created, users, profiles, found, sessions, request>>

Expires(t) ==
  /\ tokens' = [tokens EXCEPT ![t].expired = TRUE]
  /\ UNCHANGED <<created, users, profiles, found, sessions, request, writes>>

\* validate_password_reset_token, and the search that follows it.
Valid(t) == ~tokens[t].expired /\ ~tokens[t].used /\ Found(tokens[t].user) # Gone

\* Mutant: the password is changed before the token is consumed.
Consumes_Last(t, whole) ==
  tokens' = [tokens EXCEPT ![t].used = whole, ![t].changes = @ + 1]

\* reset_password consumes the token before it changes the password.
Consumes(t, whole) ==
  tokens' = [tokens EXCEPT ![t].used = TRUE, ![t].changes = IF whole THEN @ + 1 ELSE @]

WithPassword(u, password) == Updated(u, [password |-> password])

ResetsPassword(t, password, whole) ==
  /\ Valid(t)
  /\ CountsWrite
  /\ Consumes(t, whole)
  /\ LET u == tokens[t].user
     IN IF whole
        THEN /\ users' = WithPassword(u, password)
             /\ Forgets
        ELSE /\ found' = [found EXCEPT ![u] = Found(u)]
             /\ UNCHANGED users
  /\ UNCHANGED <<created, profiles, sessions, request>>

\* change_password
ChangesPassword(r, current, password) ==
  LET u == request[r].user
  IN /\ Handles(r)
     /\ Readable(Found(u))
     /\ Found(u).password = current
     /\ CountsWrite
     /\ users' = WithPassword(u, password)
     /\ Forgets
     /\ UNCHANGED <<profiles, tokens, created, sessions>>

Serves(r) ==
  \/ \E u \in Ids : \/ \E e \in Emails \cup {Malformed} : UpdatesEmail(r, u, e)
                    \/ \E active \in BOOLEAN, role \in {"admin", "user"} :
                         UpdatesStanding(r, u, active, role)
                    \/ \E whole \in BOOLEAN : Deletes(r, u, whole)
  \/ SavesProfile(r)
  \/ \E current, password \in Passwords : ChangesPassword(r, current, password)

Next ==
  \/ \E r \in Requests :
       \/ \E u \in Ids : SearchHits(r, u) \/ SearchReads(r, u)
       \/ SearchStores(r)
       \/ RequestFails(r)
       \/ Serves(r)
  \/ \E e \in Emails, p \in Passwords, n \in {0, 1} : Registers(e, p, n)
  \/ \E u \in Ids :
       \/ LogsIn(u)
       \/ \E t \in Tokens, withdrawn \in BOOLEAN : Forgot(t, u, withdrawn)
  \/ \E t \in DOMAIN tokens :
       \/ Expires(t)
       \/ \E p \in Passwords, whole \in BOOLEAN : ResetsPassword(t, p, whole)

Spec == Init /\ [][Next]_vars

-----------------------------------------------------------------------------
(* Properties. *)

\* Registrations and changes of address, by users and by administrators, never give one
\* address to two users, although the table has no unique index.
OneUserPerAddress ==
  \A u, v \in DOMAIN users : users[u].email = users[v].email => u = v

\* The type invariant, with what other databases would declare: a user has one profile at
\* most, and an address one user.
TypeOK ==
  /\ OneUserPerAddress
  /\ created \in 1..MaxUsers + 1
  /\ DOMAIN users \subseteq 0..created - 1
  /\ \A u \in DOMAIN users : users[u] \in [email : Emails \cup {Malformed}, password : Passwords,
                                          active : BOOLEAN, role : {"admin", "user"}]
  /\ profiles \in [Ids -> {0, 1}]
  /\ \A t \in DOMAIN tokens : tokens[t].user \in Ids
  /\ DOMAIN found = Ids
  /\ sessions \subseteq Ids
  /\ \A r \in Requests : request[r].at \in {"idle", "read", "admitted"}

\* A reset token changes a password once at most, whatever fails while it is used, and
\* never after it was withdrawn, even if its mail arrived.
ResetTokensWorkOnce ==
  \A t \in DOMAIN tokens :
    /\ tokens[t].changes <= 1
    /\ tokens[t].withdrawn => tokens[t].changes = 0

\* Handlers run for, and on, users as a search found them, which others may have changed
\* or deleted since.  What they write brings nothing back: neither a deleted user nor, beside
\* the address, password or standing that they change, an earlier value of the rest.
NothingIsBroughtBack ==
  [][\A u \in 0 .. created - 1 :
       /\ u \notin DOMAIN users => u \notin DOMAIN users'
       /\ u \in DOMAIN users \cap DOMAIN users' =>
            \E changed \in {{"email"}, {"password"}, {"active", "role"}} :
              \A f \in DOMAIN users[u] \ changed : users'[u][f] = users[u][f]]_vars

\* auth_models.py: "email must contain @".  What the table holds can be read back.
StoredUsersAreReadable == \A u \in DOMAIN users : Readable(users[u])
=============================================================================
