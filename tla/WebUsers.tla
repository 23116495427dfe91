------------------------------ MODULE WebUsers ------------------------------
(***************************************************************************)
(* User accounts and login sessions of wireguard-ui: handler/session.go,   *)
(* the user handlers of handler/routes.go and the user part of             *)
(* store/jsondb.  Echo runs each request in a goroutine of its own.  A     *)
(* user is a JSON file; util.DBUsersToCRC32 caches the checksum of every   *)
(* user and decides which session cookies are valid.  The store's file     *)
(* operations are atomic; a handler is several of them, and no lock covers *)
(* the cache and the file together.                                        *)
(***************************************************************************)
EXTENDS Naturals, FiniteSets

CONSTANTS
  Names,        \* user names
  DefaultName,  \* the account Init creates in an empty database
  Hashes,       \* password hashes
  Browsers,     \* holders of a session cookie
  Handlers,     \* request goroutines
  None,         \* no user, no session
  MaxRequests,  \* bound: requests that change something
  Restarts      \* the process may stop and start again

ASSUME UsersAssumption == /\ DefaultName \in Names
                          /\ MaxRequests \in Nat
                          /\ Restarts \in BOOLEAN
                          /\ Hashes # {}

\* model.User; its CRC32 is represented by the user itself.
User == [name : Names, hash : Hashes, admin : BOOLEAN]
Session == [user : User, admin : BOOLEAN]

\* A request under way: the next step, and the handler's locals.
Handler == [pc : {"check", "delCache", "delFile", "write", "chmod", "cache"},
            kind : {"update", "create", "remove"},
            who : Browsers, as : Session, prev : Names, old : User, user : User]

ASSUME NoneAssumption == None \notin User \cup Session \cup Handler

VARIABLES
  users,     \* users/<name>.json
  cache,     \* util.DBUsersToCRC32
  sess,      \* the session cookie each browser holds
  h,         \* each handler: its control point and locals
  requests,  \* requests started so far
  serial     \* history: no request overlapped another or was cut off

vars == <<users, cache, sess, h, requests, serial>>

Init ==
  /\ \E u \in User : /\ u.name = DefaultName /\ u.admin
                     /\ users = [n \in Names |-> IF n = DefaultName THEN u ELSE None]
  /\ cache = users
  /\ sess = [b \in Browsers |-> None]
  /\ h = [i \in Handlers |-> None]
  /\ requests = 0
  /\ serial = TRUE

----------------------------------------------------------------------------
(* Sessions.                                                               *)

\* isValidSession, the part that is not about time: the cached checksum of
\* the session's user is the one the session was given.
Valid(s) == s # None /\ cache[s.user.name] = s.user

\* Login with the right password.
Login(b, n) ==
  /\ users[n] # None
  /\ sess' = [sess EXCEPT ![b] = [user |-> users[n], admin |-> users[n].admin]]
  /\ UNCHANGED <<users, cache, h, requests, serial>>

\* Logout: clearSession.
Logout(b) ==
  /\ Valid(sess[b])
  /\ sess' = [sess EXCEPT ![b] = None]
  /\ UNCHANGED <<users, cache, h, requests, serial>>

----------------------------------------------------------------------------
(* The beginning of a request: middleware, validation, first read.         *)

Quiet == \A i \in Handlers : h[i] = None

\* The ValidSession middleware has let the request of browser b through.
Admit(i, b) ==
  /\ h[i] = None
  /\ requests < MaxRequests
  /\ requests' = requests + 1
  /\ serial' = (serial /\ Quiet)
  /\ Valid(sess[b])

\* Mutant: the requested role is taken as it is.
UpdateUserAnyRole(i, b, prev, new, hash, admin) ==
  LET s == sess[b]
      u == users[prev]
  IN  /\ Admit(i, b)
      /\ s.admin \/ prev = s.user.name
      /\ u # None
      /\ h' = [h EXCEPT ![i] =
                 [pc |-> IF new = prev THEN "delCache" ELSE "check",
                  kind |-> "update", who |-> b, as |-> s, prev |-> prev, old |-> u,
                  user |-> [name |-> new, hash |-> IF hash = None THEN u.hash ELSE hash,
                            admin |-> admin]]]
      /\ UNCHANGED <<users, cache, sess>>

\* Mutant: an empty password is hashed like any other.
UpdateUserEmptyPassword(i, b, prev, new, hash, admin) ==
  LET s == sess[b]
      u == users[prev]
      role == IF prev = s.user.name THEN u.admin ELSE s.admin /\ admin
  IN  /\ Admit(i, b)
      /\ s.admin \/ prev = s.user.name
      /\ u # None
      /\ h' = [h EXCEPT ![i] =
                 [pc |-> IF new = prev THEN "delCache" ELSE "check",
                  kind |-> "update", who |-> b, as |-> s, prev |-> prev, old |-> u,
                  user |-> [name |-> new, hash |-> hash, admin |-> role]]]
      /\ UNCHANGED <<users, cache, sess>>

\* UpdateUser up to its first read.  A manager may only change itself and
\* never its role, and nobody changes its own role.  An empty password
\* keeps the hash.
UpdateUser(i, b, prev, new, hash, admin) ==
  LET s == sess[b]
      u == users[prev]
      role == IF prev = s.user.name THEN u.admin ELSE s.admin /\ admin
  IN  /\ Admit(i, b)
      /\ s.admin \/ prev = s.user.name
      /\ u # None
      /\ h' = [h EXCEPT ![i] =
                 [pc |-> IF new = prev THEN "delCache" ELSE "check",
                  kind |-> "update", who |-> b, as |-> s, prev |-> prev, old |-> u,
                  user |-> [name |-> new, hash |-> IF hash = None THEN u.hash ELSE hash,
                            admin |-> role]]]
      /\ UNCHANGED <<users, cache, sess>>

\* CreateUser, behind NeedsAdmin.
CreateUser(i, b, new, hash, admin) ==
  /\ Admit(i, b)
  /\ sess[b].admin
  /\ h' = [h EXCEPT ![i] = [pc |-> "check", kind |-> "create", who |-> b, as |-> sess[b],
                            prev |-> new, old |-> sess[b].user,
                            user |-> [name |-> new, hash |-> hash, admin |-> admin]]]
  /\ UNCHANGED <<users, cache, sess>>

\* Mutant: a user may remove itself.
RemoveUserOrSelf(i, b, n) ==
  /\ Admit(i, b)
  /\ sess[b].admin
  /\ h' = [h EXCEPT ![i] = [pc |-> "delCache", kind |-> "remove", who |-> b, as |-> sess[b],
                            prev |-> n, old |-> sess[b].user, user |-> sess[b].user]]
  /\ UNCHANGED <<users, cache, sess>>

\* RemoveUser, behind NeedsAdmin: nobody removes itself.
RemoveUser(i, b, n) ==
  /\ Admit(i, b)
  /\ sess[b].admin /\ n # sess[b].user.name
  /\ h' = [h EXCEPT ![i] = [pc |-> "delCache", kind |-> "remove", who |-> b, as |-> sess[b],
                            prev |-> n, old |-> sess[b].user, user |-> sess[b].user]]
  /\ UNCHANGED <<users, cache, sess>>

----------------------------------------------------------------------------
(* The rest of a request, one store or cache operation per step.           *)

At(i, p) == h[i] # None /\ h[i].pc = p
Goto(i, p) == h' = [h EXCEPT ![i].pc = p]
End(i) == h' = [h EXCEPT ![i] = None]

\* "This username is taken", then HashPassword.
CheckTaken(i) ==
  /\ At(i, "check")
  /\ IF users[h[i].user.name] # None THEN End(i)
     ELSE Goto(i, IF h[i].kind = "create" THEN "write" ELSE "delCache")
  /\ UNCHANGED <<users, cache, sess, requests, serial>>

\* Mutant: DeleteUser leaves the cached checksum.
DeleteCachedNot(i) ==
  /\ At(i, "delCache")
  /\ Goto(i, "delFile")
  /\ UNCHANGED <<users, cache, sess, requests, serial>>

\* DeleteUser: delete(util.DBUsersToCRC32, username) ...
DeleteCached(i) ==
  /\ At(i, "delCache")
  /\ cache' = [cache EXCEPT ![h[i].prev] = None]
  /\ Goto(i, "delFile")
  /\ UNCHANGED <<users, sess, requests, serial>>

\* ... then conn.Delete, which fails, and ends the request, if there is no file.
DeleteFile(i) ==
  /\ At(i, "delFile")
  /\ users' = [users EXCEPT ![h[i].prev] = None]
  /\ IF h[i].kind = "remove" \/ users[h[i].prev] = None THEN End(i) ELSE Goto(i, "write")
  /\ UNCHANGED <<cache, sess, requests, serial>>

\* SaveUser: conn.Write ...
WriteFile(i) ==
  /\ At(i, "write")
  /\ users' = [users EXCEPT ![h[i].user.name] = h[i].user]
  /\ Goto(i, "chmod")
  /\ UNCHANGED <<cache, sess, requests, serial>>

\* ... util.ManagePerms, which fails, and ends the request, if there is no file ...
ManagePerms(i) ==
  /\ At(i, "chmod")
  /\ IF users[h[i].user.name] = None THEN End(i) ELSE Goto(i, "cache")
  /\ UNCHANGED <<users, cache, sess, requests, serial>>

\* Mutant: the renewed session is an administrator's.
SetUserAdmin(i) ==
  IF h[i].kind = "update" /\ h[i].prev = h[i].as.user.name
    THEN [sess EXCEPT ![h[i].who] = [user |-> h[i].user, admin |-> TRUE]]
    ELSE sess

\* A handler that changed the account of its own session renews that session.
SetUser(i) ==
  IF h[i].kind = "update" /\ h[i].prev = h[i].as.user.name
    THEN [sess EXCEPT ![h[i].who] = [user |-> h[i].user, admin |-> h[i].user.admin]]
    ELSE sess

\* ... and the cache entry; then setUser and the answer.
CacheUser(i) ==
  /\ At(i, "cache")
  /\ cache' = [cache EXCEPT ![h[i].user.name] = h[i].user]
  /\ sess' = SetUser(i)
  /\ End(i)
  /\ UNCHANGED <<users, requests, serial>>

\* The process stops at any point; New and Init read the database again, and
\* create the default administrator if there is no user.
Restart ==
  /\ Restarts
  /\ h' = [i \in Handlers |-> None]
  /\ serial' = (serial /\ Quiet)
  /\ IF \A n \in Names : users[n] = None
       THEN \E x \in Hashes :
              users' = [users EXCEPT ![DefaultName] =
                          [name |-> DefaultName, hash |-> x, admin |-> TRUE]]
       ELSE UNCHANGED users
  /\ cache' = users'
  /\ UNCHANGED <<sess, requests>>

Finish(i) == \/ CheckTaken(i) \/ DeleteCached(i) \/ DeleteFile(i)
             \/ WriteFile(i) \/ ManagePerms(i) \/ CacheUser(i)

Next ==
  \/ \E b \in Browsers, n \in Names : Login(b, n)
  \/ \E b \in Browsers : Logout(b)
  \/ \E i \in Handlers, b \in Browsers, n, m \in Names, a \in BOOLEAN :
       \/ \E x \in Hashes \cup {None} : UpdateUser(i, b, n, m, x, a)
       \/ \E x \in Hashes : CreateUser(i, b, n, x, a)
       \/ RemoveUser(i, b, n)
  \/ \E i \in Handlers : Finish(i)
  \/ Restart

Spec == Init /\ [][Next]_vars

----------------------------------------------------------------------------
\* The shape of the state.
TypeOK ==
  /\ users \in [Names -> User \cup {None}]
  /\ cache \in [Names -> User \cup {None}]
  /\ sess \in [Browsers -> Session \cup {None}]
  /\ h \in [Handlers -> Handler \cup {None}]
  /\ requests \in 0 .. MaxRequests
  /\ serial \in BOOLEAN

\* Requests that run one after the other never lock everybody out: an
\* administrator is left (routes.go: "User cannot delete itself", and nobody
\* changes its own role).
AnAdminRemains == serial /\ Quiet => \E n \in Names : users[n] # None /\ users[n].admin

\* session.go: "Check if user still exists and unchanged": when no request is
\* in progress a valid session belongs to an account that exists as it was.
ValidMeansUnchanged ==
  Quiet => \A b \in Browsers : Valid(sess[b]) => users[sess[b].user.name] = sess[b].user

\* That much holds as long as requests run one after the other.
ValidMeansUnchangedSerially == serial => ValidMeansUnchanged

\* The role NeedsAdmin trusts, kept in the cookie, is the role of the account
\* the session was checked against (session.go isAdmin, setUser).
RoleIsCurrent == \A b \in Browsers : Valid(sess[b]) => sess[b].admin = cache[sess[b].user.name].admin

\* No chain of concurrent requests makes a manager an administrator: an account
\* file becomes an administrator's only through a request of an administrator's
\* session, by saving again an account that was one when the request read it,
\* or when Init creates the default account (routes.go UpdateUser, jsondb Init).
OnlyAdminsMakeAdmins ==
  [][\A n \in Names :
       users'[n] # None /\ users'[n].admin /\ (users[n] = None \/ ~users[n].admin)
       => \/ \E i \in Handlers : /\ h[i] # None /\ h[i].user = users'[n]
                                 /\ h[i].as.admin \/ (h[i].kind = "update" /\ h[i].old.admin)
          \/ \A m \in Names : users[m] = None]_vars
=============================================================================
