--------------------------- MODULE WebUsersProofs ---------------------------
(***************************************************************************)
(* Proofs about WebUsers for any number of names, browsers, handlers and   *)
(* requests: the state keeps its type, a session never has another role    *)
(* than the account it is checked against, and no interleaving of requests *)
(* and restarts makes a manager an administrator.  As long as requests do  *)
(* not overlap, an administrator remains and valid sessions belong to      *)
(* accounts that are unchanged.                                            *)
(***************************************************************************)
EXTENDS WebUsers, TLAPS

\* The cookie's role is that of the account the cookie was issued for, whether
\* or not the cookie is still valid.
CookieRole == \A b \in Browsers : sess[b] # None => sess[b].admin = sess[b].user.admin

\* A handler that is to save an administrator has the right to: its session
\* is one's, or the account it read was one's.
Entitled(r) == r.user.admin => r.as.admin \/ (r.kind = "update" /\ r.old.admin)

\* Removals never save; everybody else is entitled.
Authority ==
  \A i \in Handlers : h[i] # None =>
    IF h[i].kind = "remove" THEN h[i].pc \in {"delCache", "delFile"} ELSE Entitled(h[i])

Inv == TypeOK /\ CookieRole /\ Authority

----------------------------------------------------------------------------
\* The first request finds the default administrator and no session.
LEMMA InitInv == Init => Inv
  <1> SUFFICES ASSUME Init PROVE Inv
    OBVIOUS
  <1>1. TypeOK
    BY UsersAssumption DEF Init, TypeOK
  <1>2. CookieRole /\ Authority
    BY DEF Init, CookieRole, Authority
  <1> QED BY <1>1, <1>2 DEF Inv

\* The beginnings of requests: what they note down is well-typed, and an
\* administrator is noted down only by a handler that is entitled to.
LEMMA BeginInv ==
  ASSUME Inv, NEW i \in Handlers, NEW b \in Browsers, NEW n \in Names, NEW m \in Names,
         NEW a \in BOOLEAN,
         \/ \E x \in Hashes \cup {None} : UpdateUser(i, b, n, m, x, a)
         \/ \E x \in Hashes : CreateUser(i, b, n, x, a)
         \/ RemoveUser(i, b, n)
  PROVE  Inv'
  <1> USE UsersAssumption, NoneAssumption
  <1>1. TypeOK /\ CookieRole /\ Authority
    BY DEF Inv
  <1>2. Admit(i, b) /\ UNCHANGED <<users, cache, sess>>
    BY DEF UpdateUser, CreateUser, RemoveUser
  <1>3. sess[b] \in Session /\ sess[b].user \in User /\ sess[b].admin \in BOOLEAN
    BY <1>1, <1>2 DEF Admit, Valid, TypeOK, Session
  <1>4. requests' \in 0 .. MaxRequests /\ serial' \in BOOLEAN
    BY <1>1, <1>2 DEF Admit, TypeOK, Quiet
  <1>5. ASSUME NEW r \in Handler, h' = [h EXCEPT ![i] = r],
               IF r.kind = "remove" THEN r.pc \in {"delCache", "delFile"} ELSE Entitled(r)
        PROVE  Inv'
    <2>1. TypeOK'
      BY <1>1, <1>2, <1>4, <1>5 DEF TypeOK
    <2>2. CookieRole'
      BY <1>1, <1>2 DEF CookieRole
    <2>3. Authority'
      BY <1>1, <1>5 DEF Authority, TypeOK
    <2> QED BY <2>1, <2>2, <2>3 DEF Inv
  <1>6. ASSUME NEW x \in Hashes \cup {None}, UpdateUser(i, b, n, m, x, a) PROVE Inv'
    <2> DEFINE s == sess[b]
               u == users[n]
               role == IF n = s.user.name THEN u.admin ELSE s.admin /\ a
               new == [name |-> m, hash |-> IF x = None THEN u.hash ELSE x, admin |-> role]
               r == [pc |-> IF m = n THEN "delCache" ELSE "check", kind |-> "update", who |-> b,
                     as |-> s, prev |-> n, old |-> u, user |-> new]
    <2>1. h' = [h EXCEPT ![i] = r] /\ u # None
      BY <1>6 DEF UpdateUser
    <2>2. u \in User /\ u.admin \in BOOLEAN /\ u.hash \in Hashes
      BY <1>1, <2>1 DEF TypeOK, User
    <2>3. role \in BOOLEAN
      BY <1>3, <2>2
    <2>4. new \in User
      <3> HIDE DEF role
      <3>1. (IF x = None THEN u.hash ELSE x) \in Hashes
        BY <2>2
      <3> QED BY <2>3, <3>1 DEF User
    <2>5. r \in Handler
      <3> HIDE DEF s, u, new
      <3> QED BY <1>3, <2>2, <2>4 DEF Handler, s
    <2>6. Entitled(r)
      BY <1>3, <2>2 DEF Entitled
    <2> QED BY <1>5, <2>1, <2>5, <2>6
  <1>7. ASSUME NEW x \in Hashes, CreateUser(i, b, n, x, a) PROVE Inv'
    <2> DEFINE r == [pc |-> "check", kind |-> "create", who |-> b, as |-> sess[b], prev |-> n,
                     old |-> sess[b].user, user |-> [name |-> n, hash |-> x, admin |-> a]]
    <2>1. h' = [h EXCEPT ![i] = r] /\ sess[b].admin
      BY <1>7 DEF CreateUser
    <2>2. r \in Handler
      BY <1>3 DEF Handler, User
    <2>3. Entitled(r)
      BY <2>1 DEF Entitled
    <2> QED BY <1>5, <2>1, <2>2, <2>3
  <1>8. ASSUME RemoveUser(i, b, n) PROVE Inv'
    <2> DEFINE r == [pc |-> "delCache", kind |-> "remove", who |-> b, as |-> sess[b], prev |-> n,
                     old |-> sess[b].user, user |-> sess[b].user]
    <2>1. h' = [h EXCEPT ![i] = r]
      BY <1>8 DEF RemoveUser
    <2>2. r \in Handler
      BY <1>3 DEF Handler
    <2> QED BY <1>5, <2>1, <2>2
  <1> QED BY <1>6, <1>7, <1>8

\* The steps of a request under way.
LEMMA FinishInv ==
  ASSUME Inv, NEW i \in Handlers, Finish(i)
  PROVE  Inv'
  <1> USE NoneAssumption
  <1>1. TypeOK /\ CookieRole /\ Authority
    BY DEF Inv
  <1>2. h[i] \in Handler
    BY <1>1 DEF TypeOK, Finish, CheckTaken, DeleteCached, DeleteFile, WriteFile, ManagePerms,
                CacheUser, At
  <1>3. /\ h[i].user \in User /\ h[i].prev \in Names /\ h[i].who \in Browsers
        /\ h[i].user.name \in Names /\ h[i].user.admin \in BOOLEAN
    BY <1>2 DEF Handler, User
  <1>4. ASSUME UNCHANGED <<sess, requests, serial>>,
               users' \in [Names -> User \cup {None}], cache' \in [Names -> User \cup {None}],
               End(i) \/ Goto(i, "write") \/ Goto(i, "chmod") \/ Goto(i, "cache")
                 \/ Goto(i, "delCache") \/ Goto(i, "delFile"),
               h[i].kind = "remove" => End(i) \/ Goto(i, "delFile")
        PROVE  Inv'
    <2>1. TypeOK'
      BY <1>1, <1>2, <1>4 DEF TypeOK, End, Goto, Handler
    <2>2. CookieRole'
      BY <1>1, <1>4 DEF CookieRole
    <2>3. Authority'
      BY <1>1, <1>2, <1>4 DEF Authority, Entitled, TypeOK, End, Goto, Handler
    <2> QED BY <2>1, <2>2, <2>3 DEF Inv
  <1>5. h[i].kind = "remove" => At(i, "delCache") \/ At(i, "delFile")
    BY <1>1, <1>2 DEF Authority, At
  <1>6. CASE CheckTaken(i)
    BY <1>1, <1>4, <1>5, <1>6 DEF CheckTaken, At, TypeOK
  <1>7. CASE DeleteCached(i)
    BY <1>1, <1>3, <1>4, <1>7 DEF DeleteCached, TypeOK
  <1>8. CASE DeleteFile(i)
    BY <1>1, <1>3, <1>4, <1>8 DEF DeleteFile, TypeOK
  <1>9. CASE WriteFile(i)
    BY <1>1, <1>3, <1>4, <1>5, <1>9 DEF WriteFile, At, TypeOK
  <1>10. CASE ManagePerms(i)
    BY <1>1, <1>4, <1>5, <1>10 DEF ManagePerms, At, TypeOK
  <1>11. CASE CacheUser(i)
    <2> DEFINE s == [user |-> h[i].user, admin |-> h[i].user.admin]
    <2>1. s \in Session
      BY <1>3 DEF Session
    <2>2. sess' = sess \/ sess' = [sess EXCEPT ![h[i].who] = s]
      BY <1>11 DEF CacheUser, SetUser
    <2>3. TypeOK'
      BY <1>1, <1>3, <1>11, <2>1, <2>2 DEF CacheUser, TypeOK, End
    <2>4. CookieRole'
      BY <1>1, <1>3, <2>2 DEF CookieRole, TypeOK
    <2>5. Authority'
      BY <1>1, <1>11 DEF Authority, CacheUser, End, TypeOK
    <2> QED BY <2>3, <2>4, <2>5 DEF Inv
  <1> QED BY <1>6, <1>7, <1>8, <1>9, <1>10, <1>11 DEF Finish

\* Every step preserves the invariant.
LEMMA StepInv == Inv /\ [Next]_vars => Inv'
  <1> SUFFICES ASSUME Inv, [Next]_vars PROVE Inv'
    OBVIOUS
  <1> USE UsersAssumption, NoneAssumption
  <1>1. TypeOK /\ CookieRole /\ Authority
    BY DEF Inv
  <1>2. ASSUME NEW b \in Browsers, NEW n \in Names, Login(b, n) PROVE Inv'
    <2>1. users[n] \in User /\ users[n].admin \in BOOLEAN
      BY <1>1, <1>2 DEF Login, TypeOK, User
    <2>2. [user |-> users[n], admin |-> users[n].admin] \in Session
      BY <2>1 DEF Session
    <2>3. TypeOK' /\ CookieRole'
      BY <1>1, <1>2, <2>2 DEF Login, TypeOK, CookieRole
    <2>4. Authority'
      BY <1>1, <1>2 DEF Login, Authority
    <2> QED BY <2>3, <2>4 DEF Inv
  <1>3. ASSUME NEW b \in Browsers, Logout(b) PROVE Inv'
    BY <1>1, <1>3 DEF Logout, Inv, TypeOK, CookieRole, Authority
  <1>4. CASE Restart
    <2>1. users' \in [Names -> User \cup {None}]
      <3>1. ASSUME NEW x \in Hashes PROVE [name |-> DefaultName, hash |-> x, admin |-> TRUE] \in User
        BY DEF User
      <3> QED BY <1>1, <1>4, <3>1 DEF Restart, TypeOK
    <2>2. TypeOK' /\ CookieRole'
      BY <1>1, <1>4, <2>1 DEF Restart, TypeOK, CookieRole, Quiet
    <2>3. Authority'
      BY <1>4 DEF Restart, Authority
    <2> QED BY <2>2, <2>3 DEF Inv
  <1>5. CASE UNCHANGED vars
    BY <1>1, <1>5 DEF vars, Inv, TypeOK, CookieRole, Authority
  <1> QED BY <1>2, <1>3, <1>4, <1>5, BeginInv, FinishInv DEF Next

\* Inv is an invariant of the user handlers.
LEMMA SpecInv == Spec => []Inv
  BY InitInv, StepInv, PTL DEF Spec

----------------------------------------------------------------------------
\* Files, cache, cookies and handlers keep their shape.
THEOREM UsersTypeCorrect == Spec => []TypeOK
  <1>1. Inv => TypeOK BY DEF Inv
  <1> QED BY <1>1, SpecInv, PTL

\* The role in an accepted cookie, which isAdmin and NeedsAdmin trust, is the role
\* of the account it was checked against, for any number of overlapping
\* requests and restarts.
THEOREM SessionsHaveTheirRole == Spec => []RoleIsCurrent
  <1>1. Inv => RoleIsCurrent
    BY DEF Inv, CookieRole, RoleIsCurrent, Valid
  <1> QED BY <1>1, SpecInv, PTL

\* A step that makes an account file an administrator's is one of a handler
\* entitled to it, or the restart that finds no account at all.
LEMMA GrantStep ==
  ASSUME Inv, [Next]_vars, NEW n \in Names,
         users'[n] # None, users'[n].admin, users[n] = None \/ ~users[n].admin
  PROVE  \/ \E i \in Handlers : /\ h[i] # None /\ h[i].user = users'[n]
                                /\ h[i].as.admin \/ (h[i].kind = "update" /\ h[i].old.admin)
         \/ \A m \in Names : users[m] = None
  <1> USE NoneAssumption
  <1>1. TypeOK /\ Authority
    BY DEF Inv
  <1>2. users' # users
    BY Zenon
  <1>3. ASSUME NEW i \in Handlers, DeleteFile(i) PROVE FALSE
    BY <1>1, <1>3 DEF DeleteFile, TypeOK
  <1>4. ASSUME NEW i \in Handlers, WriteFile(i)
        PROVE  /\ h[i] # None /\ h[i].user = users'[n]
               /\ h[i].as.admin \/ (h[i].kind = "update" /\ h[i].old.admin)
    <2>1. h[i] # None /\ h[i].pc = "write"
      BY <1>4 DEF WriteFile, At
    <2>2. Entitled(h[i])
      BY <1>1, <2>1 DEF Authority
    <2>3. h[i].user = users'[n]
      BY <1>1, <1>4 DEF WriteFile, TypeOK
    <2> QED BY <2>1, <2>2, <2>3 DEF Entitled
  <1>5. CASE Restart
    BY <1>2, <1>5 DEF Restart
  <1>6. ASSUME NEW i \in Handlers, Finish(i) PROVE DeleteFile(i) \/ WriteFile(i)
    BY <1>2, <1>6 DEF Finish, CheckTaken, DeleteCached, ManagePerms, CacheUser
  <1> QED BY <1>2, <1>3, <1>4, <1>5, <1>6
          DEF Next, vars, Login, Logout, UpdateUser, CreateUser, RemoveUser

\* No interleaving of requests, logins and restarts makes a manager an
\* administrator (routes.go UpdateUser, CreateUser; jsondb Init).
THEOREM ManagersStayManagers == Spec => OnlyAdminsMakeAdmins
  <1> DEFINE Grant(n) ==
        users'[n] # None /\ users'[n].admin /\ (users[n] = None \/ ~users[n].admin)
        => \/ \E i \in Handlers : /\ h[i] # None /\ h[i].user = users'[n]
                                  /\ h[i].as.admin \/ (h[i].kind = "update" /\ h[i].old.admin)
           \/ \A m \in Names : users[m] = None
  <1>1. Inv /\ [Next]_vars => [\A n \in Names : Grant(n)]_vars
    BY GrantStep
  <1> QED BY <1>1, SpecInv, PTL DEF Spec, OnlyAdminsMakeAdmins

----------------------------------------------------------------------------
(* Requests that run one after the other.                                  *)

IsAdmin(n) == users[n] # None /\ users[n].admin
AnAdmin == \E n \in Names : IsAdmin(n)
AdminBut(n) == \E m \in Names \ {n} : IsAdmin(m)

\* The cache has the checksums of the accounts, the one of name n aside.
CachedBut(n) == \A m \in Names \ {n} : cache[m] = users[m]

\* Nothing of a request has happened yet.
Untouched(i) == h[i].pc \in {"check", "delCache"} => cache = users /\ AnAdmin

\* What a request that saves has found: the account it changes exists until it
\* deletes it, and the name it saves is free from the check to the save.
Found(i) ==
  /\ h[i].kind = "update" /\ h[i].pc \in {"check", "delCache", "delFile"} => users[h[i].prev] # None
  /\ h[i].kind = "update" /\ h[i].pc \in {"delCache", "delFile"}
       => h[i].user.name = h[i].prev \/ users[h[i].user.name] = None
  /\ h[i].pc = "write" => users[h[i].user.name] = None
  /\ h[i].kind = "create" => h[i].prev = h[i].user.name /\ h[i].pc \notin {"delCache", "delFile"}

\* How far files and cache differ.
Cached(i) ==
  /\ h[i].pc = "delFile" => cache[h[i].prev] = None /\ CachedBut(h[i].prev)
  /\ h[i].pc = "write" => cache = users
  /\ h[i].pc \in {"chmod", "cache"} => users[h[i].user.name] = h[i].user /\ CachedBut(h[i].user.name)

\* The administrator that is left: one the request is not about, or the one it saves.
Leaves(i) ==
  IF h[i].pc \in {"chmod", "cache"} THEN AnAdmin
  ELSE \/ AdminBut(h[i].prev)
       \/ h[i].kind = "update" /\ h[i].user.admin
       \/ h[i].kind = "create" /\ h[i].pc = "check"

Serial ==
  serial => /\ \A i, j \in Handlers : h[i] # None /\ h[j] # None => i = j
            /\ Quiet => cache = users /\ AnAdmin
            /\ \A i \in Handlers : h[i] # None => Untouched(i) /\ Found(i) /\ Cached(i) /\ Leaves(i)

\* The initial state.
LEMMA InitSerial == Init => Serial
  <1> SUFFICES ASSUME Init PROVE Serial
    OBVIOUS
  <1> USE UsersAssumption, NoneAssumption
  <1>1. h = [i \in Handlers |-> None] /\ cache = users
    BY DEF Init
  <1>2. IsAdmin(DefaultName)
    BY DEF Init, IsAdmin
  <1> QED BY <1>1, <1>2 DEF Serial, AnAdmin

\* When a request begins that overlaps no other, its session is the one of an
\* account as it is.
LEMMA BeginSerial ==
  ASSUME Inv, Serial, NEW i \in Handlers, NEW b \in Browsers, NEW n \in Names, NEW m \in Names,
         NEW a \in BOOLEAN,
         \/ \E x \in Hashes \cup {None} : UpdateUser(i, b, n, m, x, a)
         \/ \E x \in Hashes : CreateUser(i, b, n, x, a)
         \/ RemoveUser(i, b, n)
  PROVE  Serial'
  <1> USE UsersAssumption, NoneAssumption
  <1> SUFFICES ASSUME serial'
               PROVE  /\ \A j, k \in Handlers : h'[j] # None /\ h'[k] # None => j = k
                      /\ Quiet' => cache' = users' /\ AnAdmin'
                      /\ \A j \in Handlers : h'[j] # None =>
                           Untouched(j)' /\ Found(j)' /\ Cached(j)' /\ Leaves(j)'
    BY DEF Serial
  <1>1. TypeOK /\ CookieRole
    BY DEF Inv
  <1>2. Admit(i, b) /\ UNCHANGED <<users, cache, sess>>
    BY DEF UpdateUser, CreateUser, RemoveUser
  <1>3. Quiet /\ cache = users /\ AnAdmin /\ AnAdmin'
    BY <1>2 DEF Admit, Serial, AnAdmin, IsAdmin
  <1>4. /\ sess[b] \in Session /\ sess[b].user \in User /\ sess[b].user.name \in Names
        /\ users[sess[b].user.name] = sess[b].user /\ sess[b].admin = sess[b].user.admin
    BY <1>1, <1>2, <1>3 DEF Admit, Valid, TypeOK, Session, User, CookieRole
  <1>5. sess[b].admin => IsAdmin(sess[b].user.name)
    BY <1>4 DEF IsAdmin
  <1>6. ASSUME NEW r, h' = [h EXCEPT ![i] = r],
               Untouched(i)' /\ Found(i)' /\ Cached(i)' /\ Leaves(i)'
        PROVE  /\ \A j, k \in Handlers : h'[j] # None /\ h'[k] # None => j = k
               /\ Quiet' => cache' = users' /\ AnAdmin'
               /\ \A j \in Handlers : h'[j] # None =>
                    Untouched(j)' /\ Found(j)' /\ Cached(j)' /\ Leaves(j)'
    <2>1. \A j \in Handlers : h'[j] # None => j = i
      BY <1>1, <1>3, <1>6 DEF TypeOK, Quiet
    <2> QED BY <1>2, <1>3, <1>6, <2>1
  <1>7. ASSUME NEW x \in Hashes \cup {None}, UpdateUser(i, b, n, m, x, a)
        PROVE  \E r : h' = [h EXCEPT ![i] = r] /\ Untouched(i)' /\ Found(i)' /\ Cached(i)' /\ Leaves(i)'
    <2> DEFINE role == IF n = sess[b].user.name THEN users[n].admin ELSE sess[b].admin /\ a
               new == [name |-> m, hash |-> IF x = None THEN users[n].hash ELSE x, admin |-> role]
               r == [pc |-> IF m = n THEN "delCache" ELSE "check", kind |-> "update", who |-> b,
                     as |-> sess[b], prev |-> n, old |-> users[n], user |-> new]
    <2>1. h' = [h EXCEPT ![i] = r] /\ users[n] # None /\ (sess[b].admin \/ n = sess[b].user.name)
      BY <1>7 DEF UpdateUser
    <2>3. /\ h'[i] = r /\ h'[i].prev = n /\ h'[i].kind = "update" /\ h'[i].user.name = m
          /\ h'[i].user.admin = role /\ h'[i].pc = (IF m = n THEN "delCache" ELSE "check")
      BY <1>1, <2>1 DEF TypeOK
    <2>4. AdminBut(n) \/ role
      <3>1. CASE n = sess[b].user.name
        BY <1>3, <1>4, <3>1 DEF AnAdmin, AdminBut, IsAdmin
      <3>2. CASE n # sess[b].user.name
        BY <1>4, <1>5, <2>1, <3>2 DEF AdminBut
      <3> QED BY <3>1, <3>2
    <2> HIDE DEF r, role
    <2>5. AdminBut(n)' \/ role
      BY <1>2, <2>4 DEF AdminBut, IsAdmin
    <2>6. Untouched(i)'
      BY <1>2, <1>3 DEF Untouched
    <2>7. Found(i)'
      BY <1>2, <2>1, <2>3 DEF Found
    <2>8. Cached(i)'
      BY <2>3 DEF Cached
    <2>9. Leaves(i)'
      BY <2>3, <2>5 DEF Leaves
    <2> QED BY <2>1, <2>6, <2>7, <2>8, <2>9
  <1>8. ASSUME NEW x \in Hashes, CreateUser(i, b, n, x, a)
        PROVE  \E r : h' = [h EXCEPT ![i] = r] /\ Untouched(i)' /\ Found(i)' /\ Cached(i)' /\ Leaves(i)'
    <2> DEFINE r == [pc |-> "check", kind |-> "create", who |-> b, as |-> sess[b], prev |-> n,
                     old |-> sess[b].user, user |-> [name |-> n, hash |-> x, admin |-> a]]
    <2>1. h' = [h EXCEPT ![i] = r]
      BY <1>8 DEF CreateUser
    <2>2. h'[i].kind = "create" /\ h'[i].pc = "check" /\ h'[i].prev = h'[i].user.name
      BY <1>1, <2>1 DEF TypeOK
    <2> HIDE DEF r
    <2>3. Untouched(i)' /\ Found(i)' /\ Cached(i)' /\ Leaves(i)'
      BY <1>2, <1>3, <2>2 DEF Untouched, Found, Cached, Leaves
    <2> QED BY <2>1, <2>3
  <1>9. ASSUME RemoveUser(i, b, n)
        PROVE  \E r : h' = [h EXCEPT ![i] = r] /\ Untouched(i)' /\ Found(i)' /\ Cached(i)' /\ Leaves(i)'
    <2> DEFINE r == [pc |-> "delCache", kind |-> "remove", who |-> b, as |-> sess[b], prev |-> n,
                     old |-> sess[b].user, user |-> sess[b].user]
    <2>1. h' = [h EXCEPT ![i] = r]
      BY <1>9 DEF RemoveUser
    <2>2. h'[i].kind = "remove" /\ h'[i].pc = "delCache" /\ h'[i].prev = n
      BY <1>1, <2>1 DEF TypeOK
    <2>3. AdminBut(n)'
      BY <1>2, <1>4, <1>5, <1>9 DEF RemoveUser, AdminBut, IsAdmin
    <2> HIDE DEF r
    <2>4. Untouched(i)' /\ Found(i)' /\ Cached(i)' /\ Leaves(i)'
      BY <1>2, <1>3, <2>2, <2>3 DEF Untouched, Found, Cached, Leaves
    <2> QED BY <2>1, <2>4
  <1> QED BY <1>6, <1>7, <1>8, <1>9

\* A request alone: each step takes its part of the invariant to the next one.
LEMMA FinishSerial ==
  ASSUME Inv, Serial, NEW i \in Handlers, Finish(i)
  PROVE  Serial'
  <1> USE NoneAssumption
  <1>1. TypeOK /\ Authority
    BY DEF Inv
  <1>2. h[i] # None /\ h[i] \in Handler /\ serial' = serial
    BY <1>1 DEF TypeOK, Finish, CheckTaken, DeleteCached, DeleteFile, WriteFile, ManagePerms,
                CacheUser, At
  <1> SUFFICES ASSUME serial
               PROVE  /\ \A j, k \in Handlers : h'[j] # None /\ h'[k] # None => j = k
                      /\ Quiet' => cache' = users' /\ AnAdmin'
                      /\ \A j \in Handlers : h'[j] # None =>
                           Untouched(j)' /\ Found(j)' /\ Cached(j)' /\ Leaves(j)'
    BY <1>2 DEF Serial
  <1>3. Untouched(i) /\ Found(i) /\ Cached(i) /\ Leaves(i) /\ \A j \in Handlers \ {i} : h[j] = None
    BY <1>2 DEF Serial
  <1>4. h[i].prev \in Names /\ h[i].user \in User /\ h[i].user.name \in Names
    BY <1>2 DEF Handler, User
  <1>5. ASSUME End(i), cache' = users', AnAdmin'
        PROVE  /\ \A j, k \in Handlers : h'[j] # None /\ h'[k] # None => j = k
               /\ Quiet' => cache' = users' /\ AnAdmin'
               /\ \A j \in Handlers : h'[j] # None =>
                    Untouched(j)' /\ Found(j)' /\ Cached(j)' /\ Leaves(j)'
    <2>1. \A j \in Handlers : h'[j] = None
      BY <1>1, <1>3, <1>5 DEF TypeOK, End
    <2> QED BY <1>5, <2>1
  <1>6. ASSUME NEW p \in {"delCache", "delFile", "write", "chmod", "cache"}, Goto(i, p),
               Untouched(i)' /\ Found(i)' /\ Cached(i)' /\ Leaves(i)'
        PROVE  /\ \A j, k \in Handlers : h'[j] # None /\ h'[k] # None => j = k
               /\ Quiet' => cache' = users' /\ AnAdmin'
               /\ \A j \in Handlers : h'[j] # None =>
                    Untouched(j)' /\ Found(j)' /\ Cached(j)' /\ Leaves(j)'
    <2>1. \A j \in Handlers \ {i} : h'[j] = None
      BY <1>1, <1>3, <1>6 DEF TypeOK, Goto
    <2>2. h'[i] \in Handler
      BY <1>1, <1>2, <1>6 DEF TypeOK, Goto, Handler
    <2> QED BY <1>6, <2>1, <2>2 DEF Quiet
  <1>8. ASSUME NEW p, Goto(i, p)
        PROVE  /\ h'[i].pc = p /\ h'[i].kind = h[i].kind /\ h'[i].prev = h[i].prev
               /\ h'[i].user = h[i].user
    BY <1>1, <1>2, <1>8 DEF TypeOK, Goto, Handler
  <1>9. CASE CheckTaken(i)
    <2>1. h[i].pc = "check" /\ cache' = users' /\ AnAdmin /\ AnAdmin' /\ UNCHANGED users
      BY <1>3, <1>9 DEF CheckTaken, At, Untouched, AnAdmin, IsAdmin
    <2>2. CASE users[h[i].user.name] # None
      BY <1>5, <1>9, <2>1, <2>2 DEF CheckTaken
    <2>3. CASE users[h[i].user.name] = None
      <3> DEFINE p == IF h[i].kind = "create" THEN "write" ELSE "delCache"
      <3>1. Goto(i, p)
        BY <1>9, <2>3 DEF CheckTaken
      <3>2. /\ h'[i].pc = p /\ h'[i].kind = h[i].kind /\ h'[i].prev = h[i].prev
            /\ h'[i].user = h[i].user
        BY <3>1, <1>8
      <3>3. Untouched(i)' /\ Cached(i)'
        BY <2>1, <3>2 DEF Untouched, Cached
      <3>4. Found(i)'
        BY <1>3, <2>1, <2>3, <3>2 DEF Found
      <3>5. h[i].kind = "create" => AdminBut(h[i].prev)
        BY <1>3, <2>1, <2>3 DEF AnAdmin, AdminBut, IsAdmin, Found
      <3>6. Leaves(i)'
        BY <1>3, <2>1, <3>2, <3>5 DEF Leaves, AdminBut, IsAdmin
      <3> QED BY <1>6, <3>1, <3>3, <3>4, <3>6
    <2> QED BY <2>2, <2>3
  <1>10. CASE DeleteCached(i)
    <2>1. h[i].pc = "delCache" /\ cache = users /\ users' = users /\ Goto(i, "delFile")
      BY <1>3, <1>10 DEF DeleteCached, At, Untouched
    <2>2. cache'[h[i].prev] = None /\ \A n \in Names \ {h[i].prev} : cache'[n] = users'[n]
      BY <1>1, <1>4, <1>10, <2>1 DEF DeleteCached, TypeOK
    <2>3. /\ h'[i].pc = "delFile" /\ h'[i].kind = h[i].kind /\ h'[i].prev = h[i].prev
          /\ h'[i].user = h[i].user
      BY <2>1, <1>8
    <2>4. Untouched(i)' /\ Cached(i)'
      BY <2>2, <2>3 DEF Untouched, Cached, CachedBut
    <2>5. Found(i)' /\ Leaves(i)'
      BY <1>3, <2>1, <2>3 DEF Found, Leaves, AdminBut, IsAdmin
    <2> QED BY <1>6, <2>1, <2>4, <2>5
  <1>11. CASE DeleteFile(i)
    <2>1. /\ h[i].pc = "delFile" /\ cache' = cache
          /\ users' = [users EXCEPT ![h[i].prev] = None]
      BY <1>11 DEF DeleteFile, At
    <2>2. users'[h[i].prev] = None /\ \A n \in Names \ {h[i].prev} : users'[n] = users[n]
      BY <1>1, <1>4, <2>1 DEF TypeOK
    <2>3. cache' = users'
      <3>1. \A n \in Names : cache'[n] = users'[n]
        BY <1>3, <2>1, <2>2 DEF Cached, CachedBut
      <3> QED BY <1>1, <2>1, <3>1 DEF TypeOK
    <2>4. AdminBut(h[i].prev) => AnAdmin' /\ \E m \in Names \ {h[i].prev} : IsAdmin(m)'
      BY <2>2 DEF AdminBut, AnAdmin, IsAdmin
    <2>5. CASE h[i].kind = "remove" \/ users[h[i].prev] = None
      <3>1. h[i].kind = "remove"
        BY <1>2, <1>3, <2>1, <2>5 DEF Found, Handler
      <3> QED BY <1>3, <1>5, <1>11, <2>1, <2>3, <2>4, <2>5, <3>1 DEF DeleteFile, Leaves
    <2>6. CASE ~(h[i].kind = "remove" \/ users[h[i].prev] = None)
      <3>1. Goto(i, "write")
        BY <1>11, <2>6 DEF DeleteFile
      <3>2. /\ h'[i].pc = "write" /\ h'[i].kind = h[i].kind /\ h'[i].prev = h[i].prev
            /\ h'[i].user = h[i].user
        BY <3>1, <1>8
      <3>3. h[i].kind = "update"
        BY <1>2, <1>3, <2>1, <2>6 DEF Handler, Found
      <3>4. Untouched(i)' /\ Cached(i)'
        BY <2>3, <3>2 DEF Untouched, Cached
      <3>5. Found(i)'
        BY <1>3, <1>4, <2>1, <2>2, <3>2, <3>3 DEF Found
      <3>6. Leaves(i)'
        BY <1>3, <2>1, <2>4, <3>2, <3>3 DEF Leaves, AdminBut
      <3> QED BY <1>6, <3>1, <3>4, <3>5, <3>6
    <2> QED BY <2>5, <2>6
  <1>12. CASE WriteFile(i)
    <2>1. /\ h[i].pc = "write" /\ cache' = cache /\ Goto(i, "chmod")
          /\ users' = [users EXCEPT ![h[i].user.name] = h[i].user]
      BY <1>12 DEF WriteFile, At
    <2>2. /\ users'[h[i].user.name] = h[i].user
          /\ \A n \in Names \ {h[i].user.name} : users'[n] = users[n]
      BY <1>1, <1>4, <2>1 DEF TypeOK
    <2>3. /\ h'[i].pc = "chmod" /\ h'[i].kind = h[i].kind /\ h'[i].prev = h[i].prev
          /\ h'[i].user = h[i].user
      BY <2>1, <1>8
    <2>4. Untouched(i)' /\ Found(i)'
      BY <1>3, <2>3 DEF Untouched, Found
    <2>5. Cached(i)'
      BY <1>3, <2>1, <2>2, <2>3 DEF Cached, CachedBut
    <2>6. h[i].user.admin => AnAdmin'
      BY <1>4, <2>2 DEF AnAdmin, IsAdmin
    <2>7. AdminBut(h[i].prev) => AnAdmin'
      BY <1>3, <2>1, <2>2 DEF Found, AdminBut, AnAdmin, IsAdmin
    <2>8. AnAdmin'
      BY <1>3, <2>1, <2>6, <2>7 DEF Leaves
    <2>9. Leaves(i)'
      BY <2>3, <2>8 DEF Leaves
    <2> QED BY <1>6, <2>1, <2>4, <2>5, <2>9
  <1>13. CASE ManagePerms(i)
    <2>1. h[i].pc = "chmod" /\ UNCHANGED <<users, cache>> /\ users[h[i].user.name] = h[i].user
      BY <1>3, <1>13 DEF ManagePerms, At, Cached
    <2>2. Goto(i, "cache")
      BY <1>4, <1>13, <2>1 DEF ManagePerms
    <2>3. /\ h'[i].pc = "cache" /\ h'[i].kind = h[i].kind /\ h'[i].prev = h[i].prev
          /\ h'[i].user = h[i].user
      BY <2>2, <1>8
    <2>4. Untouched(i)' /\ Found(i)'
      BY <1>3, <2>3 DEF Untouched, Found
    <2>5. Cached(i)' /\ Leaves(i)'
      BY <1>3, <2>1, <2>3 DEF Cached, CachedBut, Leaves, AnAdmin, IsAdmin
    <2> QED BY <1>6, <2>2, <2>4, <2>5
  <1>14. CASE CacheUser(i)
    <2>1. h[i].pc = "cache" /\ users' = users /\ cache' = [cache EXCEPT ![h[i].user.name] = h[i].user]
      BY <1>14 DEF CacheUser, At
    <2>2. \A n \in Names : cache'[n] = users'[n]
      BY <1>1, <1>3, <1>4, <2>1 DEF TypeOK, Cached, CachedBut
    <2>3. cache' = users'
      BY <1>1, <1>4, <2>1, <2>2 DEF TypeOK
    <2>4. AnAdmin'
      BY <1>3, <2>1 DEF Leaves, AnAdmin, IsAdmin
    <2> QED BY <1>5, <1>14, <2>3, <2>4 DEF CacheUser
  <1> QED BY <1>9, <1>10, <1>11, <1>12, <1>13, <1>14 DEF Finish

\* Every step keeps what holds of requests that do not overlap.
LEMMA StepSerial == Inv /\ Serial /\ [Next]_vars => Serial'
  <1> SUFFICES ASSUME Inv, Serial, [Next]_vars PROVE Serial'
    OBVIOUS
  <1> USE UsersAssumption, NoneAssumption
  <1>1. TypeOK
    BY DEF Inv
  <1>2. ASSUME UNCHANGED <<users, cache, h, serial>> PROVE Serial'
    BY <1>2 DEF Serial, Quiet, Untouched, Found, Cached, CachedBut, Leaves, AnAdmin, AdminBut, IsAdmin
  <1>3. CASE Restart
    <2> SUFFICES ASSUME serial' PROVE cache' = users' /\ AnAdmin' /\ \A i \in Handlers : h'[i] = None
      BY DEF Serial
    <2>1. serial /\ Quiet /\ AnAdmin
      BY <1>3 DEF Restart, Serial
    <2>2. users' = users
      BY <1>3, <2>1 DEF Restart, AnAdmin, IsAdmin
    <2> QED BY <1>3, <2>1, <2>2 DEF Restart, AnAdmin, IsAdmin
  <1>4. CASE UNCHANGED vars
    BY <1>2, <1>4 DEF vars
  <1>5. ASSUME NEW b \in Browsers, NEW n \in Names, Login(b, n) PROVE Serial'
    BY <1>2, <1>5 DEF Login
  <1>6. ASSUME NEW b \in Browsers, Logout(b) PROVE Serial'
    BY <1>2, <1>6 DEF Logout
  <1> QED BY <1>3, <1>4, <1>5, <1>6, BeginSerial, FinishSerial DEF Next

\* What holds of requests that do not overlap is an invariant.
LEMMA SpecSerial == Spec => []Serial
  BY InitSerial, StepSerial, SpecInv, PTL DEF Spec

\* Requests that run one after the other, restarts between them included, never
\* lock everybody out: an administrator is left (routes.go RemoveUser, UpdateUser).
THEOREM NobodyIsLockedOut == Spec => []AnAdminRemains
  <1>1. Serial => AnAdminRemains
    BY DEF Serial, AnAdminRemains, AnAdmin, IsAdmin
  <1> QED BY <1>1, SpecSerial, PTL

\* As long as requests do not overlap, a valid session belongs to an account
\* that exists as it was when the session was made (session.go isValidSession).
THEOREM ValidSessionsAreUnchanged == Spec => []ValidMeansUnchangedSerially
  <1>1. Serial => ValidMeansUnchangedSerially
    BY DEF Serial, ValidMeansUnchangedSerially, ValidMeansUnchanged, Valid
  <1> QED BY <1>1, SpecSerial, PTL
=============================================================================
