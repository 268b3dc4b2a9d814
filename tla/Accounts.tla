------------------------------ MODULE Accounts -------------------------------
(***************************************************************************)
(* Accounts against one database: login, password change and user          *)
(* administration (application/auth_service.py, user_admin_service.py      *)
(* behind interface/api/auth.py and admin.py), and the super_admin seed    *)
(* that every container runs before it serves (infrastructure/seed.py).    *)
(*                                                                         *)
(* A request decides on the copies of rows its SQLAlchemy session loaded   *)
(* and writes at its COMMIT; nothing locks the rows in between.            *)
(***************************************************************************)
EXTENDS Integers

CONSTANTS
    Ids,        \* ids of accounts, used or not
    Names,      \* usernames as they are spelled
    Lower,      \* the lower-case form of each name
    Passwords,
    Requests,   \* HTTP requests and container starts, each made at most once
    Asks,       \* what a request may ask for
    Rosters,    \* tables the system may be found with
    None

Roles == {"user", "admin", "super_admin"}
Ops == {"login", "change_password", "create_user", "set_active", "promote", "seed"}
Row == [stored : BOOLEAN, username : Names \cup {None}, role : Roles, is_active : BOOLEAN,
        password : Passwords \cup {None}, outdated : BOOLEAN]
NoRow == [stored |-> FALSE, username |-> None, role |-> "user", is_active |-> FALSE,
          password |-> None, outdated |-> FALSE]

\* actor: whose token; target: the id in the path; the rest is the JSON body, or
\* for a seed the environment.
AskForms == [op : Ops, actor : Ids, target : Ids, username : Names, role : Roles,
             is_active : BOOLEAN, password : Passwords, new_password : Passwords]

HasSuperAdmin(table) ==
    \E i \in Ids : table[i].stored /\ table[i].role = "super_admin" /\ table[i].is_active

ASSUME NameAssumption == Lower \in [Names -> Names] /\ None \notin Requests
ASSUME AskAssumption == Asks \subseteq AskForms
\* A table is empty, or some container was started on it before.
ASSUME RosterAssumption ==
    /\ Rosters \subseteq [Ids -> Row]
    /\ \A table \in Rosters : (\E i \in Ids : table[i].stored) => HasSuperAdmin(table)

VARIABLES
    users,      \* table users, by id
    ask,        \* what each request asks for; fixed when it begins
    pc,         \* how far each request has come
    actor,      \* the copy of the acting user a request has loaded
    target,     \* the id and the copy of the row a request is about to change
    before,     \* history variable: requests that had ended when this one began
    trail       \* history variable: which request last did what to each row

vars == <<users, ask, pc, actor, target, before, trail>>

-----------------------------------------------------------------------------
InFlight == {"begun", "authorised", "checked"}
Ended == {"ok", "unauthorised", "forbidden", "not_found", "invalid", "conflict",
          "error", "refused", "died"}
Deeds == {"created", "promoted", "toggled", "hashed"}
NoTarget == [id |-> None, row |-> NoRow]

TypeOK ==
    /\ users \in [Ids -> Row]
    /\ ask \in [Requests -> Asks \cup {None}]
    /\ pc \in [Requests -> {"idle"} \cup InFlight \cup Ended]
    /\ actor \in [Requests -> Row]
    /\ target \in [Requests -> [id : Ids \cup {None}, row : Row]]
    /\ before \in [Requests -> SUBSET Requests]
    /\ trail \in [Ids -> [Deeds -> Requests \cup {None}]]

\* PERMISSION_MATRIX, the rows that guard an operation here.
role_has_permission(role, permission) ==
    role \in CASE permission \in {"create_user", "toggle_user_active"} -> {"admin", "super_admin"}
               [] permission \in {"create_admin", "toggle_admin_active", "promote_user_to_admin"}
                      -> {"super_admin"}
               [] permission = "change_own_password" -> Roles

\* The gate on each route (@require_permission), before the service looks closer.
Gate(op) == CASE op = "create_user" -> "create_user"
              [] op = "set_active" -> "toggle_user_active"
              [] op = "promote" -> "promote_user_to_admin"
              [] op = "change_password" -> "change_own_password"

\* Mutant: names are compared as they are spelled.
MatchingExactly(username) == {i \in Ids : users[i].stored /\ users[i].username = username}

\* get_by_username compares lower-case forms; the unique constraint does not.
Matching(username) ==
    {i \in Ids : users[i].stored /\ Lower[users[i].username] = Lower[username]}
Taken(username) == \E i \in Ids : users[i].stored /\ users[i].username = username

Hashed(row, password) == [row EXCEPT !.password = password, !.outdated = FALSE]

-----------------------------------------------------------------------------
Init ==
    /\ users \in Rosters
    /\ ask = [r \in Requests |-> None]
    /\ pc = [r \in Requests |-> "idle"]
    /\ actor = [r \in Requests |-> NoRow]
    /\ target = [r \in Requests |-> NoTarget]
    /\ before = [r \in Requests |-> {}]
    /\ trail = [i \in Ids |-> [d \in Deeds |-> None]]

Goto(r, l) == pc' = [pc EXCEPT ![r] = l]

Begin(r, a) ==
    /\ pc[r] = "idle"
    /\ ask' = [ask EXCEPT ![r] = a]
    /\ before' = [before EXCEPT ![r] = {q \in Requests : pc[q] \in Ended}]
    /\ Goto(r, "begun")
    /\ UNCHANGED <<users, actor, target, trail>>

\* verify_token: a token that is expired or not ours.
RejectToken(r) ==
    /\ pc[r] = "begun"
    /\ ask[r].op \notin {"login", "seed"}
    /\ Goto(r, "unauthorised")
    /\ UNCHANGED <<users, ask, actor, target, before, trail>>

\* Mutant: a valid token is enough.
AuthoriseByToken(r) ==
    /\ pc[r] = "begun"
    /\ ask[r].op \notin {"login", "seed"}
    /\ LET row == users[ask[r].actor]
       IN  /\ row.stored
           /\ actor' = [actor EXCEPT ![r] = row]
           /\ Goto(r, IF role_has_permission(row.role, Gate(ask[r].op))
                      THEN "authorised" ELSE "forbidden")
    /\ UNCHANGED <<users, ask, target, before, trail>>

\* verify_token: SELECT the token's user, whose role and activity count, not the
\* token's; then the route's permission.
Authorise(r) ==
    /\ pc[r] = "begun"
    /\ ask[r].op \notin {"login", "seed"}
    /\ LET row == users[ask[r].actor]
       IN  \/ /\ ~(row.stored /\ row.is_active)
              /\ Goto(r, "unauthorised")
              /\ UNCHANGED actor
           \/ /\ row.stored /\ row.is_active
              /\ actor' = [actor EXCEPT ![r] = row]
              /\ Goto(r, IF role_has_permission(row.role, Gate(ask[r].op))
                         THEN "authorised" ELSE "forbidden")
    /\ UNCHANGED <<users, ask, target, before, trail>>

\* A body the schema refuses; a blank username or a password that is too short.
RejectInput(r) ==
    /\ \/ pc[r] = "begun" /\ ask[r].op # "seed"
       \/ /\ pc[r] = "authorised"
          /\ ask[r].op = "change_password"
          /\ actor[r].password = ask[r].password
       \/ /\ pc[r] = "authorised"
          /\ ask[r].op = "create_user" /\ ask[r].role # "super_admin"
          /\ ask[r].role = "admin" => role_has_permission(actor[r].role, "create_admin")
    /\ Goto(r, "invalid")
    /\ UNCHANGED <<users, ask, actor, target, before, trail>>

\* authenticate: any one of the matching rows, its password, then its activity.
CheckLogin(r) ==
    /\ pc[r] = "begun"
    /\ ask[r].op = "login"
    /\ \/ /\ Matching(ask[r].username) = {}
          /\ Goto(r, "unauthorised")
          /\ UNCHANGED target
       \/ \E i \in Matching(ask[r].username) :
             /\ target' = [target EXCEPT ![r] = [id |-> i, row |-> users[i]]]
             /\ Goto(r, IF users[i].password = ask[r].password /\ users[i].is_active
                        THEN "checked" ELSE "unauthorised")
    /\ UNCHANGED <<users, ask, actor, before, trail>>

\* Mutant: the current password is not asked for.
CheckPasswordUnverified(r) ==
    /\ pc[r] = "authorised"
    /\ ask[r].op = "change_password"
    /\ target' = [target EXCEPT ![r] = [id |-> ask[r].actor, row |-> actor[r]]]
    /\ Goto(r, IF ask[r].new_password = ask[r].password THEN "invalid" ELSE "checked")
    /\ UNCHANGED <<users, ask, actor, before, trail>>

\* change_own_password: judged on the copy the token check has loaded.
CheckPassword(r) ==
    /\ pc[r] = "authorised"
    /\ ask[r].op = "change_password"
    /\ target' = [target EXCEPT ![r] = [id |-> ask[r].actor, row |-> actor[r]]]
    /\ Goto(r, IF actor[r].password # ask[r].password THEN "unauthorised"
               ELSE IF ask[r].new_password = ask[r].password THEN "invalid"
               ELSE "checked")
    /\ UNCHANGED <<users, ask, actor, before, trail>>

\* Mutant: the route's permission is thought to be enough.
CheckNameAtTheGate(r) ==
    /\ pc[r] = "authorised"
    /\ ask[r].op = "create_user"
    /\ Goto(r, IF ask[r].role = "super_admin" THEN "invalid"
               ELSE IF Matching(ask[r].username) # {} THEN "conflict"
               ELSE "checked")
    /\ UNCHANGED <<users, ask, actor, target, before, trail>>

\* create_user up to its INSERT.
CheckName(r) ==
    /\ pc[r] = "authorised"
    /\ ask[r].op = "create_user"
    /\ Goto(r, IF ask[r].role = "super_admin" THEN "invalid"
               ELSE IF ask[r].role = "admin" /\ ~role_has_permission(actor[r].role, "create_admin")
                    THEN "forbidden"
               ELSE IF Matching(ask[r].username) # {} THEN "conflict"
               ELSE "checked")
    /\ UNCHANGED <<users, ask, actor, target, before, trail>>

\* The row behind the id in the path; the actor's own is the copy already loaded.
LoadedTarget(r) == IF ask[r].target = ask[r].actor THEN actor[r] ELSE users[ask[r].target]

Load(r, verdict) ==
    /\ target' = [target EXCEPT ![r] = [id |-> ask[r].target, row |-> LoadedTarget(r)]]
    /\ Goto(r, IF ~LoadedTarget(r).stored THEN "not_found" ELSE verdict)
    /\ UNCHANGED <<users, ask, actor, before, trail>>

\* Mutant: a super_admin is toggled like a user.
MayToggleSuperAdmin(r) ==
    role_has_permission(actor[r].role,
        IF LoadedTarget(r).role = "admin" THEN "toggle_admin_active" ELSE "toggle_user_active")

\* Mutant: an admin is toggled like a user.
MayToggleAdmin(r) ==
    LoadedTarget(r).role # "super_admin" /\ role_has_permission(actor[r].role, "toggle_user_active")

\* set_active's checks: what the actor may toggle depends on the loaded role.
MayToggle(r) ==
    /\ LoadedTarget(r).role # "super_admin"
    /\ role_has_permission(actor[r].role,
           IF LoadedTarget(r).role = "admin" THEN "toggle_admin_active" ELSE "toggle_user_active")

CheckToggle(r) ==
    /\ pc[r] = "authorised"
    /\ ask[r].op = "set_active"
    /\ Load(r, IF MayToggle(r) THEN "checked" ELSE "forbidden")

CheckPromotion(r) ==
    /\ pc[r] = "authorised"
    /\ ask[r].op = "promote"
    /\ Load(r, IF LoadedTarget(r).role = "user" THEN "checked" ELSE "conflict")

\* Mutant: whoever has the name counts as seeded.
CheckSeedByName(r) ==
    /\ pc[r] = "begun"
    /\ ask[r].op = "seed"
    /\ Goto(r, IF Matching(ask[r].username) = {} THEN "checked" ELSE "ok")
    /\ UNCHANGED <<users, ask, actor, target, before, trail>>

\* seed_super_admin up to its INSERT: missing credentials, or a row under the name
\* that is no super_admin's, stop the start.
CheckSeed(r) ==
    /\ pc[r] = "begun"
    /\ ask[r].op = "seed"
    /\ \/ Goto(r, "refused")
       \/ /\ Matching(ask[r].username) = {}
          /\ Goto(r, "checked")
       \/ \E i \in Matching(ask[r].username) :
             Goto(r, IF users[i].role = "super_admin" THEN "ok" ELSE "refused")
    /\ UNCHANGED <<users, ask, actor, target, before, trail>>

-----------------------------------------------------------------------------
(* Commits *)

\* One UPDATE by primary key of the attributes that changed in the loaded copy.
Write(r, i, row, deed) ==
    /\ users' = [users EXCEPT ![i] = row]
    /\ trail' = [trail EXCEPT ![i][deed] = r]
    /\ Goto(r, "ok")
    /\ UNCHANGED <<ask, actor, target, before>>

Finish(r, l) ==
    /\ Goto(r, l)
    /\ UNCHANGED <<users, ask, actor, target, before, trail>>

\* login: a hash with outdated parameters is replaced by one of the password given.
CommitLogin(r) ==
    /\ pc[r] = "checked"
    /\ ask[r].op = "login"
    /\ LET i == target[r].id
       IN  \/ target[r].row.outdated /\ Write(r, i, Hashed(users[i], ask[r].password), "hashed")
           \/ ~target[r].row.outdated /\ Finish(r, "ok")

CommitPassword(r) ==
    /\ pc[r] = "checked"
    /\ ask[r].op = "change_password"
    /\ LET i == target[r].id
       IN  Write(r, i, Hashed(users[i], ask[r].new_password), "hashed")

\* Mutant: the role is left to the INSERT, which has no server default for it.
InsertWithoutRole(r, role) ==
    \E i \in Ids :
        /\ ~users[i].stored
        /\ Write(r, i, [NoRow EXCEPT !.stored = TRUE, !.username = ask[r].username,
                                     !.role = None], "created")

\* INSERT under a new id.
Insert(r, role) ==
    \E i \in Ids :
        /\ ~users[i].stored
        /\ Write(r, i, [stored |-> TRUE, username |-> ask[r].username, role |-> role,
                        is_active |-> TRUE, password |-> ask[r].password, outdated |-> FALSE],
                 "created")

\* A name taken since the check breaks the unique constraint: nothing maps that
\* error to a response.
CommitUser(r) ==
    /\ pc[r] = "checked"
    /\ ask[r].op = "create_user"
    /\ \/ ~Taken(ask[r].username) /\ Insert(r, ask[r].role)
       \/ Taken(ask[r].username) /\ Finish(r, "error")

\* The seed takes that error for another container's success.
CommitSeed(r) ==
    /\ pc[r] = "checked"
    /\ ask[r].op = "seed"
    /\ \/ ~Taken(ask[r].username) /\ Insert(r, "super_admin")
       \/ Taken(ask[r].username) /\ Finish(r, "ok")

CommitToggle(r) ==
    /\ pc[r] = "checked"
    /\ ask[r].op = "set_active"
    /\ LET i == target[r].id
       IN  \/ /\ target[r].row.is_active # ask[r].is_active
              /\ Write(r, i, [users[i] EXCEPT !.is_active = ask[r].is_active], "toggled")
           \/ target[r].row.is_active = ask[r].is_active /\ Finish(r, "ok")

CommitPromotion(r) ==
    /\ pc[r] = "checked"
    /\ ask[r].op = "promote"
    /\ LET i == target[r].id
       IN  Write(r, i, [users[i] EXCEPT !.role = "admin"], "promoted")

\* The worker or the starting container dies before its COMMIT.
Die(r) ==
    /\ pc[r] \in InFlight
    /\ Finish(r, "died")

Quiescent ==
    /\ \A r \in Requests : pc[r] \in Ended
    /\ UNCHANGED vars

Next ==
    \/ \E r \in Requests, a \in Asks : Begin(r, a)
    \/ \E r \in Requests :
          \/ RejectToken(r)
          \/ Authorise(r)
          \/ RejectInput(r)
          \/ CheckLogin(r)
          \/ CheckPassword(r)
          \/ CheckName(r)
          \/ CheckToggle(r)
          \/ CheckPromotion(r)
          \/ CheckSeed(r)
          \/ CommitLogin(r)
          \/ CommitPassword(r)
          \/ CommitUser(r)
          \/ CommitSeed(r)
          \/ CommitToggle(r)
          \/ CommitPromotion(r)
          \/ Die(r)
    \/ Quiescent

Spec == Init /\ [][Next]_vars

-----------------------------------------------------------------------------
(* Safety *)

Overlap(q, r) == q # r /\ q \notin before[r] /\ r \notin before[q]
RoleOf(r) == users[ask[r].actor].role

\* Invariants I-1 and I-2 of the plan: as soon as there is any account, or a
\* container has got through its seed, an active super_admin exists, whatever
\* seeds, promotions and toggles race.
AlwaysASuperAdmin ==
    (\E i \in Ids : users[i].stored) \/ (\E r \in Requests : pc[r] = "ok" /\ ask[r].op = "seed")
        => HasSuperAdmin(users)

\* An account that became an admin here owes it to a super_admin's request, made
\* as a super_admin; and nobody but a seed makes a super_admin (the matrix).
PrivilegeNeedsSuperAdmin ==
    \A i \in Ids :
        LET c == trail[i].created
            p == trail[i].promoted
        IN  /\ p # None => ask[p].op = "promote" /\ RoleOf(p) = "super_admin"
            /\ c # None /\ users[i].role = "super_admin" => ask[c].op = "seed"
            /\ c # None /\ users[i].role = "admin" /\ p = None => RoleOf(c) = "super_admin"

\* Who toggled an admin last was a super_admin, or began before the promotion that
\* made the account an admin had ended (set_active judges a loaded role).
AdminToggledBySuperAdminOrOverlap ==
    \A i \in Ids :
        LET t == trail[i].toggled
            p == trail[i].promoted
        IN  users[i].role = "admin" /\ t # None =>
                RoleOf(t) = "super_admin" \/ (p # None /\ p \notin before[t])

\* Names that differ only in case are told apart only if their creations
\* overlapped (a case-insensitive check, then a case-sensitive constraint).
NamesClashOnlyByOverlap ==
    \A i, j \in Ids :
        i # j /\ users[i].stored /\ users[j].stored
        /\ Lower[users[i].username] = Lower[users[j].username] =>
            LET c == trail[i].created
                d == trail[j].created
            IN  c # None /\ d # None /\ users[i].username # users[j].username /\ Overlap(c, d)

\* The account a request acts on behalf of.
OnBehalfOf(r) == IF ask[r].op = "login" THEN target[r].id ELSE ask[r].actor

\* Nobody is served on an account whose deactivation had ended before the request
\* began: verify_token and authenticate read the account, never the token.
DeactivatedStayOut ==
    \A r \in Requests : pc[r] \in {"checked", "ok"} /\ ask[r].op # "seed" =>
        users[OnBehalfOf(r)].is_active \/ trail[OnBehalfOf(r)].toggled \notin before[r]

\* A container that got through its seed finds the configured name with a
\* super_admin, unless the name was created through the API during the seed.
ConfiguredAdminSeeded ==
    \A r \in Requests : pc[r] = "ok" /\ ask[r].op = "seed" =>
        \E i \in Matching(ask[r].username) :
            \/ users[i].role = "super_admin"
            \/ trail[i].created # None /\ Overlap(trail[i].created, r)

(* Action property *)

\* Password changes of an account, and logins to it, served beside a request.
ChangedBeside(i, r) ==
    \E c \in Requests : /\ pc[c] = "ok" /\ ask[c].op = "change_password" /\ ask[c].actor = i
                        /\ Overlap(c, r)
LoggedInBeside(i, r) ==
    \E c \in Requests : pc[c] = "ok" /\ ask[c].op = "login" /\ target[c].id = i /\ Overlap(c, r)

\* The plain password behind a hash changes in two ways only, each to the password of
\* the request that makes the step.  The account's own password change, which knew the
\* password it replaces unless another change or a login ran beside it; and the rehash
\* of a login to the account, which brings an old one back only if a change of the
\* account's password ran beside the login.
PasswordRevertedOnlyByOverlap ==
    [][\A i \in Ids : users[i].stored /\ users'[i].password # users[i].password =>
          \E w \in Requests :
              /\ pc[w] = "checked" /\ pc'[w] = "ok"
              /\ \/ /\ ask[w].op = "change_password" /\ ask[w].actor = i
                    /\ users'[i].password = ask[w].new_password
                    /\ \/ users[i].password = ask[w].password
                       \/ ChangedBeside(i, w) \/ LoggedInBeside(i, w)
                 \/ /\ ask[w].op = "login" /\ target[w].id = i
                    /\ users'[i].password = ask[w].password
                    /\ ChangedBeside(i, w)]_vars

(* What the documents say, and the code does not keep *)

\* README, the table of the admin API: an admin does not toggle an admin.
AdminsDoNotToggleAdmins ==
    [][\A i \in Ids : users[i].role = "admin" /\ users'[i].is_active # users[i].is_active =>
          users[ask[trail'[i].toggled].actor].role = "super_admin"]_vars
==============================================================================
