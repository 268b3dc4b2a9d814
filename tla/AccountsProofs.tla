---------------------------- MODULE AccountsProofs ----------------------------
(***************************************************************************)
(* Proofs about Accounts, for any ids, names, passwords, requests, sets of *)
(* questions and tables to begin with.                                     *)
(***************************************************************************)
EXTENDS Accounts, TLAPS

-----------------------------------------------------------------------------
(* The inductive invariant. *)

\* Requests past the token check; the others act for nobody or are over.
Acting == {"authorised", "checked"}
OnAccount == {"login", "change_password", "set_active", "promote"}

\* A request that has begun asks something it may ask.
Asked == \A r \in Requests : pc[r] # "idle" => ask[r] \in Asks

\* The copy a request acts with is of a stored row, which is a super_admin's if the
\* copy is; and its permissions are those of the route it passed.
ActorLoaded ==
    \A r \in Requests : pc[r] \in Acting /\ ask[r].op \notin {"login", "seed"} =>
        /\ users[ask[r].actor].stored
        /\ actor[r].role = "super_admin" <=> RoleOf(r) = "super_admin"
        /\ ask[r].op = "promote" => actor[r].role = "super_admin"

\* A request about to change a row has a stored one; a toggle or a promotion, one
\* that is no super_admin's.
TargetLoaded ==
    \A r \in Requests : pc[r] = "checked" /\ ask[r].op \in OnAccount =>
        /\ target[r].id \in Ids /\ users[target[r].id].stored
        /\ ask[r].op \in {"set_active", "promote"} => users[target[r].id].role # "super_admin"

\* A creation that has passed its checks is one its actor may make.
CreationAllowed ==
    \A r \in Requests : pc[r] = "checked" /\ ask[r].op = "create_user" =>
        /\ ask[r].role # "super_admin"
        /\ ask[r].role = "admin" => actor[r].role = "super_admin"

\* Only requests that have ended well leave a trail, and their actors are stored.
TrailEnded ==
    \A i \in Ids, d \in Deeds : trail[i][d] # None =>
        /\ pc[trail[i][d]] = "ok"
        /\ ask[trail[i][d]].op \notin {"login", "seed"} => users[ask[trail[i][d]].actor].stored

\* Rows are created by creations and seeds, and a seeded one stays a super_admin's.
SeededStay ==
    \A i \in Ids : trail[i].created # None =>
        /\ users[i].stored
        /\ ask[trail[i].created].op \in {"create_user", "seed"}
        /\ ask[trail[i].created].op = "seed" => users[i].role = "super_admin"

IInv == /\ TypeOK
        /\ Asked
        /\ ActorLoaded
        /\ TargetLoaded
        /\ CreationAllowed
        /\ AlwaysASuperAdmin
        /\ TrailEnded
        /\ SeededStay
        /\ PrivilegeNeedsSuperAdmin

-----------------------------------------------------------------------------
(* What one step does, whichever action it is. *)

\* Types of what the actions put together.
LEMMA RowTypes ==
    /\ NoRow \in Row
    /\ \A row \in Row, password \in Passwords : Hashed(row, password) \in Row
    /\ \A row \in Row, b \in BOOLEAN : [row EXCEPT !.is_active = b] \in Row
    /\ \A row \in Row : [row EXCEPT !.role = "admin"] \in Row
    /\ \A name \in Names, role \in Roles, password \in Passwords :
          [stored |-> TRUE, username |-> name, role |-> role, is_active |-> TRUE,
           password |-> password, outdated |-> FALSE] \in Row
BY DEF NoRow, Row, Hashed, Roles

\* The permissions that matter: who passes the gate of promote, and who may create
\* an admin.
LEMMA Matrix ==
    ASSUME NEW role
    PROVE  /\ role_has_permission(role, Gate("promote")) => role = "super_admin"
           /\ role_has_permission(role, "create_admin") => role = "super_admin"
BY DEF role_has_permission, Gate

\* A login writes the password it was given, over a hash it found outdated; a password
\* change, the new one; the others leave the hash alone.
Rehashed(r, i, row) ==
    CASE ask[r].op = "login" ->
            row.password = ask[r].password /\ ~row.outdated /\ target[r].row.outdated
      [] ask[r].op = "change_password" -> row.password = ask[r].new_password /\ ~row.outdated
      [] OTHER -> row.password = users[i].password /\ row.outdated = users[i].outdated

\* Rows are changed and traced by commits alone, each of a request that has passed
\* its checks: a login, password change, toggle or promotion of the target it
\* loaded, or the creation of a row.
Due(r, i, row, deed) ==
    /\ row.stored
    /\ \/ /\ ask[r].op \in OnAccount /\ i = target[r].id /\ deed # "created"
          /\ deed = "promoted" <=> ask[r].op = "promote"
          /\ deed = "toggled" <=> ask[r].op = "set_active"
          /\ row.username = users[i].username
          /\ Rehashed(r, i, row)
          /\ row.role = IF ask[r].op = "promote" THEN "admin" ELSE users[i].role
          /\ ask[r].op # "set_active" => row.is_active = users[i].is_active
       \/ /\ ~users[i].stored /\ row.is_active /\ deed = "created"
          /\ row.username = ask[r].username /\ ~Taken(ask[r].username)
          /\ \/ ask[r].op = "create_user" /\ row.role = ask[r].role
             \/ ask[r].op = "seed" /\ row.role = "super_admin"

LEMMA StepWrite ==
    ASSUME TypeOK, Asked, TargetLoaded, [Next]_vars
    PROVE  \/ UNCHANGED <<users, trail>>
           \/ \E r \in Requests, i \in Ids, row \in Row, deed \in Deeds :
                 pc[r] = "checked" /\ Write(r, i, row, deed) /\ Due(r, i, row, deed)
<1> DEFINE Unchanged == UNCHANGED <<users, trail>>
           Written == \E r \in Requests, i \in Ids, row \in Row, deed \in Deeds :
                         pc[r] = "checked" /\ Write(r, i, row, deed) /\ Due(r, i, row, deed)
<1>0. \A r \in Requests : pc[r] # "idle" => ask[r] \in AskForms
    BY AskAssumption DEF Asked
<1>1. ASSUME NEW r \in Requests, NEW a \in Asks, Begin(r, a) PROVE Unchanged
    BY <1>1 DEF Begin
<1>2. ASSUME NEW r \in Requests,
             RejectToken(r) \/ Authorise(r) \/ RejectInput(r) \/ CheckLogin(r) \/ CheckPassword(r)
             \/ CheckName(r) \/ CheckToggle(r) \/ CheckPromotion(r) \/ CheckSeed(r) \/ Die(r)
      PROVE  Unchanged
    BY <1>2 DEF RejectToken, Authorise, RejectInput, CheckLogin, CheckPassword, CheckName,
                CheckToggle, CheckPromotion, CheckSeed, Load, Die, Finish
<1>3. ASSUME NEW r \in Requests, CommitLogin(r) \/ CommitPassword(r) PROVE Unchanged \/ Written
    <2> DEFINE i == target[r].id
    <2>1. pc[r] = "checked" /\ ask[r].op \in {"login", "change_password"} /\ ask[r] \in AskForms
        BY <1>0, <1>3 DEF CommitLogin, CommitPassword
    <2>2. i \in Ids /\ users[i] \in Row /\ users[i].stored
        BY <2>1 DEF TargetLoaded, OnAccount, TypeOK
    <2>3. ASSUME NEW password \in Passwords, Write(r, i, Hashed(users[i], password), "hashed"),
                 \/ ask[r].op = "login" /\ password = ask[r].password /\ target[r].row.outdated
                 \/ ask[r].op = "change_password" /\ password = ask[r].new_password
          PROVE  Written
        <3>1. Hashed(users[i], password) \in Row
            BY <2>2, RowTypes
        <3>2. Rehashed(r, i, Hashed(users[i], password))
            BY <2>2, <2>3 DEF Rehashed, Hashed, Row
        <3>3. Due(r, i, Hashed(users[i], password), "hashed")
            BY <2>1, <2>2, <3>2 DEF Due, OnAccount, Hashed, Row
        <3> QED
            BY <2>1, <2>2, <2>3, <3>1, <3>3 DEF Deeds
    <2> QED
        BY <1>3, <2>1, <2>3 DEF CommitLogin, CommitPassword, Finish, AskForms
<1>4. ASSUME NEW r \in Requests, CommitUser(r) \/ CommitSeed(r) PROVE Unchanged \/ Written
    <2>1. pc[r] = "checked" /\ ask[r] \in AskForms
        BY <1>0, <1>4 DEF CommitUser, CommitSeed
    <2>2. ASSUME NEW role \in Roles, Insert(r, role), ~Taken(ask[r].username),
                 \/ ask[r].op = "create_user" /\ role = ask[r].role
                 \/ ask[r].op = "seed" /\ role = "super_admin"
          PROVE  Written
        <3> DEFINE row == [stored |-> TRUE, username |-> ask[r].username, role |-> role,
                           is_active |-> TRUE, password |-> ask[r].password, outdated |-> FALSE]
        <3>1. PICK i \in Ids : ~users[i].stored /\ Write(r, i, row, "created")
            BY <2>2 DEF Insert
        <3>2. row \in Row
            BY <2>1, RowTypes DEF AskForms
        <3>3. Due(r, i, row, "created")
            BY <2>2, <3>1 DEF Due
        <3> QED
            BY <2>1, <3>1, <3>2, <3>3 DEF Deeds
    <2> QED
        BY <1>4, <2>1, <2>2 DEF CommitUser, CommitSeed, Finish, AskForms, Roles
<1>5. ASSUME NEW r \in Requests, CommitToggle(r) \/ CommitPromotion(r) PROVE Unchanged \/ Written
    <2> DEFINE i == target[r].id
    <2>1. pc[r] = "checked" /\ ask[r].op \in {"set_active", "promote"} /\ ask[r] \in AskForms
        BY <1>0, <1>5 DEF CommitToggle, CommitPromotion
    <2>2. i \in Ids /\ users[i] \in Row /\ users[i].stored
        BY <2>1 DEF TargetLoaded, OnAccount, TypeOK
    <2>3. CASE CommitToggle(r) /\ target[r].row.is_active # ask[r].is_active
        <3> DEFINE row == [users[i] EXCEPT !.is_active = ask[r].is_active]
        <3>1. row \in Row
            BY <2>1, <2>2, RowTypes DEF AskForms
        <3>2. Due(r, i, row, "toggled")
            BY <2>2, <2>3 DEF CommitToggle, Due, Rehashed, OnAccount, Row
        <3>3. Write(r, i, row, "toggled")
            BY <2>3 DEF CommitToggle
        <3> QED
            BY <2>1, <2>2, <3>1, <3>2, <3>3 DEF Deeds
    <2>4. CASE CommitPromotion(r)
        <3> DEFINE row == [users[i] EXCEPT !.role = "admin"]
        <3>1. row \in Row
            BY <2>2, RowTypes
        <3>2. Due(r, i, row, "promoted")
            BY <2>2, <2>4 DEF CommitPromotion, Due, Rehashed, OnAccount, Row
        <3>3. Write(r, i, row, "promoted")
            BY <2>4 DEF CommitPromotion
        <3> QED
            BY <2>1, <2>2, <3>1, <3>2, <3>3 DEF Deeds
    <2> QED
        BY <1>5, <2>3, <2>4 DEF CommitToggle, Finish
<1>6. CASE Quiescent \/ UNCHANGED vars
    BY <1>6 DEF Quiescent, vars
<1> QED
    BY <1>1, <1>2, <1>3, <1>4, <1>5, <1>6 DEF Next

\* A question never changes once asked, an ended request stays as it ended, and what
\* a request has loaded stays until its next stage.
LEMMA StepFrame ==
    ASSUME TypeOK, [Next]_vars, NEW r \in Requests
    PROVE  /\ pc[r] # "idle" => ask'[r] = ask[r] /\ pc'[r] # "idle"
           /\ pc[r] \in Ended => pc'[r] = pc[r]
           /\ pc[r] = "idle" => pc'[r] = "idle" \/ (pc'[r] = "begun" /\ ask'[r] \in Asks)
           /\ pc'[r] = pc[r] \/ pc[r] = "checked" => actor'[r] = actor[r] /\ target'[r] = target[r]
           /\ pc'[r] # pc[r] /\ pc'[r] \in Acting => UNCHANGED <<users, trail>>
<1> USE DEF Goto, TypeOK
<1>1. ASSUME NEW q \in Requests, NEW a \in Asks, Begin(q, a)
      PROVE  /\ ask' = [ask EXCEPT ![q] = a] /\ pc' = [pc EXCEPT ![q] = "begun"] /\ pc[q] = "idle"
             /\ UNCHANGED <<users, actor, target, trail>>
    BY <1>1 DEF Begin
<1>2. ASSUME NEW q \in Requests,
             RejectToken(q) \/ Authorise(q) \/ RejectInput(q) \/ CheckLogin(q) \/ CheckPassword(q)
             \/ CheckName(q) \/ CheckToggle(q) \/ CheckPromotion(q) \/ CheckSeed(q) \/ Die(q)
      PROVE  /\ ask' = ask /\ UNCHANGED <<users, trail>>
             /\ pc[q] \in InFlight /\ pc'[q] \notin {"idle", pc[q]}
             /\ pc[q] = "checked" => actor' = actor /\ target' = target
             /\ \A p \in Requests \ {q} : pc'[p] = pc[p] /\ actor'[p] = actor[p] /\ target'[p] = target[p]
    <2>1. CASE RejectToken(q) \/ RejectInput(q) \/ CheckName(q) \/ CheckSeed(q) \/ Die(q)
        BY <2>1 DEF RejectToken, RejectInput, CheckName, CheckSeed, Die, Finish, InFlight
    <2>2. CASE Authorise(q)
        BY <2>2 DEF Authorise, InFlight
    <2>3. CASE CheckLogin(q) \/ CheckPassword(q)
        BY <2>3 DEF CheckLogin, CheckPassword, InFlight
    <2>4. CASE CheckToggle(q) \/ CheckPromotion(q)
        BY <2>4 DEF CheckToggle, CheckPromotion, Load, InFlight
    <2> QED
        BY <1>2, <2>1, <2>2, <2>3, <2>4
<1>3. ASSUME NEW q \in Requests,
             CommitLogin(q) \/ CommitPassword(q) \/ CommitUser(q) \/ CommitSeed(q)
             \/ CommitToggle(q) \/ CommitPromotion(q)
      PROVE  /\ ask' = ask /\ UNCHANGED <<actor, target>>
             /\ pc[q] = "checked" /\ \E l \in {"ok", "error"} : pc' = [pc EXCEPT ![q] = l]
    BY <1>3 DEF CommitLogin, CommitPassword, CommitUser, CommitSeed, CommitToggle, CommitPromotion,
                Insert, Write, Finish
<1>4. CASE Quiescent \/ UNCHANGED vars
    BY <1>4 DEF Quiescent, vars
<1>5. ASSUME NEW q \in Requests, NEW a \in Asks, Begin(q, a)
      PROVE  /\ pc[r] # "idle" => ask'[r] = ask[r] /\ pc'[r] # "idle"
             /\ pc[r] \in Ended => pc'[r] = pc[r]
             /\ pc[r] = "idle" => pc'[r] = "idle" \/ (pc'[r] = "begun" /\ ask'[r] \in Asks)
             /\ pc'[r] = pc[r] \/ pc[r] = "checked" => actor'[r] = actor[r] /\ target'[r] = target[r]
             /\ pc'[r] # pc[r] /\ pc'[r] \in Acting => UNCHANGED <<users, trail>>
    BY <1>1, <1>5 DEF Ended, Acting
<1>6. ASSUME NEW q \in Requests, pc[q] \in InFlight, pc'[q] # "idle", ask' = ask,
             pc'[q] # pc[q], pc[q] = "checked" => actor' = actor /\ target' = target,
             (pc'[q] # pc[q] /\ UNCHANGED <<users, trail>>) \/ pc'[q] \in {"ok", "error"},
             \A p \in Requests \ {q} : pc'[p] = pc[p] /\ actor'[p] = actor[p] /\ target'[p] = target[p]
      PROVE  /\ pc[r] # "idle" => ask'[r] = ask[r] /\ pc'[r] # "idle"
             /\ pc[r] \in Ended => pc'[r] = pc[r]
             /\ pc[r] = "idle" => pc'[r] = "idle" \/ (pc'[r] = "begun" /\ ask'[r] \in Asks)
             /\ pc'[r] = pc[r] \/ pc[r] = "checked" => actor'[r] = actor[r] /\ target'[r] = target[r]
             /\ pc'[r] # pc[r] /\ pc'[r] \in Acting => UNCHANGED <<users, trail>>
    BY <1>6 DEF InFlight, Ended, Acting
<1> QED
    BY <1>2, <1>3, <1>4, <1>5, <1>6 DEF Next, InFlight

\* What authenticate has found out about the row it took.
LoginChecked(r, found) ==
    /\ found.id \in Ids /\ found.row = users[found.id]
    /\ users[found.id].stored /\ users[found.id].is_active
    /\ users[found.id].password = ask[r].password

\* How a request comes past the token check, and past its own checks.
LEMMA StepStage ==
    ASSUME TypeOK, Asked, [Next]_vars, NEW r \in Requests, pc'[r] # pc[r]
    PROVE  /\ pc'[r] = "authorised" =>
                 /\ ask[r].op \notin {"login", "seed"} /\ ask[r].actor \in Ids
                 /\ users[ask[r].actor].stored /\ users[ask[r].actor].is_active
                 /\ actor'[r] = users[ask[r].actor]
                 /\ role_has_permission(actor'[r].role, Gate(ask[r].op))
                 /\ pc[r] = "begun"
           /\ pc'[r] = "checked" =>
                 /\ actor'[r] = actor[r]
                 /\ pc[r] = IF ask[r].op \in {"login", "seed"} THEN "begun" ELSE "authorised"
                 /\ ask[r].op = "login" => LoginChecked(r, target'[r])
                 /\ ask[r].op = "change_password" =>
                       target'[r].id = ask[r].actor /\ actor[r].password = ask[r].password
                 /\ ask[r].op = "create_user" =>
                       /\ ask[r].role # "super_admin"
                       /\ ask[r].role = "admin" => role_has_permission(actor[r].role, "create_admin")
                 /\ ask[r].op \in {"create_user", "seed"} => Matching(ask[r].username) = {}
                 /\ ask[r].op = "set_active" => MayToggle(r)
                 /\ ask[r].op \in {"set_active", "promote"} =>
                       /\ target'[r].id = ask[r].target
                       /\ LoadedTarget(r).stored /\ LoadedTarget(r).role # "super_admin"
<1> USE DEF Goto, TypeOK
<1> DEFINE Staged ==
           /\ pc'[r] = "authorised" =>
                 /\ ask[r].op \notin {"login", "seed"} /\ ask[r].actor \in Ids
                 /\ users[ask[r].actor].stored /\ users[ask[r].actor].is_active
                 /\ actor'[r] = users[ask[r].actor]
                 /\ role_has_permission(actor'[r].role, Gate(ask[r].op))
                 /\ pc[r] = "begun"
           /\ pc'[r] = "checked" =>
                 /\ actor'[r] = actor[r]
                 /\ pc[r] = IF ask[r].op \in {"login", "seed"} THEN "begun" ELSE "authorised"
                 /\ ask[r].op = "login" => LoginChecked(r, target'[r])
                 /\ ask[r].op = "change_password" =>
                       target'[r].id = ask[r].actor /\ actor[r].password = ask[r].password
                 /\ ask[r].op = "create_user" =>
                       /\ ask[r].role # "super_admin"
                       /\ ask[r].role = "admin" => role_has_permission(actor[r].role, "create_admin")
                 /\ ask[r].op \in {"create_user", "seed"} => Matching(ask[r].username) = {}
                 /\ ask[r].op = "set_active" => MayToggle(r)
                 /\ ask[r].op \in {"set_active", "promote"} =>
                       /\ target'[r].id = ask[r].target
                       /\ LoadedTarget(r).stored /\ LoadedTarget(r).role # "super_admin"
<1> SUFFICES Staged
    OBVIOUS
<1>0. pc[r] # "idle" => ask[r] \in AskForms
    BY AskAssumption DEF Asked
<1>1. ASSUME NEW q \in Requests, NEW a \in Asks, Begin(q, a) PROVE Staged
    BY <1>1 DEF Begin
<1>2. ASSUME NEW q \in Requests,
             RejectToken(q) \/ RejectInput(q) \/ Die(q) \/ CommitLogin(q) \/ CommitPassword(q)
             \/ CommitUser(q) \/ CommitSeed(q) \/ CommitToggle(q) \/ CommitPromotion(q)
      PROVE  Staged
    <2>1. \E l \in Ended : pc' = [pc EXCEPT ![q] = l]
        BY <1>2 DEF RejectToken, RejectInput, Die, Finish, CommitLogin, CommitPassword, CommitUser,
                    CommitSeed, CommitToggle, CommitPromotion, Insert, Write, Ended
    <2> QED
        BY <2>1 DEF Ended
<1>3. ASSUME NEW q \in Requests, Authorise(q) PROVE Staged
    <2>1. q = r
        BY <1>3 DEF Authorise
    <2> QED
        BY <1>0, <1>3, <2>1 DEF Authorise, AskForms
<1>4. ASSUME NEW q \in Requests, CheckLogin(q) PROVE Staged
    <2>0. q = r
        BY <1>4 DEF CheckLogin
    <2>1. pc[r] = "begun" /\ ask[r].op = "login" /\ actor' = actor
        BY <1>4, <2>0 DEF CheckLogin
    <2>2. CASE Matching(ask[r].username) = {} /\ pc' = [pc EXCEPT ![r] = "unauthorised"]
        BY <2>2
    <2>3. ASSUME NEW i \in Matching(ask[r].username),
                 target' = [target EXCEPT ![r] = [id |-> i, row |-> users[i]]],
                 pc'[r] = IF users[i].password = ask[r].password /\ users[i].is_active
                          THEN "checked" ELSE "unauthorised"
          PROVE  Staged
        <3>1. target'[r].id = i /\ target'[r].row = users[i] /\ i \in Ids /\ users[i].stored
            BY <2>3 DEF Matching
        <3>2. pc'[r] = "checked" => LoginChecked(r, target'[r])
            BY <2>3, <3>1 DEF LoginChecked
        <3>3. pc'[r] # "authorised"
            BY <2>3
        <3> QED
            BY <2>1, <3>2, <3>3
    <2>4. \/ Matching(ask[r].username) = {} /\ pc' = [pc EXCEPT ![r] = "unauthorised"]
          \/ \E i \in Matching(ask[r].username) :
                /\ target' = [target EXCEPT ![r] = [id |-> i, row |-> users[i]]]
                /\ pc'[r] = IF users[i].password = ask[r].password /\ users[i].is_active
                            THEN "checked" ELSE "unauthorised"
        BY <1>4, <2>0 DEF CheckLogin
    <2> QED
        BY <2>2, <2>3, <2>4
<1>5. ASSUME NEW q \in Requests, CheckPassword(q) PROVE Staged
    <2>1. q = r
        BY <1>5 DEF CheckPassword
    <2> QED
        BY <1>5, <2>1 DEF CheckPassword
<1>6. ASSUME NEW q \in Requests, CheckName(q) PROVE Staged
    <2>1. q = r
        BY <1>6 DEF CheckName
    <2> QED
        BY <1>6, <2>1 DEF CheckName
<1>7. ASSUME NEW q \in Requests, CheckToggle(q) PROVE Staged
    <2>1. q = r
        BY <1>7 DEF CheckToggle, Load
    <2> QED
        BY <1>7, <2>1 DEF CheckToggle, Load, MayToggle
<1>8. ASSUME NEW q \in Requests, CheckPromotion(q) PROVE Staged
    <2>1. q = r
        BY <1>8 DEF CheckPromotion, Load
    <2> QED
        BY <1>8, <2>1 DEF CheckPromotion, Load
<1>9. ASSUME NEW q \in Requests, CheckSeed(q) PROVE Staged
    <2>1. q = r
        BY <1>9 DEF CheckSeed
    <2> QED
        BY <1>9, <2>1 DEF CheckSeed
<1>10. CASE Quiescent \/ UNCHANGED vars
    BY <1>10 DEF Quiescent, vars
<1> HIDE DEF Staged
<1> QED
    BY <1>1, <1>2, <1>3, <1>4, <1>5, <1>6, <1>7, <1>8, <1>9, <1>10 DEF Next

\* Stored rows stay, nobody ceases to be a super_admin or becomes one in place, and a
\* super_admin is never deactivated.
LEMMA RowsStay ==
    ASSUME TypeOK, Asked, TargetLoaded, [Next]_vars, NEW i \in Ids, users[i].stored
    PROVE  /\ users'[i].stored
           /\ users'[i].role = "super_admin" <=> users[i].role = "super_admin"
           /\ users[i].role = "super_admin" => users'[i].is_active = users[i].is_active
<1>1. CASE UNCHANGED <<users, trail>>
    BY <1>1
<1>2. ASSUME NEW r \in Requests, NEW j \in Ids, NEW row \in Row, NEW deed \in Deeds,
             pc[r] = "checked", Write(r, j, row, deed), Due(r, j, row, deed)
      PROVE  /\ users'[i].stored
             /\ users'[i].role = "super_admin" <=> users[i].role = "super_admin"
             /\ users[i].role = "super_admin" => users'[i].is_active = users[i].is_active
    <2>1. users' = [users EXCEPT ![j] = row] /\ users \in [Ids -> Row]
        BY <1>2 DEF Write, TypeOK
    <2>2. CASE i # j
        BY <2>1, <2>2
    <2>3. CASE i = j
        <3>1. users'[i] = row /\ row.stored
            BY <1>2, <2>1, <2>3 DEF Due
        <3>2. ask[r].op \in OnAccount /\ i = target[r].id
            BY <1>2, <2>3 DEF Due
        <3>3. ask[r].op \in {"set_active", "promote"} => users[i].role # "super_admin"
            BY <1>2, <3>2 DEF TargetLoaded
        <3> QED
            BY <1>2, <2>3, <3>1, <3>2, <3>3 DEF Due
    <2> QED
        BY <2>2, <2>3
<1> QED
    BY <1>1, <1>2, StepWrite

-----------------------------------------------------------------------------
(* The conjuncts of the invariant. *)

LEMMA TypeStep == TypeOK /\ Asked /\ TargetLoaded /\ [Next]_vars => TypeOK'
<1> SUFFICES ASSUME TypeOK, Asked, TargetLoaded, [Next]_vars PROVE TypeOK'
    OBVIOUS
<1>1. users' \in [Ids -> Row] /\ trail' \in [Ids -> [Deeds -> Requests \cup {None}]]
    <2>1. CASE UNCHANGED <<users, trail>>
        BY <2>1 DEF TypeOK
    <2>2. ASSUME NEW r \in Requests, NEW i \in Ids, NEW row \in Row, NEW deed \in Deeds,
                 Write(r, i, row, deed)
          PROVE  users' \in [Ids -> Row] /\ trail' \in [Ids -> [Deeds -> Requests \cup {None}]]
        BY <2>2 DEF Write, TypeOK
    <2> QED
        BY <2>1, <2>2, StepWrite
<1>2. /\ ask' \in [Requests -> Asks \cup {None}]
      /\ pc' \in [Requests -> {"idle"} \cup InFlight \cup Ended]
      /\ actor' \in [Requests -> Row]
      /\ target' \in [Requests -> [id : Ids \cup {None}, row : Row]]
      /\ before' \in [Requests -> SUBSET Requests]
    <2> USE DEF TypeOK, Goto
    <2>0. \A r \in Requests : pc[r] # "idle" => ask[r] \in AskForms
        BY AskAssumption DEF Asked
    <2>1. ASSUME NEW r \in Requests, NEW a \in Asks, Begin(r, a)
          PROVE  /\ ask' \in [Requests -> Asks \cup {None}]
                 /\ pc' \in [Requests -> {"idle"} \cup InFlight \cup Ended]
                 /\ before' \in [Requests -> SUBSET Requests]
                 /\ UNCHANGED <<actor, target>>
        BY <2>1 DEF Begin, InFlight
    <2>2. ASSUME NEW r \in Requests,
                 RejectToken(r) \/ RejectInput(r) \/ CheckName(r) \/ CheckSeed(r) \/ Die(r)
                 \/ CommitLogin(r) \/ CommitPassword(r) \/ CommitUser(r) \/ CommitSeed(r)
                 \/ CommitToggle(r) \/ CommitPromotion(r)
          PROVE  /\ \E l \in InFlight \cup Ended : pc' = [pc EXCEPT ![r] = l]
                 /\ UNCHANGED <<ask, actor, target, before>>
        BY <2>2 DEF RejectToken, RejectInput, CheckName, CheckSeed, Die, CommitLogin, CommitPassword,
                    CommitUser, CommitSeed, CommitToggle, CommitPromotion, Insert, Write, Finish,
                    InFlight, Ended
    <2>3. ASSUME NEW r \in Requests, Authorise(r)
          PROVE  /\ \E l \in InFlight \cup Ended : pc' = [pc EXCEPT ![r] = l]
                 /\ actor' \in [Requests -> Row]
                 /\ UNCHANGED <<ask, target, before>>
        <3>1. users[ask[r].actor] \in Row
            BY <2>0, <2>3 DEF Authorise, AskForms
        <3> QED
            BY <2>3, <3>1 DEF Authorise, InFlight, Ended
    <2>4. ASSUME NEW r \in Requests,
                 CheckLogin(r) \/ CheckPassword(r) \/ CheckToggle(r) \/ CheckPromotion(r)
          PROVE  /\ \E l \in InFlight \cup Ended : pc' = [pc EXCEPT ![r] = l]
                 /\ target' \in [Requests -> [id : Ids \cup {None}, row : Row]]
                 /\ UNCHANGED <<ask, actor, before>>
        <3>1. ask[r] \in AskForms
            BY <2>0, <2>4 DEF CheckLogin, CheckPassword, CheckToggle, CheckPromotion
        <3>2. ask[r].actor \in Ids /\ ask[r].target \in Ids
            BY <3>1 DEF AskForms
        <3>3. LoadedTarget(r) \in Row
            BY <3>2 DEF LoadedTarget
        <3>4. CASE CheckLogin(r)
            BY <3>4 DEF CheckLogin, Matching, InFlight, Ended
        <3>5. CASE CheckPassword(r)
            BY <3>2, <3>5 DEF CheckPassword, InFlight, Ended
        <3>6. CASE CheckToggle(r) \/ CheckPromotion(r)
            BY <3>2, <3>3, <3>6 DEF CheckToggle, CheckPromotion, Load, InFlight, Ended
        <3> QED
            BY <2>4, <3>4, <3>5, <3>6
    <2>5. CASE Quiescent \/ UNCHANGED vars
        BY <2>5 DEF Quiescent, vars
    <2> QED
        BY <2>1, <2>2, <2>3, <2>4, <2>5 DEF Next
<1> QED
    BY <1>1, <1>2 DEF TypeOK

LEMMA AskedStep == TypeOK /\ Asked /\ [Next]_vars => Asked'
BY StepFrame DEF Asked

LEMMA ActorLoadedStep == TypeOK /\ Asked /\ ActorLoaded /\ TargetLoaded /\ [Next]_vars => ActorLoaded'
<1> SUFFICES ASSUME TypeOK, Asked, ActorLoaded, TargetLoaded, [Next]_vars, NEW r \in Requests,
                    pc'[r] \in Acting, ask'[r].op \notin {"login", "seed"}
             PROVE  /\ users'[ask'[r].actor].stored
                    /\ actor'[r].role = "super_admin" <=> users'[ask'[r].actor].role = "super_admin"
                    /\ ask'[r].op = "promote" => actor'[r].role = "super_admin"
    BY DEF ActorLoaded, RoleOf
<1>1. pc[r] # "idle" /\ ask'[r] = ask[r]
    BY StepFrame DEF Acting
<1>2. ask[r].actor \in Ids
    BY <1>1, AskAssumption DEF Asked, AskForms
<1>3. CASE pc'[r] = "authorised" /\ pc[r] # "authorised"
    <2>1. UNCHANGED users
        BY <1>3, StepFrame DEF Acting
    <2> QED
        BY <1>1, <1>3, <2>1, StepStage, Matrix
<1>4. CASE pc[r] \in Acting
    <2>1. actor'[r] = actor[r]
        BY <1>3, <1>4, StepFrame, StepStage DEF Acting
    <2>2. /\ users[ask[r].actor].stored
          /\ actor[r].role = "super_admin" <=> users[ask[r].actor].role = "super_admin"
          /\ ask[r].op = "promote" => actor[r].role = "super_admin"
        BY <1>1, <1>4 DEF ActorLoaded, RoleOf
    <2> QED
        BY <1>1, <1>2, <2>1, <2>2, RowsStay
<1> QED
    BY <1>1, <1>3, <1>4, StepStage DEF Acting

LEMMA TargetLoadedStep ==
    TypeOK /\ Asked /\ ActorLoaded /\ TargetLoaded /\ [Next]_vars => TargetLoaded'
<1> SUFFICES ASSUME TypeOK, Asked, ActorLoaded, TargetLoaded, [Next]_vars, NEW r \in Requests,
                    pc'[r] = "checked", ask'[r].op \in OnAccount
             PROVE  /\ target'[r].id \in Ids /\ users'[target'[r].id].stored
                    /\ ask'[r].op \in {"set_active", "promote"} =>
                          users'[target'[r].id].role # "super_admin"
    BY DEF TargetLoaded
<1>1. pc[r] # "idle" /\ ask'[r] = ask[r] /\ ask[r] \in AskForms
    BY StepFrame, AskAssumption DEF Asked
<1>2. CASE pc[r] # "checked"
    <2>1. UNCHANGED users
        BY <1>2, StepFrame DEF Acting
    <2>2. CASE ask[r].op = "login"
        BY <1>1, <1>2, <2>1, <2>2, StepStage DEF LoginChecked
    <2>3. ASSUME ask[r].op # "login"
          PROVE  /\ pc[r] = "authorised" /\ users[ask[r].actor].stored /\ ask[r].actor \in Ids
                 /\ actor[r].role = "super_admin" <=> users[ask[r].actor].role = "super_admin"
        <3>1. pc[r] = "authorised"
            BY <1>1, <1>2, <2>3, StepStage DEF OnAccount
        <3> QED
            BY <1>1, <2>3, <3>1 DEF ActorLoaded, RoleOf, Acting, OnAccount, AskForms
    <2>4. CASE ask[r].op = "change_password"
        BY <1>1, <1>2, <2>1, <2>3, <2>4, StepStage
    <2>5. CASE ask[r].op \in {"set_active", "promote"}
        <3>1. /\ target'[r].id = ask[r].target /\ ask[r].target \in Ids
              /\ LoadedTarget(r).stored /\ LoadedTarget(r).role # "super_admin"
            BY <1>1, <1>2, <2>5, StepStage DEF AskForms
        <3>2. users[ask[r].target].stored /\ users[ask[r].target].role # "super_admin"
            BY <2>3, <2>5, <3>1 DEF LoadedTarget
        <3> QED
            BY <1>1, <2>1, <3>1, <3>2
    <2> QED
        BY <1>1, <2>2, <2>4, <2>5 DEF OnAccount
<1>3. CASE pc[r] = "checked"
    <2>1. target'[r] = target[r]
        BY <1>3, StepFrame
    <2>2. /\ target[r].id \in Ids /\ users[target[r].id].stored
          /\ ask[r].op \in {"set_active", "promote"} => users[target[r].id].role # "super_admin"
        BY <1>1, <1>3 DEF TargetLoaded
    <2> QED
        BY <1>1, <2>1, <2>2, RowsStay
<1> QED
    BY <1>2, <1>3

LEMMA CreationAllowedStep == TypeOK /\ Asked /\ CreationAllowed /\ [Next]_vars => CreationAllowed'
<1> SUFFICES ASSUME TypeOK, Asked, CreationAllowed, [Next]_vars, NEW r \in Requests,
                    pc'[r] = "checked", ask'[r].op = "create_user"
             PROVE  /\ ask'[r].role # "super_admin"
                    /\ ask'[r].role = "admin" => actor'[r].role = "super_admin"
    BY DEF CreationAllowed
<1>1. ask'[r] = ask[r]
    BY StepFrame
<1>2. CASE pc[r] # "checked"
    BY <1>1, <1>2, StepStage, Matrix
<1>3. CASE pc[r] = "checked"
    BY <1>1, <1>3, StepFrame DEF CreationAllowed
<1> QED
    BY <1>2, <1>3

\* The seed ends well only when it finds or makes a row, or finds its name taken.
LEMMA SeedFinds ==
    ASSUME TypeOK, [Next]_vars, NEW r \in Requests,
           pc[r] # "ok", pc'[r] = "ok", ask'[r].op = "seed"
    PROVE  \E i \in Ids : users'[i].stored
<1> USE DEF Goto, TypeOK
<1>1. ASSUME NEW q \in Requests, NEW a \in Asks, Begin(q, a) PROVE FALSE
    BY <1>1 DEF Begin
<1>2. ASSUME NEW q \in Requests,
             RejectToken(q) \/ Authorise(q) \/ RejectInput(q) \/ CheckLogin(q) \/ CheckPassword(q)
             \/ CheckName(q) \/ CheckToggle(q) \/ CheckPromotion(q) \/ Die(q)
      PROVE  FALSE
    BY <1>2 DEF RejectToken, Authorise, RejectInput, CheckLogin, CheckPassword, CheckName,
                CheckToggle, CheckPromotion, Load, Die, Finish
<1>3. ASSUME NEW q \in Requests,
             CommitLogin(q) \/ CommitPassword(q) \/ CommitUser(q) \/ CommitToggle(q)
             \/ CommitPromotion(q)
      PROVE  FALSE
    BY <1>3 DEF CommitLogin, CommitPassword, CommitUser, CommitToggle, CommitPromotion, Insert,
                Write, Finish
<1>4. ASSUME NEW q \in Requests, CheckSeed(q) PROVE \E i \in Ids : users'[i].stored
    BY <1>4 DEF CheckSeed, Matching
<1>5. ASSUME NEW q \in Requests, CommitSeed(q) PROVE \E i \in Ids : users'[i].stored
    <2>1. CASE Taken(ask[q].username) /\ UNCHANGED users
        BY <2>1 DEF Taken
    <2>2. CASE Insert(q, "super_admin")
        BY <2>2 DEF Insert, Write
    <2> QED
        BY <1>5, <2>1, <2>2 DEF CommitSeed, Finish
<1>6. CASE Quiescent \/ UNCHANGED vars
    BY <1>6 DEF Quiescent, vars
<1> QED
    BY <1>1, <1>2, <1>3, <1>4, <1>5, <1>6 DEF Next

LEMMA AlwaysASuperAdminStep ==
    TypeOK /\ Asked /\ ActorLoaded /\ TargetLoaded /\ AlwaysASuperAdmin /\ [Next]_vars
        => AlwaysASuperAdmin'
<1> SUFFICES ASSUME TypeOK, Asked, ActorLoaded, TargetLoaded, AlwaysASuperAdmin, [Next]_vars,
                    \/ \E i \in Ids : users'[i].stored
                    \/ \E r \in Requests : pc'[r] = "ok" /\ ask'[r].op = "seed"
             PROVE  \E i \in Ids : /\ users'[i].stored
                                    /\ users'[i].role = "super_admin" /\ users'[i].is_active
    BY DEF AlwaysASuperAdmin, HasSuperAdmin
<1>1. CASE HasSuperAdmin(users)
    <2>1. PICK i \in Ids : users[i].stored /\ users[i].role = "super_admin" /\ users[i].is_active
        BY <1>1 DEF HasSuperAdmin
    <2> QED
        BY <2>1, RowsStay
<1>2. CASE ~HasSuperAdmin(users)
    <2>1. /\ \A i \in Ids : ~users[i].stored
          /\ \A r \in Requests : ~(pc[r] = "ok" /\ ask[r].op = "seed")
        BY <1>2 DEF AlwaysASuperAdmin
    <2>2. PICK i \in Ids : users'[i].stored
        <3>1. CASE \E r \in Requests : pc'[r] = "ok" /\ ask'[r].op = "seed"
            <4>1. PICK r \in Requests : pc'[r] = "ok" /\ ask'[r].op = "seed"
                BY <3>1
            <4>2. pc[r] # "ok"
                BY <2>1, <4>1, StepFrame
            <4> QED
                BY <4>1, <4>2, SeedFinds
        <3> QED
            BY <3>1
    <2>3. PICK r \in Requests, j \in Ids, row \in Row, deed \in Deeds :
              pc[r] = "checked" /\ Write(r, j, row, deed) /\ Due(r, j, row, deed)
        BY <2>1, <2>2, StepWrite
    <2>4. ~(ask[r].op \in OnAccount /\ j = target[r].id)
        BY <2>1, <2>3 DEF TargetLoaded
    <2>5. ask[r].op = "seed" /\ row.role = "super_admin" /\ row.is_active /\ row.stored
        <3>1. ask[r].op # "create_user"
            <4>1. ask[r].actor \in Ids
                BY <2>3, AskAssumption DEF Asked, AskForms
            <4> QED
                BY <2>1, <2>3, <4>1 DEF ActorLoaded, Acting
        <3> QED
            BY <2>3, <2>4, <3>1 DEF Due
    <2>6. users'[j] = row
        BY <2>3 DEF Write, TypeOK
    <2> QED
        BY <2>5, <2>6
<1> QED
    BY <1>1, <1>2

LEMMA TrailEndedStep ==
    TypeOK /\ Asked /\ ActorLoaded /\ TargetLoaded /\ TrailEnded /\ [Next]_vars => TrailEnded'
<1> SUFFICES ASSUME TypeOK, Asked, ActorLoaded, TargetLoaded, TrailEnded, [Next]_vars,
                    NEW i \in Ids, NEW d \in Deeds, trail'[i][d] # None
             PROVE  /\ pc'[trail'[i][d]] = "ok"
                    /\ ask'[trail'[i][d]].op \notin {"login", "seed"} =>
                          users'[ask'[trail'[i][d]].actor].stored
    BY DEF TrailEnded
<1>1. CASE trail'[i][d] = trail[i][d]
    <2> DEFINE r == trail[i][d]
    <2>1. r \in Requests /\ pc[r] = "ok"
        BY <1>1 DEF TrailEnded, TypeOK
    <2>2. pc'[r] = "ok" /\ ask'[r] = ask[r] /\ ask[r].actor \in Ids
        BY <2>1, StepFrame, AskAssumption DEF Ended, Asked, AskForms
    <2> QED
        BY <1>1, <2>1, <2>2, RowsStay DEF TrailEnded
<1>2. ASSUME NEW r \in Requests, NEW j \in Ids, NEW row \in Row, NEW deed \in Deeds,
             pc[r] = "checked", Write(r, j, row, deed), trail'[i][d] # trail[i][d]
      PROVE  /\ trail'[i][d] = r /\ pc'[r] = "ok" /\ ask'[r] = ask[r]
             /\ ask[r].op \notin {"login", "seed"} => users'[ask[r].actor].stored
    <2>1. trail'[i][d] = r /\ pc'[r] = "ok" /\ ask'[r] = ask[r]
        BY <1>2 DEF Write, Goto, TypeOK
    <2>2. ask[r].actor \in Ids
        BY <1>2, AskAssumption DEF Asked, AskForms
    <2> QED
        BY <1>2, <2>1, <2>2, RowsStay DEF ActorLoaded, Acting
<1> QED
    BY <1>1, <1>2, StepWrite

LEMMA SeededStayStep ==
    TypeOK /\ Asked /\ TargetLoaded /\ TrailEnded /\ SeededStay /\ [Next]_vars => SeededStay'
<1> SUFFICES ASSUME TypeOK, Asked, TargetLoaded, TrailEnded, SeededStay, [Next]_vars,
                    NEW i \in Ids, trail'[i].created # None
             PROVE  /\ users'[i].stored
                    /\ ask'[trail'[i].created].op \in {"create_user", "seed"}
                    /\ ask'[trail'[i].created].op = "seed" => users'[i].role = "super_admin"
    BY DEF SeededStay
<1>1. CASE trail'[i].created = trail[i].created
    <2>1. trail[i].created \in Requests /\ pc[trail[i].created] = "ok"
        BY <1>1 DEF TypeOK, TrailEnded, Deeds
    <2>2. ask'[trail[i].created] = ask[trail[i].created]
        BY <2>1, StepFrame
    <2> QED
        BY <1>1, <2>2, RowsStay DEF SeededStay
<1>2. ASSUME NEW r \in Requests, NEW j \in Ids, NEW row \in Row, NEW deed \in Deeds,
             Write(r, j, row, deed), Due(r, j, row, deed), trail'[i].created # trail[i].created
      PROVE  /\ users'[i].stored
             /\ ask'[trail'[i].created].op \in {"create_user", "seed"}
             /\ ask'[trail'[i].created].op = "seed" => users'[i].role = "super_admin"
    <2>1. i = j /\ deed = "created" /\ trail'[i].created = r /\ ask' = ask /\ users'[i] = row
        BY <1>2 DEF Write, TypeOK, Deeds
    <2> QED
        BY <1>2, <2>1 DEF Due
<1> QED
    BY <1>1, <1>2, StepWrite

LEMMA PrivilegeStep == IInv /\ [Next]_vars => PrivilegeNeedsSuperAdmin'
<1> SUFFICES ASSUME IInv, [Next]_vars, NEW i \in Ids
             PROVE  LET c == trail'[i].created
                        p == trail'[i].promoted
                    IN  /\ p # None => ask'[p].op = "promote" /\ users'[ask'[p].actor].role = "super_admin"
                        /\ c # None /\ users'[i].role = "super_admin" => ask'[c].op = "seed"
                        /\ c # None /\ users'[i].role = "admin" /\ p = None =>
                              users'[ask'[c].actor].role = "super_admin"
    BY DEF PrivilegeNeedsSuperAdmin, RoleOf
<1> USE DEF IInv
<1> DEFINE c == trail[i].created
           p == trail[i].promoted
\* A super_admin who has acted stays one.
<1>0. TypeOK /\ "created" \in Deeds /\ "promoted" \in Deeds
    BY DEF Deeds
<1>1. ASSUME NEW r \in Requests, pc[r] # "idle", users[ask[r].actor].stored,
             users[ask[r].actor].role = "super_admin"
      PROVE  ask'[r] = ask[r] /\ users'[ask'[r].actor].role = "super_admin"
    <2>1. ask'[r] = ask[r] /\ ask[r].actor \in Ids
        BY <1>1, StepFrame, AskAssumption DEF Asked, AskForms
    <2> QED
        BY <1>1, <2>1, RowsStay
<1>2. p # None => /\ p \in Requests /\ ask'[p] = ask[p] /\ ask[p].op = "promote"
                  /\ users'[ask'[p].actor].role = "super_admin"
    <2> SUFFICES ASSUME p # None
                 PROVE  /\ p \in Requests /\ ask'[p] = ask[p] /\ ask[p].op = "promote"
                        /\ users'[ask'[p].actor].role = "super_admin"
        OBVIOUS
    <2>1. p \in Requests /\ pc[p] = "ok"
        BY <1>0 DEF TypeOK, TrailEnded
    <2>2. ask[p].op = "promote" /\ users[ask[p].actor].role = "super_admin"
        BY DEF PrivilegeNeedsSuperAdmin, RoleOf
    <2>3. users[ask[p].actor].stored
        BY <1>0, <2>2 DEF TrailEnded
    <2> QED
        BY <1>1, <2>1, <2>2, <2>3
<1>3. c # None => c \in Requests /\ pc[c] = "ok" /\ ask'[c] = ask[c]
    BY <1>0, StepFrame DEF TypeOK, TrailEnded
<1>4. c # None /\ users[i].role = "admin" /\ p = None => users'[ask'[c].actor].role = "super_admin"
    <2> SUFFICES ASSUME c # None, users[i].role = "admin", p = None
                 PROVE  users'[ask'[c].actor].role = "super_admin"
        OBVIOUS
    <2>1. users[ask[c].actor].role = "super_admin"
        BY DEF PrivilegeNeedsSuperAdmin, RoleOf
    <2>2. ask[c].op \in {"create_user", "seed"}
        BY DEF SeededStay
    <2>3. users[ask[c].actor].stored
        BY <1>0, <2>2 DEF TrailEnded, SeededStay
    <2> QED
        BY <1>1, <1>3, <2>1, <2>3
<1>5. CASE users'[i] = users[i] /\ trail'[i] = trail[i]
    BY <1>2, <1>3, <1>4, <1>5 DEF PrivilegeNeedsSuperAdmin
<1>6. ASSUME NEW r \in Requests, NEW row \in Row, NEW deed \in Deeds,
             pc[r] = "checked", Write(r, i, row, deed), Due(r, i, row, deed)
      PROVE  LET c1 == trail'[i].created
                 p1 == trail'[i].promoted
             IN  /\ p1 # None => ask'[p1].op = "promote" /\ users'[ask'[p1].actor].role = "super_admin"
                 /\ c1 # None /\ users'[i].role = "super_admin" => ask'[c1].op = "seed"
                 /\ c1 # None /\ users'[i].role = "admin" /\ p1 = None =>
                       users'[ask'[c1].actor].role = "super_admin"
    <2>0. /\ users'[i] = row /\ trail'[i] = [trail[i] EXCEPT ![deed] = r] /\ ask' = ask
          /\ trail[i] \in [Deeds -> Requests \cup {None}]
        BY <1>0, <1>6 DEF Write, TypeOK
    <2>1. ask[r].op \notin {"login", "seed"} /\ actor[r].role = "super_admin" =>
              users'[ask'[r].actor].role = "super_admin"
        BY <1>1, <1>6 DEF ActorLoaded, Acting, RoleOf
    <2>2. CASE ask[r].op = "promote"
        <3>1. deed = "promoted" /\ row.role = "admin" /\ r # None
            BY <1>6, <2>2, NameAssumption DEF Due
        <3>2. actor[r].role = "super_admin"
            BY <1>6, <2>2 DEF ActorLoaded, Acting
        <3> QED
            BY <1>0, <2>0, <2>1, <2>2, <3>1, <3>2
    <2>3. CASE ask[r].op \in OnAccount /\ ask[r].op # "promote"
        <3>1. row.role = users[i].role /\ trail'[i].created = c /\ trail'[i].promoted = p
            BY <1>0, <1>6, <2>0, <2>3 DEF Due, OnAccount
        <3> QED
            BY <1>2, <1>3, <1>4, <2>0, <3>1 DEF PrivilegeNeedsSuperAdmin
    <2>4. CASE ask[r].op \in {"create_user", "seed"}
        <3>1. trail'[i].created = r /\ trail'[i].promoted = p
            BY <1>0, <1>6, <2>0, <2>4 DEF Due, OnAccount
        <3>2. ask[r].op = "create_user" => /\ row.role # "super_admin"
                                           /\ row.role = "admin" => actor[r].role = "super_admin"
            BY <1>6 DEF Due, OnAccount, CreationAllowed
        <3>3. ask[r].op = "seed" => row.role = "super_admin"
            BY <1>6 DEF Due, OnAccount
        <3> QED
            BY <1>2, <2>0, <2>1, <2>4, <3>1, <3>2, <3>3
    <2> QED
        BY <1>6, <2>2, <2>3, <2>4 DEF Due
<1>7. ASSUME NEW r \in Requests, NEW j \in Ids, NEW row, NEW deed \in Deeds, j # i, Write(r, j, row, deed)
      PROVE  users'[i] = users[i] /\ trail'[i] = trail[i]
    BY <1>0, <1>7 DEF Write, TypeOK
<1> QED
    BY <1>5, <1>6, <1>7, StepWrite

LEMMA IInvHolds == Spec => []IInv
<1>1. Init => IInv
    <2> SUFFICES ASSUME Init PROVE IInv
        OBVIOUS
    <2>1. TypeOK
        BY RosterAssumption, RowTypes DEF Init, TypeOK, NoTarget
    <2>2. AlwaysASuperAdmin
        BY RosterAssumption DEF Init, AlwaysASuperAdmin
    <2> QED
        BY <2>1, <2>2 DEF Init, IInv, Asked, ActorLoaded, TargetLoaded, CreationAllowed, TrailEnded,
                          SeededStay, PrivilegeNeedsSuperAdmin, Acting, Deeds
<1>2. IInv /\ [Next]_vars => IInv'
    BY TypeStep, AskedStep, ActorLoadedStep, TargetLoadedStep, CreationAllowedStep,
       AlwaysASuperAdminStep, TrailEndedStep, SeededStayStep, PrivilegeStep DEF IInv
<1> QED
    BY <1>1, <1>2, PTL DEF Spec

-----------------------------------------------------------------------------
(* The theorems. *)

\* Rows, copies and trails keep their types, whatever races.
THEOREM TypeCorrect == Spec => []TypeOK
<1>1. IInv => TypeOK
    BY DEF IInv
<1> QED
    BY <1>1, IInvHolds, PTL

\* Invariants I-1 and I-2 of the plan, for any requests and container starts on any
\* table a container can find (UserAdminService, seed_super_admin).
THEOREM ASuperAdminRemains == Spec => []AlwaysASuperAdmin
<1>1. IInv => AlwaysASuperAdmin
    BY DEF IInv
<1> QED
    BY <1>1, IInvHolds, PTL

\* Who became an admin owes it to a super_admin, and only a seed makes a super_admin
\* (the permission matrix and the checks of UserAdminService).
THEOREM PrivilegeIsGranted == Spec => []PrivilegeNeedsSuperAdmin
<1>1. IInv => PrivilegeNeedsSuperAdmin
    BY DEF IInv
<1> QED
    BY <1>1, IInvHolds, PTL

-----------------------------------------------------------------------------
(* Requests that run beside one another. *)

\* A request that had ended stays ended, so one that goes on is in nobody's past.
PastIsOver == \A r \in Requests : \A q \in before[r] : pc[q] \in Ended

\* What was over when a request began is fixed at that moment.
LEMMA StepBefore ==
    ASSUME TypeOK, [Next]_vars, NEW r \in Requests
    PROVE  \/ before'[r] = before[r]
           \/ pc[r] = "idle" /\ before'[r] = {q \in Requests : pc[q] \in Ended}
<1>1. ASSUME NEW q \in Requests, NEW a \in Asks, Begin(q, a)
      PROVE  \/ before'[r] = before[r]
             \/ pc[r] = "idle" /\ before'[r] = {p \in Requests : pc[p] \in Ended}
    BY <1>1 DEF Begin, TypeOK
<1>2. ASSUME NEW q \in Requests,
             RejectToken(q) \/ Authorise(q) \/ RejectInput(q) \/ CheckLogin(q) \/ CheckPassword(q)
             \/ CheckName(q) \/ CheckToggle(q) \/ CheckPromotion(q) \/ CheckSeed(q) \/ Die(q)
      PROVE  before' = before
    BY <1>2 DEF RejectToken, Authorise, RejectInput, CheckLogin, CheckPassword, CheckName,
                CheckToggle, CheckPromotion, CheckSeed, Load, Die, Finish
<1>3. ASSUME NEW q \in Requests,
             CommitLogin(q) \/ CommitPassword(q) \/ CommitUser(q) \/ CommitSeed(q)
             \/ CommitToggle(q) \/ CommitPromotion(q)
      PROVE  before' = before
    BY <1>3 DEF CommitLogin, CommitPassword, CommitUser, CommitSeed, CommitToggle, CommitPromotion,
                Insert, Write, Finish
<1>4. CASE Quiescent \/ UNCHANGED vars
    BY <1>4 DEF Quiescent, vars
<1> QED
    BY <1>1, <1>2, <1>3, <1>4 DEF Next

LEMMA PastIsOverStep == TypeOK /\ PastIsOver /\ [Next]_vars => PastIsOver'
<1> SUFFICES ASSUME TypeOK, PastIsOver, [Next]_vars, NEW r \in Requests, NEW q \in before'[r]
             PROVE  pc'[q] \in Ended
    BY DEF PastIsOver
<1>1. q \in Requests /\ pc[q] \in Ended
    BY StepBefore DEF PastIsOver, TypeOK
<1> QED
    BY <1>1, StepFrame

\* What a step makes of one row: nothing, or what one request wanted of it.
LEMMA StepRow ==
    ASSUME TypeOK, Asked, TargetLoaded, [Next]_vars, NEW i \in Ids
    PROVE  \/ users'[i] = users[i] /\ trail'[i] = trail[i]
           \/ \E r \in Requests, row \in Row, deed \in Deeds :
                 /\ pc[r] = "checked" /\ pc'[r] = "ok" /\ Due(r, i, row, deed)
                 /\ users'[i] = row /\ trail'[i][deed] = r
                 /\ \A d \in Deeds \ {deed} : trail'[i][d] = trail[i][d]
<1>0. /\ users \in [Ids -> Row] /\ trail \in [Ids -> [Deeds -> Requests \cup {None}]]
      /\ pc \in [Requests -> {"idle"} \cup InFlight \cup Ended]
    BY DEF TypeOK
<1>1. ASSUME NEW r \in Requests, NEW j \in Ids, NEW row \in Row, NEW deed \in Deeds,
             pc[r] = "checked", Write(r, j, row, deed), Due(r, j, row, deed)
      PROVE  \/ users'[i] = users[i] /\ trail'[i] = trail[i]
             \/ /\ i = j /\ pc'[r] = "ok" /\ users'[i] = row /\ trail'[i][deed] = r
                /\ \A d \in Deeds \ {deed} : trail'[i][d] = trail[i][d]
    BY <1>0, <1>1 DEF Write, Goto
<1> QED
    BY <1>1, StepWrite

\* The name of a stored row stays, and so does who created it.
LEMMA NamesStay ==
    ASSUME TypeOK, Asked, TargetLoaded, [Next]_vars, NEW i \in Ids, users[i].stored
    PROVE  users'[i].username = users[i].username /\ trail'[i].created = trail[i].created
<1>1. "created" \in Deeds
    BY DEF Deeds
<1>2. ASSUME NEW r \in Requests, NEW row \in Row, NEW deed \in Deeds, Due(r, i, row, deed)
      PROVE  deed # "created" /\ row.username = users[i].username
    BY <1>2 DEF Due
<1> QED
    BY <1>1, <1>2, StepRow

\* Whoever is in the trail of a stored row went to work before those who are not over.
LEMMA Beside ==
    ASSUME TypeOK, PastIsOver, NEW q \in Requests, NEW r \in Requests, pc[q] \notin Ended
    PROVE  q \notin before[r]
BY DEF PastIsOver

\* Only what has been checked is served; a seed may also find its work done.
LEMMA StepServed ==
    ASSUME TypeOK, [Next]_vars, NEW r \in Requests, pc[r] # "ok", pc'[r] = "ok"
    PROVE  \/ pc[r] = "checked"
           \/ /\ ask[r].op = "seed" /\ users' = users /\ trail' = trail
              /\ \E i \in Matching(ask[r].username) : users[i].role = "super_admin"
<1> USE DEF Goto, TypeOK
<1>1. ASSUME NEW q \in Requests, NEW a \in Asks, Begin(q, a) PROVE FALSE
    BY <1>1 DEF Begin
<1>2. ASSUME NEW q \in Requests,
             RejectToken(q) \/ Authorise(q) \/ RejectInput(q) \/ CheckLogin(q) \/ CheckPassword(q)
             \/ CheckName(q) \/ CheckToggle(q) \/ CheckPromotion(q) \/ Die(q)
      PROVE  FALSE
    BY <1>2 DEF RejectToken, Authorise, RejectInput, CheckLogin, CheckPassword, CheckName,
                CheckToggle, CheckPromotion, Load, Die, Finish
<1>3. ASSUME NEW q \in Requests,
             CommitLogin(q) \/ CommitPassword(q) \/ CommitUser(q) \/ CommitSeed(q)
             \/ CommitToggle(q) \/ CommitPromotion(q)
      PROVE  pc[r] = "checked"
    <2>1. pc[q] = "checked" /\ \E l \in {"ok", "error"} : pc' = [pc EXCEPT ![q] = l]
        BY <1>3 DEF CommitLogin, CommitPassword, CommitUser, CommitSeed, CommitToggle,
                    CommitPromotion, Insert, Write, Finish
    <2> QED
        BY <2>1
<1>4. ASSUME NEW q \in Requests, CheckSeed(q)
      PROVE  /\ ask[r].op = "seed" /\ users' = users /\ trail' = trail
             /\ \E i \in Matching(ask[r].username) : users[i].role = "super_admin"
    BY <1>4 DEF CheckSeed
<1>5. CASE Quiescent \/ UNCHANGED vars
    BY <1>5 DEF Quiescent, vars
<1> QED
    BY <1>1, <1>2, <1>3, <1>4, <1>5 DEF Next

-----------------------------------------------------------------------------
(* Accounts that are switched off. *)

\* A request acts on an account that was active when it looked, and has not been
\* toggled but by a request that was not over when this one began.
ServedActive ==
    \A r \in Requests : pc[r] \in Acting \cup {"ok"} /\ ask[r].op # "seed"
                        /\ (pc[r] = "authorised" => ask[r].op # "login") =>
        /\ OnBehalfOf(r) \in Ids /\ users[OnBehalfOf(r)].stored
        /\ users[OnBehalfOf(r)].is_active \/ trail[OnBehalfOf(r)].toggled \notin before[r]

LEMMA ServedActiveStep == IInv /\ PastIsOver /\ ServedActive /\ [Next]_vars => ServedActive'
<1> SUFFICES ASSUME IInv, PastIsOver, ServedActive, [Next]_vars, NEW r \in Requests,
                    pc'[r] \in Acting \cup {"ok"}, ask'[r].op # "seed",
                    pc'[r] = "authorised" => ask'[r].op # "login"
             PROVE  /\ OnBehalfOf(r)' \in Ids /\ users'[OnBehalfOf(r)'].stored
                    /\ \/ users'[OnBehalfOf(r)'].is_active
                       \/ trail'[OnBehalfOf(r)'].toggled \notin before'[r]
    BY DEF ServedActive
<1>0. TypeOK /\ Asked /\ TargetLoaded /\ pc[r] # "idle" /\ ask'[r] = ask[r] /\ ask[r] \in AskForms
      /\ before'[r] = before[r]
    BY StepFrame, StepBefore, AskAssumption DEF IInv, Acting, Asked
<1>1. ASSUME NEW i \in Ids, users[i].stored,
             users[i].is_active \/ trail[i].toggled \notin before[r]
      PROVE  users'[i].stored /\ (users'[i].is_active \/ trail'[i].toggled \notin before'[r])
    <2>1. CASE users'[i] = users[i] /\ trail'[i] = trail[i]
        BY <1>0, <1>1, <2>1
    <2>2. ASSUME NEW q \in Requests, NEW row \in Row, NEW deed \in Deeds,
                 pc[q] = "checked", Due(q, i, row, deed), users'[i] = row, trail'[i][deed] = q,
                 \A d \in Deeds \ {deed} : trail'[i][d] = trail[i][d]
          PROVE  users'[i].stored /\ (users'[i].is_active \/ trail'[i].toggled \notin before'[r])
        <3>1. CASE deed = "toggled"
            BY <1>0, <2>2, <3>1, Beside DEF Due, Ended
        <3>2. CASE deed # "toggled"
            <4>1. trail'[i].toggled = trail[i].toggled
                BY <2>2, <3>2 DEF Deeds
            <4> QED
                BY <1>0, <1>1, <2>2, <3>2, <4>1 DEF Due
        <3> QED
            BY <3>1, <3>2
    <2> QED
        BY <1>0, <2>1, <2>2, StepRow
<1>2. CASE pc[r] \in Acting \cup {"ok"} /\ (pc[r] = "authorised" => ask[r].op # "login")
           /\ OnBehalfOf(r)' = OnBehalfOf(r)
    BY <1>0, <1>1, <1>2 DEF ServedActive
<1>3. CASE pc'[r] = "authorised" /\ pc[r] # "authorised"
    <2>1. /\ ask[r].op # "login" /\ ask[r].actor \in Ids
          /\ users[ask[r].actor].stored /\ users[ask[r].actor].is_active
        BY <1>0, <1>3, StepStage
    <2> QED
        BY <1>0, <1>1, <2>1 DEF OnBehalfOf
<1>4. CASE pc'[r] = "checked" /\ pc[r] # "checked" /\ ask[r].op = "login"
    <2>1. LoginChecked(r, target'[r])
        BY <1>0, <1>4, StepStage
    <2> QED
        BY <1>0, <1>1, <1>4, <2>1 DEF OnBehalfOf, LoginChecked
<1>5. CASE pc'[r] = "checked" /\ pc[r] # "checked" /\ ask[r].op # "login"
    <2>1. pc[r] = "authorised"
        BY <1>0, <1>5, StepStage
    <2> QED
        BY <1>0, <1>2, <1>5, <2>1 DEF OnBehalfOf, Acting
<1>6. CASE pc'[r] = "ok" /\ pc[r] # "ok"
    <2>1. pc[r] = "checked"
        BY <1>0, <1>6, StepServed
    <2> QED
        BY <1>0, <1>2, <2>1, StepFrame DEF OnBehalfOf, Acting
<1>7. CASE pc'[r] = pc[r]
    BY <1>0, <1>2, <1>7, StepFrame DEF OnBehalfOf
<1> QED
    BY <1>3, <1>4, <1>5, <1>6, <1>7 DEF Acting

-----------------------------------------------------------------------------
(* Admins that are toggled. *)

\* Who is about to toggle an admin is a super_admin, or began before the promotion that
\* made the account an admin had ended; and so was who did it last.
ToggleJudged ==
    /\ \A r \in Requests : pc[r] \in Acting /\ ask[r].op = "set_active" =>
          role_has_permission(actor[r].role, "toggle_user_active")
    /\ \A r \in Requests : pc[r] = "checked" /\ ask[r].op = "set_active" =>
          LET i == target[r].id
          IN  users[i].role = "admin" =>
                 \/ RoleOf(r) = "super_admin"
                 \/ trail[i].promoted # None /\ trail[i].promoted \notin before[r]
    /\ \A i \in Ids : trail[i].toggled # None =>
          users[i].stored /\ ask[trail[i].toggled].op = "set_active"

LEMMA ToggleMatrix ==
    ASSUME NEW role
    PROVE  /\ role_has_permission(role, Gate("set_active"))
                 => role_has_permission(role, "toggle_user_active")
           /\ role_has_permission(role, "toggle_user_active") => role \in {"admin", "super_admin"}
           /\ role_has_permission(role, "toggle_admin_active") => role = "super_admin"
BY DEF role_has_permission, Gate

\* Who acted as a super_admin is one still.
LEMMA SuperAdminsStay ==
    ASSUME IInv, [Next]_vars, NEW r \in Requests, pc[r] # "idle", RoleOf(r) = "super_admin",
           users[ask[r].actor].stored
    PROVE  RoleOf(r)' = "super_admin"
<1>1. TypeOK /\ Asked /\ TargetLoaded /\ ask'[r] = ask[r] /\ ask[r].actor \in Ids
    BY StepFrame, AskAssumption DEF IInv, Asked, AskForms
<1> QED
    BY <1>1, RowsStay DEF RoleOf

\* What a step makes of a promotion that came too late for a request, or of an account
\* that was no admin's: the same, or a promotion that comes too late.
LEMMA PromotedLate ==
    ASSUME IInv, PastIsOver, [Next]_vars, NEW r \in Requests, pc[r] # "idle",
           NEW i \in Ids, users[i].stored, users'[i].role = "admin",
           users[i].role = "admin" => trail[i].promoted # None /\ trail[i].promoted \notin before[r]
    PROVE  trail'[i].promoted # None /\ trail'[i].promoted \notin before'[r]
<1>0. TypeOK /\ Asked /\ TargetLoaded /\ before'[r] = before[r]
    BY StepBefore DEF IInv
<1>1. CASE users'[i] = users[i] /\ trail'[i] = trail[i]
    BY <1>0, <1>1
<1>2. ASSUME NEW q \in Requests, NEW row \in Row, NEW deed \in Deeds,
             pc[q] = "checked", Due(q, i, row, deed), users'[i] = row, trail'[i][deed] = q,
             \A d \in Deeds \ {deed} : trail'[i][d] = trail[i][d]
      PROVE  trail'[i].promoted # None /\ trail'[i].promoted \notin before'[r]
    <2>1. CASE deed = "promoted"
        <3>1. q # None /\ q \notin before[r]
            BY <1>0, <1>2, Beside, NameAssumption DEF Ended
        <3> QED
            BY <1>0, <1>2, <2>1, <3>1
    <2>2. CASE deed # "promoted"
        <3>1. trail'[i].promoted = trail[i].promoted
            BY <1>2, <2>2 DEF Deeds
        <3>2. users[i].role = "admin"
            BY <1>2, <2>2 DEF Due
        <3> QED
            BY <1>0, <3>1, <3>2
    <2> QED
        BY <2>1, <2>2
<1> QED
    BY <1>0, <1>1, <1>2, StepRow

LEMMA ToggleJudgedStep == IInv /\ PastIsOver /\ ToggleJudged /\ [Next]_vars => ToggleJudged'
<1> SUFFICES ASSUME IInv, PastIsOver, ToggleJudged, [Next]_vars PROVE ToggleJudged'
    OBVIOUS
<1>0. TypeOK /\ Asked /\ TargetLoaded /\ ActorLoaded
    BY DEF IInv
<1>1. ASSUME NEW r \in Requests, pc'[r] \in Acting, ask'[r].op = "set_active"
      PROVE  role_has_permission(actor'[r].role, "toggle_user_active")
    <2>1. pc[r] # "idle" /\ ask'[r] = ask[r]
        BY <1>0, <1>1, StepFrame DEF Acting
    <2>2. CASE pc'[r] = "authorised" /\ pc[r] # "authorised"
        BY <1>0, <1>1, <2>1, <2>2, StepStage, ToggleMatrix
    <2>3. CASE pc'[r] = "checked" /\ pc[r] # "checked"
        <3>1. pc[r] = "authorised" /\ actor'[r] = actor[r]
            BY <1>0, <1>1, <2>1, <2>3, StepStage
        <3> QED
            BY <1>1, <2>1, <3>1 DEF ToggleJudged, Acting
    <2>4. CASE pc'[r] = pc[r]
        BY <1>0, <1>1, <2>1, <2>4, StepFrame DEF ToggleJudged
    <2> QED
        BY <1>1, <2>2, <2>3, <2>4 DEF Acting
<1>2. ASSUME NEW r \in Requests, pc'[r] = "checked", ask'[r].op = "set_active",
             users'[target'[r].id].role = "admin"
      PROVE  \/ RoleOf(r)' = "super_admin"
             \/ /\ trail'[target'[r].id].promoted # None
                /\ trail'[target'[r].id].promoted \notin before'[r]
    <2>1. pc[r] # "idle" /\ ask'[r] = ask[r] /\ ask[r] \in AskForms
        BY <1>0, <1>2, StepFrame, AskAssumption DEF Asked
    <2>2. CASE pc[r] # "checked"
        <3>1. UNCHANGED <<users, trail>>
            BY <1>0, <1>2, <2>2, StepFrame DEF Acting
        <3>2. /\ pc[r] = "authorised" /\ target'[r].id = ask[r].target /\ MayToggle(r)
            BY <1>0, <1>2, <2>1, <2>2, StepStage
        <3>3. role_has_permission(actor[r].role, "toggle_user_active")
            BY <2>1, <1>2, <3>2 DEF ToggleJudged, Acting
        <3>4. actor[r].role \in {"admin", "super_admin"}
            BY <3>3, ToggleMatrix
        <3>5. LoadedTarget(r).role = "admin"
            BY <1>2, <3>1, <3>2, <3>4 DEF LoadedTarget, MayToggle
        <3>6. actor[r].role = "super_admin"
            BY <3>2, <3>5, ToggleMatrix DEF MayToggle
        <3>7. RoleOf(r) = "super_admin"
            BY <1>0, <1>2, <2>1, <3>2, <3>6 DEF ActorLoaded, Acting
        <3> QED
            BY <2>1, <3>1, <3>7 DEF RoleOf
    <2>3. CASE pc[r] = "checked"
        <3> DEFINE i == target[r].id
        <3>1. target'[r] = target[r] /\ i \in Ids /\ users[i].stored /\ users[ask[r].actor].stored
            BY <1>0, <1>2, <2>1, <2>3, StepFrame DEF TargetLoaded, OnAccount, ActorLoaded, Acting
        <3>2. CASE RoleOf(r) = "super_admin"
            BY <2>1, <3>1, <3>2, SuperAdminsStay
        <3>3. CASE RoleOf(r) # "super_admin"
            <4>1. users[i].role = "admin" =>
                     trail[i].promoted # None /\ trail[i].promoted \notin before[r]
                BY <1>2, <2>1, <2>3, <3>3 DEF ToggleJudged
            <4> QED
                BY <1>2, <2>1, <3>1, <4>1, PromotedLate
        <3> QED
            BY <3>2, <3>3
    <2> QED
        BY <2>2, <2>3
<1>3. ASSUME NEW i \in Ids, trail'[i].toggled # None
      PROVE  users'[i].stored /\ ask'[trail'[i].toggled].op = "set_active"
    <2>1. CASE trail'[i].toggled = trail[i].toggled
        <3> DEFINE w == trail[i].toggled
        <3>1. w \in Requests /\ pc[w] = "ok" /\ users[i].stored /\ ask[w].op = "set_active"
            BY <1>0, <1>3, <2>1 DEF TypeOK, TrailEnded, ToggleJudged, Deeds, IInv
        <3> QED
            BY <1>0, <2>1, <3>1, StepFrame, RowsStay
    <2>2. ASSUME NEW q \in Requests, NEW row \in Row, NEW deed \in Deeds,
                 pc[q] = "checked", Due(q, i, row, deed), users'[i] = row, trail'[i][deed] = q,
                 \A d \in Deeds \ {deed} : trail'[i][d] = trail[i][d],
                 trail'[i].toggled # trail[i].toggled
          PROVE  users'[i].stored /\ ask'[trail'[i].toggled].op = "set_active"
        <3>1. deed = "toggled" /\ ask'[q] = ask[q]
            BY <1>0, <2>2, StepFrame DEF Deeds
        <3> QED
            BY <2>2, <3>1 DEF Due
    <2> QED
        BY <1>0, <2>1, <2>2, StepRow
<1> QED
    BY <1>1, <1>2, <1>3 DEF ToggleJudged

LEMMA AdminToggledStep ==
    IInv /\ PastIsOver /\ ToggleJudged /\ AdminToggledBySuperAdminOrOverlap /\ [Next]_vars
        => AdminToggledBySuperAdminOrOverlap'
<1> SUFFICES ASSUME IInv, PastIsOver, ToggleJudged, AdminToggledBySuperAdminOrOverlap, [Next]_vars,
                    NEW i \in Ids, users'[i].role = "admin", trail'[i].toggled # None
             PROVE  \/ users'[ask'[trail'[i].toggled].actor].role = "super_admin"
                    \/ /\ trail'[i].promoted # None
                       /\ trail'[i].promoted \notin before'[trail'[i].toggled]
    BY DEF AdminToggledBySuperAdminOrOverlap, RoleOf
<1>0. TypeOK /\ Asked /\ TargetLoaded /\ ActorLoaded /\ TrailEnded /\ SeededStay
    BY DEF IInv
<1>1. CASE trail'[i].toggled = trail[i].toggled
    <2> DEFINE w == trail[i].toggled
    <2>1. w \in Requests /\ pc[w] = "ok" /\ users[i].stored
        BY <1>0, <1>1 DEF TypeOK, TrailEnded, ToggleJudged, Deeds
    <2>2. CASE users[i].role = "admin" /\ RoleOf(w) = "super_admin"
        <3>1. users[ask[w].actor].stored
            BY <1>0, <1>1, <2>1 DEF TrailEnded, ToggleJudged, Deeds
        <3>2. users'[ask'[w].actor].role = "super_admin"
            BY <2>1, <2>2, <3>1, SuperAdminsStay DEF RoleOf
        <3> QED
            BY <1>1, <3>2
    <2>3. CASE ~(users[i].role = "admin" /\ RoleOf(w) = "super_admin")
        BY <1>1, <2>1, <2>3, PromotedLate DEF AdminToggledBySuperAdminOrOverlap
    <2> QED
        BY <2>2, <2>3
<1>2. ASSUME NEW q \in Requests, NEW row \in Row, NEW deed \in Deeds,
             pc[q] = "checked", Due(q, i, row, deed), users'[i] = row, trail'[i][deed] = q,
             \A d \in Deeds \ {deed} : trail'[i][d] = trail[i][d],
             trail'[i].toggled # trail[i].toggled
      PROVE  \/ users'[ask'[trail'[i].toggled].actor].role = "super_admin"
             \/ /\ trail'[i].promoted # None
                /\ trail'[i].promoted \notin before'[trail'[i].toggled]
    <2>1. deed = "toggled" /\ trail'[i].toggled = q
        BY <1>2 DEF Deeds
    <2>2. ask[q].op = "set_active" /\ i = target[q].id /\ users[i].role = "admin" /\ users[i].stored
        BY <1>0, <1>2, <2>1 DEF Due, TargetLoaded
    <2>3. users[ask[q].actor].stored
        BY <1>0, <1>2, <2>2 DEF ActorLoaded, Acting
    <2>4. CASE RoleOf(q) = "super_admin"
        BY <1>2, <2>1, <2>3, <2>4, SuperAdminsStay DEF RoleOf
    <2>5. CASE RoleOf(q) # "super_admin"
        BY <1>2, <2>1, <2>2, <2>5, PromotedLate DEF ToggleJudged
    <2> QED
        BY <2>4, <2>5
<1> QED
    BY <1>0, <1>1, <1>2, StepRow

-----------------------------------------------------------------------------
(* Names. *)

SameName(i, username) == users[i].stored /\ Lower[users[i].username] = Lower[username]
CreatedBeside(i, r) == trail[i].created # None /\ Overlap(trail[i].created, r)
OverlapAfter(q, r) == q # r /\ q \notin before'[r] /\ r \notin before'[q]
CreatedBesideAfter(i, r) ==
    trail'[i].created # None /\ OverlapAfter(trail'[i].created, r)

\* Whoever is about to take a name that is there in another spelling ran beside its
\* creation; so did a seed that found its name taken.
NamesBeside ==
    /\ \A r \in Requests : pc[r] = "checked" /\ ask[r].op \in {"create_user", "seed"} =>
          \A i \in Ids : SameName(i, ask[r].username) => CreatedBeside(i, r)
    /\ ConfiguredAdminSeeded

\* Two requests that are both at work, or one at work and one that ended while it was,
\* overlap, and have done so for ever.
LEMMA OverlapStays ==
    ASSUME TypeOK, [Next]_vars, NEW q \in Requests, NEW r \in Requests,
           pc[q] # "idle", pc[r] # "idle", Overlap(q, r)
    PROVE  OverlapAfter(q, r)
BY StepBefore DEF Overlap, OverlapAfter

\* A name that comes to a row new to the table is that of its creator.
LEMMA StepNamed ==
    ASSUME IInv, PastIsOver, [Next]_vars, NEW i \in Ids, users'[i].stored
    PROVE  \/ /\ users[i].stored /\ users'[i].username = users[i].username
              /\ trail'[i].created = trail[i].created
              /\ users[i].role = "super_admin" => users'[i].role = "super_admin"
           \/ \E q \in Requests :
                 /\ ~users[i].stored /\ pc[q] = "checked" /\ ask[q].op \in {"create_user", "seed"}
                 /\ trail'[i].created = q /\ users'[i].username = ask[q].username
                 /\ ~Taken(ask[q].username)
                 /\ ask[q].op = "seed" => users'[i].role = "super_admin"
                 /\ pc'[q] = "ok"
                 /\ \A j \in Ids \ {i} : users'[j] = users[j] /\ trail'[j] = trail[j]
<1>0. TypeOK /\ Asked /\ TargetLoaded /\ users \in [Ids -> Row]
      /\ trail \in [Ids -> [Deeds -> Requests \cup {None}]]
    BY DEF IInv, TypeOK
<1>1. CASE users[i].stored
    BY <1>0, <1>1, NamesStay, RowsStay
<1>2. CASE ~users[i].stored
    <2>1. PICK q \in Requests, j \in Ids, row \in Row, deed \in Deeds :
              pc[q] = "checked" /\ Write(q, j, row, deed) /\ Due(q, j, row, deed)
        BY <1>0, <1>2, StepWrite
    <2>2. j = i /\ users'[i] = row /\ trail'[i][deed] = q /\ pc'[q] = "ok"
          /\ \A k \in Ids \ {i} : users'[k] = users[k] /\ trail'[k] = trail[k]
        BY <1>0, <1>2, <2>1 DEF Write, Goto, TypeOK
    <2>3. ~(ask[q].op \in OnAccount /\ i = target[q].id)
        BY <1>0, <1>2, <2>1 DEF TargetLoaded
    <2> QED
        BY <1>2, <2>1, <2>2, <2>3 DEF Due
<1> QED
    BY <1>1, <1>2

\* A seed that finds its name free ends well only with a super_admin under it.
LEMMA StepSeeded ==
    ASSUME TypeOK, [Next]_vars, NEW r \in Requests, pc[r] = "checked", pc'[r] = "ok",
           ask[r].op = "seed", ~Taken(ask[r].username)
    PROVE  \E i \in Ids : /\ users'[i].stored /\ users'[i].username = ask[r].username
                          /\ users'[i].role = "super_admin"
<1> USE DEF Goto, TypeOK
<1>1. ASSUME NEW q \in Requests, NEW a \in Asks, Begin(q, a) PROVE FALSE
    BY <1>1 DEF Begin
<1>2. ASSUME NEW q \in Requests,
             RejectToken(q) \/ Authorise(q) \/ RejectInput(q) \/ CheckLogin(q) \/ CheckPassword(q)
             \/ CheckName(q) \/ CheckToggle(q) \/ CheckPromotion(q) \/ CheckSeed(q) \/ Die(q)
      PROVE  FALSE
    BY <1>2 DEF RejectToken, Authorise, RejectInput, CheckLogin, CheckPassword, CheckName,
                CheckToggle, CheckPromotion, CheckSeed, Load, Die, Finish
<1>3. ASSUME NEW q \in Requests,
             CommitLogin(q) \/ CommitPassword(q) \/ CommitUser(q) \/ CommitToggle(q)
             \/ CommitPromotion(q)
      PROVE  FALSE
    BY <1>3 DEF CommitLogin, CommitPassword, CommitUser, CommitToggle, CommitPromotion, Insert,
                Write, Finish
<1>4. ASSUME NEW q \in Requests, CommitSeed(q)
      PROVE  \E i \in Ids : /\ users'[i].stored /\ users'[i].username = ask[r].username
                            /\ users'[i].role = "super_admin"
    <2>1. q = r
        BY <1>4 DEF CommitSeed, Insert, Write, Finish
    <2>2. Insert(r, "super_admin")
        BY <1>4, <2>1 DEF CommitSeed
    <2> DEFINE row == [stored |-> TRUE, username |-> ask[r].username, role |-> "super_admin",
                       is_active |-> TRUE, password |-> ask[r].password, outdated |-> FALSE]
    <2>3. PICK i \in Ids : users' = [users EXCEPT ![i] = row]
        BY <2>2 DEF Insert, Write
    <2>4. users'[i] = row
        BY <2>3
    <2> QED
        BY <2>4
<1>5. CASE Quiescent \/ UNCHANGED vars
    BY <1>5 DEF Quiescent, vars
<1> QED
    BY <1>1, <1>2, <1>3, <1>4, <1>5 DEF Next

LEMMA NamesBesideStep == IInv /\ PastIsOver /\ NamesBeside /\ [Next]_vars => NamesBeside'
<1> SUFFICES ASSUME IInv, PastIsOver, NamesBeside, [Next]_vars PROVE NamesBeside'
    OBVIOUS
<1>0. TypeOK /\ Asked /\ TargetLoaded /\ TrailEnded
    BY DEF IInv
<1>1. ASSUME NEW i \in Ids, trail[i].created # None
      PROVE  trail[i].created \in Requests /\ pc[trail[i].created] = "ok"
    BY <1>0, <1>1 DEF TypeOK, TrailEnded, Deeds
<1>2. ASSUME NEW r \in Requests, pc'[r] = "checked", ask'[r].op \in {"create_user", "seed"},
             NEW i \in Ids, users'[i].stored, Lower[users'[i].username] = Lower[ask'[r].username]
      PROVE  CreatedBesideAfter(i, r)
    <2>1. pc[r] # "idle" /\ ask'[r] = ask[r]
        BY <1>0, <1>2, StepFrame DEF Acting
    <2>2. CASE pc[r] # "checked"
        <3>1. UNCHANGED <<users, trail>> /\ Matching(ask[r].username) = {}
            BY <1>0, <1>2, <2>1, <2>2, StepFrame, StepStage DEF Acting
        <3> QED
            BY <1>2, <2>1, <3>1 DEF Matching
    <2>3. CASE pc[r] = "checked"
        <3>1. CASE users[i].stored /\ users'[i].username = users[i].username
                   /\ trail'[i].created = trail[i].created
            <4>1. trail[i].created # None /\ Overlap(trail[i].created, r)
                BY <1>2, <2>1, <2>3, <3>1 DEF NamesBeside, SameName, CreatedBeside
            <4> QED
                BY <1>0, <1>1, <2>3, <3>1, <4>1, OverlapStays DEF CreatedBesideAfter
        <3>2. ASSUME NEW q \in Requests, pc[q] = "checked", trail'[i].created = q, pc'[q] = "ok"
              PROVE  CreatedBesideAfter(i, r)
            <4>1. Overlap(q, r) /\ q # None
                BY <1>0, <1>2, <2>3, <3>2, Beside, NameAssumption DEF Overlap, Ended
            <4> QED
                BY <1>0, <2>3, <3>2, <4>1, OverlapStays DEF CreatedBesideAfter
        <3> QED
            BY <1>2, <3>1, <3>2, StepNamed
    <2> QED
        BY <2>2, <2>3
<1>3. ASSUME NEW r \in Requests, pc[r] # "idle", NEW i \in Ids, SameName(i, ask[r].username),
             users[i].role = "super_admin" \/ CreatedBeside(i, r)
      PROVE  /\ users'[i].stored /\ Lower[users'[i].username] = Lower[ask[r].username]
             /\ \/ users'[i].role = "super_admin"
                \/ CreatedBesideAfter(i, r)
    <2>1. ask'[r] = ask[r] /\ users'[i].stored /\ users'[i].username = users[i].username
          /\ trail'[i].created = trail[i].created
          /\ (users[i].role = "super_admin" => users'[i].role = "super_admin")
        BY <1>0, <1>3, StepFrame, NamesStay, RowsStay DEF SameName
    <2>2. CreatedBeside(i, r) => OverlapAfter(trail[i].created, r)
        BY <1>0, <1>1, <1>3, OverlapStays DEF CreatedBeside
    <2> QED
        BY <1>3, <2>1, <2>2 DEF SameName, CreatedBeside, CreatedBesideAfter
<1>4. ASSUME NEW r \in Requests, pc'[r] = "ok", ask'[r].op = "seed"
      PROVE  \E i \in Ids :
                /\ users'[i].stored /\ Lower[users'[i].username] = Lower[ask[r].username]
                /\ \/ users'[i].role = "super_admin"
                   \/ CreatedBesideAfter(i, r)
    <2>1. pc[r] # "idle" /\ ask'[r] = ask[r]
        BY <1>0, <1>4, StepFrame
    <2>2. CASE pc[r] = "ok"
        <3>1. PICK i \in Matching(ask[r].username) :
                 users[i].role = "super_admin" \/ CreatedBeside(i, r)
            BY <1>4, <2>1, <2>2 DEF NamesBeside, ConfiguredAdminSeeded, CreatedBeside
        <3> QED
            BY <1>3, <2>1, <3>1 DEF Matching, SameName
    <2>3. CASE pc[r] # "ok" /\ pc[r] # "checked"
        <3>1. PICK i \in Matching(ask[r].username) : users[i].role = "super_admin"
            BY <1>0, <1>4, <2>3, StepServed
        <3> QED
            BY <1>3, <2>1, <3>1 DEF Matching, SameName
    <2>4. CASE pc[r] = "checked"
        <3>1. CASE Taken(ask[r].username)
            <4>1. PICK i \in Ids : SameName(i, ask[r].username)
                BY <3>1 DEF Taken, SameName
            <4> QED
                BY <1>3, <1>4, <2>1, <2>4, <4>1 DEF NamesBeside
        <3>2. ASSUME ~Taken(ask[r].username)
              PROVE  \E i \in Ids : /\ users'[i].stored /\ users'[i].username = ask[r].username
                                     /\ users'[i].role = "super_admin"
            BY <1>0, <1>4, <2>1, <2>4, <3>2, StepSeeded
        <3> QED
            BY <3>1, <3>2 DEF Matching
    <2> QED
        BY <2>2, <2>3, <2>4
<1> QED
    <2>1. ASSUME NEW r \in Requests, pc'[r] = "ok", ask'[r].op = "seed" PROVE ask'[r] = ask[r]
        BY <1>0, <2>1, StepFrame
    <2> QED
        BY <1>2, <1>4, <2>1 DEF NamesBeside, SameName, CreatedBeside, ConfiguredAdminSeeded, Matching,
                                Overlap, OverlapAfter, CreatedBesideAfter

LEMMA NamesClashStep ==
    IInv /\ PastIsOver /\ NamesBeside /\ NamesClashOnlyByOverlap /\ [Next]_vars
        => NamesClashOnlyByOverlap'
<1> SUFFICES ASSUME IInv, PastIsOver, NamesBeside, NamesClashOnlyByOverlap, [Next]_vars,
                    NEW i \in Ids, NEW j \in Ids, i # j, users'[i].stored, users'[j].stored,
                    Lower[users'[i].username] = Lower[users'[j].username]
             PROVE  /\ trail'[i].created # None /\ trail'[j].created # None
                    /\ users'[i].username # users'[j].username
                    /\ OverlapAfter(trail'[i].created, trail'[j].created)
    BY DEF NamesClashOnlyByOverlap, Overlap, OverlapAfter
<1>0. TypeOK /\ TrailEnded
    BY DEF IInv
<1>1. ASSUME NEW k \in Ids, trail[k].created # None
      PROVE  trail[k].created \in Requests /\ pc[trail[k].created] = "ok"
    <2>1. "created" \in Deeds /\ trail[k]["created"] # None
        BY <1>1 DEF Deeds
    <2>2. trail[k]["created"] \in Requests
        BY <1>0, <1>1, <2>1 DEF TypeOK
    <2>3. pc[trail[k]["created"]] = "ok"
        BY <1>0, <1>1, <2>1 DEF TrailEnded
    <2> QED
        BY <2>2, <2>3
\* A row that is new beside one that is there.
<1>2. ASSUME NEW k \in Ids, NEW l \in Ids, k # l, ~users[k].stored, users[l].stored,
             users'[k].stored, Lower[users'[k].username] = Lower[users'[l].username]
      PROVE  /\ trail'[k].created # None /\ trail'[l].created # None
             /\ users'[k].username # users'[l].username
             /\ trail'[k].created # trail'[l].created
             /\ trail'[k].created \notin before'[trail'[l].created]
             /\ trail'[l].created \notin before'[trail'[k].created]
    <2>1. PICK q \in Requests :
             /\ pc[q] = "checked" /\ ask[q].op \in {"create_user", "seed"}
             /\ trail'[k].created = q /\ users'[k].username = ask[q].username
             /\ ~Taken(ask[q].username)
             /\ \A m \in Ids \ {k} : users'[m] = users[m] /\ trail'[m] = trail[m]
        BY <1>2, StepNamed
    <2>2. users'[l] = users[l] /\ trail'[l] = trail[l] /\ q # None
        BY <1>2, <2>1, NameAssumption
    <2>3. users[l].username # ask[q].username
        BY <1>2, <2>1 DEF Taken
    <2>4. trail[l].created # None /\ Overlap(trail[l].created, q)
        BY <1>2, <2>1, <2>2 DEF NamesBeside, SameName, CreatedBeside
    <2>5. OverlapAfter(trail[l].created, q)
        BY <1>0, <1>1, <2>1, <2>4, OverlapStays
    <2> QED
        BY <2>1, <2>2, <2>3, <2>4, <2>5 DEF OverlapAfter
<1>3. CASE users[i].stored /\ users[j].stored
    <2>1. /\ users'[i].username = users[i].username /\ trail'[i].created = trail[i].created
          /\ users'[j].username = users[j].username /\ trail'[j].created = trail[j].created
        BY <1>0, <1>3, NamesStay DEF IInv
    <2>2. /\ trail[i].created # None /\ trail[j].created # None
          /\ users[i].username # users[j].username
          /\ Overlap(trail[i].created, trail[j].created)
        BY <1>3, <2>1 DEF NamesClashOnlyByOverlap
    <2>3. OverlapAfter(trail[i].created, trail[j].created)
        BY <1>0, <1>1, <2>2, OverlapStays
    <2> QED
        BY <2>1, <2>2, <2>3
<1>4. CASE ~users[i].stored /\ users[j].stored
    BY <1>2, <1>4 DEF OverlapAfter
<1>5. CASE users[i].stored /\ ~users[j].stored
    BY <1>2, <1>5 DEF OverlapAfter
<1>6. users[i].stored \/ users[j].stored
    BY StepNamed
<1> QED
    BY <1>3, <1>4, <1>5, <1>6
-----------------------------------------------------------------------------
(* Passwords. *)

\* A login that is going to rehash.
Rehashing(r, i) ==
    pc[r] = "checked" /\ ask[r].op = "login" /\ target[r].id = i /\ target[r].row.outdated

\* Logins about to rehash one account all found the same password, which is the one
\* behind the hash still, or a password change ran beside them.
RehashesAgree ==
    /\ \A r \in Requests, i \in Ids : Rehashing(r, i) =>
          /\ users[i].outdated => users[i].password = ask[r].password
          /\ users[i].password = ask[r].password \/ ChangedBeside(i, r)
    /\ \A q, r \in Requests, i \in Ids : Rehashing(q, i) /\ Rehashing(r, i) =>
          ask[q].password = ask[r].password

\* A password change judges the password in the copy it has loaded, which is the one
\* behind the hash still, or another change or a login ran beside it.
PasswordsKnown ==
    \A r \in Requests : pc[r] \in Acting /\ ask[r].op = "change_password" =>
        /\ pc[r] = "checked" =>
              target[r].id = ask[r].actor /\ actor[r].password = ask[r].password
        /\ \/ users[ask[r].actor].password = actor[r].password
           \/ ChangedBeside(ask[r].actor, r) \/ LoggedInBeside(ask[r].actor, r)

\* A step leaves the hash of a stored row alone, or a login or password change of
\* that account replaces it by an up-to-date one of its own password.
LEMMA StepHash ==
    ASSUME TypeOK, Asked, TargetLoaded, [Next]_vars, NEW i \in Ids, users[i].stored
    PROVE  \/ users'[i].password = users[i].password /\ users'[i].outdated = users[i].outdated
           \/ \E q \in Requests :
                 /\ pc[q] = "checked" /\ pc'[q] = "ok" /\ target[q].id = i /\ ~users'[i].outdated
                 /\ \/ Rehashing(q, i) /\ users'[i].password = ask[q].password
                    \/ /\ ask[q].op = "change_password"
                       /\ users'[i].password = ask[q].new_password
<1>1. ASSUME NEW q \in Requests, NEW row \in Row, NEW deed \in Deeds, pc[q] = "checked",
             Due(q, i, row, deed), users'[i] = row
      PROVE  \/ users'[i].password = users[i].password /\ users'[i].outdated = users[i].outdated
             \/ /\ target[q].id = i /\ ~users'[i].outdated
                /\ \/ Rehashing(q, i) /\ users'[i].password = ask[q].password
                   \/ /\ ask[q].op = "change_password"
                      /\ users'[i].password = ask[q].new_password
    <2>1. ask[q].op \in OnAccount /\ i = target[q].id /\ Rehashed(q, i, row)
        BY <1>1 DEF Due
    <2>2. CASE ask[q].op = "login"
        BY <1>1, <2>1, <2>2 DEF Rehashed, Rehashing
    <2>3. CASE ask[q].op = "change_password"
        BY <1>1, <2>1, <2>3 DEF Rehashed
    <2>4. CASE ask[q].op \notin {"login", "change_password"}
        BY <1>1, <2>1, <2>4 DEF Rehashed
    <2> QED
        BY <2>2, <2>3, <2>4
<1> QED
    BY <1>1, StepRow

\* Who is about to rehash either was before the step or has just found the password.
LEMMA StepRehashing ==
    ASSUME TypeOK, Asked, [Next]_vars, NEW r \in Requests, NEW i \in Ids, Rehashing(r, i)'
    PROVE  /\ pc[r] # "idle" /\ ask'[r] = ask[r]
           /\ \/ Rehashing(r, i)
              \/ /\ UNCHANGED <<users, trail>> /\ users[i].stored /\ users[i].outdated
                 /\ users[i].password = ask[r].password
<1>1. pc'[r] = "checked" /\ ask'[r].op = "login" /\ target'[r].id = i /\ target'[r].row.outdated
    BY DEF Rehashing
<1>2. pc[r] # "idle" /\ ask'[r] = ask[r]
    BY <1>1, StepFrame
<1>3. CASE pc[r] = "checked"
    BY <1>1, <1>2, <1>3, StepFrame DEF Rehashing
<1>4. CASE pc[r] # "checked"
    <2>1. UNCHANGED <<users, trail>> /\ LoginChecked(r, target'[r])
        BY <1>1, <1>2, <1>4, StepFrame, StepStage DEF Acting
    <2> QED
        BY <1>1, <1>2, <2>1 DEF LoginChecked
<1> QED
    BY <1>2, <1>3, <1>4

\* What was served beside a request was so for good.
LEMMA BesideStays ==
    ASSUME TypeOK, [Next]_vars, NEW r \in Requests, NEW i \in Ids, pc[r] # "idle"
    PROVE  /\ ChangedBeside(i, r) => ChangedBeside(i, r)'
           /\ LoggedInBeside(i, r) => LoggedInBeside(i, r)'
<1>1. ASSUME NEW c \in Requests, pc[c] = "ok", Overlap(c, r)
      PROVE  /\ pc'[c] = "ok" /\ ask'[c] = ask[c] /\ target'[c] = target[c]
             /\ Overlap(c, r)'
    <2>1. pc'[c] = "ok" /\ ask'[c] = ask[c] /\ target'[c] = target[c] /\ OverlapAfter(c, r)
        BY <1>1, StepFrame, OverlapStays DEF Ended
    <2> QED
        BY <2>1 DEF Overlap, OverlapAfter
<1> QED
    BY <1>1 DEF ChangedBeside, LoggedInBeside

\* Who is served while a request is at work is served beside it.
LEMMA ServedBeside ==
    ASSUME TypeOK, PastIsOver, [Next]_vars, NEW q \in Requests, NEW r \in Requests,
           NEW i \in Ids, q # r, pc[r] \in Acting, pc[q] = "checked", pc'[q] = "ok"
    PROVE  /\ ask[q].op = "change_password" /\ ask[q].actor = i => ChangedBeside(i, r)'
           /\ ask[q].op = "login" /\ target[q].id = i => LoggedInBeside(i, r)'
<1>1. Overlap(q, r)
    BY Beside DEF Overlap, Acting, Ended
<1>2. ask'[q] = ask[q] /\ target'[q] = target[q] /\ OverlapAfter(q, r)
    BY <1>1, StepFrame, OverlapStays DEF Acting
<1> QED
    BY <1>2 DEF ChangedBeside, LoggedInBeside, Overlap, OverlapAfter

LEMMA PasswordsKnownStep == IInv /\ PastIsOver /\ PasswordsKnown /\ [Next]_vars => PasswordsKnown'
<1> SUFFICES ASSUME IInv, PastIsOver, PasswordsKnown, [Next]_vars, NEW r \in Requests,
                    pc'[r] \in Acting, ask'[r].op = "change_password"
             PROVE  /\ pc'[r] = "checked" =>
                          target'[r].id = ask'[r].actor /\ actor'[r].password = ask'[r].password
                    /\ \/ users'[ask'[r].actor].password = actor'[r].password
                       \/ ChangedBeside(ask[r].actor, r)' \/ LoggedInBeside(ask[r].actor, r)'
    BY DEF PasswordsKnown
<1>0. TypeOK /\ Asked /\ TargetLoaded /\ pc[r] # "idle" /\ ask'[r] = ask[r]
    BY StepFrame DEF IInv, Acting
<1> DEFINE i == ask[r].actor
<1>1. i \in Ids
    BY <1>0, AskAssumption DEF Asked, AskForms
<1>2. CASE pc'[r] # pc[r] /\ pc'[r] = "authorised"
    BY <1>0, <1>2, StepStage, StepFrame DEF Acting
<1>3. CASE pc'[r] # pc[r] /\ pc'[r] = "checked"
    <2>1. /\ pc[r] = "authorised" /\ actor'[r] = actor[r] /\ users' = users
          /\ target'[r].id = i /\ actor[r].password = ask[r].password
        BY <1>0, <1>3, StepStage, StepFrame DEF Acting
    <2> QED
        BY <1>0, <1>1, <2>1, BesideStays DEF PasswordsKnown, Acting
<1>4. CASE pc'[r] = pc[r]
    <2>1. actor'[r] = actor[r] /\ target'[r] = target[r] /\ users[i].stored
        BY <1>0, <1>4, StepFrame DEF IInv, ActorLoaded
    <2>2. CASE users'[i].password = users[i].password
        BY <1>0, <1>1, <1>4, <2>1, <2>2, BesideStays DEF PasswordsKnown
    <2>3. ASSUME NEW q \in Requests, pc[q] = "checked", pc'[q] = "ok", target[q].id = i,
                 Rehashing(q, i) \/ ask[q].op = "change_password"
          PROVE  ChangedBeside(i, r)' \/ LoggedInBeside(i, r)'
        <3>1. q # r
            BY <2>3 DEF Acting
        <3>2. CASE Rehashing(q, i)
            BY <1>0, <1>1, <1>4, <2>3, <3>1, <3>2, ServedBeside DEF Rehashing
        <3>3. CASE ask[q].op = "change_password"
            <4>1. ask[q].actor = i
                BY <2>3, <3>3 DEF PasswordsKnown, Acting
            <4> QED
                BY <1>0, <1>1, <1>4, <2>3, <3>1, <3>3, <4>1, ServedBeside
        <3> QED
            BY <2>3, <3>2, <3>3
    <2>4. CASE users'[i].password # users[i].password
        BY <1>0, <1>1, <1>4, <2>1, <2>3, <2>4, StepHash DEF PasswordsKnown
    <2> QED
        BY <2>2, <2>4
<1> QED
    BY <1>2, <1>3, <1>4 DEF Acting

LEMMA RehashesAgreeStep ==
    IInv /\ PastIsOver /\ PasswordsKnown /\ RehashesAgree /\ [Next]_vars => RehashesAgree'
<1> SUFFICES ASSUME IInv, PastIsOver, PasswordsKnown, RehashesAgree, [Next]_vars
             PROVE  RehashesAgree'
    OBVIOUS
<1>0. TypeOK /\ Asked /\ TargetLoaded
    BY DEF IInv
<1>1. ASSUME NEW r \in Requests, NEW i \in Ids, Rehashing(r, i)'
      PROVE  /\ users'[i].outdated => users'[i].password = ask'[r].password
             /\ users'[i].password = ask'[r].password \/ ChangedBeside(i, r)'
    <2>1. /\ pc[r] # "idle" /\ ask'[r] = ask[r]
          /\ \/ Rehashing(r, i)
             \/ /\ UNCHANGED <<users, trail>> /\ users[i].stored /\ users[i].outdated
                /\ users[i].password = ask[r].password
        BY <1>0, <1>1, StepRehashing
    <2>2. CASE ~Rehashing(r, i)
        BY <2>1, <2>2
    <2>3. CASE Rehashing(r, i)
        <3>1. users[i].stored
            BY <1>0, <2>3 DEF TargetLoaded, Rehashing, OnAccount
        <3>2. CASE users'[i].password = users[i].password /\ users'[i].outdated = users[i].outdated
            BY <1>0, <2>1, <2>3, <3>2, BesideStays DEF RehashesAgree
        <3>3. ASSUME NEW q \in Requests, ~users'[i].outdated, Rehashing(q, i),
                     users'[i].password = ask[q].password
              PROVE  users'[i].password = ask'[r].password /\ ~users'[i].outdated
            BY <2>1, <2>3, <3>3 DEF RehashesAgree
        <3>4. ASSUME NEW q \in Requests, ~users'[i].outdated, pc[q] = "checked", pc'[q] = "ok",
                     target[q].id = i, ask[q].op = "change_password"
              PROVE  ~users'[i].outdated /\ ChangedBeside(i, r)'
            <4>1. ask[q].actor = i /\ q # r /\ pc[r] \in Acting
                BY <2>3, <3>4 DEF PasswordsKnown, Rehashing, Acting
            <4> QED
                BY <1>0, <3>4, <4>1, ServedBeside
        <3> QED
            BY <1>0, <3>1, <3>2, <3>3, <3>4, StepHash
    <2> QED
        BY <2>2, <2>3
<1>2. ASSUME NEW q \in Requests, NEW r \in Requests, NEW i \in Ids,
             Rehashing(q, i)', Rehashing(r, i)'
      PROVE  ask'[q].password = ask'[r].password
    BY <1>0, <1>2, StepRehashing DEF RehashesAgree
<1> QED
    BY <1>1, <1>2 DEF RehashesAgree

LEMMA PasswordStep ==
    ASSUME IInv, PasswordsKnown, RehashesAgree, [Next]_vars,
           NEW i \in Ids, users[i].stored, users'[i].password # users[i].password
    PROVE  \E w \in Requests :
              /\ pc[w] = "checked" /\ pc'[w] = "ok"
              /\ \/ /\ ask[w].op = "change_password" /\ ask[w].actor = i
                    /\ users'[i].password = ask[w].new_password
                    /\ \/ users[i].password = ask[w].password
                       \/ ChangedBeside(i, w) \/ LoggedInBeside(i, w)
                 \/ /\ ask[w].op = "login" /\ target[w].id = i
                    /\ users'[i].password = ask[w].password
                    /\ ChangedBeside(i, w)
<1>1. PICK q \in Requests :
         /\ pc[q] = "checked" /\ pc'[q] = "ok" /\ target[q].id = i
         /\ \/ Rehashing(q, i) /\ users'[i].password = ask[q].password
            \/ ask[q].op = "change_password" /\ users'[i].password = ask[q].new_password
    BY StepHash DEF IInv
<1>2. CASE Rehashing(q, i) /\ users'[i].password = ask[q].password
    <2>1. ChangedBeside(i, q) /\ ask[q].op = "login"
        BY <1>2 DEF RehashesAgree, Rehashing
    <2> QED
        BY <1>1, <1>2, <2>1
<1>3. CASE ask[q].op = "change_password" /\ users'[i].password = ask[q].new_password
    <2>1. ask[q].actor = i /\ \/ users[i].password = ask[q].password
                              \/ ChangedBeside(i, q) \/ LoggedInBeside(i, q)
        BY <1>1, <1>3 DEF PasswordsKnown, Acting
    <2> QED
        BY <1>1, <1>3, <2>1
<1> QED
    BY <1>1, <1>2, <1>3

-----------------------------------------------------------------------------
(* The theorems about requests that run beside one another. *)

Spellings(table) ==
    \A i, j \in Ids : i # j /\ table[i].stored /\ table[j].stored =>
        Lower[table[i].username] # Lower[table[j].username]

BesideInv == /\ IInv /\ PastIsOver
             /\ ServedActive /\ ToggleJudged /\ AdminToggledBySuperAdminOrOverlap
             /\ NamesBeside /\ PasswordsKnown /\ RehashesAgree

LEMMA BesideInvHolds == Spec => []BesideInv
<1>1. Init => PastIsOver /\ ServedActive /\ ToggleJudged /\ AdminToggledBySuperAdminOrOverlap
    BY DEF Init, PastIsOver, ServedActive, ToggleJudged, AdminToggledBySuperAdminOrOverlap,
           Acting, Deeds
<1>2. Init => NamesBeside /\ PasswordsKnown /\ RehashesAgree
    BY DEF Init, NamesBeside, ConfiguredAdminSeeded, PasswordsKnown, Acting, RehashesAgree, Rehashing
<1>3. IInv /\ BesideInv /\ [Next]_vars /\ IInv' => BesideInv'
    BY PastIsOverStep, ServedActiveStep, ToggleJudgedStep, AdminToggledStep, NamesBesideStep,
       PasswordsKnownStep, RehashesAgreeStep DEF BesideInv, IInv
<1>4. Init /\ IInv => BesideInv
    BY <1>1, <1>2 DEF BesideInv
<1> QED
    BY <1>3, <1>4, IInvHolds, PTL DEF Spec

\* Nobody is served on an account that was switched off before the request began
\* (verify_token and authenticate read the account).
THEOREM DeactivatedAreOut == Spec => []DeactivatedStayOut
<1>1. BesideInv => DeactivatedStayOut
    BY DEF BesideInv, ServedActive, DeactivatedStayOut, Acting
<1> QED
    BY <1>1, BesideInvHolds, PTL

\* Who toggled an admin last was a super_admin, or had begun before the promotion
\* that made the account an admin was over (UserAdminService.set_active).
THEOREM AdminsAreToggledFromAbove == Spec => []AdminToggledBySuperAdminOrOverlap
<1>1. BesideInv => AdminToggledBySuperAdminOrOverlap
    BY DEF BesideInv
<1> QED
    BY <1>1, BesideInvHolds, PTL

\* A container that got through its seed finds the configured name with a
\* super_admin, or with an account created beside the seed (seed_super_admin).
THEOREM SeedLeavesAnAdmin == Spec => []ConfiguredAdminSeeded
<1>1. BesideInv => ConfiguredAdminSeeded
    BY DEF BesideInv, NamesBeside
<1> QED
    BY <1>1, BesideInvHolds, PTL

\* On a table where no two names differ only in case, two such names can come only
\* from creations that overlapped (get_by_username and the unique constraint).
THEOREM NamesClashBeside ==
    ASSUME \A table \in Rosters : Spellings(table)
    PROVE  Spec => []NamesClashOnlyByOverlap
<1>1. Init => NamesClashOnlyByOverlap
    BY DEF Init, Spellings, NamesClashOnlyByOverlap
<1>2. BesideInv /\ NamesClashOnlyByOverlap /\ [Next]_vars => NamesClashOnlyByOverlap'
    BY NamesClashStep DEF BesideInv
<1> QED
    BY <1>1, <1>2, BesideInvHolds, PTL DEF Spec

\* The plain password behind a hash becomes the new one of a password change of that
\* account, which knew the old one or ran beside another; or that of a login to the
\* account, whose rehash a password change of it ran beside (AuthService).
THEOREM PasswordsRevertBeside == Spec => PasswordRevertedOnlyByOverlap
<1> DEFINE Reverted ==
        \A i \in Ids : users[i].stored /\ users'[i].password # users[i].password =>
          \E w \in Requests :
              /\ pc[w] = "checked" /\ pc'[w] = "ok"
              /\ \/ /\ ask[w].op = "change_password" /\ ask[w].actor = i
                    /\ users'[i].password = ask[w].new_password
                    /\ \/ users[i].password = ask[w].password
                       \/ ChangedBeside(i, w) \/ LoggedInBeside(i, w)
                 \/ /\ ask[w].op = "login" /\ target[w].id = i
                    /\ users'[i].password = ask[w].password
                    /\ ChangedBeside(i, w)
<1>1. BesideInv /\ [Next]_vars => [Reverted]_vars
    BY PasswordStep DEF BesideInv
<1> QED
    BY <1>1, BesideInvHolds, PTL DEF Spec, PasswordRevertedOnlyByOverlap, Reverted
==============================================================================
