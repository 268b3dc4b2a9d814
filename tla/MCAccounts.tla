----------------------------- MODULE MCAccounts ------------------------------
(* An instance of Accounts for TLC. *)
EXTENDS Accounts, TLC

CONSTANTS sa, ad, us, n1, n2

MCNames == {"root", "ann", "amy", "bob", "Bob"}
MCLower == [n \in MCNames |-> IF n = "Bob" THEN "bob" ELSE n]

Account(name, role, outdated) ==
    [stored |-> TRUE, username |-> name, role |-> role, is_active |-> TRUE,
     password |-> "old", outdated |-> outdated]

\* A fresh database, and one with a super_admin, an admin and a user whose hash is
\* due for a rehash.
MCRosters ==
    { [i \in Ids |-> NoRow],
      [i \in Ids |-> CASE i = sa -> Account("root", "super_admin", FALSE)
                       [] i = ad -> Account("ann", "admin", FALSE)
                       [] i = us -> Account("amy", "user", TRUE)
                       [] OTHER -> NoRow] }

Ask(op, by, on) ==
    [op |-> op, actor |-> by, target |-> on, username |-> "amy", role |-> "user",
     is_active |-> FALSE, password |-> "old", new_password |-> "new"]

Create(by, name, role) == [Ask("create_user", by, by) EXCEPT !.username = name, !.role = role]

\* Administration and container starts.
AdminAsks ==
    { Create(ad, "bob", "user"), Create(ad, "Bob", "user"),
      Create(ad, "bob", "admin"), Create(sa, "bob", "admin"), Create(sa, "bob", "super_admin"),
      Ask("set_active", ad, us), Ask("set_active", sa, ad), Ask("set_active", ad, sa), Ask("set_active", ad, ad),
      Ask("promote", sa, us),
      [Ask("seed", sa, sa) EXCEPT !.username = "root"],
      [Ask("seed", sa, sa) EXCEPT !.username = "bob"] }

\* What touches or needs the account of one user.
CredentialAsks ==
    { Ask("login", us, us),
      [Ask("login", us, us) EXCEPT !.password = "new"],
      Ask("change_password", us, us),
      [Ask("change_password", us, us) EXCEPT !.new_password = "newer"],
      [Ask("change_password", us, us) EXCEPT !.password = "new", !.new_password = "newer"],
      Ask("set_active", ad, us),
      [Ask("set_active", ad, us) EXCEPT !.is_active = TRUE],
      Ask("promote", sa, us) }

MCAsks == AdminAsks \cup CredentialAsks

\* The requests of one behaviour are all of one kind or all of the other.
OneKind ==
    LET made == {ask[r] : r \in Requests} \ {None}
    IN  made \subseteq AdminAsks \/ made \subseteq CredentialAsks

\* n1 and n2 are unused ids that no request names.
Symmetry == {p @@ q : p \in Permutations(Requests), q \in Permutations({n1, n2})}
==============================================================================
