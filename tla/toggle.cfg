\* An admin's toggle overtakes the promotion of its target.
SPECIFICATION Spec
CONSTANTS
    sa = sa
    ad = ad
    us = us
    n1 = n1
    n2 = n2
    Ids = {sa, ad, us, n1, n2}
    Names <- MCNames
    Lower <- MCLower
    Passwords = {"old", "new"}
    Requests = {r1, r2}
    Asks <- AdminAsks
    Rosters <- MCRosters
    None = None
SYMMETRY Symmetry
PROPERTY
    AdminsDoNotToggleAdmins
