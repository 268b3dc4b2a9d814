\* Three requests or container starts on a fresh and on an established database:
\* all administration, or all around the credentials of one account.
SPECIFICATION Spec
CONSTANTS
    sa = sa
    ad = ad
    us = us
    n1 = n1
    n2 = n2
    Ids = {sa, ad, us, n1, n2}
    Names <- MCNames
    Lower <- MCLower
    Passwords = {"old", "new", "newer"}
    Requests = {r1, r2, r3}
    Asks <- MCAsks
    Rosters <- MCRosters
    None = None
SYMMETRY Symmetry
CONSTRAINT OneKind
INVARIANTS
    TypeOK
    AlwaysASuperAdmin
    PrivilegeNeedsSuperAdmin
    AdminToggledBySuperAdminOrOverlap
    NamesClashOnlyByOverlap
    ConfiguredAdminSeeded
    DeactivatedStayOut
PROPERTY
    PasswordRevertedOnlyByOverlap
