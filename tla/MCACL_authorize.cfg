\* Password required; two connections authenticating, changing and deleting
\* user u1 and running commands.
CONSTANTS
    a = a
    b = b
    d = d
    u1 = u1
    u2 = u2
    p1 = p1
    p2 = p2
    k1 = k1
    k2 = k2
    ch = ch
    None = None
    Conns <- MCConns
    Names <- MCNames
    Default = d
    Secrets <- MCSecrets
    Profiles <- MCProfiles
    Requests <- MCRequests
    RequirePass = TRUE
    ConfigPassword = p1
SPECIFICATION Spec
PROPERTY AuthorizeMatchesSpec
