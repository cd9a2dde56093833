------------------------------- MODULE MCACL -------------------------------
(* Model-checking instance of ACL: two connections, the default user and  *)
(* two other names, two passwords, and the requests a connection may send. *)
EXTENDS ACL, CommandTable

CONSTANTS a, b, d, u1, u2, p1, p2, k1, k2, ch

MCConns == {a, b}
MCNames == {d, u1, u2}
MCSecrets == {p1, p2}

\* A user who may run read commands on k1 only, with password p2.
Reader ==
    [AllowAll EXCEPT !.nopass = FALSE, !.passwords = {p2},
                     !.inCats = {"read"}, !.inKeys = {k1}, !.writeKeys = {},
                     !.inChans = {}]

\* A disabled user with password p2.
Disabled == [AllowAll EXCEPT !.enabled = FALSE, !.nopass = FALSE, !.passwords = {p2}]

MCProfiles == {Reader, Disabled}

\* A command descriptor: name, categories, the keys (or channels) its key
\* extraction function returns.
Cm(n, cats, keys) == [name |-> n, cats |-> cats, keys |-> keys]

Rq(kind, cmd, args, profile) == [kind |-> kind, cmd |-> cmd, args |-> args, profile |-> profile]

\* A command of the older set module as its descriptor presents it to
\* AuthorizeConnection: its (empty) categories and the keys its
\* KeyExtractionFunc returns for the arguments.
OlderCmd(n, args) ==
    LET desc == SetModuleCommands[n]
    IN Cm(n, desc.categories, ExtractKeys(desc.keyFunc, <<n>> \o args).keys)

AuthCmd == Cm("auth", {"connection"}, <<>>)
AdminCmd(n) == Cm(n, {"admin", "slow", "dangerous"}, <<>>)

MCRequests ==
    { Rq("auth", AuthCmd, <<p1>>, AllowAll),
      Rq("auth", AuthCmd, <<u1, p2>>, AllowAll),
      Rq("cmd", Cm("get", {"read", "fast"}, <<k1>>), <<>>, AllowAll),
      Rq("cmd", Cm("mget", {"read", "fast"}, <<k2, k1>>), <<>>, AllowAll),
      Rq("cmd", Cm("set", {"write", "slow"}, <<k1>>), <<>>, AllowAll),
      Rq("cmd", Cm("subscribe", {"pubsub"}, <<ch>>), <<>>, AllowAll),
      Rq("cmd", OlderCmd("smembers", <<k1>>), <<>>, AllowAll),
      Rq("setuser", AdminCmd("acl|setuser"), <<u1>>, Reader),
      Rq("setuser", AdminCmd("acl|setuser"), <<u1>>, Disabled),
      Rq("setuser", AdminCmd("acl|setuser"), <<u2>>, Reader),
      Rq("auth", AuthCmd, <<u2, p2>>, AllowAll),
      Rq("deluser", AdminCmd("acl|deluser"), <<u1, u2>>, AllowAll),
      Rq("deluser", AdminCmd("acl|deluser"), <<d, u1>>, AllowAll) }

====
