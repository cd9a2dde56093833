--------------------------------- MODULE ACL ---------------------------------
(* The access-control list of the server (the ACL type kept in             *)
(* src/src/modules/set/commant_test.go, lines 786-1175): its users, the    *)
(* connection table, and the calls the connection goroutines make on it:   *)
(* RegisterConnection when a connection is accepted, then per request the  *)
(* dispatcher's AuthorizeConnection followed by the handler, which for     *)
(* AUTH is AuthenticateConnection and for ACL SETUSER / DELUSER is SetUser *)
(* / DeleteUser.  The dispatcher and the ACL command handlers are not in   *)
(* the repository; their part follows spec.md §4.5-4.6.                   *)
(*                                                                         *)
(* A user is a record of its enabled flag, no-password flag, plaintext     *)
(* passwords and its inclusion / exclusion lists.  A connection's entry    *)
(* points at a User object: while the user is listed the pointer sees      *)
(* every SetUser of it (live); once DeleteUser unlists it, the pointer     *)
(* keeps the removed object, frozen.  A Go panic (nil dereference) ends    *)
(* the process: crashed.  acl.Connections is a Go map that connection     *)
(* goroutines write (RegisterConnection, AUTH) and read (every request's   *)
(* AuthorizeConnection, DELUSER's range) with no lock; a write is two      *)
(* steps, and an access that meets another goroutine's write in progress   *)
(* may make the runtime throw "concurrent map writes" (or "... read and    *)
(* map write"), which also ends the process.                               *)
EXTENDS Naturals, Sequences, FiniteSets

CONSTANTS
    Conns,          \* connection goroutines (handleConnection)
    Names,          \* user names
    Default,        \* the name "default"
    Secrets,        \* passwords
    Profiles,       \* user records ACL SETUSER may install
    Requests,       \* requests a connection may send
    RequirePass,    \* Config.RequirePass
    ConfigPassword, \* Config.Password
    None

\* No message read.
NoRequest == [kind |-> "none", cmd |-> [name |-> "none", cats |-> {}, keys |-> <<>>], args |-> <<>>, profile |-> None]

ASSUME Default \in Names /\ RequirePass \in BOOLEAN /\ ConfigPassword \in Secrets

VARIABLES
    users,     \* acl.Users: name -> user record, or None when not listed
    conns,     \* acl.Connections: [auth, name, live, frozen]
    deadline,  \* SetReadDeadline in the past was called on the connection
    pc,        \* "new", "registering", "idle" (in ReadMessage), "handling", "authChecking",
               \* "authWriting", "delStoring", "closed"
    req,       \* the request being handled
    authUser,  \* AuthenticateConnection's local user: [name, live, frozen]
    pending,   \* DeleteUser's filtered copy of acl.Users, not yet assigned
    crashed    \* a goroutine panicked

vars == <<users, conns, deadline, pc, req, authUser, pending, crashed>>

\* CreateUser (src/src/acl/acl.go): every inclusion list is "*".
AllowAll ==
    [enabled |-> TRUE, nopass |-> TRUE, passwords |-> {},
     inCats |-> {"*"}, exCats |-> {}, inCmds |-> {"*"}, exCmds |-> {},
     inKeys |-> {"*"}, readKeys |-> {"*"}, writeKeys |-> {"*"},
     inChans |-> {"*"}, exChans |-> {}]

\* The User object a pointer (a connection entry, or AUTH's local user)
\* sees: the listed user while it is listed, else the removed object.
Deref(ptr) == IF ptr.live THEN users[ptr.name] ELSE ptr.frozen

\* The User object connection c points at.
EffUser(c) == Deref(conns[c])

\* An inclusion or exclusion list names x: "*" or x itself.
Matches(list, x) == "*" \in list \/ x \in list

-----------------------------------------------------------------------------
(* AuthorizeConnection: the checks in the code's order; each early return *)
(* is a conjunct that must hold for the command to be allowed.            *)

\* slices.ContainsFunc(xs, f): some element of the sequence or set satisfies.
AnyKey(keys, list) == \E i \in 1..Len(keys) : Matches(list, keys[i])

AuthorizeConnection(u, auth, cmd) ==
    \/ cmd.name = "auth"
    \/ /\ ~(RequirePass /\ ~auth)
       /\ \E cat \in cmd.cats : Matches(u.inCats, cat)
       /\ ~\E cat \in cmd.cats : Matches(u.exCats, cat)
       /\ Matches(u.inCmds, cmd.name)
       /\ ~Matches(u.exCmds, cmd.name)
       /\ IF "pubsub" \in cmd.cats
          THEN /\ Matches(u.inChans, cmd.keys[1])
               /\ ~Matches(u.exChans, cmd.keys[1])
          ELSE /\ Len(cmd.keys) > 0 => AnyKey(cmd.keys, u.inKeys)
               /\ Len(cmd.keys) > 0 /\ "read" \in cmd.cats => AnyKey(cmd.keys, u.readKeys)
               /\ Len(cmd.keys) > 0 /\ "write" \in cmd.cats => AnyKey(cmd.keys, u.writeKeys)

\* spec.md §4.5 authorize: (a) authenticated if require_pass; (b) every
\* category allowed and none excluded; (c) command allowed and not
\* excluded; (d) every key in included_keys, and in the read / write lists
\* for read / write commands; (e) the channel of a pub/sub command allowed
\* and not excluded.  AUTH bypasses authorization.
SpecAuthorize(u, auth, cmd) ==
    LET keys == {cmd.keys[i] : i \in 1..Len(cmd.keys)} IN
    \/ cmd.name = "auth"
    \/ /\ RequirePass => auth
       /\ \A cat \in cmd.cats : Matches(u.inCats, cat) /\ ~Matches(u.exCats, cat)
       /\ Matches(u.inCmds, cmd.name) /\ ~Matches(u.exCmds, cmd.name)
       /\ IF "pubsub" \in cmd.cats
          THEN \A ch \in keys : Matches(u.inChans, ch) /\ ~Matches(u.exChans, ch)
          ELSE \A k \in keys :
                 /\ Matches(u.inKeys, k)
                 /\ "read" \in cmd.cats => Matches(u.readKeys, k)
                 /\ "write" \in cmd.cats => Matches(u.writeKeys, k)

-----------------------------------------------------------------------------
(* NewACL, with no ACL config file: the default user alone, with the      *)
(* configured password when RequirePass is set.                           *)

Init ==
    /\ users = [n \in Names |->
                  IF n = Default
                  THEN [AllowAll EXCEPT !.nopass = ~RequirePass,
                                        !.passwords = IF RequirePass THEN {ConfigPassword} ELSE {}]
                  ELSE None]
    /\ conns = [c \in Conns |-> [auth |-> FALSE, name |-> Default, live |-> TRUE, frozen |-> AllowAll]]
    /\ deadline = [c \in Conns |-> FALSE]
    /\ pc = [c \in Conns |-> "new"]
    /\ req = [c \in Conns |-> NoRequest]
    /\ authUser = [c \in Conns |-> [name |-> Default, live |-> TRUE, frozen |-> AllowAll]]
    /\ pending = [c \in Conns |-> [n \in Names |-> None]]
    /\ crashed = FALSE

Goto(c, l) == pc' = [pc EXCEPT ![c] = l]

\* Goroutine c is inside a write of acl.Connections (mapassign).
Writing(c) == pc[c] \in {"registering", "authWriting"}

\* The connection has its entry in acl.Connections.
Registered(c) == pc[c] \notin {"new", "registering"}

\* RegisterConnection: the connection starts as the default user,
\* authenticated when the default user has no password; the map write
\* starts.
RegisterConnection(c) ==
    /\ ~crashed /\ pc[c] = "new"
    /\ conns' = [conns EXCEPT ![c] = [@ EXCEPT !.auth = users[Default].nopass,
                                              !.name = Default, !.live = TRUE]]
    /\ Goto(c, "registering")
    /\ UNCHANGED <<users, deadline, req, authUser, crashed, pending>>

\* A write of acl.Connections (RegisterConnection's, or AUTH's) ends; the
\* goroutine goes back to its read loop.
MapWriteDone(c) ==
    /\ ~crashed /\ Writing(c)
    /\ Goto(c, "idle")
    /\ UNCHANGED <<users, conns, deadline, req, authUser, crashed, pending>>

\* A goroutine about to write acl.Connections (a new connection) or to read
\* it (a request's AuthorizeConnection) while another is inside a write:
\* the runtime may detect the race and throw.  Not detecting it is the
\* ordinary step.
ConcurrentMapAccess(c) ==
    /\ ~crashed /\ pc[c] \in {"new", "handling"}
    /\ \E d \in Conns \ {c} : Writing(d)
    /\ crashed' = TRUE
    /\ UNCHANGED <<users, conns, deadline, pc, req, authUser, pending>>

\* handleConnection's ReadMessage: a read deadline in the past fails the
\* read and the loop closes the connection; otherwise a request arrives.
ReadMessage(c) ==
    /\ ~crashed /\ pc[c] = "idle"
    /\ \/ /\ deadline[c]
          /\ Goto(c, "closed")
          /\ UNCHANGED req
       \/ /\ ~deadline[c]
          /\ \E r \in Requests : req' = [req EXCEPT ![c] = r]
          /\ Goto(c, "handling")
    /\ UNCHANGED <<users, conns, deadline, authUser, crashed, pending>>

-----------------------------------------------------------------------------
(* The handlers.  Each request is authorized first (spec.md §4.6 step 4), *)
(* then handled; the message is consumed.                                 *)

Authorized(c) == AuthorizeConnection(EffUser(c), conns[c].auth, req[c].cmd)

Decide(c) ==
    /\ ~crashed /\ pc[c] = "handling"
    /\ Goto(c, "idle")
    /\ req' = [req EXCEPT ![c] = NoRequest]

\* The dispatcher returns the authorization error.
Denied(c) ==
    /\ Decide(c) /\ ~Authorized(c)
    /\ UNCHANGED <<users, conns, deadline, authUser, crashed, pending>>

\* A data command: its handler works on the keyspace (Keyspace.tla).
Command(c) ==
    /\ Decide(c) /\ Authorized(c) /\ req[c].kind = "cmd"
    /\ UNCHANGED <<users, conns, deadline, authUser, crashed, pending>>

\* AuthenticateConnection, first part: AUTH <password> takes the default
\* user, AUTH <user> <password> searches acl.Users and fails when the name
\* is not listed.  The goroutine keeps a pointer to the User it found.
AuthLookup(c) ==
    LET args == req[c].args
        name == IF Len(args) = 1 THEN Default ELSE args[1]
    IN /\ ~crashed /\ pc[c] = "handling" /\ Authorized(c) /\ req[c].kind = "auth"
       /\ IF users[name] = None
          THEN /\ req' = [req EXCEPT ![c] = NoRequest]
               /\ Goto(c, "idle")
               /\ UNCHANGED authUser
          ELSE /\ authUser' = [authUser EXCEPT ![c] = [name |-> name, live |-> TRUE, frozen |-> AllowAll]]
               /\ Goto(c, "authChecking")
               /\ UNCHANGED req
       /\ UNCHANGED <<users, conns, deadline, crashed, pending>>

\* AuthenticateConnection, second part, on the User found: a disabled user
\* fails; a user with NoPassword or with the password given succeeds, and
\* the connection becomes that User, authenticated, through a write of
\* acl.Connections.  Every failure leaves the entry alone.
AuthCheck(c) ==
    LET args == req[c].args
        u    == Deref(authUser[c])
    IN /\ ~crashed /\ pc[c] = "authChecking"
       /\ req' = [req EXCEPT ![c] = NoRequest]
       /\ IF u.enabled /\ (u.nopass \/ args[Len(args)] \in u.passwords)
          THEN /\ conns' = [conns EXCEPT ![c] = [auth |-> TRUE, name |-> authUser[c].name,
                                              live |-> authUser[c].live, frozen |-> authUser[c].frozen]]
               /\ Goto(c, "authWriting")
          ELSE /\ Goto(c, "idle")
               /\ UNCHANGED conns
       /\ UNCHANGED <<users, deadline, authUser, crashed, pending>>

\* SetUser: UpdateUser of the listed user in place (every connection
\* pointing at it sees the change), or a new User appended to acl.Users.
SetUser(c) ==
    /\ Decide(c) /\ Authorized(c) /\ req[c].kind = "setuser"
    /\ users' = [users EXCEPT ![req[c].args[1]] = req[c].profile]
    /\ UNCHANGED <<conns, deadline, authUser, crashed, pending>>

\* Unlist user n in DeleteUser's local state: set a past read deadline on
\* every connection whose User has that name, and filter n out of the copy
\* of acl.Users (utils.Filter builds a new slice of the same pointers).
Unlist(st, n) ==
    [st EXCEPT
        !.deadline = [c \in Conns |-> @[c] \/ (Registered(c) /\ conns[c].name = n)],
        !.users = [@ EXCEPT ![n] = None]]

\* DeleteUser's loop over the names, with its variable user kept from one
\* iteration to the next (None before the first match): "default" is
\* skipped; user.Username on a nil user panics; a name that is not the
\* found user's is skipped; otherwise the user is unlisted.
RECURSIVE DeleteLoop(_, _, _)

\* Mutation of DeleteLoop: "default" is not skipped.
DeleteLoopNoDefaultSkip(names, st, user) ==
    IF names = <<>> THEN st
    ELSE LET n     == Head(names)
             found == IF st.users[n] # None THEN n ELSE user
         IN CASE found = None -> [st EXCEPT !.crashed = TRUE]
              [] n # found    -> DeleteLoop(Tail(names), st, found)
              [] OTHER        -> DeleteLoop(Tail(names), Unlist(st, n), found)

DeleteLoop(names, st, user) ==
    IF names = <<>> THEN st
    ELSE LET n     == Head(names)
             found == IF st.users[n] # None THEN n ELSE user
         IN CASE n = Default -> DeleteLoop(Tail(names), st, user)
              [] found = None -> [st EXCEPT !.crashed = TRUE]
              [] n # found    -> DeleteLoop(Tail(names), st, found)
              [] OTHER        -> DeleteLoop(Tail(names), Unlist(st, n), found)

\* DeleteUser up to the assignment acl.Users = utils.Filter(...): the loop
\* runs on the slice as read, and the filtered copy is kept.
DeleteUser(c) ==
    LET st == DeleteLoop(req[c].args,
                         [users |-> users, deadline |-> deadline, crashed |-> FALSE],
                         None)
    IN /\ ~crashed /\ pc[c] = "handling" /\ Authorized(c) /\ req[c].kind = "deluser"
       /\ pending' = [pending EXCEPT ![c] = st.users]
       /\ deadline' = st.deadline
       /\ crashed' = st.crashed
       /\ Goto(c, "delStoring")
       /\ UNCHANGED <<users, conns, req, authUser>>

\* Drop every live pointer to a name the new acl.Users no longer lists: it
\* keeps the removed object.
Freeze(ptr, newUsers) ==
    IF ptr.live /\ newUsers[ptr.name] = None
    THEN [ptr EXCEPT !.live = FALSE, !.frozen = users[ptr.name]]
    ELSE ptr

\* The assignment of the filtered copy to acl.Users, with no lock: a user
\* SetUser appended since DeleteUser read the slice is lost with it.  The
\* copy holds pointers, so a listed user keeps any in-place update.
DeleteUserStore(c) ==
    LET newUsers == [n \in Names |->
                       IF pending[c][n] = None THEN None
                       ELSE IF users[n] # None THEN users[n] ELSE pending[c][n]]
    IN /\ ~crashed /\ pc[c] = "delStoring"
       /\ users' = newUsers
       /\ conns' = [d \in Conns |-> Freeze(conns[d], newUsers)]
       /\ authUser' = [d \in Conns |->
                          IF pc[d] = "authChecking" THEN Freeze(authUser[d], newUsers)
                          ELSE authUser[d]]
       /\ req' = [req EXCEPT ![c] = NoRequest]
       /\ Goto(c, "idle")
       /\ UNCHANGED <<deadline, crashed, pending>>

Step(c) ==
    \/ RegisterConnection(c) \/ MapWriteDone(c) \/ ReadMessage(c)
    \/ Denied(c) \/ Command(c) \/ AuthLookup(c) \/ AuthCheck(c) \/ SetUser(c) \/ DeleteUser(c) \/ DeleteUserStore(c)

\* Every connection is closed, or the process is gone.
Finished ==
    /\ crashed \/ \A c \in Conns : pc[c] = "closed"
    /\ UNCHANGED vars

Next == (\E c \in Conns : Step(c) \/ ConcurrentMapAccess(c)) \/ Finished

\* Each connection goroutine that can run is eventually scheduled.  The
\* runtime's race detection is not a step anyone is owed.
Fairness == \A c \in Conns : WF_vars(Step(c))

Spec == Init /\ [][Next]_vars /\ Fairness

-----------------------------------------------------------------------------
(* Properties.                                                             *)

\* Spec §4.5 ACL DELUSER: the step in which DeleteUser runs its loop over the
\* names (without a nil-user panic) leaves, in the copy it will assign to
\* acl.Users, every user but the listed names it was given, "default"
\* excepted, and sets a past read deadline on exactly the registered
\* connections attached to those names.  The loop's user variable, carried
\* from one name to the next, must never make it delete or terminate
\* anything else.
DeleteUserRemovesNamed ==
    [][\A c \in Conns :
         pc[c] = "handling" /\ pc'[c] = "delStoring" /\ ~crashed' =>
            LET gone == {req[c].args[i] : i \in 1..Len(req[c].args)}
                          \ ({Default} \cup {n \in Names : users[n] = None})
            IN /\ pending'[c] = [n \in Names |-> IF n \in gone THEN None ELSE users[n]]
               /\ deadline' = [d \in Conns |->
                                 deadline[d] \/ (Registered(d) /\ conns[d].name \in gone)]]_vars

\* DeleteUser "terminates every connection attached to this user": a
\* connection whose User is no longer listed in acl.Users is closed in the
\* end, through the read deadline DeleteUser sets, whatever it was doing
\* when the user went (AUTH in progress, or the user lost from the slice by
\* DeleteUser's unlocked reassignment racing SetUser's append).
DeletedUserConnsClose ==
    \A c \in Conns :
        [](Registered(c) /\ ~conns[c].live => <>(pc[c] = "closed" \/ crashed))

\* Spec §4.5: every request the dispatcher handles is allowed by
\* AuthorizeConnection exactly when the spec's authorize allows it, for the
\* connection's user and authentication at that moment: every category and
\* every key must be allowed, not just one.
AuthorizeMatchesSpec ==
    [][\A c \in Conns :
         pc[c] = "handling" /\ pc'[c] = "idle" =>
            (Authorized(c) <=> SpecAuthorize(EffUser(c), conns[c].auth, req[c].cmd))]_vars

\* The process never dies in the ACL: no DeleteUser of a name that is not
\* listed, with no listed user matched before it, dereferences its nil user
\* variable, and no two connection goroutines meet in acl.Connections.
NoCrash == ~crashed

====
