------------------------------ MODULE Sessions ------------------------------
(***************************************************************************)
(* Browser sessions (auth_stores.py, auth_dependencies.py and              *)
(* db/queries/auth.py as the webauth library uses them).  A sign-in and    *)
(* the realm's back-channel logout run under the user-management lock.  A  *)
(* request reads its session, then renews it in the same transaction; an   *)
(* agent run reads the refresh token, has the issuer rotate it and stores  *)
(* the new one.  Between the read and the write the row may be deleted.    *)
(***************************************************************************)
EXTENDS Naturals, FiniteSets, FiniteSetsExt

CONSTANTS
    Users,
    Requests,       \* requests and agent runs that use a session
    None,
    MaxSessions,    \* max_concurrent_sessions_per_user
    MaxRows         \* sign-ins of a behaviour

VARIABLES
    group,  \* the realm's current answer for each person: none, login or admin
    role,   \* the role of the account, or None while it has none
    row,    \* session rows by the order of their creation: user, expired, token
    made,   \* number of session rows created so far
    req     \* what a request or an agent run read before it writes

vars == <<group, role, row, made, req>>

Sids == 1..MaxRows
Groups == {"none", "login", "admin"}
Idle == [pc |-> "idle", sid |-> 0, token |-> 0]
Rows(u) == {s \in Sids : row[s] # None /\ row[s].user = u}

Init ==
    /\ group \in [Users -> {"login", "admin"}]
    /\ role = [u \in Users |-> None]
    /\ row = [s \in Sids |-> None]
    /\ made = 0
    /\ req = [r \in Requests |-> Idle]

(* prune_overflow_sessions: all but the newest ones, the new one among them. *)
PruneOverflow(rows, u) == {s \in rows : Cardinality({x \in rows : x > s}) >= MaxSessions}

(* The sign-in entry: account created or its role set, session created, overflow pruned,
   in one transaction under the lock (DatabaseSignInTransaction). *)
SignIn(u) ==
    /\ group[u] # "none"
    /\ made < MaxRows
    /\ role' = [role EXCEPT ![u] = group[u]]
    /\ made' = made + 1
    /\ LET gone == PruneOverflow(Rows(u) \cup {made + 1}, u) IN
       row' = [s \in Sids |->
                 IF s \in gone THEN None
                 ELSE IF s = made + 1 THEN [user |-> u, expired |-> FALSE, token |-> 1]
                 ELSE row[s]]
    /\ UNCHANGED <<group, req>>

(* Logout of one session. *)
Logout(s) ==
    /\ row[s] # None
    /\ row' = [row EXCEPT ![s] = None]
    /\ UNCHANGED <<group, role, made, req>>

(* The realm's back-channel logout: delete_user_sessions. *)
BackchannelLogout(u) ==
    /\ Rows(u) # {}
    /\ row' = [s \in Sids |-> IF s \in Rows(u) THEN None ELSE row[s]]
    /\ UNCHANGED <<group, role, made, req>>

(* The realm's administrator changes a person's groups. *)
ChangeGroup(u, g) ==
    /\ group[u] # g
    /\ group' = [group EXCEPT ![u] = g]
    /\ UNCHANGED <<role, row, made, req>>

Expire(s) ==
    /\ row[s] # None /\ ~row[s].expired
    /\ row' = [row EXCEPT ![s].expired = TRUE]
    /\ UNCHANGED <<group, role, made, req>>

(* _cleanup_sessions: delete_expired_sessions. *)
DeleteExpired ==
    /\ \E s \in Sids : row[s] # None /\ row[s].expired
    /\ row' = [s \in Sids |-> IF row[s] # None /\ row[s].expired THEN None ELSE row[s]]
    /\ UNCHANGED <<group, role, made, req>>

(* authenticate_request reads the session and its user; an expired one is refused. *)
LoadSession(r, s) ==
    /\ req[r].pc = "idle"
    /\ row[s] # None /\ ~row[s].expired
    /\ req' = [req EXCEPT ![r] = [pc |-> "loaded", sid |-> s, token |-> 0]]
    /\ UNCHANGED <<group, role, row, made>>

(* Mutant: the record that was read is written back, as the row it no longer is. *)
WriteBack(s, new) == [row EXCEPT ![s] = [new EXCEPT !.user = CHOOSE u \in Users : TRUE]]

(* renew_session and replace_session_refresh_token update an existing row and create none. *)
UpdateExisting(s, new) == IF row[s] = None THEN row ELSE [row EXCEPT ![s] = new]

(* renew_session: with no row left the request is refused. *)
Renew(r) ==
    /\ req[r].pc = "loaded"
    /\ LET s == req[r].sid IN
       row' = UpdateExisting(s, [user |-> IF row[s] = None THEN None ELSE row[s].user,
                                 expired |-> FALSE,
                                 token |-> IF row[s] = None THEN 1 ELSE row[s].token])
    /\ req' = [req EXCEPT ![r] = Idle]
    /\ UNCHANGED <<group, role, made>>

(* _read_groups: the session's refresh token is read for a grant at the issuer. *)
BeginGrant(r, s) ==
    /\ req[r].pc = "idle"
    /\ row[s] # None /\ ~row[s].expired
    /\ req' = [req EXCEPT ![r] = [pc |-> "granted", sid |-> s, token |-> 3 - row[s].token]]
    /\ UNCHANGED <<group, role, row, made>>

(* The rotated token is stored before the groups are handed out. *)
StoreToken(r) ==
    /\ req[r].pc = "granted"
    /\ LET s == req[r].sid IN
       row' = UpdateExisting(s, [user |-> IF row[s] = None THEN None ELSE row[s].user,
                                 expired |-> IF row[s] = None THEN FALSE ELSE row[s].expired,
                                 token |-> req[r].token])
    /\ req' = [req EXCEPT ![r] = Idle]
    /\ UNCHANGED <<group, role, made>>

Next ==
    \/ \E u \in Users : SignIn(u) \/ BackchannelLogout(u)
    \/ \E u \in Users, g \in Groups : ChangeGroup(u, g)
    \/ \E s \in Sids : Logout(s) \/ Expire(s)
    \/ DeleteExpired
    \/ \E r \in Requests : Renew(r) \/ StoreToken(r)
    \/ \E r \in Requests, s \in Sids : LoadSession(r, s) \/ BeginGrant(r, s)

Spec == Init /\ [][Next]_vars

-----------------------------------------------------------------------------
(* A session that was logged out, pruned or swept never comes back,        *)
(* whatever a request or an agent run that had read it writes later.       *)
RevokedStaysRevoked ==
    [][\A s \in 1..made : row[s] = None => row'[s] = None]_vars
=============================================================================
