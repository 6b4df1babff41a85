--------------------------- MODULE PermissionCheck ---------------------------
(***************************************************************************)
(* How a connection of the server finds out whether its user may join a    *)
(* channel, to let it in (JoinChannel) or to show it the members of every  *)
(* channel it could join (RequestAllChannelRosters).  The answer is put    *)
(* together from several SQL statements without a transaction: the channel *)
(* with its password, the user, the roles of the user, the ACL of the      *)
(* channel.  Anything may be changed between two of them.                  *)
(***************************************************************************)
EXTENDS Directory

CONSTANTS
  Task,        \* connections of authenticated users
  NoChannel

ASSUME NoChannelAssumption == NoChannel \notin Channel
ASSUME UserAssumption == User # {}

VARIABLES
  call,        \* task -> the request it works on
  seen,        \* history: the right answers since the first read of a check
  changed      \* history: what was changed since then

checks == <<call, seen, changed>>
vars   == <<tables, checks>>

Idle == [at |-> "idle", kind |-> "join", user |-> CHOOSE u \in User : TRUE, ch |-> NoChannel,
         held |-> {}, todo |-> {}]

At(t, at) == call[t].at = at
Decided(t) == call[t].at \in {"granted", "refused"}

(* A request in a given step of a check; the answers are watched from its  *)
(* first read on.                                                          *)
Checking(t) == call[t].at \in {"user", "roles", "acl", "granted", "refused"}

----------------------------------------------------------------------------
(* The permissions of a user who holds the roles of held (pairs of role    *)
(* and permissions) in a channel with these ACL entries: an entry for a    *)
(* role takes the place of what the role has elsewhere.                    *)
Effective(held, acl) ==
  UNION {IF acl[h[1]] # NoEntry THEN acl[h[1]] ELSE h[2] : h \in held}

RolesOf(u) == {<<ur[2], roles[ur[2]]>> : ur \in {x \in user_roles : x[1] = u}}

(* What the tables, all read at once, say of the request.                  *)
Allowed(t) ==
  LET c == call[t] IN
  /\ c.user \in users
  /\ JOIN \in Effective(RolesOf(c.user), channel_acl[c.ch])
  /\ c.kind = "join" => c.ch \in channels

----------------------------------------------------------------------------
(* A step of task t: the tables stay, and the answer is watched.           *)
Step(t, c) ==
  /\ UNCHANGED tables
  /\ call' = [call EXCEPT ![t] = c]
  /\ seen' = [seen EXCEPT ![t] = IF Checking(t)' THEN @ \cup {Allowed(t)'} ELSE {}]
  /\ changed' = [changed EXCEPT ![t] = IF Checking(t)' THEN @ ELSE {}]

(* verify_channel_password: a request for a channel that does not exist,   *)
(* or without its password if it has one, is answered at once.             *)
JoinChannel(t, u, ch) ==
  /\ At(t, "idle") /\ ch \in channels
  /\ Step(t, [call[t] EXCEPT !.kind = "join", !.user = u, !.ch = ch, !.at = "user"])

(* check_channel_permission: an error if there is no such user.            *)
ReadUser(t) ==
  /\ At(t, "user")
  /\ Step(t, [call[t] EXCEPT !.at = IF call[t].user \in users THEN "roles" ELSE "refused"])

(* Broken variant: a user without roles is let in.                         *)
ReadRolesOrGrant(t) ==
  /\ At(t, "roles")
  /\ LET held == RolesOf(call[t].user) IN
       Step(t, [call[t] EXCEPT !.held = held, !.at = IF held = {} THEN "granted" ELSE "acl"])

(* get_user_channel_permissions: without a role it does not read the ACL.  *)
ReadRoles(t) ==
  /\ At(t, "roles")
  /\ LET held == RolesOf(call[t].user) IN
       Step(t, [call[t] EXCEPT !.held = held, !.at = IF held = {} THEN "refused" ELSE "acl"])

ReadAcl(t) ==
  /\ At(t, "acl")
  /\ LET joins == JOIN \in Effective(call[t].held, channel_acl[call[t].ch]) IN
       Step(t, [call[t] EXCEPT !.held = {}, !.at = IF joins THEN "granted" ELSE "refused"])

(* The user enters the channel, or is told why not.                        *)
EndJoin(t) ==
  /\ call[t].kind = "join" /\ Decided(t)
  /\ Step(t, Idle)

----------------------------------------------------------------------------
(* One permission check for each channel the first statement found.        *)
RequestAllChannelRosters(t, u) ==
  /\ At(t, "idle")
  /\ Step(t, [call[t] EXCEPT !.kind = "rosters", !.user = u, !.at = "next", !.todo = channels])

NextChannel(t, ch) ==
  /\ At(t, "next") /\ ch \in call[t].todo
  /\ Step(t, [call[t] EXCEPT !.at = "user", !.ch = ch, !.todo = @ \ {ch}])

(* The members of a channel that is granted go into the answer; one that   *)
(* is refused, or whose check fails, is left out.                          *)
EndCheck(t) ==
  /\ call[t].kind = "rosters" /\ Decided(t)
  /\ Step(t, [call[t] EXCEPT !.at = "next", !.ch = NoChannel])

SendRosters(t) ==
  /\ At(t, "next") /\ call[t].todo = {}
  /\ Step(t, Idle)

----------------------------------------------------------------------------
(* What a statement changed, as the reads of a check divide the tables.    *)
Parts == {"users", "roles", "channels", "acl"}

Changed ==
  {x \in Parts :
     CASE x = "users"    -> users' # users
       [] x = "roles"    -> <<roles, user_roles>>' # <<roles, user_roles>>
       [] x = "channels" -> channels' # channels
       [] x = "acl"      -> channel_acl' # channel_acl}

(* Two parts that changed are as good as all.                              *)
Noted(some) == IF \E part \in Parts : some \subseteq {part} THEN some ELSE Parts

(* Serial numbers are never given out again; a number that no request      *)
(* refers to any more is as good as a new one.                             *)
Created ==
  (users' \ users) \cup (channels' \ channels) \cup {r \in Role : ~HasRole(r) /\ HasRole(r)'}

Referred ==
  UNION {{call[t].user, call[t].ch} \cup call[t].todo \cup {h[1] : h \in call[t].held} :
           t \in {x \in Task : call[x] # Idle}}

Change ==
  /\ DirectoryNext /\ tables' # tables
  /\ Created \cap Referred = {}
  /\ UNCHANGED call
  /\ seen' = [t \in Task |-> IF Checking(t) THEN seen[t] \cup {Allowed(t)'} ELSE {}]
  /\ changed' = [t \in Task |-> IF Checking(t) THEN Noted(changed[t] \cup Changed) ELSE {}]

TaskStep(t) ==
  \/ \E u \in User, ch \in Channel : JoinChannel(t, u, ch)
  \/ \E u \in User : RequestAllChannelRosters(t, u)
  \/ \E ch \in Channel : NextChannel(t, ch)
  \/ ReadUser(t) \/ ReadRoles(t) \/ ReadAcl(t) \/ EndJoin(t) \/ EndCheck(t) \/ SendRosters(t)

Init ==
  /\ DirectoryInit
  /\ call = [t \in Task |-> Idle]
  /\ seen = [t \in Task |-> {}] /\ changed = [t \in Task |-> {}]

Next == Change \/ \E t \in Task : TaskStep(t)

Spec == Init /\ [][Next]_vars

----------------------------------------------------------------------------
TypeOK ==
  /\ DirectoryTypeOK
  /\ call \in [Task -> [at : {"idle", "next", "user", "roles", "acl", "granted", "refused"},
                        kind : {"join", "rosters"}, user : User, ch : Channel \cup {NoChannel},
                        held : SUBSET (Role \X SUBSET Permission), todo : SUBSET Channel]]
  /\ \A t \in Task : Checking(t) => call[t].ch \in Channel
  /\ seen \in [Task -> SUBSET BOOLEAN]
  /\ changed \in [Task -> SUBSET Parts]

(* The answer of a check was the right one at some moment of the check,    *)
(* unless two of the things it reads were changed meanwhile.  Deleting a   *)
(* role changes two: it takes the entry that kept the role out of a        *)
(* channel along, so that a check that has the roles and not yet the ACL   *)
(* lets a user in who never was allowed.                                   *)
DecisionsAreJustified ==
  \A t \in Task :
    Decided(t) /\ (\E part \in Parts : changed[t] \subseteq {part})
      => (At(t, "granted") \in seen[t])
=============================================================================
