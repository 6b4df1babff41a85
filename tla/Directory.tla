------------------------------ MODULE Directory ------------------------------
(***************************************************************************)
(* The tables of the server's database that decide who may join what:      *)
(* users, roles, the roles of the users, channels and the channel ACL.     *)
(* An action is one SQL statement of a repository or of the admin API,     *)
(* with the cascades of the schema; a statement that breaks a constraint   *)
(* of the schema fails and changes nothing.  Names, passwords and the like  *)
(* are left out, and there is one organisation: that of a user never       *)
(* changes, and a session keeps the one it had at login.                   *)
(***************************************************************************)
CONSTANTS
  User, Role, Channel,   \* the serial numbers that will be given out
  Permission,
  JOIN,                  \* the permission that lets a user into a channel
  NoParent,              \* the parent_id of a channel at the top
  NoPermission           \* no permission at all: {NoPermission} stands for "no row"

ASSUME JoinAssumption         == JOIN \in Permission
ASSUME NoParentAssumption     == NoParent \notin Channel
ASSUME NoPermissionAssumption == NoPermission \notin Permission

NoEntry == {NoPermission}

VARIABLES
  users,         \* the rows of table users
  roles,         \* role -> its permissions, NoEntry when there is no such row
  user_roles,    \* the pairs <<user, role>>
  channels,      \* the rows of table channels
  parent_id,
  channel_acl    \* channel -> role -> permissions or NoEntry

tables == <<users, roles, user_roles, channels, parent_id, channel_acl>>

DirectoryInit ==
  /\ users = {} /\ user_roles = {} /\ channels = {}
  /\ roles = [r \in Role |-> NoEntry]
  /\ parent_id = [c \in Channel |-> NoParent]
  /\ channel_acl = [c \in Channel |-> [r \in Role |-> NoEntry]]

HasRole(r) == roles[r] # NoEntry

----------------------------------------------------------------------------
(* Users: Register or the admin API.  A new user has no role.              *)
CreateUser(u) ==
  /\ u \notin users
  /\ users' = users \cup {u}
  /\ UNCHANGED <<roles, user_roles, channels, parent_id, channel_acl>>

DeleteUser(u) ==
  /\ u \in users
  /\ users' = users \ {u}
  /\ user_roles' = {ur \in user_roles : ur[1] # u}
  /\ UNCHANGED <<roles, channels, parent_id, channel_acl>>

----------------------------------------------------------------------------
CreateRole(r, perms) ==
  /\ ~HasRole(r)
  /\ roles' = [roles EXCEPT ![r] = perms]
  /\ UNCHANGED <<users, user_roles, channels, parent_id, channel_acl>>

UpdateRole(r, perms) ==
  /\ HasRole(r)
  /\ roles' = [roles EXCEPT ![r] = perms]
  /\ UNCHANGED <<users, user_roles, channels, parent_id, channel_acl>>

(* Broken variant: the ACL entries of the role stay.                       *)
DeleteRoleOnly(r) ==
  /\ HasRole(r)
  /\ roles' = [roles EXCEPT ![r] = NoEntry]
  /\ user_roles' = {ur \in user_roles : ur[2] # r}
  /\ UNCHANGED <<users, channels, parent_id, channel_acl>>

DeleteRole(r) ==
  /\ HasRole(r)
  /\ roles' = [roles EXCEPT ![r] = NoEntry]
  /\ user_roles' = {ur \in user_roles : ur[2] # r}
  /\ channel_acl' = [c \in Channel |-> [channel_acl[c] EXCEPT ![r] = NoEntry]]
  /\ UNCHANGED <<users, channels, parent_id>>

AssignRole(u, r) ==
  /\ u \in users /\ HasRole(r)
  /\ user_roles' = user_roles \cup {<<u, r>>}
  /\ UNCHANGED <<users, roles, channels, parent_id, channel_acl>>

RemoveRole(u, r) ==
  /\ user_roles' = user_roles \ {<<u, r>>}
  /\ UNCHANGED <<users, roles, channels, parent_id, channel_acl>>

----------------------------------------------------------------------------
CreateChannel(c, parent) ==
  /\ c \notin channels
  /\ parent \in channels \cup {NoParent}
  /\ channels' = channels \cup {c}
  /\ parent_id' = [parent_id EXCEPT ![c] = parent]
  /\ UNCHANGED <<users, roles, user_roles, channel_acl>>

(* The channels below c and c itself: what ON DELETE CASCADE takes along.  *)
Subtree(c) ==
  {d \in channels : \A S \in SUBSET channels :
     (c \in S /\ \A e \in channels : parent_id[e] \in S => e \in S) => d \in S}

DeleteChannel(c) ==
  LET gone == Subtree(c) IN
  /\ c \in channels
  /\ channels' = channels \ gone
  /\ parent_id' = [d \in Channel |-> IF d \in gone THEN NoParent ELSE parent_id[d]]
  /\ channel_acl' = [d \in Channel |-> IF d \in gone THEN [r \in Role |-> NoEntry]
                                                     ELSE channel_acl[d]]
  /\ UNCHANGED <<users, roles, user_roles>>

SetChannelAcl(c, r, perms) ==
  /\ c \in channels /\ HasRole(r)
  /\ channel_acl' = [channel_acl EXCEPT ![c][r] = perms]
  /\ UNCHANGED <<users, roles, user_roles, channels, parent_id>>

RemoveChannelAcl(c, r) ==
  /\ channel_acl' = [channel_acl EXCEPT ![c][r] = NoEntry]
  /\ UNCHANGED <<users, roles, user_roles, channels, parent_id>>

DirectoryNext ==
  \/ \E u \in User : CreateUser(u) \/ DeleteUser(u)
  \/ \E r \in Role : DeleteRole(r) \/ \E u \in User : AssignRole(u, r) \/ RemoveRole(u, r)
  \/ \E r \in Role, perms \in SUBSET Permission : CreateRole(r, perms) \/ UpdateRole(r, perms)
  \/ \E c \in Channel, parent \in Channel \cup {NoParent} : CreateChannel(c, parent)
  \/ \E c \in Channel : DeleteChannel(c) \/ \E r \in Role : RemoveChannelAcl(c, r)
  \/ \E c \in Channel, r \in Role, perms \in SUBSET Permission : SetChannelAcl(c, r, perms)

----------------------------------------------------------------------------
DirectoryTypeOK ==
  /\ users \subseteq User
  /\ roles \in [Role -> (SUBSET Permission) \cup {NoEntry}]
  /\ user_roles \subseteq User \X Role
  /\ channels \subseteq Channel
  /\ parent_id \in [Channel -> Channel \cup {NoParent}]
  /\ channel_acl \in [Channel -> [Role -> (SUBSET Permission) \cup {NoEntry}]]

(* Whatever is deleted, in any order, no row refers to one that is gone:   *)
(* not the role of a user, not an ACL entry, not a child channel; so no    *)
(* permission comes from a deleted role or falls on a deleted channel.     *)
ReferencesHold ==
  /\ \A ur \in user_roles : ur[1] \in users /\ HasRole(ur[2])
  /\ \A c \in Channel, r \in Role :
       channel_acl[c][r] # NoEntry => c \in channels /\ HasRole(r)
  /\ \A c \in channels : parent_id[c] \in channels \cup {NoParent}
=============================================================================
