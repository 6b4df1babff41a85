------------------------ MODULE PermissionCheckProof ------------------------
(***************************************************************************)
(* Proofs about Directory and PermissionCheck, for any users, roles,       *)
(* channels, permissions and tasks: the references of the tables hold, and *)
(* the answer of a check was right at some moment of it unless two of its  *)
(* parts were changed meanwhile.  For this the invariant follows the       *)
(* answer the check is heading for.                                        *)
(***************************************************************************)
EXTENDS PermissionCheck, TLAPS

USE JoinAssumption, NoParentAssumption, NoPermissionAssumption, NoChannelAssumption,
    UserAssumption

----------------------------------------------------------------------------
(* The tables keep their types, whatever statement runs.                   *)
LEMMA DirectoryType ==
  ASSUME DirectoryTypeOK, DirectoryNext PROVE DirectoryTypeOK'
<1> USE DEF DirectoryTypeOK
<1>1. CASE \E u \in User : CreateUser(u) \/ DeleteUser(u)
  BY <1>1 DEF CreateUser, DeleteUser
<1>2. CASE \E r \in Role : DeleteRole(r) \/ \E u \in User : AssignRole(u, r) \/ RemoveRole(u, r)
  <2> PICK r \in Role : DeleteRole(r) \/ \E u \in User : AssignRole(u, r) \/ RemoveRole(u, r)
    BY <1>2
  <2>1. CASE DeleteRole(r)
    <3> DEFINE Acl == [Role -> (SUBSET Permission) \cup {NoEntry}]
    <3>1. \A c \in Channel : [channel_acl[c] EXCEPT ![r] = NoEntry] \in Acl
      OBVIOUS
    <3> HIDE DEF Acl
    <3>2. channel_acl' \in [Channel -> Acl]
      BY <2>1, <3>1 DEF DeleteRole
    <3> USE DEF Acl
    <3>3. roles' \in [Role -> (SUBSET Permission) \cup {NoEntry}] /\ user_roles' \subseteq User \X Role
      BY <2>1 DEF DeleteRole
    <3> QED
      BY <2>1, <3>2, <3>3 DEF DeleteRole
  <2>2. CASE \E u \in User : AssignRole(u, r) \/ RemoveRole(u, r)
    BY <2>2 DEF AssignRole, RemoveRole
  <2> QED
    BY <2>1, <2>2
<1>3. CASE \E r \in Role, perms \in SUBSET Permission : CreateRole(r, perms) \/ UpdateRole(r, perms)
  BY <1>3 DEF CreateRole, UpdateRole
<1>4. CASE \E c \in Channel, parent \in Channel \cup {NoParent} : CreateChannel(c, parent)
  BY <1>4 DEF CreateChannel
<1>5. CASE \E c \in Channel : DeleteChannel(c) \/ \E r \in Role : RemoveChannelAcl(c, r)
  <2> PICK c \in Channel : DeleteChannel(c) \/ \E r \in Role : RemoveChannelAcl(c, r)
    BY <1>5
  <2> DEFINE Acl == [Role -> (SUBSET Permission) \cup {NoEntry}]
  <2>1. CASE DeleteChannel(c)
    <3>1. [r \in Role |-> NoEntry] \in Acl
      OBVIOUS
    <3> HIDE DEF Acl
    <3>2. channel_acl \in [Channel -> Acl]
      BY DEF Acl
    <3>3. channel_acl' \in [Channel -> Acl]
      BY <2>1, <3>1, <3>2 DEF DeleteChannel
    <3>4. parent_id' \in [Channel -> Channel \cup {NoParent}] /\ channels' \subseteq Channel
      BY <2>1 DEF DeleteChannel
    <3> QED
      BY <2>1, <3>3, <3>4 DEF DeleteChannel, Acl
  <2>2. CASE \E r \in Role : RemoveChannelAcl(c, r)
    <3> PICK r \in Role : RemoveChannelAcl(c, r)
      BY <2>2
    <3>1. [channel_acl[c] EXCEPT ![r] = NoEntry] \in Acl
      OBVIOUS
    <3>2. channel_acl' = [channel_acl EXCEPT ![c] = [channel_acl[c] EXCEPT ![r] = NoEntry]]
      BY DEF RemoveChannelAcl
    <3> HIDE DEF Acl
    <3>3. channel_acl \in [Channel -> Acl]
      BY DEF Acl
    <3>4. channel_acl' \in [Channel -> Acl]
      BY <3>1, <3>2, <3>3
    <3> QED
      BY <3>4 DEF RemoveChannelAcl, Acl
  <2> QED
    BY <2>1, <2>2
<1>6. CASE \E c \in Channel, r \in Role, perms \in SUBSET Permission : SetChannelAcl(c, r, perms)
  BY <1>6 DEF SetChannelAcl
<1> QED
  BY <1>1, <1>2, <1>3, <1>4, <1>5, <1>6 DEF DirectoryNext

(* ON DELETE CASCADE leaves no channel whose parent it takes.              *)
LEMMA SubtreeClosed ==
  ASSUME NEW c \in channels, NEW d \in channels, parent_id[d] \in Subtree(c)
  PROVE  d \in Subtree(c)
<1>1. ASSUME NEW S \in SUBSET channels, c \in S,
             \A e \in channels : parent_id[e] \in S => e \in S
      PROVE  d \in S
  BY <1>1 DEF Subtree
<1> QED
  BY <1>1 DEF Subtree

LEMMA ReferencesKept ==
  ASSUME DirectoryTypeOK, ReferencesHold, DirectoryNext PROVE ReferencesHold'
<1> USE DEF DirectoryTypeOK, ReferencesHold, HasRole, NoEntry
<1>1. CASE \E u \in User : CreateUser(u) \/ DeleteUser(u)
  BY <1>1 DEF CreateUser, DeleteUser
<1>2. CASE \E r \in Role : DeleteRole(r) \/ \E u \in User : AssignRole(u, r) \/ RemoveRole(u, r)
  <2> PICK r \in Role : DeleteRole(r) \/ \E u \in User : AssignRole(u, r) \/ RemoveRole(u, r)
    BY <1>2
  <2>1. CASE DeleteRole(r)
    BY <2>1 DEF DeleteRole
  <2>2. CASE \E u \in User : AssignRole(u, r)
    BY <2>2 DEF AssignRole
  <2>3. CASE \E u \in User : RemoveRole(u, r)
    BY <2>3 DEF RemoveRole
  <2> QED
    BY <2>1, <2>2, <2>3
<1>3. CASE \E r \in Role, perms \in SUBSET Permission : CreateRole(r, perms) \/ UpdateRole(r, perms)
  BY <1>3, SMTT(30) DEF CreateRole, UpdateRole
<1>4. CASE \E c \in Channel, parent \in Channel \cup {NoParent} : CreateChannel(c, parent)
  BY <1>4 DEF CreateChannel
<1>5. CASE \E c \in Channel : DeleteChannel(c) \/ \E r \in Role : RemoveChannelAcl(c, r)
  <2> PICK c \in Channel : DeleteChannel(c) \/ \E r \in Role : RemoveChannelAcl(c, r)
    BY <1>5
  <2>1. CASE DeleteChannel(c)
    BY <2>1, SubtreeClosed DEF DeleteChannel
  <2>2. CASE \E r \in Role : RemoveChannelAcl(c, r)
    BY <2>2 DEF RemoveChannelAcl
  <2> QED
    BY <2>1, <2>2
<1>6. CASE \E c \in Channel, r \in Role, perms \in SUBSET Permission : SetChannelAcl(c, r, perms)
  BY <1>6 DEF SetChannelAcl
<1> QED
  BY <1>1, <1>2, <1>3, <1>4, <1>5, <1>6 DEF DirectoryNext
----------------------------------------------------------------------------
(* The answer a check is heading for: what it has read so far, completed   *)
(* from the tables as they are.                                            *)
Heading(t) ==
  LET c == call[t] IN
  /\ c.at = "user" => c.user \in users
  /\ JOIN \in Effective(IF c.at = "acl" THEN c.held ELSE RolesOf(c.user), channel_acl[c.ch])

(* answer was the right one at a moment of the check of t.                 *)
Was(t, answer) == IF answer THEN TRUE \in seen[t] ELSE FALSE \in seen[t]

OnePart(t) == \E part \in Parts : changed[t] \subseteq {part}

(* What was read is still so, or is listed as changed.                     *)
Fresh(t) ==
  LET c == call[t] IN
  /\ c.kind = "join" /\ "channels" \notin changed[t] => c.ch \in channels
  /\ c.at \in {"roles", "acl"} /\ "users" \notin changed[t] => c.user \in users
  /\ c.at = "acl" /\ "roles" \notin changed[t] => c.held = RolesOf(c.user)

Reading(t) == call[t].at \in {"user", "roles", "acl"}

Followed(t) ==
  /\ ~Checking(t) => seen[t] = {} /\ changed[t] = {}
  /\ At(t, "next") => call[t].kind = "rosters"
  /\ Reading(t) => Was(t, Allowed(t)) /\ Fresh(t) /\ (OnePart(t) => Was(t, Heading(t)))
  /\ Decided(t) => (OnePart(t) => Was(t, At(t, "granted")))

IInv == TypeOK /\ ReferencesHold /\ \A t \in Task : Followed(t)

----------------------------------------------------------------------------
LEMMA InitInv == Init => IInv
<1> SUFFICES ASSUME Init PROVE IInv
  OBVIOUS
<1>1. (CHOOSE u \in User : TRUE) \in User
  OBVIOUS
<1>2. TypeOK
  BY <1>1 DEF Init, DirectoryInit, TypeOK, DirectoryTypeOK, Idle, Checking
<1>3. ReferencesHold
  BY DEF Init, DirectoryInit, ReferencesHold, HasRole
<1>4. \A t \in Task : Followed(t)
  BY DEF Init, Idle, Followed, Checking, Reading, Decided, At
<1> QED
  BY <1>2, <1>3, <1>4 DEF IInv

(* A check heads for the right answer while nothing it has read changed.   *)
LEMMA HeadingRight ==
  ASSUME NEW t \in Task, Reading(t), Fresh(t),
         \/ call[t].at = "user" /\ "channels" \notin changed[t]
         \/ call[t].at = "roles" /\ "channels" \notin changed[t] /\ "users" \notin changed[t]
         \/ call[t].at = "acl" /\ {"channels", "users", "roles"} \cap changed[t] = {}
  PROVE  Heading(t) <=> Allowed(t)
BY DEF Reading, Fresh, Heading, Allowed

(* The answer of now is one of those seen.                                 *)
LEMMA WasNow ==
  ASSUME NEW t \in Task, NEW S, seen'[t] = S \cup {Allowed(t)'}
  PROVE  Was(t, Allowed(t))'
<1>1. CASE Allowed(t)'
  <2>1. Allowed(t)' = TRUE
    BY <1>1
  <2> QED
    BY <2>1 DEF Was
<1>2. CASE ~Allowed(t)'
  <2>1. Allowed(t)' = FALSE
    BY <1>2 DEF Allowed
  <2> QED
    BY <2>1 DEF Was
<1> QED
  BY <1>1, <1>2

(* What a change lists as changed.                                         *)
LEMMA ChangedParts ==
  /\ "users" \in Changed <=> users' # users
  /\ "roles" \in Changed <=> roles' # roles \/ user_roles' # user_roles
  /\ "channels" \in Changed <=> channels' # channels
  /\ "acl" \in Changed <=> channel_acl' # channel_acl
  /\ Changed \subseteq Parts
BY DEF Changed, Parts

(* What is noted of the changes: all of them, and no more if it is one part.*)
LEMMA NotedIs ==
  ASSUME NEW some \in SUBSET Parts
  PROVE  /\ some \subseteq Noted(some) /\ Noted(some) \in SUBSET Parts
         /\ (\E part \in Parts : Noted(some) \subseteq {part}) => Noted(some) = some
BY DEF Noted, Parts

LEMMA ChangeInv == IInv /\ Change => IInv'
<1> SUFFICES ASSUME IInv, Change PROVE IInv'
  OBVIOUS
<1>1. DirectoryTypeOK' /\ ReferencesHold'
  BY DirectoryType, ReferencesKept DEF IInv, TypeOK, Change
<1>2. call' = call
  BY DEF Change
<1>3. seen' \in [Task -> SUBSET BOOLEAN] /\ changed' \in [Task -> SUBSET Parts]
  <2>1. \A t \in Task : changed[t] \cup Changed \in SUBSET Parts
    BY DEF IInv, TypeOK, Changed
  <2>2. \A t \in Task : Noted(changed[t] \cup Changed) \in SUBSET Parts
    BY <2>1, NotedIs
  <2> QED
    BY <2>2 DEF Change, IInv, TypeOK, Allowed
<1>4. TypeOK'
  BY <1>1, <1>2, <1>3 DEF IInv, TypeOK, Checking
<1>5. ASSUME NEW t \in Task
      PROVE  Followed(t)'
  <2>1. Followed(t)
    BY DEF IInv
  <2>2. CASE ~Checking(t)
    BY <1>2, <2>1, <2>2 DEF Change, Followed, Checking, Reading, Decided, At
  <2>3. CASE Checking(t)
    <3>1. /\ seen'[t] = seen[t] \cup {Allowed(t)'}
          /\ changed[t] \cup Changed \subseteq changed'[t]
          /\ OnePart(t)' => changed'[t] = changed[t] \cup Changed
      <4>1. seen'[t] = seen[t] \cup {Allowed(t)'} /\ changed'[t] = Noted(changed[t] \cup Changed)
        BY <2>3 DEF Change
      <4>2. changed[t] \cup Changed \in SUBSET Parts
        BY DEF IInv, TypeOK, Changed
      <4>3. /\ changed[t] \cup Changed \subseteq Noted(changed[t] \cup Changed)
            /\ (\E part \in Parts : Noted(changed[t] \cup Changed) \subseteq {part})
                 => Noted(changed[t] \cup Changed) = changed[t] \cup Changed
        BY <4>2, NotedIs
      <4>4. OnePart(t)' => \E part \in Parts : changed'[t] \subseteq {part}
        BY DEF OnePart, Parts
      <4> QED
        BY <4>1, <4>3, <4>4
    <3>2. Was(t, Allowed(t))'
      BY <3>1, WasNow
    <3>3. ASSUME NEW b \in BOOLEAN, Was(t, b)
          PROVE  Was(t, b)'
      BY <3>1, <3>3 DEF Was
    <3>4. OnePart(t)' => OnePart(t)
      BY <3>1 DEF OnePart
    <3>5. CASE Decided(t)
      BY <1>2, <2>1, <3>3, <3>4, <3>5 DEF Followed, Decided, At, Checking, Reading
    <3>6. CASE Reading(t)
      <4>1. Fresh(t)'
        BY <1>2, <2>1, <3>1, <3>6, ChangedParts DEF Followed, Fresh, RolesOf
      <4>2. ASSUME OnePart(t)'
            PROVE  Was(t, Heading(t))'
        <5>1. CASE Heading(t)' <=> Heading(t)
          BY <2>1, <3>3, <3>4, <3>6, <4>2, <5>1 DEF Followed, Was
        <5>2. CASE ~(Heading(t)' <=> Heading(t))
          <6>1. \/ call[t].at = "user" /\ Changed \cap {"users", "roles", "acl"} # {}
                \/ call[t].at = "roles" /\ Changed \cap {"roles", "acl"} # {}
                \/ call[t].at = "acl" /\ Changed \cap {"acl"} # {}
            BY <1>2, <3>6, <5>2, ChangedParts DEF Heading, Reading, RolesOf
          <6>2. \/ call[t].at = "user" /\ "channels" \notin changed'[t]
                \/ call[t].at = "roles" /\ {"channels", "users"} \cap changed'[t] = {}
                \/ call[t].at = "acl" /\ {"channels", "users", "roles"} \cap changed'[t] = {}
            BY <3>1, <4>2, <6>1 DEF OnePart
          <6>3. Heading(t)' <=> Allowed(t)'
            BY <1>2, <3>6, <4>1, <6>2 DEF Reading, Fresh, Heading, Allowed
          <6> QED
            BY <3>2, <6>3 DEF Was
        <5> QED
          BY <5>1, <5>2
      <4> QED
        BY <1>2, <2>3, <3>2, <3>6, <4>1, <4>2 DEF Followed, Reading, Decided, Checking, At
    <3> QED
      BY <2>3, <3>5, <3>6 DEF Checking, Reading, Decided
  <2> QED
    BY <2>2, <2>3
<1> QED
  BY <1>1, <1>4, <1>5 DEF IInv

CallType ==
  [at : {"idle", "next", "user", "roles", "acl", "granted", "refused"},
   kind : {"join", "rosters"}, user : User, ch : Channel \cup {NoChannel},
   held : SUBSET (Role \X SUBSET Permission), todo : SUBSET Channel]

Watched == {"user", "roles", "acl", "granted", "refused"}

(* A step of one task, if what it goes to follows the answer.              *)
LEMMA StepKeeps ==
  ASSUME IInv, NEW t \in Task, NEW c \in CallType, Step(t, c),
         c.at \in Watched => c.ch \in Channel,
         /\ UNCHANGED tables /\ call'[t] = c
         /\ c.at \in Watched =>
              seen'[t] = seen[t] \cup {Allowed(t)'} /\ changed'[t] = changed[t]
         => Followed(t)'
  PROVE  IInv'
<1>1. UNCHANGED tables /\ UNCHANGED <<users, roles, user_roles, channels, parent_id, channel_acl>>
  BY DEF Step, tables
<1>2. call \in [Task -> CallType] /\ seen \in [Task -> SUBSET BOOLEAN] /\ changed \in [Task -> SUBSET Parts]
  BY DEF IInv, TypeOK, CallType
<1>3. call'[t] = c /\ call' \in [Task -> CallType] /\ \A s \in Task \ {t} : call'[s] = call[s]
  BY <1>2 DEF Step
<1>4. Checking(t)' <=> c.at \in Watched
  BY <1>3 DEF Checking, Watched
<1>5. \A s \in Task \ {t} : seen'[s] = seen[s] /\ changed'[s] = changed[s]
  BY <1>2 DEF Step
<1>6. /\ seen'[t] = IF Checking(t)' THEN seen[t] \cup {Allowed(t)'} ELSE {}
      /\ changed'[t] = IF Checking(t)' THEN changed[t] ELSE {}
  BY <1>2 DEF Step
<1>7. Followed(t)'
  BY <1>1, <1>3, <1>4, <1>6
<1>8. ASSUME NEW s \in Task \ {t}
      PROVE  Followed(s)'
  <2>1. Followed(s)
    BY DEF IInv
  <2>2. Allowed(s)' <=> Allowed(s)
    BY <1>1, <1>3 DEF Allowed, RolesOf
  <2>3. Heading(s)' <=> Heading(s)
    BY <1>1, <1>3 DEF Heading, RolesOf
  <2>4. Fresh(s)' <=> Fresh(s)
    BY <1>1, <1>3, <1>5 DEF Fresh, RolesOf
  <2> QED
    BY <1>3, <1>5, <2>1, <2>2, <2>3, <2>4
       DEF Followed, Was, OnePart, Checking, Reading, Decided, At
<1>9. Allowed(t)' \in BOOLEAN
  BY DEF Allowed
<1>10. seen' \in [Task -> SUBSET BOOLEAN] /\ changed' \in [Task -> SUBSET Parts]
  <2>1. seen'[t] \in SUBSET BOOLEAN /\ changed'[t] \in SUBSET Parts
    BY <1>2, <1>6, <1>9
  <2> QED
    BY <1>2, <1>5, <2>1 DEF Step
<1>11. DirectoryTypeOK' /\ ReferencesHold'
  BY <1>1 DEF IInv, TypeOK, DirectoryTypeOK, ReferencesHold, HasRole
<1>12. \A s \in Task : Checking(s)' => call'[s].ch \in Channel
  BY <1>3, <1>4 DEF IInv, TypeOK, Checking
<1>13. TypeOK'
  BY <1>3, <1>10, <1>11, <1>12 DEF TypeOK, CallType, Checking
<1> QED
  BY <1>7, <1>8, <1>11, <1>13 DEF IInv
(* Every step of a request follows the answer.                             *)
LEMMA TaskInv ==
  ASSUME IInv, NEW t \in Task, TaskStep(t)
  PROVE  IInv'
<1> USE DEF At
<1>1. call[t] \in CallType /\ Followed(t) /\ (Checking(t) => call[t].ch \in Channel) /\ channels \subseteq Channel
  BY DEF IInv, TypeOK, DirectoryTypeOK, CallType
<1> USE DEF Watched
<1>2. ASSUME NEW u \in User, NEW ch \in Channel, JoinChannel(t, u, ch)
      PROVE  IInv'
  <2> DEFINE c == [call[t] EXCEPT !.kind = "join", !.user = u, !.ch = ch, !.at = "user"]
  <2>1. /\ c \in CallType /\ c.at = "user" /\ c.kind = "join" /\ c.user = u /\ c.ch = ch
        /\ Step(t, c) /\ ch \in channels /\ ~Checking(t)
    BY <1>1, <1>2 DEF JoinChannel, CallType, Checking
  <2> HIDE DEF c
  <2>2. ASSUME UNCHANGED tables, call'[t] = c, seen'[t] = seen[t] \cup {Allowed(t)'},
               changed'[t] = changed[t]
        PROVE  Followed(t)'
    <3>1. Was(t, Allowed(t))'
      BY <2>2, WasNow
    <3>2. channels' = channels /\ changed'[t] = {}
      BY <1>1, <2>1, <2>2 DEF tables, Followed
    <3>3. Fresh(t)' /\ (Heading(t)' <=> Allowed(t)')
      BY <2>1, <2>2, <3>2 DEF Fresh, Heading, Allowed
    <3> QED
      BY <2>1, <2>2, <3>1, <3>3 DEF Followed, Checking, Reading, Decided, Was
  <2> QED
    BY <2>1, <2>2, StepKeeps
<1>3. ASSUME NEW u \in User, RequestAllChannelRosters(t, u)
      PROVE  IInv'
  <2> DEFINE c == [call[t] EXCEPT !.kind = "rosters", !.user = u, !.at = "next", !.todo = channels]
  <2>1. c \in CallType /\ c.at = "next" /\ c.kind = "rosters" /\ Step(t, c)
    BY <1>1, <1>3 DEF RequestAllChannelRosters, CallType
  <2> HIDE DEF c
  <2>2. call'[t] = c /\ ~Checking(t)' => seen'[t] = {} /\ changed'[t] = {}
    BY <2>1 DEF Step, IInv, TypeOK
  <2>3. call'[t] = c => Followed(t)'
    BY <2>1, <2>2 DEF Followed, Checking, Reading, Decided
  <2> QED
    BY <2>1, <2>3, StepKeeps
<1>4. ASSUME NEW ch \in Channel, NextChannel(t, ch)
      PROVE  IInv'
  <2> DEFINE c == [call[t] EXCEPT !.at = "user", !.ch = ch, !.todo = @ \ {ch}]
  <2>1. /\ c \in CallType /\ c.at = "user" /\ c.kind = "rosters" /\ c.ch = ch
        /\ Step(t, c) /\ ~Checking(t)
    BY <1>1, <1>4 DEF NextChannel, CallType, Checking, Followed
  <2> HIDE DEF c
  <2>2. ASSUME UNCHANGED tables, call'[t] = c, seen'[t] = seen[t] \cup {Allowed(t)'},
               changed'[t] = changed[t]
        PROVE  Followed(t)'
    <3>1. Was(t, Allowed(t))'
      BY <2>2, WasNow
    <3>2. Fresh(t)' /\ (Heading(t)' <=> Allowed(t)')
      BY <2>1, <2>2 DEF Fresh, Heading, Allowed
    <3> QED
      BY <2>1, <2>2, <3>1, <3>2 DEF Followed, Checking, Reading, Decided, Was
  <2> QED
    BY <2>1, <2>2, StepKeeps
<1>5. CASE ReadUser(t)
  <2> DEFINE c == [call[t] EXCEPT !.at = IF call[t].user \in users THEN "roles" ELSE "refused"]
  <2>1. /\ c \in CallType /\ c.at = (IF call[t].user \in users THEN "roles" ELSE "refused")
        /\ c.kind = call[t].kind /\ c.user = call[t].user /\ c.ch = call[t].ch
        /\ Step(t, c) /\ call[t].at = "user" /\ c.ch \in Channel
    BY <1>1, <1>5 DEF ReadUser, CallType, Checking
  <2> HIDE DEF c
  <2>2. ASSUME UNCHANGED tables, call'[t] = c, seen'[t] = seen[t] \cup {Allowed(t)'},
               changed'[t] = changed[t]
        PROVE  Followed(t)'
    <3>1. Was(t, Allowed(t))'
      BY <2>2, WasNow
    <3>2. UNCHANGED <<users, roles, user_roles, channels, channel_acl>>
      BY <2>2 DEF tables
    <3>3. Fresh(t) /\ (OnePart(t) => Was(t, Heading(t)))
      BY <1>1, <2>1 DEF Followed, Reading
    <3>4. CASE call[t].user \in users
      <4>1. Fresh(t)'
        BY <2>1, <2>2, <3>2, <3>3, <3>4 DEF Fresh
      <4>2. Heading(t)' <=> Heading(t)
        BY <2>1, <2>2, <3>2, <3>4 DEF Heading, RolesOf
      <4> QED
        BY <2>1, <2>2, <3>1, <3>3, <3>4, <4>1, <4>2
           DEF Followed, Checking, Reading, Decided, Was, OnePart
    <3>5. CASE call[t].user \notin users
      <4>1. ~Allowed(t)'
        BY <2>1, <2>2, <3>2, <3>5 DEF Allowed
      <4> QED
        BY <2>1, <2>2, <3>1, <3>5, <4>1 DEF Followed, Checking, Reading, Decided, Was
    <3> QED
      BY <3>4, <3>5
  <2> QED
    BY <2>1, <2>2, StepKeeps
<1>6. CASE ReadRoles(t)
  <2> DEFINE held == RolesOf(call[t].user)
             c == [call[t] EXCEPT !.held = held, !.at = IF held = {} THEN "refused" ELSE "acl"]
  <2>1. held \in SUBSET (Role \X SUBSET Permission)
    BY <1>1, <1>6 DEF RolesOf, IInv, TypeOK, DirectoryTypeOK, ReferencesHold, HasRole
  <2>2. /\ c \in CallType /\ c.at = (IF held = {} THEN "refused" ELSE "acl")
        /\ c.kind = call[t].kind /\ c.user = call[t].user /\ c.ch = call[t].ch
        /\ c.held = RolesOf(call[t].user)
        /\ Step(t, c) /\ call[t].at = "roles" /\ c.ch \in Channel
    BY <1>1, <1>6, <2>1 DEF ReadRoles, CallType, Checking
  <2> HIDE DEF c
  <2>3. ASSUME UNCHANGED tables, call'[t] = c, seen'[t] = seen[t] \cup {Allowed(t)'},
               changed'[t] = changed[t]
        PROVE  Followed(t)'
    <3>1. Was(t, Allowed(t))'
      BY <2>3, WasNow
    <3>2. UNCHANGED <<users, roles, user_roles, channels, channel_acl>>
      BY <2>3 DEF tables
    <3>3. Fresh(t) /\ (OnePart(t) => Was(t, Heading(t)))
      BY <1>1, <2>2 DEF Followed, Reading
    <3>4. CASE held # {}
      <4>1. Fresh(t)'
        BY <2>2, <2>3, <3>2, <3>3, <3>4 DEF Fresh, RolesOf
      <4>2. Heading(t)' <=> Heading(t)
        BY <2>2, <2>3, <3>2, <3>4 DEF Heading, RolesOf
      <4> QED
        BY <2>2, <2>3, <3>1, <3>3, <3>4, <4>1, <4>2
           DEF Followed, Checking, Reading, Decided, Was, OnePart
    <3>5. CASE held = {}
      <4> PICK u \in User : u = call[t].user
        BY <1>1 DEF CallType
      <4>1. RolesOf(u)' = {} /\ call'[t].user = u
        BY <2>2, <2>3, <3>2, <3>5 DEF RolesOf
      <4>2. ~Allowed(t)'
        <5>1. Effective(RolesOf(u), channel_acl[call[t].ch])' = {}
          BY <4>1 DEF Effective
        <5> QED
          BY <4>1, <5>1 DEF Allowed
      <4> QED
        BY <2>2, <2>3, <3>1, <3>5, <4>2 DEF Followed, Checking, Reading, Decided, Was
    <3> QED
      BY <3>4, <3>5
  <2> QED
    BY <2>2, <2>3, StepKeeps
<1>7. CASE ReadAcl(t)
  <2> DEFINE c == [call[t] EXCEPT !.held = {}, !.at = IF Heading(t) THEN "granted" ELSE "refused"]
  <2>1. call[t].at = "acl"
    BY <1>7 DEF ReadAcl
  <2>2. Heading(t) <=> JOIN \in Effective(call[t].held, channel_acl[call[t].ch])
    BY <2>1 DEF Heading
  <2>3. Step(t, c)
    BY <1>7, <2>2 DEF ReadAcl
  <2>4. /\ c \in CallType /\ c.at = (IF Heading(t) THEN "granted" ELSE "refused")
        /\ c.kind = call[t].kind /\ c.user = call[t].user /\ c.ch = call[t].ch /\ c.ch \in Channel
    BY <1>1, <2>1 DEF CallType, Checking
  <2> HIDE DEF c
  <2>5. ASSUME call'[t] = c, seen'[t] = seen[t] \cup {Allowed(t)'}, changed'[t] = changed[t]
        PROVE  Followed(t)'
    <3>1. OnePart(t) => Was(t, Heading(t))
      BY <1>1, <2>1 DEF Followed, Reading
    <3> QED
      BY <2>4, <2>5, <3>1 DEF Followed, Checking, Reading, Decided, Was, OnePart
  <2> QED
    BY <2>3, <2>4, <2>5, StepKeeps
<1>8. CASE EndJoin(t) \/ SendRosters(t)
  <2>1. Idle \in CallType /\ Idle.at = "idle" /\ Step(t, Idle)
    BY <1>8 DEF Idle, CallType, EndJoin, SendRosters
  <2>2. call'[t] = Idle => seen'[t] = {} /\ changed'[t] = {}
    BY <2>1 DEF Step, IInv, TypeOK, Checking
  <2>3. call'[t] = Idle => Followed(t)'
    BY <2>1, <2>2 DEF Followed, Checking, Reading, Decided
  <2> QED
    BY <2>1, <2>3, StepKeeps
<1>9. CASE EndCheck(t)
  <2> DEFINE c == [call[t] EXCEPT !.at = "next", !.ch = NoChannel]
  <2>1. c \in CallType /\ c.at = "next" /\ c.kind = "rosters" /\ Step(t, c)
    BY <1>1, <1>9 DEF EndCheck, CallType
  <2> HIDE DEF c
  <2>2. call'[t] = c => seen'[t] = {} /\ changed'[t] = {}
    BY <2>1 DEF Step, IInv, TypeOK, Checking
  <2>3. call'[t] = c => Followed(t)'
    BY <2>1, <2>2 DEF Followed, Checking, Reading, Decided
  <2> QED
    BY <2>1, <2>3, StepKeeps
<1> QED
  BY <1>2, <1>3, <1>4, <1>5, <1>6, <1>7, <1>8, <1>9 DEF TaskStep

(* IInv is inductive and holds throughout.                                 *)
LEMMA Inductive == Spec => []IInv
<1>1. IInv /\ UNCHANGED vars => IInv'
  <2> SUFFICES ASSUME IInv, UNCHANGED vars PROVE IInv'
    OBVIOUS
  <2>1. UNCHANGED <<users, roles, user_roles, channels, parent_id, channel_acl, call, seen, changed>>
    BY DEF vars, tables, checks
  <2>2. TypeOK' /\ ReferencesHold'
    BY <2>1 DEF IInv, TypeOK, DirectoryTypeOK, ReferencesHold, HasRole, Checking
  <2>3. ASSUME NEW t \in Task PROVE Followed(t)'
    <3>1. /\ Allowed(t)' <=> Allowed(t)
          /\ Heading(t)' <=> Heading(t)
          /\ Fresh(t)' <=> Fresh(t)
      BY <2>1 DEF Allowed, Heading, Fresh, RolesOf
    <3> QED
      BY <2>1, <3>1 DEF IInv, Followed, Was, OnePart, Checking, Reading, Decided, At
  <2> QED
    BY <2>2, <2>3 DEF IInv
<1>2. IInv /\ [Next]_vars => IInv'
  BY <1>1, ChangeInv, TaskInv DEF Next
<1> QED
  BY <1>2, InitInv, PTL DEF Spec

----------------------------------------------------------------------------
(* The tables and the requests have their types.                           *)
THEOREM TypeCorrect == Spec => []TypeOK
<1>1. IInv => TypeOK
  BY DEF IInv
<1> QED
  BY <1>1, Inductive, PTL

(* No statement, in any order, leaves a row that refers to one that is     *)
(* gone, however deep the tree of channels that a cascade takes along.     *)
THEOREM ReferencesAlwaysHold == Spec => []ReferencesHold
<1>1. IInv => ReferencesHold
  BY DEF IInv
<1> QED
  BY <1>1, Inductive, PTL

(* Whatever statements run between the reads of a check, and however many  *)
(* of them, its answer was right at some moment of it if they changed only *)
(* one of the parts it reads.                                              *)
THEOREM DecisionsJustified == Spec => []DecisionsAreJustified
<1>1. IInv => DecisionsAreJustified
  <2> SUFFICES ASSUME IInv, NEW t \in Task, Decided(t), OnePart(t)
               PROVE  At(t, "granted") \in seen[t]
    BY DEF DecisionsAreJustified, OnePart
  <2>1. Was(t, At(t, "granted"))
    BY DEF IInv, Followed
  <2>2. CASE At(t, "granted")
    <3>1. At(t, "granted") = TRUE
      BY <2>2
    <3> QED
      BY <2>1, <3>1 DEF Was
  <2>3. CASE ~At(t, "granted")
    <3>1. At(t, "granted") = FALSE
      BY <2>3 DEF At
    <3> QED
      BY <2>1, <3>1 DEF Was
  <2> QED
    BY <2>2, <2>3
<1> QED
  BY <1>1, Inductive, PTL
=============================================================================
