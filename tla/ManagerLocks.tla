---------------------------- MODULE ManagerLocks ----------------------------
(***************************************************************************)
(* The three RwLocks of ChannelManager and the order in which its methods  *)
(* take them.  ControlServer lets every method run in one step; here a     *)
(* method is the sequence of locks it awaits, all held until it returns.   *)
(*                                                                         *)
(* tokio's RwLock (external) is fair: requests are granted in the order    *)
(* they were made, so a reader also waits behind a writer that waits.      *)
(***************************************************************************)
EXTENDS Naturals, Sequences

CONSTANTS
  Task,      \* the tasks of the connections, and the voice relay
  Methods    \* the methods that are called

Lock == {"channels", "user_sockets", "user_names"}

read(lock)  == [lock |-> lock, mode |-> "read"]
write(lock) == [lock |-> lock, mode |-> "write"]

(* Broken variant: join_channel asks for the member list, through          *)
(* get_channel_users, while it still holds its own lock.                   *)
AwaitedNested(method) ==
  CASE method = "join_channel"  -> <<write("channels"), read("channels")>>
    [] method = "register_user" -> <<write("user_sockets"), write("user_names")>>
    [] method = "unregister_user" ->
         <<write("user_sockets"), read("user_names"), write("channels")>>
    [] method = "broadcast_to_channel" -> <<read("channels"), read("user_sockets")>>
    [] OTHER -> <<read("channels")>>

(* Broken variant: register_user takes the names before the sockets.       *)
AwaitedNamesFirst(method) ==
  CASE method = "register_user" -> <<write("user_names"), write("user_sockets")>>
    [] method = "unregister_user" ->
         <<write("user_sockets"), read("user_names"), write("channels")>>
    [] method = "broadcast_to_channel" -> <<read("channels"), read("user_sockets")>>
    [] method \in {"join_channel", "leave_channel"} -> <<write("channels")>>
    [] OTHER -> <<read("channels")>>

(* What each method awaits, in this order.                                 *)
Awaited(method) ==
  CASE method = "register_user" ->
         <<write("user_sockets"), write("user_names")>>
    [] method = "unregister_user" ->
         <<write("user_sockets"), read("user_names"), write("channels")>>
    [] method \in {"join_channel", "leave_channel"} ->
         <<write("channels")>>
    [] method \in {"get_channel_users", "get_channel_name", "get_all_channels"} ->
         <<read("channels")>>
    [] method = "broadcast_to_channel" ->
         <<read("channels"), read("user_sockets")>>
    [] method = "send_to_user" ->
         <<read("user_sockets")>>

ASSUME MethodAssumption ==
  Methods \subseteq {"register_user", "unregister_user", "join_channel", "leave_channel",
                     "get_channel_users", "get_channel_name", "get_all_channels",
                     "broadcast_to_channel", "send_to_user"}

VARIABLES
  call,      \* the method a task is in, or "none"
  granted,   \* how many of its locks it has
  queue,     \* the requests each lock has not granted yet, oldest first
  held       \* the granted requests of each lock

lockVars == <<call, granted, queue, held>>

LockRequest == [task : Task, mode : {"read", "write"}]

LockInit ==
  /\ call    = [t \in Task |-> "none"]
  /\ granted = [t \in Task |-> 0]
  /\ queue   = [l \in Lock |-> <<>>]
  /\ held    = [l \in Lock |-> {}]

Waits(t) == \E l \in Lock : \E i \in 1 .. Len(queue[l]) : queue[l][i].task = t

Call(t, method) ==
  /\ call[t] = "none"
  /\ call' = [call EXCEPT ![t] = method]
  /\ UNCHANGED <<granted, queue, held>>

CanAwait(t) ==
  call[t] # "none" /\ ~Waits(t) /\ granted[t] < Len(Awaited(call[t]))

(* The method reaches its next .read().await or .write().await.            *)
Await(t) ==
  /\ CanAwait(t)
  /\ LET want == Awaited(call[t])[granted[t] + 1]
     IN queue' = [queue EXCEPT ![want.lock] = Append(@, [task |-> t, mode |-> want.mode])]
  /\ UNCHANGED <<call, granted, held>>

(* What tokio's lock lets stand beside each other.                         *)
Compatible(l, request) ==
  held[l] = {} \/ (request.mode = "read" /\ \A h \in held[l] : h.mode = "read")

CanGrant(l) == queue[l] # <<>> /\ Compatible(l, Head(queue[l]))

Grant(l) ==
  /\ CanGrant(l)
  /\ held'    = [held EXCEPT ![l] = @ \cup {Head(queue[l])}]
  /\ queue'   = [queue EXCEPT ![l] = Tail(@)]
  /\ granted' = [granted EXCEPT ![Head(queue[l]).task] = @ + 1]
  /\ UNCHANGED call

CanReturn(t) == call[t] # "none" /\ granted[t] = Len(Awaited(call[t]))

(* The guards are dropped together at the end of the method.               *)
Return(t) ==
  /\ CanReturn(t)
  /\ held'    = [l \in Lock |-> {h \in held[l] : h.task # t}]
  /\ call'    = [call EXCEPT ![t] = "none"]
  /\ granted' = [granted EXCEPT ![t] = 0]
  /\ UNCHANGED queue

LockNext ==
  \/ \E t \in Task : Await(t) \/ Return(t) \/ \E m \in Methods : Call(t, m)
  \/ \E l \in Lock : Grant(l)

LockSpec == LockInit /\ [][LockNext]_lockVars

(* The runtime polls every task that can go on, and a lock wakes the first *)
(* request that fits.  Nobody has to call anything.                        *)
FairLockSpec ==
  LockSpec /\ \A t \in Task : WF_lockVars(Await(t)) /\ WF_lockVars(Return(t))
           /\ \A l \in Lock : WF_lockVars(Grant(l))

----------------------------------------------------------------------------
(* Type invariant; a task has no more locks than its method asks for.      *)
LockTypeOK ==
  /\ call    \in [Task -> Methods \cup {"none"}]
  /\ granted \in [Task -> Nat]
  /\ \A t \in Task : granted[t] <= (IF call[t] = "none" THEN 0 ELSE Len(Awaited(call[t])))
  /\ queue   \in [Lock -> Seq(LockRequest)]
  /\ held    \in [Lock -> SUBSET LockRequest]

(* The one embrace there is: a task in unregister_user that has the        *)
(* sockets and wants the channels, and a task in broadcast_to_channel that *)
(* has the channels and wants the sockets (lines 61, 71 against 133, 134). *)
Opposed ==
  \E t, u \in Task : /\ call[t] = "unregister_user"      /\ granted[t] = 2
                     /\ call[u] = "broadcast_to_channel" /\ granted[u] = 1

Stuck ==
  /\ \E t \in Task : call[t] # "none"
  /\ \A t \in Task : ~CanAwait(t) /\ ~CanReturn(t)
  /\ \A l \in Lock : ~CanGrant(l)

(* However the methods of the manager interleave, they come to a standstill *)
(* only in that embrace: no other two of them, and no three, wait for each *)
(* other in a circle.                                                      *)
StuckOnlyWhenOpposed == Stuck => Opposed

(* As long as it does not come to the embrace every call of a method       *)
(* returns: no task waits forever behind the others either, since a reader *)
(* does not pass a writer that waits.                                      *)
CallsReturnUnlessOpposed ==
  \A t \in Task : call[t] # "none" ~> call[t] = "none" \/ Opposed
=============================================================================
