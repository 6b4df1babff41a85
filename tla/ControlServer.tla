--------------------------- MODULE ControlServer ---------------------------
(***************************************************************************)
(* The control plane of the server: one task per WebSocket connection      *)
(* (network/tls.rs), the shared ChannelManager (channel_manager.rs), the   *)
(* pending key exchanges and the SRTP sessions, all keyed by USER id.      *)
(*                                                                         *)
(* A task runs one handler at a time.  A step of this specification is the *)
(* code between two awaits on a lock that another task can take, so that   *)
(* the handlers of two connections interleave as the runtime lets them.    *)
(* told is a history variable: what the messages that reached a client     *)
(* last said of each member.  What its window makes of them, row by row,   *)
(* is in ClientSession.                                                    *)
(***************************************************************************)
EXTENDS Naturals, Sequences

CONSTANTS
  User,      \* registered users
  Conn,      \* connections; one is opened, used and closed once
  Channel,
  NoUser, NoConn, NoChannel,
  Requests,  \* the requests the clients make: {"join", "leave", "key"} or fewer
  Overlap,   \* may a user log in again before the old connection is cleaned up?
  MaxMail    \* bound: no new join or leave while an outbox holds this many

ASSUME SentinelAssumption ==
  /\ NoUser \notin User
  /\ NoConn \notin Conn
  /\ NoChannel \notin Channel
ASSUME ClientAssumption == Overlap \in BOOLEAN

VARIABLES
  pc,         \* where the task of each connection is
  alive,      \* the socket still works; FALSE once the peer is gone
  silent,     \* the peer is gone and nothing has reported it to the server
  session,    \* Session.user_id of the task, NoUser before authentication
  joined,     \* Session.channels of the task
  at,         \* the channel the running handler is about
  reply,      \* join_channel's user list, until ChannelJoined is sent
  kx,         \* the key exchange taken from the pending map, until it is used
  answered,   \* the client has sent KeyExchangeResponse, and has its own key
  outbox,     \* the unbounded mpsc queue of each connection
  channels,   \* ChannelManager.channels: the members of each channel
  sockets,    \* ChannelManager.user_sockets: whose outbox a user is reached by
  pending,    \* pending_key_exchanges: the connection it was created for
  srtp,       \* srtp_sessions: <<key exchange, client>> the keys come from
  jammed,     \* two methods of the manager wait for each other's locks
  told,       \* history: the members the client was last told a channel has
  overtaken   \* history: channels whose ChannelJoined passed older notices

task   == <<pc, session, joined, at, reply, kx>>
client == <<alive, silent, answered, told, overtaken>>
shared == <<outbox, channels, sockets, pending, srtp, jammed>>
vars   == <<pc, session, joined, at, reply, kx, alive, silent, answered, told,
            overtaken, outbox, channels, sockets, pending, srtp, jammed>>

Handling == {"kxOffer", "joinName", "joinReply", "joinCast", "leaveCast", "kxSet"}
Cleaning == {"unregister", "dropSrtp", "dropKx", "cleanCast"}
Serving  == {"idle"} \cup Handling

Notice == [event : {"user_joined", "user_left"}, channel : Channel, user : User]
NoSrtp == <<NoConn, NoConn>>

Init ==
  /\ pc       = [c \in Conn |-> "closed"]
  /\ alive    = [c \in Conn |-> FALSE]
  /\ session  = [c \in Conn |-> NoUser]
  /\ joined   = [c \in Conn |-> {}]
  /\ at       = [c \in Conn |-> NoChannel]
  /\ reply    = [c \in Conn |-> {}]
  /\ kx       = [c \in Conn |-> NoConn]
  /\ silent   = [c \in Conn |-> FALSE]
  /\ answered = [c \in Conn |-> FALSE]
  /\ told     = [c \in Conn |-> [ch \in Channel |-> {}]]
  /\ overtaken = [c \in Conn |-> {}]
  /\ outbox   = [c \in Conn |-> <<>>]
  /\ channels = [ch \in Channel |-> {}]
  /\ sockets  = [u \in User |-> NoConn]
  /\ pending  = [u \in User |-> NoConn]
  /\ srtp     = [u \in User |-> NoSrtp]
  /\ jammed   = FALSE

----------------------------------------------------------------------------
(* ChannelManager::broadcast_to_channel: the outboxes after a notice went  *)
(* to every member of its channel that has a socket, except one of them.   *)
Broadcast(notice, except) ==
  [c \in Conn |->
     IF \E u \in channels[notice.channel] \ except : sockets[u] = c
       THEN Append(outbox[c], notice)
       ELSE outbox[c]]

HasRoom == \A c \in Conn : Len(outbox[c]) < MaxMail

Goto(c, label) == pc' = [pc EXCEPT ![c] = label]

----------------------------------------------------------------------------
(* Broken variants of some of the actions below.  They are not part of the *)
(* specification: each shows that a property notices the bug it names.     *)

(* register_user is forgotten, as when only one login method calls it.     *)
AuthenticateUnregistered(c, u) ==
  /\ pc[c] = "idle" /\ alive[c] /\ session[c] = NoUser
  /\ Overlap \/ \A d \in Conn : session[d] = u => pc[d] = "done"
  /\ session' = [session EXCEPT ![c] = u]
  /\ Goto(c, "kxOffer")
  /\ UNCHANGED <<joined, at, reply, kx, client, shared>>

(* KeyExchangeInit is sent but the exchange is not kept.                   *)
OfferForgotten(c) ==
  /\ pc[c] = "kxOffer"
  /\ Goto(c, "idle")
  /\ UNCHANGED <<session, joined, at, reply, kx, client, shared>>

(* The task keeps the channel it left in its own list.                     *)
LeaveKeepsSession(c, ch) ==
  /\ "leave" \in Requests /\ HasRoom
  /\ pc[c] = "idle" /\ alive[c] /\ session[c] # NoUser /\ ~jammed
  /\ channels' = [channels EXCEPT ![ch] = @ \ {session[c]}]
  /\ at' = [at EXCEPT ![c] = ch]
  /\ Goto(c, "leaveCast")
  /\ UNCHANGED <<session, joined, reply, kx, client, outbox, sockets, pending, srtp, jammed>>

(* The voice keys are stored without the client they belong to.            *)
StoreHalfSession(c) ==
  /\ pc[c] = "kxSet"
  /\ srtp' = [srtp EXCEPT ![session[c]] = kx[c]]
  /\ kx' = [kx EXCEPT ![c] = NoConn]
  /\ Goto(c, "idle")
  /\ UNCHANGED <<session, joined, at, reply, client, outbox, channels, sockets, pending, jammed>>

(* The end of a connection is not followed by its cleanup.                 *)
EndLoopSkipsCleanup(c) ==
  /\ pc[c] = "idle" /\ ~alive[c]
  /\ Goto(c, "done")
  /\ UNCHANGED <<session, joined, at, reply, kx, client, shared>>

(* unregister_user forgets the channels, or forgets the socket.            *)
UnregisterKeepsChannels(c) ==
  /\ pc[c] = "unregister"
  /\ sockets' = [sockets EXCEPT ![session[c]] = NoConn]
  /\ Goto(c, "dropSrtp")
  /\ UNCHANGED <<session, joined, at, reply, kx, client, outbox, channels, pending, srtp, jammed>>

UnregisterKeepsSocket(c) ==
  /\ pc[c] = "unregister"
  /\ channels' = [ch \in Channel |-> channels[ch] \ {session[c]}]
  /\ Goto(c, "dropSrtp")
  /\ UNCHANGED <<session, joined, at, reply, kx, client, outbox, sockets, pending, srtp, jammed>>

(* An unanswered key exchange outlives its connection.                     *)
DropNothing(c) ==
  /\ pc[c] = "dropKx"
  /\ Goto(c, "cleanCast")
  /\ UNCHANGED <<session, joined, at, reply, kx, client, shared>>

(* The cleanup does not tell the channels that the user is gone.           *)
LoseSilently(c, ch) ==
  /\ pc[c] = "cleanCast" /\ ch \in joined[c]
  /\ joined' = [joined EXCEPT ![c] = @ \ {ch}]
  /\ UNCHANGED <<pc, session, at, reply, kx, client, shared>>

----------------------------------------------------------------------------
(* A client connects; the server accepts and sends its challenge.          *)
Accept(c) ==
  /\ pc[c] = "closed"
  /\ Goto(c, "idle")
  /\ alive' = [alive EXCEPT ![c] = TRUE]
  /\ UNCHANGED <<session, joined, at, reply, kx, silent, answered, told, overtaken, shared>>

(* The peer closes, or the network fails: nothing the task sends from now  *)
(* on is seen.  A close or a reset is reported by the next recv(); a peer  *)
(* that falls silent is only when something is sent to it and TCP gives up *)
(* on the acknowledgement: the server sends no pings and sets no timeout.  *)
Hangup(c) ==
  /\ alive[c]
  /\ alive'  = [alive EXCEPT ![c] = FALSE]
  /\ silent' \in {silent, [silent EXCEPT ![c] = TRUE]}
  /\ told'   = [told EXCEPT ![c] = [ch \in Channel |-> {}]]
  /\ UNCHANGED <<task, answered, overtaken, shared>>

(* Authenticate with good credentials, up to register_user.  A second      *)
(* attempt on an authenticated connection is answered with an error only.  *)
Authenticate(c, u) ==
  /\ pc[c] = "idle" /\ alive[c]
  /\ session[c] = NoUser
  /\ Overlap \/ \A d \in Conn : session[d] = u => pc[d] = "done"
  /\ ~jammed
  /\ session' = [session EXCEPT ![c] = u]
  /\ sockets' = [sockets EXCEPT ![u] = c]
  /\ Goto(c, "kxOffer")
  /\ UNCHANGED <<joined, at, reply, kx, client, outbox, channels, pending, srtp, jammed>>

(* The rest of Authenticate: AuthResult, then the new key exchange is      *)
(* stored under the user's id and KeyExchangeInit is sent.  A send to a    *)
(* peer that is gone may fail, which ends the handler early.               *)
OfferKeyExchange(c) ==
  /\ pc[c] = "kxOffer"
  /\ \/ pending' = [pending EXCEPT ![session[c]] = c]
     \/ ~alive[c] /\ UNCHANGED pending
  /\ silent' = [silent EXCEPT ![c] = FALSE]
  /\ Goto(c, "idle")
  /\ UNCHANGED <<session, joined, at, reply, kx, alive, answered, told, overtaken,
                 outbox, channels, sockets, srtp, jammed>>

(* JoinChannel that passed the password and permission checks: the member  *)
(* list is changed and copied under one write lock.                        *)
JoinChannel(c, ch) ==
  /\ "join" \in Requests /\ HasRoom
  /\ pc[c] = "idle" /\ alive[c] /\ ~jammed
  /\ session[c] # NoUser
  /\ channels' = [channels EXCEPT ![ch] = @ \cup {session[c]}]
  /\ reply'    = [reply EXCEPT ![c] = channels'[ch]]
  /\ at'       = [at EXCEPT ![c] = ch]
  /\ overtaken' = [overtaken EXCEPT ![c] =
                     IF \E i \in 1 .. Len(outbox[c]) : outbox[c][i].channel = ch
                       THEN @ \cup {ch} ELSE @ \ {ch}]
  /\ Goto(c, "joinName")
  /\ UNCHANGED <<session, joined, kx, alive, silent, answered, told, outbox, sockets,
                 pending, srtp, jammed>>

(* The name of the channel is awaited before the task's own list is told.  *)
RecordJoin(c) ==
  /\ pc[c] = "joinName" /\ ~jammed
  /\ joined' = [joined EXCEPT ![c] = @ \cup {at[c]}]
  /\ Goto(c, "joinReply")
  /\ UNCHANGED <<session, at, reply, kx, client, shared>>

(* ChannelJoined goes straight to the socket, past the outbox.  When the   *)
(* send fails the handler returns before the broadcast.                    *)
SendChannelJoined(c) ==
  /\ pc[c] = "joinReply"
  /\ \/ /\ told' = IF alive[c] THEN [told EXCEPT ![c][at[c]] = reply[c]] ELSE told
        /\ Goto(c, "joinCast")
        /\ UNCHANGED at
     \/ /\ ~alive[c]
        /\ Goto(c, "idle")
        /\ at' = [at EXCEPT ![c] = NoChannel]
        /\ UNCHANGED told
  /\ reply'  = [reply EXCEPT ![c] = {}]
  /\ silent' = [silent EXCEPT ![c] = FALSE]
  /\ UNCHANGED <<session, joined, kx, alive, answered, overtaken, shared>>

AnnounceJoin(c) ==
  /\ pc[c] = "joinCast" /\ ~jammed
  /\ outbox' = Broadcast([event |-> "user_joined", channel |-> at[c],
                          user |-> session[c]], {session[c]})
  /\ at' = [at EXCEPT ![c] = NoChannel]
  /\ Goto(c, "idle")
  /\ UNCHANGED <<session, joined, reply, kx, client, channels, sockets, pending, srtp, jammed>>

(* LeaveChannel: nothing checks that the user is in the channel.           *)
LeaveChannel(c, ch) ==
  /\ "leave" \in Requests /\ HasRoom
  /\ pc[c] = "idle" /\ alive[c] /\ ~jammed
  /\ session[c] # NoUser
  /\ channels' = [channels EXCEPT ![ch] = @ \ {session[c]}]
  /\ joined'   = [joined EXCEPT ![c] = @ \ {ch}]
  /\ at'       = [at EXCEPT ![c] = ch]
  /\ told'     = [told EXCEPT ![c][ch] = {}]
  /\ Goto(c, "leaveCast")
  /\ UNCHANGED <<session, reply, kx, alive, silent, answered, overtaken, outbox, sockets, pending, srtp, jammed>>

AnnounceLeave(c) ==
  /\ pc[c] = "leaveCast" /\ ~jammed
  /\ outbox' = Broadcast([event |-> "user_left", channel |-> at[c],
                          user |-> session[c]], {})
  /\ at' = [at EXCEPT ![c] = NoChannel]
  /\ Goto(c, "idle")
  /\ UNCHANGED <<session, joined, reply, kx, client, channels, sockets, pending, srtp, jammed>>

(* KeyExchangeResponse: the pending exchange of the user is taken out of   *)
(* the map under one lock; without one the client gets an error.           *)
TakeKeyExchange(c) ==
  /\ "key" \in Requests
  /\ pc[c] = "idle" /\ alive[c]
  /\ session[c] # NoUser /\ ~answered[c]
  /\ answered' = [answered EXCEPT ![c] = TRUE]
  /\ kx'       = [kx EXCEPT ![c] = pending[session[c]]]
  /\ pending'  = [pending EXCEPT ![session[c]] = NoConn]
  /\ Goto(c, IF pending[session[c]] = NoConn THEN "idle" ELSE "kxSet")
  /\ UNCHANGED <<session, joined, at, reply, alive, silent, told, overtaken, outbox, channels, sockets, srtp, jammed>>

(* The keys are derived from the exchange and from the public key of the   *)
(* client that answered, whichever client the exchange was created for.    *)
StoreSrtpSession(c) ==
  /\ pc[c] = "kxSet"
  /\ srtp' = [srtp EXCEPT ![session[c]] = <<kx[c], c>>]
  /\ kx'   = [kx EXCEPT ![c] = NoConn]
  /\ Goto(c, "idle")
  /\ UNCHANGED <<session, joined, at, reply, client, outbox, channels, sockets, pending, jammed>>

----------------------------------------------------------------------------
(* A notice is the newest word on its user and channel.                    *)
Heard(members, notice) ==
  [members EXCEPT ![notice.channel] =
     IF notice.event = "user_joined" THEN @ \cup {notice.user}
                                     ELSE @ \ {notice.user}]

(* The select loop takes a notice from its outbox and sends it on.         *)
Deliver(c) ==
  /\ pc[c] = "idle"
  /\ outbox[c] # <<>>
  /\ outbox' = [outbox EXCEPT ![c] = Tail(@)]
  /\ told' = IF alive[c] THEN [told EXCEPT ![c] = Heard(@, Head(outbox[c]))] ELSE told
  /\ silent' = [silent EXCEPT ![c] = FALSE]
  /\ UNCHANGED <<task, alive, answered, overtaken, channels, sockets, pending, srtp, jammed>>

(* recv() reports the end of the stream, or a send of a notice fails: the  *)
(* loop ends, and the cleanup runs if the connection was authenticated.    *)
EndLoop(c) ==
  /\ pc[c] = "idle" /\ ~alive[c]
  /\ silent' = [silent EXCEPT ![c] = FALSE]
  /\ Goto(c, IF session[c] = NoUser THEN "done" ELSE "unregister")
  /\ UNCHANGED <<session, joined, at, reply, kx, alive, answered, told, overtaken, shared>>

(* unregister_user holds the lock of user_sockets until the user is out of *)
(* every channel.  It knows the user, not the connection.                  *)
Unregister(c) ==
  /\ pc[c] = "unregister" /\ ~jammed
  /\ sockets'  = [sockets EXCEPT ![session[c]] = NoConn]
  /\ channels' = [ch \in Channel |-> channels[ch] \ {session[c]}]
  /\ Goto(c, "dropSrtp")
  /\ UNCHANGED <<session, joined, at, reply, kx, client, outbox, pending, srtp, jammed>>

(* unregister_user has user_sockets and waits for channels, while a        *)
(* broadcast has channels and waits for user_sockets (see ManagerLocks):   *)
(* neither goes on, and no method of the manager does from now on.         *)
Broadcasting(c) ==
  pc[c] \in {"joinCast", "leaveCast"} \/ (pc[c] = "cleanCast" /\ joined[c] # {})

Jam(c, d) ==
  /\ pc[c] = "unregister" /\ Broadcasting(d) /\ ~jammed
  /\ jammed' = TRUE
  /\ UNCHANGED <<task, client, outbox, channels, sockets, pending, srtp>>

DropSrtpSession(c) ==
  /\ pc[c] = "dropSrtp"
  /\ srtp' = [srtp EXCEPT ![session[c]] = NoSrtp]
  /\ Goto(c, "dropKx")
  /\ UNCHANGED <<session, joined, at, reply, kx, client, outbox, channels, sockets, pending, jammed>>

DropKeyExchange(c) ==
  /\ pc[c] = "dropKx"
  /\ pending' = [pending EXCEPT ![session[c]] = NoConn]
  /\ Goto(c, "cleanCast")
  /\ UNCHANGED <<session, joined, at, reply, kx, client, outbox, channels, sockets, srtp, jammed>>

(* One broadcast per channel of the session, each under its own locks.     *)
AnnounceLoss(c, ch) ==
  /\ pc[c] = "cleanCast" /\ ~jammed
  /\ ch \in joined[c]
  /\ outbox' = Broadcast([event |-> "user_left", channel |-> ch,
                          user |-> session[c]], {})
  /\ joined' = [joined EXCEPT ![c] = @ \ {ch}]
  /\ UNCHANGED <<pc, session, at, reply, kx, client, channels, sockets, pending, srtp, jammed>>

(* The task returns; its receiver and whatever is queued in it are gone.   *)
Finish(c) ==
  /\ pc[c] = "cleanCast" /\ joined[c] = {}
  /\ Goto(c, "done")
  /\ outbox' = [outbox EXCEPT ![c] = <<>>]
  /\ UNCHANGED <<session, joined, at, reply, kx, client, channels, sockets, pending, srtp, jammed>>

----------------------------------------------------------------------------
Request(c) ==
  \/ \E u \in User : Authenticate(c, u)
  \/ \E ch \in Channel : JoinChannel(c, ch) \/ LeaveChannel(c, ch)
  \/ TakeKeyExchange(c)

(* The steps the runtime takes by itself once a task can run.              *)
Server(c) ==
  \/ OfferKeyExchange(c) \/ RecordJoin(c) \/ SendChannelJoined(c) \/ AnnounceJoin(c)
  \/ AnnounceLeave(c) \/ StoreSrtpSession(c)
  \/ Deliver(c) \/ Unregister(c)
  \/ DropSrtpSession(c) \/ DropKeyExchange(c)
  \/ \E ch \in Channel : AnnounceLoss(c, ch)
  \/ Finish(c)

Next ==
  \/ \E c \in Conn : Accept(c) \/ Hangup(c) \/ Request(c) \/ Server(c) \/ EndLoop(c)
  \/ \E c, d \in Conn : Jam(c, d)

Spec == Init /\ [][Next]_vars

(* tokio polls every task that is ready, and select! polls its branches in *)
(* random order, so a stream of notices cannot hide the end of a socket    *)
(* that reports it.  A client owes nothing.                                *)
FairSpec ==
  Spec /\ \A c \in Conn : WF_vars(Server(c)) /\ WF_vars(~silent[c] /\ EndLoop(c))
----------------------------------------------------------------------------
(* Type invariant of the tables the tasks share and of each task's state.  *)
TypeOK ==
  /\ pc       \in [Conn -> {"closed", "done"} \cup Serving \cup Cleaning]
  /\ alive    \in [Conn -> BOOLEAN]
  /\ session  \in [Conn -> User \cup {NoUser}]
  /\ joined   \in [Conn -> SUBSET Channel]
  /\ at       \in [Conn -> Channel \cup {NoChannel}]
  /\ reply    \in [Conn -> SUBSET User]
  /\ kx       \in [Conn -> Conn \cup {NoConn}]
  /\ silent   \in [Conn -> BOOLEAN]
  /\ answered \in [Conn -> BOOLEAN]
  /\ told     \in [Conn -> [Channel -> SUBSET User]]
  /\ overtaken \in [Conn -> SUBSET Channel]
  /\ outbox   \in [Conn -> Seq(Notice)]
  /\ channels \in [Channel -> SUBSET User]
  /\ sockets  \in [User -> Conn \cup {NoConn}]
  /\ pending  \in [User -> Conn \cup {NoConn}]
  /\ srtp     \in [User -> (Conn \cup {NoConn}) \X (Conn \cup {NoConn})]
  /\ jammed   \in BOOLEAN

(* A connection that is authenticated and has not begun its cleanup.       *)
Serves(c, u) == session[c] = u /\ pc[c] \in Serving \cup {"unregister"}

(* A user's socket entry always leads to a connection that authenticated   *)
(* as that user and whose task still owns its receiver: no notice can      *)
(* reach another user or a task that has returned, even when the old and   *)
(* the new connection of a user overlap.                                   *)
SocketsAreLive ==
  \A u \in User : sockets[u] # NoConn => Serves(sockets[u], u)

(* Whoever is listed in a channel is served by some connection, in every   *)
(* interleaving of joins, logins and cleanups ("no leaked state on         *)
(* disconnect").                                                           *)
MembersAreServed ==
  \A ch \in Channel : \A u \in channels[ch] : \E c \in Conn : Serves(c, u)

(* Once the last connection of a user has finished its cleanup nothing of  *)
(* the user is left: no membership, socket, key exchange or voice key.     *)
NoResidue ==
  \A u \in User :
    (\A c \in Conn : session[c] = u => pc[c] = "done") =>
      /\ \A ch \in Channel : u \notin channels[ch]
      /\ sockets[u] = NoConn /\ pending[u] = NoConn /\ srtp[u] = NoSrtp

(* The channel a JoinChannel has entered at the manager and has not yet    *)
(* noted in its own list.                                                  *)
Entering(c) == IF pc[c] = "joinName" THEN {at[c]} ELSE {}

(* The task's own list of channels, which SetTransmitChannel and the       *)
(* cleanup trust, with the channel it is just entering, is the set of      *)
(* channels the manager has the user in: between the two changes of a join *)
(* no other handler or cleanup of the user pulls them apart.               *)
SessionMatchesManager ==
  \A c \in Conn : \A u \in User :
    Serves(c, u) => joined[c] \cup Entering(c) = {ch \in Channel : u \in channels[ch]}

(* A channel the task believes the user is in is one the manager has the   *)
(* user in: SetTransmitChannel confirms no channel voice is not routed to. *)
SessionChannelsAreMemberships ==
  \A c \in Conn : \A u \in User :
    Serves(c, u) => \A ch \in joined[c] : u \in channels[ch]

(* Every notice a user may still need can reach it: a connection that      *)
(* serves the user is the one its socket entry names.                      *)
ServedUsersAreReachable ==
  \A c \in Conn : \A u \in User : Serves(c, u) => sockets[u] = c

(* The client that answered the key exchange and the server that went back *)
(* to its loop hold keys of the same exchange: voice can be decrypted.     *)
VoiceKeysAgree ==
  \A c \in Conn :
    answered[c] /\ pc[c] = "idle" => srtp[session[c]] = <<c, c>>

(* No handler or cleanup is half way or due, and all outboxes are drained. *)
Quiet == \A c \in Conn :
  /\ pc[c] \in {"closed", "done"} \/ (pc[c] = "idle" /\ alive[c])
  /\ outbox[c] = <<>>

(* When everything sent has arrived, the last word every connected member  *)
(* had on who is in its channels is what the manager holds.  Left out are  *)
(* the channels whose ChannelJoined went past notices that were already in *)
(* the outbox, which then arrive after the newer list and contradict it; a *)
(* join that overtakes nothing puts it right.                              *)
LastWordUnlessOvertaken ==
  Quiet => \A c \in Conn : \A ch \in joined[c] \ overtaken[c] :
             alive[c] => told[c][ch] = channels[ch]

(* A connection whose end is reported does not keep its user in a channel  *)
(* forever: wherever its task is, it gets to its cleanup and through       *)
(* unregister_user, unless the manager is jammed.                          *)
DepartedUsersLeave ==
  \A c \in Conn : \A u \in User :
    (Serves(c, u) /\ ~alive[c] /\ ~silent[c])
      ~> (jammed \/ \A ch \in Channel : u \notin channels[ch])

(* The task table and the manager's maps together keep the promise of a    *)
(* plain membership service, when logins of a user do not overlap.         *)
Service == INSTANCE Membership WITH
             online <- {u \in User : sockets[u] # NoConn}, members <- channels
IsMembershipService == Service!Spec
=============================================================================
