------------------------- MODULE ControlServerProof -------------------------
(***************************************************************************)
(* Proofs about the control connections of the server: about ControlServer *)
(* for any sets of users, connections and channels, any requests and any   *)
(* bound on the mail, and about the locks of its ChannelManager            *)
(* (ManagerLocks) for any tasks and any set of the manager's methods.      *)
(***************************************************************************)
EXTENDS ControlServer, ManagerLocks, TLAPS, SequenceTheorems

USE SentinelAssumption, ClientAssumption

(* What a task's program counter says of its other variables: a handler    *)
(* past its checks and a cleanup have a user, a handler about a channel    *)
(* has the channel, and a task without a session has joined nothing.       *)
TaskOK ==
  \A c \in Conn :
    /\ pc[c] \in {"joinName", "joinReply", "joinCast", "leaveCast"} => at[c] \in Channel
    /\ pc[c] \in Handling \cup Cleaning => session[c] \in User
    /\ pc[c] = "closed" => session[c] = NoUser
    /\ session[c] = NoUser => joined[c] = {}

TypedTasks == TypeOK /\ TaskOK

(* Appending a well-formed notice keeps every outbox well formed.          *)
LEMMA BroadcastType ==
  ASSUME TypeOK, NEW n \in Notice, NEW X \in SUBSET User
  PROVE  Broadcast(n, X) \in [Conn -> Seq(Notice)]
  BY DEF TypeOK, Broadcast

(* A notice changes a member list into a member list.                      *)
LEMMA HeardType ==
  ASSUME NEW members \in [Channel -> SUBSET User], NEW n \in Notice
  PROVE  Heard(members, n) \in [Channel -> SUBSET User]
  BY DEF Heard, Notice

(* The first notice of a non-empty outbox is a notice; the rest is mail.   *)
LEMMA MailType ==
  ASSUME TypeOK, NEW c \in Conn, outbox[c] # <<>>
  PROVE  Head(outbox[c]) \in Notice /\ Tail(outbox[c]) \in Seq(Notice)
<1>1. outbox[c] \in Seq(Notice)
  BY DEF TypeOK
<1> QED
  BY <1>1

(* Every handler and every step of the cleanup keeps the types and the     *)
(* facts about each task they rest on.                                     *)
LEMMA TypeStep == TypedTasks /\ [Next]_vars => TypedTasks'
<1>1. TypedTasks /\ [Next]_vars => TypeOK'
  <2> SUFFICES ASSUME TypeOK, TaskOK, [Next]_vars PROVE TypeOK'
    BY DEF TypedTasks
  <2> USE DEF TypeOK, Goto, Serving, Handling, Cleaning, shared, client, task
  <2>1. ASSUME NEW c \in Conn, Accept(c) PROVE TypeOK'
    BY <2>1 DEF Accept
  <2>2. ASSUME NEW c \in Conn, Hangup(c) PROVE TypeOK'
    BY <2>2 DEF Hangup
  <2>3. ASSUME NEW c \in Conn, NEW u \in User, Authenticate(c, u) PROVE TypeOK'
    BY <2>3 DEF Authenticate
  <2>4. ASSUME NEW c \in Conn, NEW ch \in Channel, JoinChannel(c, ch) PROVE TypeOK'
    BY <2>4 DEF JoinChannel
  <2>5. ASSUME NEW c \in Conn, NEW ch \in Channel, LeaveChannel(c, ch) PROVE TypeOK'
    BY <2>5 DEF LeaveChannel
  <2>6. ASSUME NEW c \in Conn, TakeKeyExchange(c) PROVE TypeOK'
    BY <2>6 DEF TakeKeyExchange
  <2>7. ASSUME NEW c \in Conn, OfferKeyExchange(c) PROVE TypeOK'
    <3>1. session[c] \in User
      BY <2>7 DEF OfferKeyExchange, TaskOK
    <3>2. pending' \in [User -> Conn \cup {NoConn}]
      BY <2>7, <3>1 DEF OfferKeyExchange
    <3> QED
      BY <2>7, <3>2 DEF OfferKeyExchange
  <2>8. ASSUME NEW c \in Conn, SendChannelJoined(c) PROVE TypeOK'
    <3>0. at[c] \in Channel /\ reply[c] \in SUBSET User
      BY <2>8 DEF SendChannelJoined, TaskOK
    <3>1. told' \in [Conn -> [Channel -> SUBSET User]]
      <4>1. [told[c] EXCEPT ![at[c]] = reply[c]] \in [Channel -> SUBSET User]
        BY <3>0
      <4>2. told' = told \/ told' = [told EXCEPT ![c] = [told[c] EXCEPT ![at[c]] = reply[c]]]
        BY <2>8 DEF SendChannelJoined
      <4> QED
        BY <4>1, <4>2
    <3>2. at' \in [Conn -> Channel \cup {NoChannel}] /\ pc' \in [Conn -> {"closed", "done"} \cup Serving \cup Cleaning]
      BY <2>8 DEF SendChannelJoined
    <3> QED
      BY <2>8, <3>1, <3>2 DEF SendChannelJoined
  <2>9. ASSUME NEW c \in Conn, AnnounceJoin(c) PROVE TypeOK'
    BY <2>9, BroadcastType DEF AnnounceJoin, TaskOK, Notice
  <2>10. ASSUME NEW c \in Conn, AnnounceLeave(c) PROVE TypeOK'
    BY <2>10, BroadcastType DEF AnnounceLeave, TaskOK, Notice
  <2>11. ASSUME NEW c \in Conn, StoreSrtpSession(c) PROVE TypeOK'
    BY <2>11 DEF StoreSrtpSession, TaskOK
  <2>12. ASSUME NEW c \in Conn, Deliver(c) PROVE TypeOK'
    BY <2>12, MailType, HeardType DEF Deliver
  <2>13. ASSUME NEW c \in Conn, EndLoop(c) PROVE TypeOK'
    BY <2>13 DEF EndLoop
  <2>14. ASSUME NEW c \in Conn, Unregister(c) PROVE TypeOK'
    BY <2>14 DEF Unregister, TaskOK
  <2>15. ASSUME NEW c \in Conn, DropSrtpSession(c) PROVE TypeOK'
    BY <2>15 DEF DropSrtpSession, NoSrtp
  <2>16. ASSUME NEW c \in Conn, DropKeyExchange(c) PROVE TypeOK'
    BY <2>16 DEF DropKeyExchange, TaskOK
  <2>17. ASSUME NEW c \in Conn, NEW ch \in Channel, AnnounceLoss(c, ch) PROVE TypeOK'
    BY <2>17, BroadcastType DEF AnnounceLoss, TaskOK, Notice
  <2>18. ASSUME NEW c \in Conn, Finish(c) PROVE TypeOK'
    BY <2>18 DEF Finish
  <2>19. CASE UNCHANGED vars
    BY <2>19 DEF vars
  <2>20. ASSUME NEW c \in Conn, RecordJoin(c) PROVE TypeOK'
    BY <2>20 DEF RecordJoin, TaskOK
  <2>21. ASSUME NEW c \in Conn, NEW e \in Conn, Jam(c, e) PROVE TypeOK'
    BY <2>21 DEF Jam
  <2> QED
    BY <2>1, <2>2, <2>3, <2>4, <2>5, <2>6, <2>7, <2>8, <2>9, <2>10,
       <2>11, <2>12, <2>13, <2>14, <2>15, <2>16, <2>17, <2>18, <2>19, <2>20, <2>21 DEF
       Next, Request, Server
<1>2. TypedTasks /\ [Next]_vars => TaskOK'
  <2> SUFFICES ASSUME TypeOK, TaskOK, [Next]_vars PROVE TaskOK'
    BY DEF TypedTasks
  <2> USE DEF TypeOK, TaskOK, Goto, Serving, Handling, Cleaning, shared, client, task
  <2>1. ASSUME NEW c \in Conn, Accept(c) PROVE TaskOK'
    BY <2>1 DEF Accept
  <2>2. ASSUME NEW c \in Conn, Hangup(c) PROVE TaskOK'
    BY <2>2 DEF Hangup
  <2>3. ASSUME NEW c \in Conn, NEW u \in User, Authenticate(c, u) PROVE TaskOK'
    BY <2>3 DEF Authenticate
  <2>4. ASSUME NEW c \in Conn, NEW ch \in Channel, JoinChannel(c, ch) PROVE TaskOK'
    BY <2>4 DEF JoinChannel
  <2>5. ASSUME NEW c \in Conn, NEW ch \in Channel, LeaveChannel(c, ch) PROVE TaskOK'
    BY <2>5 DEF LeaveChannel
  <2>6. ASSUME NEW c \in Conn, TakeKeyExchange(c) PROVE TaskOK'
    BY <2>6 DEF TakeKeyExchange
  <2>7. ASSUME NEW c \in Conn, OfferKeyExchange(c) PROVE TaskOK'
    BY <2>7 DEF OfferKeyExchange
  <2>8. ASSUME NEW c \in Conn, SendChannelJoined(c) PROVE TaskOK'
    BY <2>8 DEF SendChannelJoined
  <2>9. ASSUME NEW c \in Conn, AnnounceJoin(c) PROVE TaskOK'
    BY <2>9 DEF AnnounceJoin
  <2>10. ASSUME NEW c \in Conn, AnnounceLeave(c) PROVE TaskOK'
    BY <2>10 DEF AnnounceLeave
  <2>11. ASSUME NEW c \in Conn, StoreSrtpSession(c) PROVE TaskOK'
    BY <2>11 DEF StoreSrtpSession
  <2>12. ASSUME NEW c \in Conn, Deliver(c) PROVE TaskOK'
    BY <2>12 DEF Deliver
  <2>13. ASSUME NEW c \in Conn, EndLoop(c) PROVE TaskOK'
    BY <2>13 DEF EndLoop
  <2>14. ASSUME NEW c \in Conn, Unregister(c) PROVE TaskOK'
    BY <2>14 DEF Unregister
  <2>15. ASSUME NEW c \in Conn, DropSrtpSession(c) PROVE TaskOK'
    BY <2>15 DEF DropSrtpSession
  <2>16. ASSUME NEW c \in Conn, DropKeyExchange(c) PROVE TaskOK'
    BY <2>16 DEF DropKeyExchange
  <2>17. ASSUME NEW c \in Conn, NEW ch \in Channel, AnnounceLoss(c, ch) PROVE TaskOK'
    BY <2>17 DEF AnnounceLoss
  <2>18. ASSUME NEW c \in Conn, Finish(c) PROVE TaskOK'
    BY <2>18 DEF Finish
  <2>19. CASE UNCHANGED vars
    BY <2>19 DEF vars
  <2>20. ASSUME NEW c \in Conn, RecordJoin(c) PROVE TaskOK'
    BY <2>20 DEF RecordJoin
  <2>21. ASSUME NEW c \in Conn, NEW e \in Conn, Jam(c, e) PROVE TaskOK'
    BY <2>21 DEF Jam
  <2> QED
    BY <2>1, <2>2, <2>3, <2>4, <2>5, <2>6, <2>7, <2>8, <2>9, <2>10,
       <2>11, <2>12, <2>13, <2>14, <2>15, <2>16, <2>17, <2>18, <2>19, <2>20, <2>21 DEF
       Next, Request, Server
<1> QED
  BY <1>1, <1>2 DEF TypedTasks

(* The tables and the tasks are always well formed.                        *)
LEMMA AlwaysTyped == Spec => []TypedTasks
<1>1. Init => TypedTasks
  <2> SUFFICES ASSUME Init PROVE TypeOK /\ TaskOK
    BY DEF TypedTasks
  <2>1. TypeOK
    <3>1. outbox \in [Conn -> Seq(Notice)]
      BY DEF Init
    <3>2. told \in [Conn -> [Channel -> SUBSET User]]
      BY DEF Init
    <3> QED
      BY <3>1, <3>2 DEF Init, TypeOK, NoSrtp, Serving
  <2>2. TaskOK
    BY DEF Init, TaskOK, Handling, Cleaning
  <2> QED
    BY <2>1, <2>2
<1>2. QED
  BY <1>1, TypeStep, PTL DEF Spec

(* ControlServer is type correct.                                          *)
THEOREM TypeCorrect == Spec => []TypeOK
<1>1. TypedTasks => TypeOK
  BY DEF TypedTasks
<1>2. QED
  BY <1>1, AlwaysTyped, PTL

----------------------------------------------------------------------------
(* The four steps of a cleanup that take something away from a user.       *)
CleansUp(d) == Unregister(d) \/ DropSrtpSession(d) \/ DropKeyExchange(d) \/ Finish(d)

(* A session lasts as long as its task, and except in the steps of its own *)
(* cleanup a task that serves its user goes on serving it.                 *)
LEMMA TaskProgress ==
  ASSUME TypedTasks, [Next]_vars, NEW d \in Conn, session[d] \in User
  PROVE  /\ session'[d] = session[d]
         /\ \/ pc'[d] = pc[d]
            \/ pc[d] \in Serving /\ pc'[d] \in Serving \cup {"unregister"}
            \/ CleansUp(d)
<1> DEFINE Goal == /\ session'[d] = session[d]
                   /\ \/ pc'[d] = pc[d]
                      \/ pc[d] \in Serving /\ pc'[d] \in Serving \cup {"unregister"}
                      \/ CleansUp(d)
<1> SUFFICES Goal
  OBVIOUS
<1> USE DEF TypedTasks, TypeOK, TaskOK, Goto, Serving, Handling, shared, client, task, CleansUp
<1>1. ASSUME NEW c \in Conn, Accept(c) PROVE Goal
  BY <1>1 DEF Accept
<1>2. ASSUME NEW c \in Conn, Hangup(c) PROVE Goal
  BY <1>2 DEF Hangup
<1>3. ASSUME NEW c \in Conn, NEW u \in User, Authenticate(c, u) PROVE Goal
  BY <1>3 DEF Authenticate
<1>4. ASSUME NEW c \in Conn, NEW ch \in Channel, JoinChannel(c, ch) PROVE Goal
  BY <1>4 DEF JoinChannel
<1>5. ASSUME NEW c \in Conn, NEW ch \in Channel, LeaveChannel(c, ch) PROVE Goal
  BY <1>5 DEF LeaveChannel
<1>6. ASSUME NEW c \in Conn, TakeKeyExchange(c) PROVE Goal
  BY <1>6 DEF TakeKeyExchange
<1>7. ASSUME NEW c \in Conn, OfferKeyExchange(c) PROVE Goal
  BY <1>7 DEF OfferKeyExchange
<1>8. ASSUME NEW c \in Conn, SendChannelJoined(c) PROVE Goal
  BY <1>8 DEF SendChannelJoined
<1>9. ASSUME NEW c \in Conn, AnnounceJoin(c) PROVE Goal
  BY <1>9 DEF AnnounceJoin
<1>10. ASSUME NEW c \in Conn, AnnounceLeave(c) PROVE Goal
  BY <1>10 DEF AnnounceLeave
<1>11. ASSUME NEW c \in Conn, StoreSrtpSession(c) PROVE Goal
  BY <1>11 DEF StoreSrtpSession
<1>12. ASSUME NEW c \in Conn, Deliver(c) PROVE Goal
  BY <1>12 DEF Deliver
<1>13. ASSUME NEW c \in Conn, EndLoop(c) PROVE Goal
  BY <1>13 DEF EndLoop
<1>14. ASSUME NEW c \in Conn, Unregister(c) PROVE Goal
  BY <1>14 DEF Unregister
<1>15. ASSUME NEW c \in Conn, DropSrtpSession(c) PROVE Goal
  BY <1>15 DEF DropSrtpSession
<1>16. ASSUME NEW c \in Conn, DropKeyExchange(c) PROVE Goal
  BY <1>16 DEF DropKeyExchange
<1>17. ASSUME NEW c \in Conn, NEW ch \in Channel, AnnounceLoss(c, ch) PROVE Goal
  BY <1>17 DEF AnnounceLoss
<1>18. ASSUME NEW c \in Conn, Finish(c) PROVE Goal
  BY <1>18 DEF Finish
<1>19. CASE UNCHANGED vars
  BY <1>19 DEF vars
<1>20. ASSUME NEW c \in Conn, RecordJoin(c) PROVE Goal
  BY <1>20 DEF RecordJoin
<1>21. ASSUME NEW c \in Conn, NEW e \in Conn, Jam(c, e) PROVE Goal
  BY <1>21 DEF Jam
<1> QED
  BY <1>1, <1>2, <1>3, <1>4, <1>5, <1>6, <1>7, <1>8, <1>9, <1>10, <1>11,
     <1>12, <1>13, <1>14, <1>15, <1>16, <1>17, <1>18, <1>19, <1>20, <1>21 DEF Next,
     Request, Server

(* A user's socket entry leads to a live connection of that user.          *)
THEOREM LiveSockets == Spec => []SocketsAreLive
<1>1. Init => SocketsAreLive
  BY DEF Init, SocketsAreLive
<1>2. TypedTasks /\ SocketsAreLive /\ [Next]_vars => SocketsAreLive'
  <2> SUFFICES ASSUME TypedTasks, SocketsAreLive, [Next]_vars, NEW v \in User,
                      NEW d \in Conn, sockets'[v] = d
               PROVE  session'[d] = v /\ pc'[d] \in Serving \cup {"unregister"}
    BY TypeStep DEF SocketsAreLive, Serves, TypedTasks, TypeOK
  <2> USE DEF TypedTasks, TypeOK, SocketsAreLive, Serves, Goto, Serving, Handling,
              shared, client, task
  <2>1. ASSUME NEW c \in Conn, Accept(c) PROVE session'[d] = v /\ pc'[d] \in Serving \cup {"unregister"}
    BY <2>1 DEF Accept
  <2>2. ASSUME NEW c \in Conn, Hangup(c) PROVE session'[d] = v /\ pc'[d] \in Serving \cup {"unregister"}
    BY <2>2 DEF Hangup
  <2>3. ASSUME NEW c \in Conn, NEW u \in User, Authenticate(c, u) PROVE session'[d] = v /\ pc'[d] \in Serving \cup {"unregister"}
    BY <2>3 DEF Authenticate
  <2>4. ASSUME NEW c \in Conn, NEW ch \in Channel, JoinChannel(c, ch) PROVE session'[d] = v /\ pc'[d] \in Serving \cup {"unregister"}
    BY <2>4 DEF JoinChannel
  <2>5. ASSUME NEW c \in Conn, NEW ch \in Channel, LeaveChannel(c, ch) PROVE session'[d] = v /\ pc'[d] \in Serving \cup {"unregister"}
    BY <2>5 DEF LeaveChannel
  <2>6. ASSUME NEW c \in Conn, TakeKeyExchange(c) PROVE session'[d] = v /\ pc'[d] \in Serving \cup {"unregister"}
    BY <2>6 DEF TakeKeyExchange
  <2>7. ASSUME NEW c \in Conn, OfferKeyExchange(c) PROVE session'[d] = v /\ pc'[d] \in Serving \cup {"unregister"}
    BY <2>7 DEF OfferKeyExchange
  <2>8. ASSUME NEW c \in Conn, SendChannelJoined(c) PROVE session'[d] = v /\ pc'[d] \in Serving \cup {"unregister"}
    BY <2>8 DEF SendChannelJoined
  <2>9. ASSUME NEW c \in Conn, AnnounceJoin(c) PROVE session'[d] = v /\ pc'[d] \in Serving \cup {"unregister"}
    BY <2>9 DEF AnnounceJoin
  <2>10. ASSUME NEW c \in Conn, AnnounceLeave(c) PROVE session'[d] = v /\ pc'[d] \in Serving \cup {"unregister"}
    BY <2>10 DEF AnnounceLeave
  <2>11. ASSUME NEW c \in Conn, StoreSrtpSession(c) PROVE session'[d] = v /\ pc'[d] \in Serving \cup {"unregister"}
    BY <2>11 DEF StoreSrtpSession
  <2>12. ASSUME NEW c \in Conn, Deliver(c) PROVE session'[d] = v /\ pc'[d] \in Serving \cup {"unregister"}
    BY <2>12 DEF Deliver
  <2>13. ASSUME NEW c \in Conn, EndLoop(c) PROVE session'[d] = v /\ pc'[d] \in Serving \cup {"unregister"}
    BY <2>13 DEF EndLoop
  <2>14. ASSUME NEW c \in Conn, Unregister(c) PROVE session'[d] = v /\ pc'[d] \in Serving \cup {"unregister"}
    BY <2>14 DEF Unregister
  <2>15. ASSUME NEW c \in Conn, DropSrtpSession(c) PROVE session'[d] = v /\ pc'[d] \in Serving \cup {"unregister"}
    BY <2>15 DEF DropSrtpSession
  <2>16. ASSUME NEW c \in Conn, DropKeyExchange(c) PROVE session'[d] = v /\ pc'[d] \in Serving \cup {"unregister"}
    BY <2>16 DEF DropKeyExchange
  <2>17. ASSUME NEW c \in Conn, NEW ch \in Channel, AnnounceLoss(c, ch) PROVE session'[d] = v /\ pc'[d] \in Serving \cup {"unregister"}
    BY <2>17 DEF AnnounceLoss
  <2>18. ASSUME NEW c \in Conn, Finish(c) PROVE session'[d] = v /\ pc'[d] \in Serving \cup {"unregister"}
    BY <2>18 DEF Finish
  <2>19. CASE UNCHANGED vars
    BY <2>19 DEF vars
  <2>20. ASSUME NEW c \in Conn, RecordJoin(c) PROVE session'[d] = v /\ pc'[d] \in Serving \cup {"unregister"}
    BY <2>20 DEF RecordJoin
  <2>21. ASSUME NEW c \in Conn, NEW e \in Conn, Jam(c, e) PROVE session'[d] = v /\ pc'[d] \in Serving \cup {"unregister"}
    BY <2>21 DEF Jam
  <2> QED
    BY <2>1, <2>2, <2>3, <2>4, <2>5, <2>6, <2>7, <2>8, <2>9, <2>10,
       <2>11, <2>12, <2>13, <2>14, <2>15, <2>16, <2>17, <2>18, <2>19, <2>20, <2>21 DEF
       Next, Request, Server
<1>3. QED
  BY <1>1, <1>2, AlwaysTyped, PTL DEF Spec

----------------------------------------------------------------------------
(* Only a handler of a served user makes the user a member.                *)
LEMMA NewMemberIsServed ==
  ASSUME TypedTasks, [Next]_vars, NEW ch0 \in Channel, NEW v \in User,
         v \notin channels[ch0], v \in channels'[ch0]
  PROVE  \E d \in Conn : session'[d] = v /\ pc'[d] \in Serving \cup {"unregister"}
<1> DEFINE Goal == \E d \in Conn : session'[d] = v /\ pc'[d] \in Serving \cup {"unregister"}
<1> SUFFICES Goal
  OBVIOUS
<1> USE DEF TypedTasks, TypeOK, TaskOK, Goto, Serving, Handling, shared, client, task
<1>1. ASSUME NEW c \in Conn, Accept(c) PROVE Goal
  BY <1>1 DEF Accept
<1>2. ASSUME NEW c \in Conn, Hangup(c) PROVE Goal
  BY <1>2 DEF Hangup
<1>3. ASSUME NEW c \in Conn, NEW u \in User, Authenticate(c, u) PROVE Goal
  BY <1>3 DEF Authenticate
<1>4. ASSUME NEW c \in Conn, NEW ch \in Channel, JoinChannel(c, ch) PROVE Goal
  BY <1>4 DEF JoinChannel
<1>5. ASSUME NEW c \in Conn, NEW ch \in Channel, LeaveChannel(c, ch) PROVE Goal
  BY <1>5 DEF LeaveChannel
<1>6. ASSUME NEW c \in Conn, TakeKeyExchange(c) PROVE Goal
  BY <1>6 DEF TakeKeyExchange
<1>7. ASSUME NEW c \in Conn, OfferKeyExchange(c) PROVE Goal
  BY <1>7 DEF OfferKeyExchange
<1>8. ASSUME NEW c \in Conn, SendChannelJoined(c) PROVE Goal
  BY <1>8 DEF SendChannelJoined
<1>9. ASSUME NEW c \in Conn, AnnounceJoin(c) PROVE Goal
  BY <1>9 DEF AnnounceJoin
<1>10. ASSUME NEW c \in Conn, AnnounceLeave(c) PROVE Goal
  BY <1>10 DEF AnnounceLeave
<1>11. ASSUME NEW c \in Conn, StoreSrtpSession(c) PROVE Goal
  BY <1>11 DEF StoreSrtpSession
<1>12. ASSUME NEW c \in Conn, Deliver(c) PROVE Goal
  BY <1>12 DEF Deliver
<1>13. ASSUME NEW c \in Conn, EndLoop(c) PROVE Goal
  BY <1>13 DEF EndLoop
<1>14. ASSUME NEW c \in Conn, Unregister(c) PROVE Goal
  BY <1>14 DEF Unregister
<1>15. ASSUME NEW c \in Conn, DropSrtpSession(c) PROVE Goal
  BY <1>15 DEF DropSrtpSession
<1>16. ASSUME NEW c \in Conn, DropKeyExchange(c) PROVE Goal
  BY <1>16 DEF DropKeyExchange
<1>17. ASSUME NEW c \in Conn, NEW ch \in Channel, AnnounceLoss(c, ch) PROVE Goal
  BY <1>17 DEF AnnounceLoss
<1>18. ASSUME NEW c \in Conn, Finish(c) PROVE Goal
  BY <1>18 DEF Finish
<1>19. CASE UNCHANGED vars
  BY <1>19 DEF vars
<1>20. ASSUME NEW c \in Conn, RecordJoin(c) PROVE Goal
  BY <1>20 DEF RecordJoin
<1>21. ASSUME NEW c \in Conn, NEW e \in Conn, Jam(c, e) PROVE Goal
  BY <1>21 DEF Jam
<1> QED
  BY <1>1, <1>2, <1>3, <1>4, <1>5, <1>6, <1>7, <1>8, <1>9, <1>10, <1>11,
     <1>12, <1>13, <1>14, <1>15, <1>16, <1>17, <1>18, <1>19, <1>20, <1>21 DEF Next,
     Request, Server

(* A member of a channel is served by a connection, in every interleaving. *)
THEOREM ServedMembers == Spec => []MembersAreServed
<1>1. Init => MembersAreServed
  BY DEF Init, MembersAreServed
<1>2. TypedTasks /\ MembersAreServed /\ [Next]_vars => MembersAreServed'
  <2> SUFFICES ASSUME TypedTasks, MembersAreServed, [Next]_vars, NEW ch \in Channel,
                      NEW v \in channels'[ch]
               PROVE  \E d \in Conn : session'[d] = v /\ pc'[d] \in Serving \cup {"unregister"}
    BY DEF MembersAreServed, Serves
  <2>0. v \in User
    BY TypeStep DEF TypedTasks, TypeOK
  <2>1. CASE v \notin channels[ch]
    BY <2>0, <2>1, NewMemberIsServed
  <2>2. CASE v \in channels[ch]
    <3>1. PICK d \in Conn : session[d] = v /\ pc[d] \in Serving \cup {"unregister"}
      BY <2>2 DEF MembersAreServed, Serves
    <3>2. ~ Unregister(d)
      BY <3>1 DEF Unregister
    <3>3. ~ CleansUp(d)
      BY <3>1, <3>2 DEF CleansUp, DropSrtpSession, DropKeyExchange, Finish, Serving, Handling
    <3> QED
      BY <2>0, <3>1, <3>3, TaskProgress
  <2> QED
    BY <2>1, <2>2
<1>3. QED
  BY <1>1, <1>2, AlwaysTyped, PTL DEF Spec

----------------------------------------------------------------------------
(* Stages of a task before it has taken back the user's SRTP session, and  *)
(* before it has taken back the user's pending key exchange.               *)
HoldsSrtp == Serving \cup {"unregister", "dropSrtp"}
HoldsKx   == HoldsSrtp \cup {"dropKx"}

(* A voice key or pending exchange is owed to a task that will remove it.  *)
KeysAreOwned ==
  \A u \in User :
    /\ srtp[u] # NoSrtp   => \E d \in Conn : session[d] = u /\ pc[d] \in HoldsSrtp
    /\ pending[u] # NoConn => \E d \in Conn : session[d] = u /\ pc[d] \in HoldsKx

(* Only a handler of a served user stores a key or an exchange for it.     *)
LEMMA NewKeyIsServed ==
  ASSUME TypedTasks, [Next]_vars, NEW v \in User,
         \/ srtp'[v] # srtp[v] /\ srtp'[v] # NoSrtp
         \/ pending'[v] # pending[v] /\ pending'[v] # NoConn
  PROVE  \E d \in Conn : session'[d] = v /\ pc'[d] \in Serving
<1> DEFINE Goal == \E d \in Conn : session'[d] = v /\ pc'[d] \in Serving
<1> SUFFICES Goal
  OBVIOUS
<1> USE DEF TypedTasks, TypeOK, TaskOK, Goto, Serving, Handling, shared, client, task
<1>1. ASSUME NEW c \in Conn, Accept(c) PROVE Goal
  BY <1>1 DEF Accept
<1>2. ASSUME NEW c \in Conn, Hangup(c) PROVE Goal
  BY <1>2 DEF Hangup
<1>3. ASSUME NEW c \in Conn, NEW u \in User, Authenticate(c, u) PROVE Goal
  BY <1>3 DEF Authenticate
<1>4. ASSUME NEW c \in Conn, NEW ch \in Channel, JoinChannel(c, ch) PROVE Goal
  BY <1>4 DEF JoinChannel
<1>5. ASSUME NEW c \in Conn, NEW ch \in Channel, LeaveChannel(c, ch) PROVE Goal
  BY <1>5 DEF LeaveChannel
<1>6. ASSUME NEW c \in Conn, TakeKeyExchange(c) PROVE Goal
  BY <1>6 DEF TakeKeyExchange
<1>7. ASSUME NEW c \in Conn, OfferKeyExchange(c) PROVE Goal
  BY <1>7 DEF OfferKeyExchange
<1>8. ASSUME NEW c \in Conn, SendChannelJoined(c) PROVE Goal
  BY <1>8 DEF SendChannelJoined
<1>9. ASSUME NEW c \in Conn, AnnounceJoin(c) PROVE Goal
  BY <1>9 DEF AnnounceJoin
<1>10. ASSUME NEW c \in Conn, AnnounceLeave(c) PROVE Goal
  BY <1>10 DEF AnnounceLeave
<1>11. ASSUME NEW c \in Conn, StoreSrtpSession(c) PROVE Goal
  BY <1>11 DEF StoreSrtpSession
<1>12. ASSUME NEW c \in Conn, Deliver(c) PROVE Goal
  BY <1>12 DEF Deliver
<1>13. ASSUME NEW c \in Conn, EndLoop(c) PROVE Goal
  BY <1>13 DEF EndLoop
<1>14. ASSUME NEW c \in Conn, Unregister(c) PROVE Goal
  BY <1>14 DEF Unregister
<1>15. ASSUME NEW c \in Conn, DropSrtpSession(c) PROVE Goal
  BY <1>15 DEF DropSrtpSession
<1>16. ASSUME NEW c \in Conn, DropKeyExchange(c) PROVE Goal
  BY <1>16 DEF DropKeyExchange
<1>17. ASSUME NEW c \in Conn, NEW ch \in Channel, AnnounceLoss(c, ch) PROVE Goal
  BY <1>17 DEF AnnounceLoss
<1>18. ASSUME NEW c \in Conn, Finish(c) PROVE Goal
  BY <1>18 DEF Finish
<1>19. CASE UNCHANGED vars
  BY <1>19 DEF vars
<1>20. ASSUME NEW c \in Conn, RecordJoin(c) PROVE Goal
  BY <1>20 DEF RecordJoin
<1>21. ASSUME NEW c \in Conn, NEW e \in Conn, Jam(c, e) PROVE Goal
  BY <1>21 DEF Jam
<1> QED
  BY <1>1, <1>2, <1>3, <1>4, <1>5, <1>6, <1>7, <1>8, <1>9, <1>10, <1>11,
     <1>12, <1>13, <1>14, <1>15, <1>16, <1>17, <1>18, <1>19, <1>20, <1>21 DEF Next,
     Request, Server

LEMMA KeysStep == TypedTasks /\ KeysAreOwned /\ [Next]_vars => KeysAreOwned'
<1> SUFFICES ASSUME TypedTasks, KeysAreOwned, [Next]_vars, NEW v \in User
             PROVE  /\ srtp'[v] # NoSrtp =>
                         \E d \in Conn : session'[d] = v /\ pc'[d] \in HoldsSrtp
                    /\ pending'[v] # NoConn =>
                         \E d \in Conn : session'[d] = v /\ pc'[d] \in HoldsKx
  BY DEF KeysAreOwned, NoSrtp, HoldsSrtp, HoldsKx, Serving, Handling
<1> USE DEF HoldsSrtp, HoldsKx
<1>1. ASSUME srtp'[v] # NoSrtp
      PROVE  \E d \in Conn : session'[d] = v /\ pc'[d] \in HoldsSrtp
  <2>1. CASE srtp'[v] # srtp[v]
    BY <1>1, <2>1, NewKeyIsServed
  <2>2. CASE srtp'[v] = srtp[v]
    <3>1. PICK d \in Conn : session[d] = v /\ pc[d] \in HoldsSrtp
      BY <1>1, <2>2 DEF KeysAreOwned
    <3>2. ~ DropSrtpSession(d)
      BY <1>1, <3>1 DEF DropSrtpSession, TypedTasks, TypeOK
    <3>3. CleansUp(d) => pc'[d] = "dropSrtp"
      BY <3>1, <3>2 DEF CleansUp, Unregister, DropKeyExchange, Finish, Serving, Handling,
         Goto, TypedTasks, TypeOK
    <3> QED
      BY <3>1, <3>3, TaskProgress
  <2> QED
    BY <2>1, <2>2
<1>2. ASSUME pending'[v] # NoConn
      PROVE  \E d \in Conn : session'[d] = v /\ pc'[d] \in HoldsKx
  <2>1. CASE pending'[v] # pending[v]
    BY <1>2, <2>1, NewKeyIsServed
  <2>2. CASE pending'[v] = pending[v]
    <3>1. PICK d \in Conn : session[d] = v /\ pc[d] \in HoldsKx
      BY <1>2, <2>2 DEF KeysAreOwned
    <3>2. ~ DropKeyExchange(d)
      BY <1>2, <3>1 DEF DropKeyExchange, TypedTasks, TypeOK
    <3>3. CleansUp(d) => pc'[d] \in {"dropSrtp", "dropKx"}
      BY <3>1, <3>2 DEF CleansUp, Unregister, DropSrtpSession, Finish, Serving, Handling,
         Goto, TypedTasks, TypeOK
    <3> QED
      BY <3>1, <3>3, TaskProgress
  <2> QED
    BY <2>1, <2>2
<1> QED
  BY <1>1, <1>2

(* After the last cleanup of a user nothing of the user is left.           *)
THEOREM NothingLeft == Spec => []NoResidue
<1>1. Init => KeysAreOwned
  BY DEF Init, KeysAreOwned
<1>2. SocketsAreLive /\ MembersAreServed /\ KeysAreOwned /\ TypedTasks => NoResidue
  <2> SUFFICES ASSUME SocketsAreLive, MembersAreServed, KeysAreOwned, TypedTasks,
                      NEW u \in User, \A c \in Conn : session[c] = u => pc[c] = "done"
               PROVE  /\ \A ch \in Channel : u \notin channels[ch]
                      /\ sockets[u] = NoConn /\ pending[u] = NoConn /\ srtp[u] = NoSrtp
    BY DEF NoResidue
  <2> USE DEF HoldsSrtp, HoldsKx, Serving, Handling
  <2>1. \A ch \in Channel : u \notin channels[ch]
    BY DEF MembersAreServed, Serves
  <2>2. sockets[u] = NoConn
    <3> SUFFICES ASSUME sockets[u] # NoConn PROVE FALSE
      OBVIOUS
    <3>1. sockets[u] \in Conn
      BY DEF TypedTasks, TypeOK
    <3>2. session[sockets[u]] = u /\ pc[sockets[u]] \in Serving \cup {"unregister"}
      BY DEF SocketsAreLive, Serves
    <3> QED
      BY <3>1, <3>2
  <2>3. ~ \E d \in Conn : session[d] = u /\ pc[d] \in HoldsKx
    OBVIOUS
  <2>4. pending[u] = NoConn /\ srtp[u] = NoSrtp
    <3> HIDE DEF Serving
    <3> QED
      BY <2>3 DEF KeysAreOwned
  <2> QED
    BY <2>1, <2>2, <2>4
<1>3. QED
  BY <1>1, <1>2, KeysStep, AlwaysTyped, LiveSockets, ServedMembers, PTL DEF Spec

----------------------------------------------------------------------------
(* When a user logs in only after the old connection is cleaned up, at     *)
(* most one task of a user is not done.                                    *)
Alone ==
  \A c, d \in Conn :
    session[c] \in User /\ session[c] = session[d] /\ c # d =>
      pc[c] = "done" \/ pc[d] = "done"

(* A login waits for the other tasks of its user, so they stay alone.      *)
LEMMA AloneStep ==
  ASSUME ~Overlap, TypedTasks, Alone, [Next]_vars
  PROVE  Alone'
<1> SUFFICES ASSUME NEW a \in Conn, NEW b \in Conn, session'[a] \in User,
                    session'[a] = session'[b], a # b
             PROVE  pc'[a] = "done" \/ pc'[b] = "done"
  BY DEF Alone
<1> USE DEF TypedTasks, TypeOK, TaskOK, Alone, Goto, Serving, Handling, shared, client, task
<1>1. ASSUME NEW c \in Conn, Accept(c) PROVE pc'[a] = "done" \/ pc'[b] = "done"
  BY <1>1 DEF Accept
<1>2. ASSUME NEW c \in Conn, Hangup(c) PROVE pc'[a] = "done" \/ pc'[b] = "done"
  BY <1>2 DEF Hangup
<1>3. ASSUME NEW c \in Conn, NEW u \in User, Authenticate(c, u) PROVE pc'[a] = "done" \/ pc'[b] = "done"
  BY <1>3 DEF Authenticate
<1>4. ASSUME NEW c \in Conn, NEW ch \in Channel, JoinChannel(c, ch) PROVE pc'[a] = "done" \/ pc'[b] = "done"
  BY <1>4 DEF JoinChannel
<1>5. ASSUME NEW c \in Conn, NEW ch \in Channel, LeaveChannel(c, ch) PROVE pc'[a] = "done" \/ pc'[b] = "done"
  BY <1>5 DEF LeaveChannel
<1>6. ASSUME NEW c \in Conn, TakeKeyExchange(c) PROVE pc'[a] = "done" \/ pc'[b] = "done"
  BY <1>6 DEF TakeKeyExchange
<1>7. ASSUME NEW c \in Conn, OfferKeyExchange(c) PROVE pc'[a] = "done" \/ pc'[b] = "done"
  BY <1>7 DEF OfferKeyExchange
<1>8. ASSUME NEW c \in Conn, SendChannelJoined(c) PROVE pc'[a] = "done" \/ pc'[b] = "done"
  BY <1>8 DEF SendChannelJoined
<1>9. ASSUME NEW c \in Conn, AnnounceJoin(c) PROVE pc'[a] = "done" \/ pc'[b] = "done"
  BY <1>9 DEF AnnounceJoin
<1>10. ASSUME NEW c \in Conn, AnnounceLeave(c) PROVE pc'[a] = "done" \/ pc'[b] = "done"
  BY <1>10 DEF AnnounceLeave
<1>11. ASSUME NEW c \in Conn, StoreSrtpSession(c) PROVE pc'[a] = "done" \/ pc'[b] = "done"
  BY <1>11 DEF StoreSrtpSession
<1>12. ASSUME NEW c \in Conn, Deliver(c) PROVE pc'[a] = "done" \/ pc'[b] = "done"
  BY <1>12 DEF Deliver
<1>13. ASSUME NEW c \in Conn, EndLoop(c) PROVE pc'[a] = "done" \/ pc'[b] = "done"
  BY <1>13 DEF EndLoop
<1>14. ASSUME NEW c \in Conn, Unregister(c) PROVE pc'[a] = "done" \/ pc'[b] = "done"
  BY <1>14 DEF Unregister
<1>15. ASSUME NEW c \in Conn, DropSrtpSession(c) PROVE pc'[a] = "done" \/ pc'[b] = "done"
  BY <1>15 DEF DropSrtpSession
<1>16. ASSUME NEW c \in Conn, DropKeyExchange(c) PROVE pc'[a] = "done" \/ pc'[b] = "done"
  BY <1>16 DEF DropKeyExchange
<1>17. ASSUME NEW c \in Conn, NEW ch \in Channel, AnnounceLoss(c, ch) PROVE pc'[a] = "done" \/ pc'[b] = "done"
  BY <1>17 DEF AnnounceLoss
<1>18. ASSUME NEW c \in Conn, Finish(c) PROVE pc'[a] = "done" \/ pc'[b] = "done"
  BY <1>18 DEF Finish
<1>19. CASE UNCHANGED vars
  BY <1>19 DEF vars
<1>20. ASSUME NEW c \in Conn, RecordJoin(c) PROVE pc'[a] = "done" \/ pc'[b] = "done"
  BY <1>20 DEF RecordJoin
<1>21. ASSUME NEW c \in Conn, NEW e \in Conn, Jam(c, e) PROVE pc'[a] = "done" \/ pc'[b] = "done"
  BY <1>21 DEF Jam
<1> QED
  BY <1>1, <1>2, <1>3, <1>4, <1>5, <1>6, <1>7, <1>8, <1>9, <1>10, <1>11,
     <1>12, <1>13, <1>14, <1>15, <1>16, <1>17, <1>18, <1>19, <1>20, <1>21 DEF Next,
     Request, Server

(* A user all of whose tasks are done is in no channel and has no socket.  *)
LEMMA NothingOfTheDone ==
  ASSUME NoResidue, NEW u \in User, \A d \in Conn : session[d] = u => pc[d] = "done"
  PROVE  (\A x \in Channel : u \notin channels[x]) /\ sockets[u] = NoConn
  BY DEF NoResidue

Sequential == Alone /\ SessionMatchesManager /\ ServedUsersAreReachable

(* One step of one connection keeps the task's list, the manager's list    *)
(* and the socket entry of a served user in agreement: no other task acts  *)
(* for the same user.                                                      *)
LEMMA SequentialStep ==
  ASSUME ~Overlap, TypedTasks, NoResidue, Sequential, [Next]_vars
  PROVE  Sequential'
<1> SUFFICES ASSUME NEW a \in Conn, NEW v \in User, session'[a] = v,
                    pc'[a] \in Serving \cup {"unregister"}
             PROVE  /\ joined'[a] \cup Entering(a)' = {x \in Channel : v \in channels'[x]}
                    /\ sockets'[v] = a
  BY AloneStep DEF Sequential, SessionMatchesManager, ServedUsersAreReachable, Serves, Serving, Handling
<1> DEFINE Goal == /\ joined'[a] \cup Entering(a)' = {x \in Channel : v \in channels'[x]}
                   /\ sockets'[v] = a
<1> SUFFICES Goal
  OBVIOUS
<1> USE DEF TypedTasks, TypeOK, TaskOK, Sequential, Alone, SessionMatchesManager,
            ServedUsersAreReachable, Serves, Entering, Goto, Serving, Handling, shared,
            client, task
<1>1. ASSUME NEW c \in Conn, Accept(c) PROVE Goal
  BY <1>1 DEF Accept
<1>2. ASSUME NEW c \in Conn, Hangup(c) PROVE Goal
  BY <1>2 DEF Hangup
<1>3. ASSUME NEW c \in Conn, NEW u \in User, Authenticate(c, u) PROVE Goal
  <2>1. CASE a = c
    <3>1. v = u /\ joined[a] = {}
      BY <1>3, <2>1 DEF Authenticate
    <3>0. \A d \in Conn : session[d] = u => pc[d] = "done"
      BY <1>3 DEF Authenticate
    <3>2. \A x \in Channel : v \notin channels[x]
      BY <3>0, <3>1, NothingOfTheDone
    <3>3. joined' = joined /\ channels' = channels /\ sockets'[u] = c
      BY <1>3 DEF Authenticate
    <3>4. {x \in Channel : v \in channels'[x]} = {}
      BY <3>2, <3>3
    <3>5. joined'[a] \cup Entering(a)' = {} /\ sockets'[v] = a
      BY <1>3, <2>1, <3>1, <3>3 DEF Authenticate
    <3> QED
      BY <3>4, <3>5
  <2>2. CASE a # c
    <3>1. session[a] = v /\ pc[a] \in Serving \cup {"unregister"}
      BY <1>3, <2>2 DEF Authenticate
    <3>2. v # u
      BY <1>3, <3>1 DEF Authenticate
    <3> QED
      BY <1>3, <2>2, <3>1, <3>2 DEF Authenticate
  <2> QED
    BY <2>1, <2>2
<1>4. ASSUME NEW c \in Conn, NEW ch \in Channel, JoinChannel(c, ch) PROVE Goal
  BY <1>4 DEF JoinChannel
<1>5. ASSUME NEW c \in Conn, NEW ch \in Channel, LeaveChannel(c, ch) PROVE Goal
  BY <1>5 DEF LeaveChannel
<1>6. ASSUME NEW c \in Conn, TakeKeyExchange(c) PROVE Goal
  BY <1>6 DEF TakeKeyExchange
<1>7. ASSUME NEW c \in Conn, OfferKeyExchange(c) PROVE Goal
  BY <1>7 DEF OfferKeyExchange
<1>8. ASSUME NEW c \in Conn, SendChannelJoined(c) PROVE Goal
  BY <1>8 DEF SendChannelJoined
<1>9. ASSUME NEW c \in Conn, AnnounceJoin(c) PROVE Goal
  BY <1>9 DEF AnnounceJoin
<1>10. ASSUME NEW c \in Conn, AnnounceLeave(c) PROVE Goal
  BY <1>10 DEF AnnounceLeave
<1>11. ASSUME NEW c \in Conn, StoreSrtpSession(c) PROVE Goal
  BY <1>11 DEF StoreSrtpSession
<1>12. ASSUME NEW c \in Conn, Deliver(c) PROVE Goal
  BY <1>12 DEF Deliver
<1>13. ASSUME NEW c \in Conn, EndLoop(c) PROVE Goal
  BY <1>13 DEF EndLoop
<1>14. ASSUME NEW c \in Conn, Unregister(c) PROVE Goal
  BY <1>14 DEF Unregister
<1>15. ASSUME NEW c \in Conn, DropSrtpSession(c) PROVE Goal
  BY <1>15 DEF DropSrtpSession
<1>16. ASSUME NEW c \in Conn, DropKeyExchange(c) PROVE Goal
  BY <1>16 DEF DropKeyExchange
<1>17. ASSUME NEW c \in Conn, NEW ch \in Channel, AnnounceLoss(c, ch) PROVE Goal
  BY <1>17 DEF AnnounceLoss
<1>18. ASSUME NEW c \in Conn, Finish(c) PROVE Goal
  BY <1>18 DEF Finish
<1>19. CASE UNCHANGED vars
  BY <1>19 DEF vars
<1>20. ASSUME NEW c \in Conn, RecordJoin(c) PROVE Goal
  BY <1>20 DEF RecordJoin
<1>21. ASSUME NEW c \in Conn, NEW e \in Conn, Jam(c, e) PROVE Goal
  BY <1>21 DEF Jam
<1> QED
  BY <1>1, <1>2, <1>3, <1>4, <1>5, <1>6, <1>7, <1>8, <1>9, <1>10, <1>11,
     <1>12, <1>13, <1>14, <1>15, <1>16, <1>17, <1>18, <1>19, <1>20, <1>21 DEF Next,
     Request, Server

(* Without overlapping logins the task and the manager agree on where a    *)
(* user is, and every served user can be reached.                          *)
THEOREM SequentialSessions ==
  ASSUME ~Overlap
  PROVE  Spec => [](SessionMatchesManager /\ ServedUsersAreReachable)
<1>1. Init => Sequential
  BY DEF Init, Sequential, Alone, SessionMatchesManager, ServedUsersAreReachable, Serves,
     Serving, Handling
<1>2. TypedTasks /\ NoResidue /\ Sequential /\ [Next]_vars => Sequential'
  BY SequentialStep
<1>3. Sequential => SessionMatchesManager /\ ServedUsersAreReachable
  BY DEF Sequential
<1> QED
  BY <1>1, <1>2, <1>3, AlwaysTyped, NothingLeft, PTL DEF Spec

(* A served user can be reached by every notice for it, when logins of a   *)
(* user do not overlap.                                                    *)
THEOREM ServedReachable ==
  ASSUME ~Overlap
  PROVE  Spec => []ServedUsersAreReachable
<1>1. SessionMatchesManager /\ ServedUsersAreReachable => ServedUsersAreReachable
  OBVIOUS
<1> QED
  BY <1>1, SequentialSessions, PTL

----------------------------------------------------------------------------
(* A task's own key exchange: nothing is answered before it was offered;   *)
(* the exchange of a connection that may still answer is the pending one   *)
(* of its user; and once the answer was used the user's session is of this *)
(* connection's exchange and this connection's client.                     *)
ExchangesInStep ==
  \A c \in Conn :
    /\ session[c] = NoUser \/ pc[c] = "kxOffer" => ~answered[c]
    /\ pc[c] = "kxSet" => answered[c] /\ kx[c] = c
    /\ session[c] \in User /\ pc[c] \in Serving \ {"kxOffer"} =>
         /\ alive[c] /\ ~answered[c] => pending[session[c]] = c
         /\ answered[c] /\ pc[c] # "kxSet" => srtp[session[c]] = <<c, c>>

(* The maps are keyed by user, but no other task acts for the same user.   *)
LEMMA ExchangeStep ==
  ASSUME ~Overlap, TypedTasks, Alone, ExchangesInStep, [Next]_vars
  PROVE  ExchangesInStep'
<1> DEFINE Held(a) ==
      /\ session[a] = NoUser \/ pc[a] = "kxOffer" => ~answered[a]
      /\ pc[a] = "kxSet" => answered[a] /\ kx[a] = a
      /\ session[a] \in User /\ pc[a] \in Serving \ {"kxOffer"} =>
           /\ alive[a] /\ ~answered[a] => pending[session[a]] = a
           /\ answered[a] /\ pc[a] # "kxSet" => srtp[session[a]] = <<a, a>>
<1> SUFFICES ASSUME NEW a \in Conn PROVE Held(a)'
  BY DEF ExchangesInStep
<1> DEFINE Goal == Held(a)'
<1>0. Held(a)
  BY DEF ExchangesInStep
<1> SUFFICES Goal
  OBVIOUS
<1> USE <1>0 DEF TypedTasks, TypeOK, TaskOK, Alone, Goto, Serving, Handling, shared, client, task
<1>1. ASSUME NEW c \in Conn, Accept(c) PROVE Goal
  BY <1>1 DEF Accept
<1>2. ASSUME NEW c \in Conn, Hangup(c) PROVE Goal
  BY <1>2 DEF Hangup
<1>3. ASSUME NEW c \in Conn, NEW u \in User, Authenticate(c, u) PROVE Goal
  BY <1>3 DEF Authenticate
<1>4. ASSUME NEW c \in Conn, NEW ch \in Channel, JoinChannel(c, ch) PROVE Goal
  BY <1>4 DEF JoinChannel
<1>5. ASSUME NEW c \in Conn, NEW ch \in Channel, LeaveChannel(c, ch) PROVE Goal
  BY <1>5 DEF LeaveChannel
<1>6. ASSUME NEW c \in Conn, TakeKeyExchange(c) PROVE Goal
  <2>1. /\ pc[c] = "idle" /\ session[c] \in User /\ pending[session[c]] = c
        /\ answered' = [answered EXCEPT ![c] = TRUE]
        /\ kx' = [kx EXCEPT ![c] = c] /\ pc' = [pc EXCEPT ![c] = "kxSet"]
        /\ pending' = [pending EXCEPT ![session[c]] = NoConn]
        /\ UNCHANGED <<session, alive, srtp>>
    <3>1. /\ pc[c] = "idle" /\ session[c] \in User /\ alive[c] /\ ~answered[c]
      BY <1>6 DEF TakeKeyExchange
    <3>2. pending[session[c]] = c
      BY <3>1 DEF ExchangesInStep
    <3> QED
      BY <1>6, <3>1, <3>2 DEF TakeKeyExchange
  <2>2. CASE a = c
    BY <2>1, <2>2
  <2>3. CASE a # c
    <3>1. session[a] \in User /\ pc[a] \in Serving => session[a] # session[c]
      BY <2>1, <2>3
    <3> QED
      BY <2>1, <2>3, <3>1
  <2> QED
    BY <2>2, <2>3
<1>7. ASSUME NEW c \in Conn, OfferKeyExchange(c) PROVE Goal
  BY <1>7 DEF OfferKeyExchange
<1>8. ASSUME NEW c \in Conn, SendChannelJoined(c) PROVE Goal
  BY <1>8 DEF SendChannelJoined
<1>9. ASSUME NEW c \in Conn, AnnounceJoin(c) PROVE Goal
  BY <1>9 DEF AnnounceJoin
<1>10. ASSUME NEW c \in Conn, AnnounceLeave(c) PROVE Goal
  BY <1>10 DEF AnnounceLeave
<1>11. ASSUME NEW c \in Conn, StoreSrtpSession(c) PROVE Goal
  BY <1>11 DEF StoreSrtpSession
<1>12. ASSUME NEW c \in Conn, Deliver(c) PROVE Goal
  BY <1>12 DEF Deliver
<1>13. ASSUME NEW c \in Conn, EndLoop(c) PROVE Goal
  BY <1>13 DEF EndLoop
<1>14. ASSUME NEW c \in Conn, Unregister(c) PROVE Goal
  BY <1>14 DEF Unregister
<1>15. ASSUME NEW c \in Conn, DropSrtpSession(c) PROVE Goal
  BY <1>15 DEF DropSrtpSession
<1>16. ASSUME NEW c \in Conn, DropKeyExchange(c) PROVE Goal
  BY <1>16 DEF DropKeyExchange
<1>17. ASSUME NEW c \in Conn, NEW ch \in Channel, AnnounceLoss(c, ch) PROVE Goal
  BY <1>17 DEF AnnounceLoss
<1>18. ASSUME NEW c \in Conn, Finish(c) PROVE Goal
  BY <1>18 DEF Finish
<1>19. CASE UNCHANGED vars
  BY <1>19 DEF vars
<1>20. ASSUME NEW c \in Conn, RecordJoin(c) PROVE Goal
  BY <1>20 DEF RecordJoin
<1>21. ASSUME NEW c \in Conn, NEW e \in Conn, Jam(c, e) PROVE Goal
  BY <1>21 DEF Jam
<1> QED
  BY <1>1, <1>2, <1>3, <1>4, <1>5, <1>6, <1>7, <1>8, <1>9, <1>10, <1>11,
     <1>12, <1>13, <1>14, <1>15, <1>16, <1>17, <1>18, <1>19, <1>20, <1>21 DEF Next,
     Request, Server

(* When logins of a user do not overlap, a client that has answered the    *)
(* key exchange holds the keys that the server uses for its user.          *)
THEOREM KeysAgree ==
  ASSUME ~Overlap
  PROVE  Spec => []VoiceKeysAgree
<1>1. Init => Alone /\ ExchangesInStep
  BY DEF Init, Alone, ExchangesInStep, Serving, Handling
<1>2. TypedTasks /\ Alone /\ ExchangesInStep /\ [Next]_vars => Alone' /\ ExchangesInStep'
  BY AloneStep, ExchangeStep
<1>3. TypedTasks /\ ExchangesInStep => VoiceKeysAgree
  BY DEF TypedTasks, TypeOK, ExchangesInStep, VoiceKeysAgree, Serving
<1> QED
  BY <1>1, <1>2, <1>3, AlwaysTyped, PTL DEF Spec

----------------------------------------------------------------------------
(* Where a handler is about its channel, and what a finished task keeps.   *)
HandlersOK ==
  \A c \in Conn :
    /\ pc[c] \in {"joinReply", "joinCast"} => at[c] \in joined[c]
    /\ pc[c] = "leaveCast" => at[c] \notin joined[c]
    /\ pc[c] \in {"closed", "done"} => joined[c] = {}
    /\ pc[c] \in Cleaning => ~alive[c]

LEMMA HandlersStep == TypedTasks /\ HandlersOK /\ [Next]_vars => HandlersOK'
<1> SUFFICES ASSUME TypedTasks, HandlersOK, [Next]_vars PROVE HandlersOK'
  OBVIOUS
<1> USE DEF TypedTasks, TypeOK, TaskOK, HandlersOK, Goto, Serving, Handling, Cleaning,
            shared, client, task
<1>1. ASSUME NEW c \in Conn, Accept(c) PROVE HandlersOK'
  BY <1>1 DEF Accept
<1>2. ASSUME NEW c \in Conn, Hangup(c) PROVE HandlersOK'
  BY <1>2 DEF Hangup
<1>3. ASSUME NEW c \in Conn, NEW u \in User, Authenticate(c, u) PROVE HandlersOK'
  BY <1>3 DEF Authenticate
<1>4. ASSUME NEW c \in Conn, NEW ch \in Channel, JoinChannel(c, ch) PROVE HandlersOK'
  BY <1>4 DEF JoinChannel
<1>5. ASSUME NEW c \in Conn, NEW ch \in Channel, LeaveChannel(c, ch) PROVE HandlersOK'
  BY <1>5 DEF LeaveChannel
<1>6. ASSUME NEW c \in Conn, TakeKeyExchange(c) PROVE HandlersOK'
  BY <1>6 DEF TakeKeyExchange
<1>7. ASSUME NEW c \in Conn, OfferKeyExchange(c) PROVE HandlersOK'
  BY <1>7 DEF OfferKeyExchange
<1>8. ASSUME NEW c \in Conn, SendChannelJoined(c) PROVE HandlersOK'
  <2>1. pc[c] = "joinReply" /\ UNCHANGED <<joined, alive>>
    BY <1>8 DEF SendChannelJoined
  <2>2. \/ pc' = [pc EXCEPT ![c] = "joinCast"] /\ at' = at
        \/ pc' = [pc EXCEPT ![c] = "idle"] /\ at' = [at EXCEPT ![c] = NoChannel]
    BY <1>8 DEF SendChannelJoined
  <2>3. /\ pc'[c] \in {"joinCast", "idle"} /\ (pc'[c] = "joinCast" => at'[c] \in joined'[c])
        /\ \A d \in Conn \ {c} : pc'[d] = pc[d] /\ at'[d] = at[d]
    BY <2>1, <2>2
  <2> QED
    BY <2>1, <2>3
<1>9. ASSUME NEW c \in Conn, AnnounceJoin(c) PROVE HandlersOK'
  BY <1>9 DEF AnnounceJoin
<1>10. ASSUME NEW c \in Conn, AnnounceLeave(c) PROVE HandlersOK'
  BY <1>10 DEF AnnounceLeave
<1>11. ASSUME NEW c \in Conn, StoreSrtpSession(c) PROVE HandlersOK'
  BY <1>11 DEF StoreSrtpSession
<1>12. ASSUME NEW c \in Conn, Deliver(c) PROVE HandlersOK'
  BY <1>12 DEF Deliver
<1>13. ASSUME NEW c \in Conn, EndLoop(c) PROVE HandlersOK'
  BY <1>13 DEF EndLoop
<1>14. ASSUME NEW c \in Conn, Unregister(c) PROVE HandlersOK'
  BY <1>14 DEF Unregister
<1>15. ASSUME NEW c \in Conn, DropSrtpSession(c) PROVE HandlersOK'
  BY <1>15 DEF DropSrtpSession
<1>16. ASSUME NEW c \in Conn, DropKeyExchange(c) PROVE HandlersOK'
  BY <1>16 DEF DropKeyExchange
<1>17. ASSUME NEW c \in Conn, NEW ch \in Channel, AnnounceLoss(c, ch) PROVE HandlersOK'
  BY <1>17 DEF AnnounceLoss
<1>18. ASSUME NEW c \in Conn, Finish(c) PROVE HandlersOK'
  BY <1>18 DEF Finish
<1>19. CASE UNCHANGED vars
  BY <1>19 DEF vars
<1>20. ASSUME NEW c \in Conn, RecordJoin(c) PROVE HandlersOK'
  BY <1>20 DEF RecordJoin
<1>21. ASSUME NEW c \in Conn, NEW e \in Conn, Jam(c, e) PROVE HandlersOK'
  BY <1>21 DEF Jam
<1> QED
  BY <1>1, <1>2, <1>3, <1>4, <1>5, <1>6, <1>7, <1>8, <1>9, <1>10, <1>11,
     <1>12, <1>13, <1>14, <1>15, <1>16, <1>17, <1>18, <1>19, <1>20, <1>21 DEF Next,
     Request, Server

(* The notice of an event, and whether a member list counts a user as a    *)
(* member of a channel once all the mail that waits has been applied.      *)
Tells(e, ch, v) == [event |-> e, channel |-> ch, user |-> v]

EndsIn(mail, known, ch, v) ==
  \/ \E i \in 1 .. Len(mail) :
       /\ mail[i] = Tells("user_joined", ch, v)
       /\ \A j \in i .. Len(mail) : mail[j] # Tells("user_left", ch, v)
  \/ v \in known /\ \A j \in 1 .. Len(mail) : mail[j] # Tells("user_left", ch, v)

LEMMA EndsInNoMail ==
  ASSUME NEW known, NEW ch, NEW v
  PROVE  EndsIn(<<>>, known, ch, v) <=> v \in known
  BY DEF EndsIn

(* Mail about other channels does not matter.                              *)
LEMMA EndsInOthers ==
  ASSUME NEW mail, NEW known, NEW ch, NEW v,
         \A i \in 1 .. Len(mail) : mail[i].channel # ch
  PROVE  EndsIn(mail, known, ch, v) <=> v \in known
<1>1. \A e : Tells(e, ch, v).channel = ch
  BY DEF Tells
<1> QED
  BY <1>1 DEF EndsIn

(* The last notice about a user and a channel decides.                     *)
LEMMA EndsInAppend ==
  ASSUME NEW mail \in Seq(Notice), NEW n \in Notice, NEW known,
         NEW ch \in Channel, NEW v \in User
  PROVE  /\ n = Tells("user_joined", ch, v) => EndsIn(Append(mail, n), known, ch, v)
         /\ n = Tells("user_left", ch, v)   => ~EndsIn(Append(mail, n), known, ch, v)
         /\ n.channel # ch \/ n.user # v =>
              (EndsIn(Append(mail, n), known, ch, v) <=> EndsIn(mail, known, ch, v))
<1> DEFINE m == Append(mail, n)
           J == Tells("user_joined", ch, v)
           L == Tells("user_left", ch, v)
<1>1. /\ Len(mail) \in Nat /\ Len(m) = Len(mail) + 1 /\ m[Len(mail) + 1] = n
      /\ \A i \in 1 .. Len(mail) : m[i] = mail[i]
  OBVIOUS
<1>2. J # L /\ J.channel = ch /\ J.user = v /\ L.channel = ch /\ L.user = v
  BY DEF Tells
<1> HIDE DEF m, J, L
<1>3. EndsIn(m, known, ch, v) <=>
        \/ \E i \in 1 .. Len(m) : m[i] = J /\ \A j \in i .. Len(m) : m[j] # L
        \/ v \in known /\ \A j \in 1 .. Len(m) : m[j] # L
  BY DEF EndsIn, J, L
<1>4. EndsIn(mail, known, ch, v) <=>
        \/ \E i \in 1 .. Len(mail) : mail[i] = J /\ \A j \in i .. Len(mail) : mail[j] # L
        \/ v \in known /\ \A j \in 1 .. Len(mail) : mail[j] # L
  BY DEF EndsIn, J, L
<1>5. ASSUME n = J PROVE EndsIn(m, known, ch, v)
  <2>1. Len(m) \in 1 .. Len(m) /\ m[Len(m)] = J /\ \A j \in Len(m) .. Len(m) : m[j] # L
    BY <1>1, <1>2, <1>5
  <2> QED
    BY <1>3, <2>1
<1>6. ASSUME n = L PROVE ~EndsIn(m, known, ch, v)
  <2>1. \A i \in 1 .. Len(m) : Len(m) \in i .. Len(m) /\ m[Len(m)] = L
    BY <1>1, <1>6
  <2>2. Len(m) \in 1 .. Len(m) /\ m[Len(m)] = L
    BY <1>1, <1>6
  <2> QED
    BY <1>3, <2>1, <2>2
<1>7. ASSUME n # J, n # L PROVE EndsIn(m, known, ch, v) <=> EndsIn(mail, known, ch, v)
  <2>1. (\A j \in 1 .. Len(m) : m[j] # L) <=> (\A j \in 1 .. Len(mail) : mail[j] # L)
    BY <1>1, <1>7
  <2>2. (\E i \in 1 .. Len(m) : m[i] = J /\ \A j \in i .. Len(m) : m[j] # L) <=>
        (\E i \in 1 .. Len(mail) : mail[i] = J /\ \A j \in i .. Len(mail) : mail[j] # L)
    BY <1>1, <1>7
  <2> QED
    BY <1>3, <1>4, <2>1, <2>2
<1> QED
  BY <1>2, <1>5, <1>6, <1>7 DEF m, J, L

(* Hearding the first notice of the mail does not change how it ends.      *)
LEMMA EndsInDelivered ==
  ASSUME NEW mail \in Seq(Notice), mail # <<>>, NEW members \in [Channel -> SUBSET User],
         NEW ch \in Channel, NEW v \in User
  PROVE  EndsIn(Tail(mail), Heard(members, Head(mail))[ch], ch, v)
           <=> EndsIn(mail, members[ch], ch, v)
<1> DEFINE h == Head(mail)
           t == Tail(mail)
           J == Tells("user_joined", ch, v)
           L == Tells("user_left", ch, v)
           known == members[ch]
           heard == Heard(members, h)[ch]
<1>1. /\ h \in Notice /\ mail[1] = h /\ Len(mail) \in Nat /\ Len(mail) >= 1
      /\ Len(t) = Len(mail) - 1 /\ \A i \in 1 .. Len(t) : t[i] = mail[i + 1]
  OBVIOUS
<1>2. J # L
  BY DEF Tells
<1>3. v \in heard <=> h = J \/ (h # L /\ v \in known)
  BY <1>1 DEF Heard, Tells, Notice
<1> HIDE DEF h, t, J, L, known, heard
<1>4. \A i \in 2 .. Len(mail) : i - 1 \in 1 .. Len(t) /\ mail[i] = t[i - 1]
  BY <1>1
<1>5. EndsIn(t, heard, ch, v) <=>
        \/ \E i \in 1 .. Len(t) : t[i] = J /\ \A j \in i .. Len(t) : t[j] # L
        \/ v \in heard /\ \A j \in 1 .. Len(t) : t[j] # L
  BY DEF EndsIn, J, L
<1>6. EndsIn(mail, known, ch, v) <=>
        \/ \E i \in 1 .. Len(mail) : mail[i] = J /\ \A j \in i .. Len(mail) : mail[j] # L
        \/ v \in known /\ \A j \in 1 .. Len(mail) : mail[j] # L
  BY DEF EndsIn, J, L
<1>7. (\A j \in 1 .. Len(mail) : mail[j] # L) <=> h # L /\ \A j \in 1 .. Len(t) : t[j] # L
  BY <1>1, <1>4
<1>8. ASSUME NEW i \in 1 .. Len(t)
      PROVE  (\A j \in i .. Len(t) : t[j] # L) <=> (\A j \in i + 1 .. Len(mail) : mail[j] # L)
  <2>1. \A j \in i .. Len(t) : j + 1 \in i + 1 .. Len(mail) /\ t[j] = mail[j + 1]
    BY <1>1
  <2>2. \A j \in i + 1 .. Len(mail) : j - 1 \in i .. Len(t) /\ mail[j] = t[j - 1]
    BY <1>1, <1>4
  <2> QED
    BY <2>1, <2>2
<1>9. (\E i \in 1 .. Len(mail) : mail[i] = J /\ \A j \in i .. Len(mail) : mail[j] # L) <=>
        \/ h = J /\ \A j \in 1 .. Len(t) : t[j] # L
        \/ \E i \in 1 .. Len(t) : t[i] = J /\ \A j \in i .. Len(t) : t[j] # L
  <2>1. ASSUME NEW i \in 1 .. Len(mail), mail[i] = J, \A j \in i .. Len(mail) : mail[j] # L
        PROVE  \/ h = J /\ \A j \in 1 .. Len(t) : t[j] # L
               \/ \E k \in 1 .. Len(t) : t[k] = J /\ \A j \in k .. Len(t) : t[j] # L
    <3>1. CASE i = 1
      BY <1>1, <1>7, <2>1, <3>1
    <3>2. CASE i # 1
      <4>1. i - 1 \in 1 .. Len(t) /\ t[i - 1] = J /\ (i - 1) + 1 = i
        BY <1>1, <1>4, <2>1, <3>2
      <4>2. \A j \in i - 1 .. Len(t) : t[j] # L
        BY <1>8, <2>1, <4>1
      <4> QED
        BY <4>1, <4>2
    <3> QED
      BY <3>1, <3>2
  <2>2. ASSUME h = J, \A j \in 1 .. Len(t) : t[j] # L
        PROVE  \E i \in 1 .. Len(mail) : mail[i] = J /\ \A j \in i .. Len(mail) : mail[j] # L
    <3>1. 1 \in 1 .. Len(mail) /\ mail[1] = J /\ \A j \in 1 .. Len(mail) : mail[j] # L
      BY <1>1, <1>2, <1>7, <2>2
    <3> QED
      BY <3>1
  <2>3. ASSUME NEW k \in 1 .. Len(t), t[k] = J, \A j \in k .. Len(t) : t[j] # L
        PROVE  \E i \in 1 .. Len(mail) : mail[i] = J /\ \A j \in i .. Len(mail) : mail[j] # L
    <3>1. k + 1 \in 1 .. Len(mail) /\ mail[k + 1] = J /\ \A j \in k + 1 .. Len(mail) : mail[j] # L
      BY <1>1, <1>8, <2>3
    <3> QED
      BY <3>1
  <2> QED
    BY <2>1, <2>2, <2>3
<1>10. EndsIn(t, heard, ch, v) <=> EndsIn(mail, known, ch, v)
  BY <1>2, <1>3, <1>5, <1>6, <1>7, <1>9
<1> QED
  BY <1>10 DEF h, t, known, heard

----------------------------------------------------------------------------
(* The member list a client has, or is about to be sent.                   *)
Base(c, ch) == IF pc[c] \in {"joinName", "joinReply"} /\ at[c] = ch THEN reply[c] ELSE told[c][ch]

(* A task still has to tell the channel that its user came or went: it is  *)
(* in the handler, or its connection is lost and its cleanup is due.       *)
Owes(d, ch) ==
  \/ pc[d] \in {"joinName", "joinReply", "joinCast", "leaveCast"} /\ at[d] = ch
  \/ ~alive[d] /\ ch \in joined[d]

(* Once its mail is applied, the list of a connected member is right about *)
(* every user but those of whom a notice is still owed.                    *)
Follows(c, ch) == ch \in (joined[c] \cup Entering(c)) \ overtaken[c]

Informed ==
  \A c \in Conn : \A ch \in Channel : \A v \in User :
    pc[c] \in Serving /\ alive[c] /\ Follows(c, ch) =>
      \/ \E d \in Conn \ {c} : session[d] = v /\ Owes(d, ch)
      \/ EndsIn(outbox[c], Base(c, ch), ch, v) <=> v \in channels[ch]

(* A notice that is broadcast reaches a member, or leaves its mail alone.  *)
LEMMA BroadcastReaches ==
  ASSUME TypeOK, NEW n \in Notice, NEW X, NEW a \in Conn
  PROVE  /\ Broadcast(n, X)[a] \in {outbox[a], Append(outbox[a], n)}
         /\ (\E w \in channels[n.channel] \ X : sockets[w] = a) =>
              Broadcast(n, X)[a] = Append(outbox[a], n)
  BY DEF Broadcast

(* A broadcast about one user and channel keeps what a member's mail says  *)
(* of all others, and makes it right about them once it has arrived.       *)
LEMMA BroadcastInforms ==
  ASSUME TypeOK, NEW n \in Notice, NEW X, NEW a \in Conn, NEW ch \in Channel, NEW v \in User,
         NEW known,
         n.channel # ch \/ n.user # v => (EndsIn(outbox[a], known, ch, v) <=> v \in channels[ch]),
         n.channel = ch /\ n.user = v =>
           /\ n.event = (IF v \in channels[ch] THEN "user_joined" ELSE "user_left")
           /\ \/ \E w \in channels[ch] \ X : sockets[w] = a
              \/ EndsIn(outbox[a], known, ch, v) <=> v \in channels[ch]
  PROVE  EndsIn(Broadcast(n, X)[a], known, ch, v) <=> v \in channels[ch]
<1>1. outbox[a] \in Seq(Notice)
  BY DEF TypeOK
<1>2. CASE n.channel # ch \/ n.user # v
  <2>1. EndsIn(Append(outbox[a], n), known, ch, v) <=> EndsIn(outbox[a], known, ch, v)
    BY <1>1, <1>2, EndsInAppend
  <2>2. Broadcast(n, X)[a] = outbox[a] \/ Broadcast(n, X)[a] = Append(outbox[a], n)
    BY BroadcastReaches
  <2> QED
    BY <1>2, <2>1, <2>2
<1>3. CASE n.channel = ch /\ n.user = v
  <2>1. n = Tells(n.event, ch, v)
    BY <1>3 DEF Tells, Notice
  <2>2. CASE \E w \in channels[ch] \ X : sockets[w] = a
    <3>1. Broadcast(n, X)[a] = Append(outbox[a], n)
      BY <1>3, <2>2, BroadcastReaches
    <3> QED
      BY <1>1, <1>3, <2>1, <3>1, EndsInAppend
  <2>3. CASE EndsIn(outbox[a], known, ch, v) <=> v \in channels[ch]
    <3>1. EndsIn(Append(outbox[a], n), known, ch, v) <=> v \in channels[ch]
      BY <1>1, <1>3, <2>1, EndsInAppend
    <3>2. Broadcast(n, X)[a] = outbox[a] \/ Broadcast(n, X)[a] = Append(outbox[a], n)
      BY BroadcastReaches
    <3> QED
      BY <2>3, <3>1, <3>2
  <2> QED
    BY <1>3, <2>2, <2>3
<1> QED
  BY <1>2, <1>3

(* A login, join, leave or loss is owed until its notice is in the mail of *)
(* every member, and the mail is applied in the order it was queued.       *)
LEMMA InformedStep ==
  ASSUME ~Overlap, TypedTasks, Sequential, HandlersOK, MembersAreServed, Informed,
         [Next]_vars
  PROVE  Informed'
<1> SUFFICES ASSUME NEW a \in Conn, NEW x \in Channel, NEW v \in User,
                    pc'[a] \in Serving, alive'[a], Follows(a, x)',
                    \A d \in Conn \ {a} : session'[d] = v => ~Owes(d, x)'
             PROVE  EndsIn(outbox'[a], Base(a, x)', x, v) <=> v \in channels'[x]
  BY DEF Informed, Serving, Handling
<1> DEFINE Goal == EndsIn(outbox'[a], Base(a, x)', x, v) <=> v \in channels'[x]
<1> SUFFICES Goal
  OBVIOUS
<1>x. x \in Channel /\ TypeOK
  BY DEF TypedTasks
<1>a. ASSUME pc[a] \in Serving, alive[a], Follows(a, x),
             \A d \in Conn \ {a} : session[d] = v => ~Owes(d, x)
      PROVE  EndsIn(outbox[a], Base(a, x), x, v) <=> v \in channels[x]
  BY <1>a DEF Informed
<1> USE DEF TypedTasks, TypeOK, TaskOK, HandlersOK, Sequential, Alone, SessionMatchesManager,
            ServedUsersAreReachable, Serves, Follows, Entering, Goto, Serving, Handling, Cleaning,
            shared, client, task
<1>m. ASSUME pc[a] \in Serving, Follows(a, x)
      PROVE  /\ session[a] \in channels[x] /\ sockets[session[a]] = a /\ session[a] \in User
             /\ \A d \in Conn \ {a} : session[d] = session[a] => pc[d] = "done"
  <2>1. session[a] \in User
    BY <1>m
  <2> QED
    BY <1>m, <1>x, <2>1
<1>1. ASSUME NEW c \in Conn, Accept(c) PROVE Goal
  <2>1. /\ pc[a] \in Serving /\ alive[a] /\ Follows(a, x) /\ Base(a, x)' = Base(a, x)
        /\ outbox'[a] = outbox[a] /\ channels' = channels
    BY <1>1 DEF Accept, Base
  <2>2. \A d \in Conn \ {a} : session[d] = v => ~Owes(d, x)
    BY <1>1 DEF Accept, Owes
  <2> QED
    BY <1>a, <2>1, <2>2
<1>2. ASSUME NEW c \in Conn, Hangup(c) PROVE Goal
  <2>1. /\ pc[a] \in Serving /\ alive[a] /\ Follows(a, x) /\ Base(a, x)' = Base(a, x)
        /\ outbox'[a] = outbox[a] /\ channels' = channels
    BY <1>2 DEF Hangup, Base
  <2>2. \A d \in Conn \ {a} : session[d] = v => ~Owes(d, x)
    BY <1>2 DEF Hangup, Owes
  <2> QED
    BY <1>a, <2>1, <2>2
<1>3. ASSUME NEW c \in Conn, NEW u \in User, Authenticate(c, u) PROVE Goal
  <2>1. /\ pc[a] \in Serving /\ alive[a] /\ Follows(a, x) /\ Base(a, x)' = Base(a, x)
        /\ outbox'[a] = outbox[a] /\ channels' = channels
    BY <1>3 DEF Authenticate, Base
  <2>2. \A d \in Conn \ {a} : session[d] = v => ~Owes(d, x)
    <3> SUFFICES ASSUME NEW d \in Conn \ {a}, session[d] = v PROVE ~Owes(d, x)
      OBVIOUS
    <3>1. d # c
      BY <1>3 DEF Authenticate
    <3>2. session'[d] = session[d] /\ pc'[d] = pc[d] /\ UNCHANGED <<alive, at, joined>>
      BY <1>3, <3>1 DEF Authenticate
    <3> QED
      BY <3>2 DEF Owes
  <2> QED
    BY <1>a, <2>1, <2>2
<1>4. ASSUME NEW c \in Conn, NEW ch \in Channel, JoinChannel(c, ch) PROVE Goal
  <2>1. /\ pc[c] = "idle" /\ alive[c]
        /\ channels' = [channels EXCEPT ![ch] = @ \cup {session[c]}]
        /\ reply' = [reply EXCEPT ![c] = channels'[ch]]
        /\ pc' = [pc EXCEPT ![c] = "joinName"] /\ at' = [at EXCEPT ![c] = ch]
        /\ \A d \in Conn : \A y \in Channel :
             d # c \/ y # ch => (y \in overtaken'[d] <=> y \in overtaken[d])
        /\ UNCHANGED <<session, joined, alive, told, outbox>>
    BY <1>4 DEF JoinChannel
  <2>2. CASE a = c /\ x = ch
    <3>1. outbox'[a] = outbox[a] /\ Base(a, x)' = channels'[x]
      BY <2>1, <2>2 DEF Base
    <3>2. \A i \in 1 .. Len(outbox[a]) : outbox[a][i].channel # x
      BY <1>4, <2>2 DEF JoinChannel
    <3> QED
      BY <3>1, <3>2, EndsInOthers
  <2>3. CASE a = c /\ x # ch
    <3>1. /\ channels'[x] = channels[x] /\ Base(a, x)' = Base(a, x) /\ Follows(a, x)
          /\ \A d \in Conn \ {a} : Owes(d, x)' = Owes(d, x)
      BY <2>1, <2>3 DEF Base, Owes
    <3> QED
      BY <1>a, <2>1, <2>3, <3>1
  <2>4. CASE a # c
    <3>1. x # ch \/ session[c] # v
      BY <2>1, <2>4 DEF Owes
    <3>2. v \in channels'[x] <=> v \in channels[x]
      BY <2>1, <3>1
    <3>3. Base(a, x)' = Base(a, x) /\ Follows(a, x) /\ pc[a] = pc'[a]
      BY <2>1, <2>4 DEF Base
    <3>4. \A d \in Conn \ {a} : session[d] = v => ~Owes(d, x)
      BY <2>1, <2>4 DEF Owes
    <3> QED
      BY <1>a, <2>1, <3>2, <3>3, <3>4
  <2> QED
    BY <2>2, <2>3, <2>4
<1>5. ASSUME NEW c \in Conn, NEW ch \in Channel, LeaveChannel(c, ch) PROVE Goal
  <2>1. /\ pc[c] = "idle" /\ alive[c]
        /\ joined' = [joined EXCEPT ![c] = @ \ {ch}]
        /\ channels' = [channels EXCEPT ![ch] = @ \ {session[c]}]
        /\ told' = [told EXCEPT ![c][ch] = {}]
        /\ pc' = [pc EXCEPT ![c] = "leaveCast"] /\ at' = [at EXCEPT ![c] = ch]
        /\ UNCHANGED <<session, alive, overtaken, reply, outbox>>
    BY <1>5 DEF LeaveChannel
  <2>2. x # ch \/ (a # c /\ session[c] # v)
    BY <2>1 DEF Owes
  <2>3. v \in channels'[x] <=> v \in channels[x]
    BY <2>1, <2>2
  <2>4. Base(a, x)' = Base(a, x) /\ Follows(a, x) /\ pc[a] \in Serving
    BY <2>1, <2>2 DEF Base
  <2>5. \A d \in Conn \ {a} : session[d] = v => ~Owes(d, x)
    BY <2>1 DEF Owes
  <2> QED
    BY <1>a, <2>1, <2>3, <2>4, <2>5
<1>6. ASSUME NEW c \in Conn, TakeKeyExchange(c) PROVE Goal
  <2>1. /\ pc[a] \in Serving /\ alive[a] /\ Follows(a, x) /\ Base(a, x)' = Base(a, x)
        /\ outbox'[a] = outbox[a] /\ channels' = channels
    BY <1>6 DEF TakeKeyExchange, Base
  <2>2. \A d \in Conn \ {a} : session[d] = v => ~Owes(d, x)
    BY <1>6 DEF TakeKeyExchange, Owes
  <2> QED
    BY <1>a, <2>1, <2>2
<1>7. ASSUME NEW c \in Conn, OfferKeyExchange(c) PROVE Goal
  <2>1. /\ pc[a] \in Serving /\ alive[a] /\ Follows(a, x) /\ Base(a, x)' = Base(a, x)
        /\ outbox'[a] = outbox[a] /\ channels' = channels
    BY <1>7 DEF OfferKeyExchange, Base
  <2>2. \A d \in Conn \ {a} : session[d] = v => ~Owes(d, x)
    BY <1>7 DEF OfferKeyExchange, Owes
  <2> QED
    BY <1>a, <2>1, <2>2
<1>8. ASSUME NEW c \in Conn, SendChannelJoined(c) PROVE Goal
  <2>1. /\ pc[c] = "joinReply" /\ at[c] \in joined[c] /\ at[c] \in Channel
        /\ reply' = [reply EXCEPT ![c] = {}]
        /\ UNCHANGED <<session, joined, alive, overtaken, outbox, channels>>
        /\ \A d \in Conn \ {c} : pc'[d] = pc[d] /\ at'[d] = at[d] /\ told'[d] = told[d]
    BY <1>8 DEF SendChannelJoined
  <2>2. alive[c] => /\ pc'[c] = "joinCast" /\ at' = at
                    /\ told' = [told EXCEPT ![c][at[c]] = reply[c]]
    BY <1>8 DEF SendChannelJoined
  <2>3. alive[c] => pc'[c] = "joinCast" /\ at' = at
    BY <1>8 DEF SendChannelJoined
  <2>4. Base(a, x)' = Base(a, x) /\ pc[a] \in Serving
    <3>1. CASE a = c
      BY <2>1, <2>2, <3>1 DEF Base
    <3>2. CASE a # c
      BY <2>1, <3>2 DEF Base
    <3> QED
      BY <3>1, <3>2
  <2>5. \A d \in Conn \ {a} : session[d] = v => ~Owes(d, x)
    <3> SUFFICES ASSUME NEW d \in Conn \ {a}, session[d] = v PROVE ~Owes(d, x)
      OBVIOUS
    <3>1. CASE d # c
      <4>1. session'[d] = v /\ pc'[d] = pc[d] /\ at'[d] = at[d] /\ UNCHANGED <<alive, joined>>
        BY <2>1, <3>1
      <4> QED
        BY <4>1 DEF Owes
    <3>2. CASE d = c /\ alive[c]
      BY <2>1, <2>2, <3>2 DEF Owes
    <3>3. CASE d = c /\ ~alive[c]
      BY <2>1, <3>3 DEF Owes
    <3> QED
      BY <3>1, <3>2, <3>3
  <2>6. alive[a] /\ Follows(a, x)
    <3>1. CASE a = c
      BY <2>1, <2>2, <3>1
    <3>2. CASE a # c
      BY <2>1, <3>2
    <3> QED
      BY <3>1, <3>2
  <2> QED
    BY <1>a, <2>1, <2>4, <2>5, <2>6
<1>9. ASSUME NEW c \in Conn, AnnounceJoin(c) PROVE Goal
  <2> DEFINE n == [event |-> "user_joined", channel |-> at[c], user |-> session[c]]
  <2>1. /\ pc[c] = "joinCast" /\ session[c] \in User /\ at[c] \in Channel
        /\ at' = [at EXCEPT ![c] = NoChannel] /\ pc' = [pc EXCEPT ![c] = "idle"]
        /\ UNCHANGED <<session, joined, alive, told, overtaken, reply, channels>>
    BY <1>9 DEF AnnounceJoin
  <2>2. outbox' = Broadcast(n, {session[c]})
    BY <1>9 DEF AnnounceJoin
  <2>3. n \in Notice
    BY <2>1 DEF Notice
  <2>4. Base(a, x)' = Base(a, x) /\ pc[a] \in Serving /\ Follows(a, x) /\ alive[a]
    BY <2>1 DEF Base
  <2>5. at[c] \in joined[c] /\ session[c] \in channels[at[c]]
    BY <2>1
  <2>6. n.channel # x \/ n.user # v => (EndsIn(outbox[a], Base(a, x), x, v) <=> v \in channels[x])
    <3> SUFFICES ASSUME at[c] # x \/ session[c] # v
                 PROVE  EndsIn(outbox[a], Base(a, x), x, v) <=> v \in channels[x]
      OBVIOUS
    <3>1. \A d \in Conn \ {a} : session[d] = v => ~Owes(d, x)
      BY <2>1 DEF Owes
    <3> QED
      BY <1>a, <2>4, <3>1
  <2>7. n.channel = x /\ n.user = v =>
          /\ n.event = (IF v \in channels[x] THEN "user_joined" ELSE "user_left")
          /\ \/ \E w \in channels[x] \ {session[c]} : sockets[w] = a
             \/ EndsIn(outbox[a], Base(a, x), x, v) <=> v \in channels[x]
    <3> SUFFICES ASSUME at[c] = x, session[c] = v
                 PROVE  \/ \E w \in channels[x] \ {v} : sockets[w] = a
                        \/ EndsIn(outbox[a], Base(a, x), x, v) <=> v \in channels[x]
      BY <2>5
    <3>1. CASE a = c
      <4>1. \A d \in Conn \ {a} : session[d] = v => ~Owes(d, x)
        BY <2>1, <3>1 DEF Owes
      <4> QED
        BY <1>a, <2>4, <4>1
    <3>2. CASE a # c
      BY <1>m, <2>1, <2>4, <3>2
    <3> QED
      BY <3>1, <3>2
  <2>8. EndsIn(Broadcast(n, {session[c]})[a], Base(a, x), x, v) <=> v \in channels[x]
    <3> HIDE DEF n
    <3> QED
      BY <1>x, <2>3, <2>6, <2>7, BroadcastInforms
  <2> QED
    BY <2>1, <2>2, <2>4, <2>8
<1>10. ASSUME NEW c \in Conn, AnnounceLeave(c) PROVE Goal
  <2> DEFINE n == [event |-> "user_left", channel |-> at[c], user |-> session[c]]
  <2>1. /\ pc[c] = "leaveCast" /\ session[c] \in User /\ at[c] \in Channel
        /\ at' = [at EXCEPT ![c] = NoChannel] /\ pc' = [pc EXCEPT ![c] = "idle"]
        /\ UNCHANGED <<session, joined, alive, told, overtaken, reply, channels>>
    BY <1>10 DEF AnnounceLeave
  <2>2. outbox' = Broadcast(n, {})
    BY <1>10 DEF AnnounceLeave
  <2>3. n \in Notice
    BY <2>1 DEF Notice
  <2>4. Base(a, x)' = Base(a, x) /\ pc[a] \in Serving /\ Follows(a, x) /\ alive[a]
    BY <2>1 DEF Base
  <2>5. at[c] \notin joined[c] /\ session[c] \notin channels[at[c]]
    BY <2>1
  <2>6. n.channel # x \/ n.user # v => (EndsIn(outbox[a], Base(a, x), x, v) <=> v \in channels[x])
    <3> SUFFICES ASSUME at[c] # x \/ session[c] # v
                 PROVE  EndsIn(outbox[a], Base(a, x), x, v) <=> v \in channels[x]
      OBVIOUS
    <3>1. \A d \in Conn \ {a} : session[d] = v => ~Owes(d, x)
      BY <2>1 DEF Owes
    <3> QED
      BY <1>a, <2>4, <3>1
  <2>7. n.channel = x /\ n.user = v =>
          /\ n.event = (IF v \in channels[x] THEN "user_joined" ELSE "user_left")
          /\ \/ \E w \in channels[x] \ {} : sockets[w] = a
             \/ EndsIn(outbox[a], Base(a, x), x, v) <=> v \in channels[x]
    BY <1>m, <2>4, <2>5
  <2>8. EndsIn(Broadcast(n, {})[a], Base(a, x), x, v) <=> v \in channels[x]
    <3> HIDE DEF n
    <3> QED
      BY <1>x, <2>3, <2>6, <2>7, BroadcastInforms
  <2> QED
    BY <2>1, <2>2, <2>4, <2>8
<1>11. ASSUME NEW c \in Conn, StoreSrtpSession(c) PROVE Goal
  <2>1. /\ pc[a] \in Serving /\ alive[a] /\ Follows(a, x) /\ Base(a, x)' = Base(a, x)
        /\ outbox'[a] = outbox[a] /\ channels' = channels
    BY <1>11 DEF StoreSrtpSession, Base
  <2>2. \A d \in Conn \ {a} : session[d] = v => ~Owes(d, x)
    BY <1>11 DEF StoreSrtpSession, Owes
  <2> QED
    BY <1>a, <2>1, <2>2
<1>12. ASSUME NEW c \in Conn, Deliver(c) PROVE Goal
  <2>1. /\ pc[c] = "idle" /\ outbox[c] # <<>> /\ outbox' = [outbox EXCEPT ![c] = Tail(outbox[c])]
        /\ told' = IF alive[c] THEN [told EXCEPT ![c] = Heard(told[c], Head(outbox[c]))] ELSE told
        /\ UNCHANGED <<pc, session, joined, at, reply, alive, overtaken, channels>>
    BY <1>12 DEF Deliver
  <2>2. EndsIn(outbox[a], Base(a, x), x, v) <=> v \in channels[x]
    <3>1. \A d \in Conn \ {a} : session[d] = v => ~Owes(d, x)
      BY <2>1 DEF Owes
    <3> QED
      BY <1>a, <2>1, <3>1
  <2>3. CASE a = c
    <3>1. /\ outbox[a] \in Seq(Notice) /\ told[a] \in [Channel -> SUBSET User]
          /\ outbox'[a] = Tail(outbox[a]) /\ Base(a, x) = told[a][x]
          /\ Base(a, x)' = Heard(told[a], Head(outbox[a]))[x]
      BY <2>1, <2>3 DEF Base
    <3>2. EndsIn(outbox'[a], Base(a, x)', x, v) <=> EndsIn(outbox[a], Base(a, x), x, v)
      <4>1. outbox[a] # <<>>
        BY <2>1, <2>3
      <4>2. EndsIn(Tail(outbox[a]), Heard(told[a], Head(outbox[a]))[x], x, v)
              <=> EndsIn(outbox[a], told[a][x], x, v)
        BY <1>x, <3>1, <4>1, EndsInDelivered
      <4> QED
        BY <3>1, <4>2
    <3> QED
      BY <2>1, <2>2, <3>2
  <2>4. CASE a # c
    <3>1. outbox'[a] = outbox[a] /\ Base(a, x)' = Base(a, x)
      BY <2>1, <2>4 DEF Base
    <3> QED
      BY <2>1, <2>2, <3>1
  <2> QED
    BY <2>3, <2>4
<1>13. ASSUME NEW c \in Conn, EndLoop(c) PROVE Goal
  <2>1. /\ pc[a] \in Serving /\ alive[a] /\ Follows(a, x) /\ Base(a, x)' = Base(a, x)
        /\ outbox'[a] = outbox[a] /\ channels' = channels
    BY <1>13 DEF EndLoop, Base
  <2>2. \A d \in Conn \ {a} : session[d] = v => ~Owes(d, x)
    BY <1>13 DEF EndLoop, Owes
  <2> QED
    BY <1>a, <2>1, <2>2
<1>14. ASSUME NEW c \in Conn, Unregister(c) PROVE Goal
  <2>1. /\ pc[c] = "unregister" /\ ~alive[c] /\ session[c] \in User
        /\ channels' = [y \in Channel |-> channels[y] \ {session[c]}]
        /\ pc' = [pc EXCEPT ![c] = "dropSrtp"]
        /\ UNCHANGED <<session, joined, at, reply, alive, told, overtaken, outbox>>
    BY <1>14 DEF Unregister
  <2>2. a # c
    BY <2>1
  <2>3. session[c] = v => v \notin channels[x]
    BY <1>x, <2>1, <2>2 DEF Owes
  <2>4. v \in channels'[x] <=> v \in channels[x]
    BY <1>x, <2>1, <2>3
  <2>5. Base(a, x)' = Base(a, x) /\ pc[a] \in Serving
    BY <2>1, <2>2 DEF Base
  <2>6. \A d \in Conn \ {a} : session[d] = v => ~Owes(d, x)
    BY <2>1 DEF Owes
  <2> QED
    BY <1>a, <2>1, <2>4, <2>5, <2>6
<1>15. ASSUME NEW c \in Conn, DropSrtpSession(c) PROVE Goal
  <2>1. /\ pc[a] \in Serving /\ alive[a] /\ Follows(a, x) /\ Base(a, x)' = Base(a, x)
        /\ outbox'[a] = outbox[a] /\ channels' = channels
    BY <1>15 DEF DropSrtpSession, Base
  <2>2. \A d \in Conn \ {a} : session[d] = v => ~Owes(d, x)
    BY <1>15 DEF DropSrtpSession, Owes
  <2> QED
    BY <1>a, <2>1, <2>2
<1>16. ASSUME NEW c \in Conn, DropKeyExchange(c) PROVE Goal
  <2>1. /\ pc[a] \in Serving /\ alive[a] /\ Follows(a, x) /\ Base(a, x)' = Base(a, x)
        /\ outbox'[a] = outbox[a] /\ channels' = channels
    BY <1>16 DEF DropKeyExchange, Base
  <2>2. \A d \in Conn \ {a} : session[d] = v => ~Owes(d, x)
    BY <1>16 DEF DropKeyExchange, Owes
  <2> QED
    BY <1>a, <2>1, <2>2
<1>17. ASSUME NEW c \in Conn, NEW ch \in Channel, AnnounceLoss(c, ch) PROVE Goal
  <2> DEFINE n == [event |-> "user_left", channel |-> ch, user |-> session[c]]
  <2>1. /\ pc[c] = "cleanCast" /\ session[c] \in User /\ outbox' = Broadcast(n, {})
        /\ joined' = [joined EXCEPT ![c] = @ \ {ch}]
        /\ UNCHANGED <<pc, session, at, reply, alive, told, overtaken, channels>>
    BY <1>17 DEF AnnounceLoss
  <2>2. a # c /\ n \in Notice
    BY <2>1 DEF Notice
  <2>4. Base(a, x)' = Base(a, x) /\ pc[a] \in Serving /\ Follows(a, x) /\ alive[a]
    BY <2>1, <2>2 DEF Base
  <2>5. session[c] \notin channels[x]
    <3>1. ASSUME session[c] \in channels[x] PROVE FALSE
      <4>1. PICK d \in Conn : session[d] = session[c] /\ pc[d] \in Serving \cup {"unregister"}
        BY <1>x, <3>1 DEF MembersAreServed
      <4> QED
        BY <2>1, <4>1
    <3> QED
      BY <3>1
  <2>6. n.channel # x \/ n.user # v => (EndsIn(outbox[a], Base(a, x), x, v) <=> v \in channels[x])
    <3> SUFFICES ASSUME ch # x \/ session[c] # v
                 PROVE  EndsIn(outbox[a], Base(a, x), x, v) <=> v \in channels[x]
      OBVIOUS
    <3>1. \A d \in Conn \ {a} : session[d] = v => ~Owes(d, x)
      BY <2>1 DEF Owes
    <3> QED
      BY <1>a, <2>4, <3>1
  <2>7. n.channel = x /\ n.user = v =>
          /\ n.event = (IF v \in channels[x] THEN "user_joined" ELSE "user_left")
          /\ \/ \E w \in channels[x] \ {} : sockets[w] = a
             \/ EndsIn(outbox[a], Base(a, x), x, v) <=> v \in channels[x]
    BY <1>m, <2>4, <2>5
  <2>8. EndsIn(Broadcast(n, {})[a], Base(a, x), x, v) <=> v \in channels[x]
    <3> HIDE DEF n
    <3> QED
      BY <1>x, <2>2, <2>6, <2>7, BroadcastInforms
  <2> QED
    BY <2>1, <2>2, <2>4, <2>8
<1>18. ASSUME NEW c \in Conn, Finish(c) PROVE Goal
  <2>1. /\ pc[a] \in Serving /\ alive[a] /\ Follows(a, x) /\ Base(a, x)' = Base(a, x)
        /\ outbox'[a] = outbox[a] /\ channels' = channels
    BY <1>18 DEF Finish, Base
  <2>2. \A d \in Conn \ {a} : session[d] = v => ~Owes(d, x)
    BY <1>18 DEF Finish, Owes
  <2> QED
    BY <1>a, <2>1, <2>2
<1>19. CASE UNCHANGED vars
  <2>1. /\ pc[a] \in Serving /\ alive[a] /\ Follows(a, x) /\ Base(a, x)' = Base(a, x)
        /\ outbox' = outbox /\ channels' = channels
    BY <1>19 DEF vars, Base
  <2>2. \A d \in Conn \ {a} : session[d] = v => ~Owes(d, x)
    BY <1>19 DEF vars, Owes
  <2> QED
    BY <1>a, <2>1, <2>2
<1>20. ASSUME NEW c \in Conn, RecordJoin(c) PROVE Goal
  <2>1. /\ pc[a] \in Serving /\ alive[a] /\ Follows(a, x) /\ Base(a, x)' = Base(a, x)
        /\ outbox'[a] = outbox[a] /\ channels' = channels
    BY <1>20 DEF RecordJoin, Base
  <2>2. \A d \in Conn \ {a} : session[d] = v => ~Owes(d, x)
    BY <1>20 DEF RecordJoin, Owes
  <2> QED
    BY <1>a, <2>1, <2>2
<1>21. ASSUME NEW c \in Conn, NEW e \in Conn, Jam(c, e) PROVE Goal
  <2>1. /\ pc[a] \in Serving /\ alive[a] /\ Follows(a, x) /\ Base(a, x)' = Base(a, x)
        /\ outbox'[a] = outbox[a] /\ channels' = channels
    BY <1>21 DEF Jam, Base
  <2>2. \A d \in Conn \ {a} : session[d] = v => ~Owes(d, x)
    BY <1>21 DEF Jam, Owes
  <2> QED
    BY <1>a, <2>1, <2>2
<1> QED
  BY <1>1, <1>2, <1>3, <1>4, <1>5, <1>6, <1>7, <1>8, <1>9, <1>10, <1>11,
     <1>12, <1>13, <1>14, <1>15, <1>16, <1>17, <1>18, <1>19, <1>20, <1>21 DEF Next,
     Request, Server

(* Without overlapping logins, the last word of every connected member on  *)
(* its channels is the manager's once everything sent has arrived, but for *)
(* the channels whose ChannelJoined overtook notices in the outbox.        *)
THEOREM LastWord ==
  ASSUME ~Overlap
  PROVE  Spec => []LastWordUnlessOvertaken
<1>1. Init => Sequential /\ HandlersOK /\ Informed
  BY DEF Init, Sequential, Alone, SessionMatchesManager, ServedUsersAreReachable, Serves,
     Serving, Handling, Cleaning, HandlersOK, Informed
<1>2. TypedTasks /\ NoResidue /\ MembersAreServed /\ Sequential /\ HandlersOK /\ Informed
        /\ [Next]_vars => Sequential' /\ HandlersOK' /\ Informed'
  BY SequentialStep, HandlersStep, InformedStep
<1>3. TypedTasks /\ HandlersOK /\ Informed => LastWordUnlessOvertaken
  <2> SUFFICES ASSUME TypedTasks, HandlersOK, Informed, Quiet, NEW c \in Conn,
                      NEW ch \in joined[c] \ overtaken[c], alive[c]
               PROVE  told[c][ch] = channels[ch]
    BY DEF LastWordUnlessOvertaken
  <2>1. ch \in Channel /\ pc[c] = "idle" /\ outbox[c] = <<>>
    BY DEF TypedTasks, TypeOK, HandlersOK, Quiet
  <2>2. \A d \in Conn : ~Owes(d, ch)
    BY DEF Quiet, HandlersOK, Owes
  <2>3. ASSUME NEW v \in User PROVE v \in told[c][ch] <=> v \in channels[ch]
    <3>1. EndsIn(outbox[c], Base(c, ch), ch, v) <=> v \in channels[ch]
      BY <2>1, <2>2 DEF Informed, Serving, Follows, Entering
    <3> QED
      BY <2>1, <3>1, EndsInNoMail DEF Base
  <2>4. told[c][ch] \subseteq User /\ channels[ch] \subseteq User
    BY <2>1 DEF TypedTasks, TypeOK
  <2> QED
    BY <2>3, <2>4
<1> QED
  BY <1>1, <1>2, <1>3, AlwaysTyped, NothingLeft, ServedMembers, PTL DEF Spec

----------------------------------------------------------------------------
(* Every step of the control plane is a login, a join, a leave or a logout *)
(* of the membership service, or does not change it.                       *)
LEMMA ServiceStep ==
  ASSUME ~Overlap, TypedTasks, NoResidue, Sequential, [Next]_vars
  PROVE  [Service!Next]_(Service!vars)
<1> DEFINE on == {u \in User : sockets[u] # NoConn}
           Goal == [Service!Next]_(Service!vars)
<1> SUFFICES Goal
  OBVIOUS
<1>a. (on' = on /\ channels' = channels) => Goal
  BY DEF Service!vars
<1> HIDE DEF Goal, on
<1> USE DEF TypedTasks, TypeOK, Goto, shared, client, task
<1>1. ASSUME NEW c \in Conn, Accept(c) PROVE Goal
  BY <1>1, <1>a DEF Accept, on
<1>2. ASSUME NEW c \in Conn, Hangup(c) PROVE Goal
  BY <1>2, <1>a DEF Hangup, on
<1>3. ASSUME NEW c \in Conn, NEW u \in User, Authenticate(c, u) PROVE Goal
  <2>1. u \notin on
    BY <1>3 DEF Authenticate, NoResidue, on
  <2>2. on' = on \cup {u} /\ channels' = channels
    BY <1>3 DEF Authenticate, on
  <2>3. Service!Login(u)
    BY <2>1, <2>2 DEF Service!Login, on
  <2> QED
    BY <2>3 DEF Service!Next, Goal
<1>4. ASSUME NEW c \in Conn, NEW ch \in Channel, JoinChannel(c, ch) PROVE Goal
  <2>1. PICK u \in User : session[c] = u /\ sockets[u] = c
    BY <1>4 DEF JoinChannel, Sequential, ServedUsersAreReachable, Serves, Serving
  <2>2. u \in on /\ on' = on
    BY <1>4, <2>1 DEF JoinChannel, on
  <2>3. channels' = [channels EXCEPT ![ch] = channels[ch] \cup {u}]
    BY <1>4, <2>1 DEF JoinChannel
  <2>4. Service!Join(u, ch)
    BY <2>2, <2>3 DEF Service!Join, on
  <2> QED
    BY <2>4 DEF Service!Next, Goal
<1>5. ASSUME NEW c \in Conn, NEW ch \in Channel, LeaveChannel(c, ch) PROVE Goal
  <2>1. PICK u \in User : session[c] = u /\ sockets[u] = c
    BY <1>5 DEF LeaveChannel, Sequential, ServedUsersAreReachable, Serves, Serving
  <2>2. u \in on /\ on' = on
    BY <1>5, <2>1 DEF LeaveChannel, on
  <2>3. channels' = [channels EXCEPT ![ch] = channels[ch] \ {u}]
    BY <1>5, <2>1 DEF LeaveChannel
  <2>4. Service!Leave(u, ch)
    BY <2>2, <2>3 DEF Service!Leave, on
  <2> QED
    BY <2>4 DEF Service!Next, Goal
<1>6. ASSUME NEW c \in Conn, TakeKeyExchange(c) PROVE Goal
  BY <1>6, <1>a DEF TakeKeyExchange, on
<1>7. ASSUME NEW c \in Conn, OfferKeyExchange(c) PROVE Goal
  BY <1>7, <1>a DEF OfferKeyExchange, on
<1>8. ASSUME NEW c \in Conn, SendChannelJoined(c) PROVE Goal
  BY <1>8, <1>a DEF SendChannelJoined, on
<1>9. ASSUME NEW c \in Conn, AnnounceJoin(c) PROVE Goal
  BY <1>9, <1>a DEF AnnounceJoin, on
<1>10. ASSUME NEW c \in Conn, AnnounceLeave(c) PROVE Goal
  BY <1>10, <1>a DEF AnnounceLeave, on
<1>11. ASSUME NEW c \in Conn, StoreSrtpSession(c) PROVE Goal
  BY <1>11, <1>a DEF StoreSrtpSession, on
<1>12. ASSUME NEW c \in Conn, Deliver(c) PROVE Goal
  BY <1>12, <1>a DEF Deliver, on
<1>13. ASSUME NEW c \in Conn, EndLoop(c) PROVE Goal
  BY <1>13, <1>a DEF EndLoop, on
<1>14. ASSUME NEW c \in Conn, Unregister(c) PROVE Goal
  <2>1. PICK u \in User : session[c] = u /\ sockets[u] = c
    BY <1>14 DEF Unregister, TaskOK, Cleaning, Sequential, ServedUsersAreReachable, Serves
  <2>2. u \in on /\ on' = on \ {u}
    BY <1>14, <2>1 DEF Unregister, on
  <2>3. channels' = [x \in Channel |-> channels[x] \ {u}]
    BY <1>14, <2>1 DEF Unregister
  <2>4. Service!Logout(u)
    BY <2>2, <2>3 DEF Service!Logout, on
  <2> QED
    BY <2>4 DEF Service!Next, Goal
<1>15. ASSUME NEW c \in Conn, DropSrtpSession(c) PROVE Goal
  BY <1>15, <1>a DEF DropSrtpSession, on
<1>16. ASSUME NEW c \in Conn, DropKeyExchange(c) PROVE Goal
  BY <1>16, <1>a DEF DropKeyExchange, on
<1>17. ASSUME NEW c \in Conn, NEW ch \in Channel, AnnounceLoss(c, ch) PROVE Goal
  BY <1>17, <1>a DEF AnnounceLoss, on
<1>18. ASSUME NEW c \in Conn, Finish(c) PROVE Goal
  BY <1>18, <1>a DEF Finish, on
<1>19. CASE UNCHANGED vars
  BY <1>19, <1>a DEF vars, on
<1>20. ASSUME NEW c \in Conn, RecordJoin(c) PROVE Goal
  BY <1>20, <1>a DEF RecordJoin, on
<1>21. ASSUME NEW c \in Conn, NEW e \in Conn, Jam(c, e) PROVE Goal
  BY <1>21, <1>a DEF Jam, on
<1> QED
  BY <1>1, <1>2, <1>3, <1>4, <1>5, <1>6, <1>7, <1>8, <1>9, <1>10, <1>11,
     <1>12, <1>13, <1>14, <1>15, <1>16, <1>17, <1>18, <1>19, <1>20, <1>21 DEF Next,
     Request, Server

(* Without overlapping logins the control plane is a membership service.   *)
THEOREM ImplementsMembership ==
  ASSUME ~Overlap
  PROVE  Spec => IsMembershipService
<1>1. Init => Service!Init
  BY DEF Init, Service!Init
<1>2. Init => Sequential
  BY DEF Init, Sequential, Alone, SessionMatchesManager, ServedUsersAreReachable, Serves,
     Serving, Handling
<1>3. TypedTasks /\ NoResidue /\ Sequential /\ [Next]_vars => Sequential'
  BY SequentialStep
<1>4. TypedTasks /\ NoResidue /\ Sequential /\ [Next]_vars
        => [Service!Next]_(Service!vars)
  BY ServiceStep
<1> QED
  BY <1>1, <1>2, <1>3, <1>4, AlwaysTyped, NothingLeft, PTL
     DEF Spec, IsMembershipService, Service!Spec

----------------------------------------------------------------------------
(* ManagerLocks.  That every call returns is a matter of fairness and left *)
(* to the model checker.                                                   *)
USE MethodAssumption

Want == [lock : Lock, mode : {"read", "write"}]

LEMMA AwaitedType ==
  ASSUME NEW m \in Methods
  PROVE  Awaited(m) \in Seq(Want)
<1>1. \A l \in Lock : read(l) \in Want /\ write(l) \in Want
  BY DEF read, write, Want
<1>2. {"channels", "user_sockets", "user_names"} \subseteq Lock
  BY DEF Lock
<1>3. \A w \in Want : <<w>> \in Seq(Want)
  OBVIOUS
<1>4. \A v, w \in Want : <<v, w>> \in Seq(Want)
  OBVIOUS
<1>5. \A u, v, w \in Want : <<u, v, w>> \in Seq(Want)
  OBVIOUS
<1>6. CASE m = "unregister_user"
  <2>1. Awaited(m) = <<write("user_sockets"), read("user_names"), write("channels")>>
    BY <1>6 DEF Awaited
  <2> QED
    BY <1>1, <1>2, <1>5, <2>1
<1>7. CASE m = "register_user"
  <2>1. Awaited(m) = <<write("user_sockets"), write("user_names")>>
    BY <1>7 DEF Awaited
  <2> QED
    BY <1>1, <1>2, <1>4, <2>1
<1>8. CASE m = "broadcast_to_channel"
  <2>1. Awaited(m) = <<read("channels"), read("user_sockets")>>
    BY <1>8 DEF Awaited
  <2> QED
    BY <1>1, <1>2, <1>4, <2>1
<1>9. CASE m \notin {"unregister_user", "register_user", "broadcast_to_channel"}
  <2>1. \/ Awaited(m) = <<write("channels")>> \/ Awaited(m) = <<read("channels")>>
        \/ Awaited(m) = <<read("user_sockets")>>
    BY <1>9 DEF Awaited
  <2> QED
    BY <1>1, <1>2, <1>3, <2>1
<1> QED
  BY <1>6, <1>7, <1>8, <1>9

----------------------------------------------------------------------------
LockTypes ==
  /\ call    \in [Task -> Methods \cup {"none"}]
  /\ granted \in [Task -> Nat]
  /\ queue   \in [Lock -> Seq(LockRequest)]
  /\ held    \in [Lock -> SUBSET LockRequest]

(* A task waits in one place at most, and for a lock its method has still  *)
(* to get.                                                                 *)
Once ==
  \A l, m \in Lock : \A i \in 1 .. Len(queue[l]), j \in 1 .. Len(queue[m]) :
    queue[l][i].task = queue[m][j].task => l = m /\ i = j

Short(t) == call[t] # "none" /\ granted[t] < Len(Awaited(call[t]))

Pending ==
  \A l \in Lock : \A i \in 1 .. Len(queue[l]) : Short(queue[l][i].task)

Bounded ==
  \A t \in Task : granted[t] <= (IF call[t] = "none" THEN 0 ELSE Len(Awaited(call[t])))

(* A writer has its lock for itself.                                       *)
WriterAlone == \A l \in Lock : \A g, h \in held[l] : g.mode = "write" => g = h

LockInv == LockTypes /\ Once /\ Pending /\ Bounded /\ WriterAlone

LEMMA LockInitInv == LockInit => LockInv
<1> SUFFICES ASSUME LockInit PROVE LockInv
  OBVIOUS
<1>1. LockTypes /\ \A l \in Lock : Len(queue[l]) = 0
  BY DEF LockInit, LockTypes
<1> QED
  BY <1>1 DEF LockInit, LockInv, Once, Pending, Bounded, WriterAlone

LEMMA CallInv == ASSUME LockInv, NEW t \in Task, NEW m \in Methods, Call(t, m) PROVE LockInv'
<1> USE DEF LockInv
<1>1. LockTypes'
  BY DEF Call, LockTypes
<1>2. Once' /\ WriterAlone'
  BY DEF Call, Once, WriterAlone
<1>3. Pending'
  BY DEF Call, Pending, Short, LockTypes
<1>4. Bounded'
  <2>1. granted[t] = 0 /\ m # "none"
    BY DEF Call, Bounded, LockTypes
  <2>2. Len(Awaited(m)) \in Nat
    BY AwaitedType
  <2> QED
    BY <2>1, <2>2 DEF Call, Bounded, LockTypes
<1> QED
  BY <1>1, <1>2, <1>3, <1>4

LEMMA AwaitInv == ASSUME LockInv, NEW t \in Task, Await(t) PROVE LockInv'
<1> USE DEF LockInv
<1> DEFINE want == Awaited(call[t])[granted[t] + 1]
           r    == [task |-> t, mode |-> want.mode]
           k    == want.lock
<1>1. Awaited(call[t]) \in Seq(Want) /\ granted[t] + 1 \in 1 .. Len(Awaited(call[t]))
  <2>1. call[t] \in Methods /\ granted[t] \in Nat /\ granted[t] < Len(Awaited(call[t]))
    BY DEF Await, CanAwait, LockTypes
  <2>2. Awaited(call[t]) \in Seq(Want)
    BY <2>1, AwaitedType
  <2>3. Len(Awaited(call[t])) \in Nat
    BY <2>2
  <2> HIDE DEF want, k
  <2> QED
    BY <2>1, <2>2, <2>3
<1>2. want \in Want
  BY <1>1
<1>3. k \in Lock /\ r \in LockRequest
  BY <1>2 DEF Want, LockRequest
<1>4. queue' = [queue EXCEPT ![k] = Append(@, r)] /\ UNCHANGED <<call, granted, held>>
  BY DEF Await
<1> HIDE DEF want, k
<1>5. Append(queue[k], r) \in Seq(LockRequest) /\ Len(Append(queue[k], r)) = Len(queue[k]) + 1
  BY <1>3 DEF LockTypes
<1>6. LockTypes'
  BY <1>3, <1>4, <1>5 DEF LockTypes
<1>7. /\ \A l \in Lock \ {k} : queue'[l] = queue[l]
      /\ Len(queue'[k]) = Len(queue[k]) + 1
      /\ \A i \in 1 .. Len(queue[k]) : queue'[k][i] = queue[k][i]
      /\ queue'[k][Len(queue[k]) + 1] = r
      /\ Len(queue[k]) \in Nat
  BY <1>3, <1>4, <1>5 DEF LockTypes
<1>8. \A l \in Lock : \A i \in 1 .. Len(queue[l]) : queue[l][i].task # t
  BY DEF Await, CanAwait, Waits
<1>9. Once'
  <2> SUFFICES ASSUME NEW l \in Lock, NEW m \in Lock,
                      NEW i \in 1 .. Len(queue'[l]), NEW j \in 1 .. Len(queue'[m]),
                      queue'[l][i].task = queue'[m][j].task
               PROVE  l = m /\ i = j
    BY DEF Once
  <2> DEFINE New(lock, pos) == lock = k /\ pos = Len(queue[k]) + 1
  <2>1. \A lock \in Lock : \A pos \in 1 .. Len(queue'[lock]) :
          \/ New(lock, pos) /\ queue'[lock][pos].task = t
          \/ pos \in 1 .. Len(queue[lock]) /\ queue'[lock][pos] = queue[lock][pos]
    BY <1>3, <1>7
  <2>2. queue'[k][Len(queue[k]) + 1].task = t
    BY <1>7
  <2>3. CASE New(l, i) \/ New(m, j)
    <3>1. queue'[l][i].task = t /\ queue'[m][j].task = t
      BY <2>3, <2>2
    <3> HIDE DEF New
    <3>2. New(l, i) /\ New(m, j)
      BY <1>8, <2>1, <3>1
    <3> QED
      BY <3>2 DEF New
  <2>4. CASE ~New(l, i) /\ ~New(m, j)
    <3>1. i \in 1 .. Len(queue[l]) /\ j \in 1 .. Len(queue[m]) /\ queue[l][i].task = queue[m][j].task
      BY <2>1, <2>4
    <3> QED
      BY <3>1 DEF Once
  <2> QED
    BY <2>3, <2>4
<1>10. Short(t) /\ \A u \in Task : Short(u)' <=> Short(u)
  BY <1>4 DEF Await, CanAwait, Short
<1>11. Pending'
  BY <1>3, <1>4, <1>7, <1>10 DEF Pending, Short
<1>12. Bounded' /\ WriterAlone'
  BY <1>4 DEF Bounded, WriterAlone
<1> QED
  BY <1>6, <1>9, <1>11, <1>12

LEMMA GrantInv == ASSUME LockInv, NEW k \in Lock, Grant(k) PROVE LockInv'
<1> USE DEF LockInv
<1> DEFINE r == Head(queue[k])  t == r.task
<1>1. queue[k] \in Seq(LockRequest) /\ queue[k] # <<>>
  BY DEF Grant, CanGrant, LockTypes
<1>2. /\ r \in LockRequest /\ r = queue[k][1] /\ 1 \in 1 .. Len(queue[k])
      /\ Tail(queue[k]) \in Seq(LockRequest) /\ Len(Tail(queue[k])) = Len(queue[k]) - 1
      /\ \A i \in 1 .. Len(queue[k]) - 1 : Tail(queue[k])[i] = queue[k][i + 1]
      /\ Len(queue[k]) \in Nat
  BY <1>1
<1>3. t \in Task /\ Short(t)
  BY <1>2 DEF LockRequest, Pending
<1> HIDE DEF r
<1>4. /\ held' = [held EXCEPT ![k] = @ \cup {r}] /\ queue' = [queue EXCEPT ![k] = Tail(@)]
      /\ granted' = [granted EXCEPT ![t] = @ + 1] /\ UNCHANGED call
  BY DEF Grant, r
<1>5. LockTypes'
  BY <1>2, <1>3, <1>4 DEF LockTypes
<1>6. /\ \A l \in Lock \ {k} : queue'[l] = queue[l]
      /\ Len(queue'[k]) = Len(queue[k]) - 1
      /\ \A i \in 1 .. Len(queue'[k]) : queue'[k][i] = queue[k][i + 1] /\ i + 1 \in 1 .. Len(queue[k])
  BY <1>2, <1>4 DEF LockTypes
<1> DEFINE Before(l, i) == IF l = k THEN i + 1 ELSE i
<1>7. \A l \in Lock : \A i \in 1 .. Len(queue'[l]) :
        /\ Before(l, i) \in 1 .. Len(queue[l]) /\ queue'[l][i] = queue[l][Before(l, i)]
        /\ i \in Nat \ {0}
  BY <1>6
<1>8. Once'
  <2> SUFFICES ASSUME NEW l \in Lock, NEW m \in Lock,
                      NEW i \in 1 .. Len(queue'[l]), NEW j \in 1 .. Len(queue'[m]),
                      queue'[l][i].task = queue'[m][j].task
               PROVE  l = m /\ i = j
    BY DEF Once
  <2> PICK p \in 1 .. Len(queue[l]) : p = Before(l, i)
    BY <1>7
  <2> PICK q \in 1 .. Len(queue[m]) : q = Before(m, j)
    BY <1>7
  <2> HIDE DEF Before
  <2>1. queue[l][p].task = queue[m][q].task
    BY <1>7
  <2>2. l = m /\ Before(l, i) = Before(m, j)
    BY <2>1 DEF Once
  <2> USE DEF Before
  <2> QED
    BY <1>7, <2>2
<1>9. \A l \in Lock : \A i \in 1 .. Len(queue'[l]) :
        queue'[l][i].task # t /\ Short(queue'[l][i].task)
  <2> TAKE l \in Lock
  <2> TAKE i \in 1 .. Len(queue'[l])
  <2> PICK p \in 1 .. Len(queue[l]) : p = Before(l, i)
    BY <1>7
  <2>1. ~(l = k /\ p = 1)
    BY <1>7
  <2> HIDE DEF Before
  <2>2. Short(queue'[l][i].task)
    BY <1>7 DEF Pending
  <2>3. queue[l][p].task # queue[k][1].task
    BY <1>2, <2>1 DEF Once
  <2>4. queue'[l][i].task # t
    BY <1>2, <1>7, <2>3
  <2> QED
    BY <2>2, <2>4
<1>10. \A u : u # t /\ Short(u) => Short(u)'
  BY <1>3, <1>4 DEF Short, LockTypes
<1>11. Pending'
  <2> SUFFICES ASSUME NEW l \in Lock, NEW i \in 1 .. Len(queue'[l])
               PROVE  Short(queue[l][i].task)'
    BY DEF Pending
  <2> PICK u : u = queue'[l][i].task
    OBVIOUS
  <2>1. Short(u)'
    BY <1>9, <1>10
  <2> QED
    BY <2>1 DEF Short
<1>12. Bounded'
  <2>1. Len(Awaited(call[t])) \in Nat
    BY <1>3, AwaitedType DEF Short, LockTypes
  <2> QED
    BY <1>3, <1>4, <2>1 DEF Bounded, Short, LockTypes
<1>13. WriterAlone'
  <2>1. Compatible(k, r)
    BY DEF Grant, CanGrant, r
  <2> QED
    BY <1>4, <2>1 DEF WriterAlone, Compatible, LockTypes
<1> QED
  BY <1>5, <1>8, <1>11, <1>12, <1>13

LEMMA ReturnInv == ASSUME LockInv, NEW t \in Task, Return(t) PROVE LockInv'
<1> USE DEF LockInv
<1>1. LockTypes'
  BY DEF Return, LockTypes
<1>2. Once' /\ WriterAlone'
  BY DEF Return, Once, WriterAlone, LockTypes
<1>3. \A l \in Lock : \A i \in 1 .. Len(queue[l]) : queue[l][i].task # t
  <2>1. call[t] # "none" /\ granted[t] = Len(Awaited(call[t])) /\ granted[t] \in Nat
    BY DEF Return, CanReturn, LockTypes
  <2>2. ~Short(t)
    BY <2>1 DEF Short
  <2>3. \A l \in Lock : \A i \in 1 .. Len(queue[l]) : Short(queue[l][i].task)
    BY DEF Pending
  <2> QED
    BY <2>2, <2>3
<1>4. Pending'
  BY <1>3 DEF Return, Pending, Short, LockTypes
<1>5. Bounded'
  BY DEF Return, Bounded, LockTypes
<1> QED
  BY <1>1, <1>2, <1>4, <1>5

(* LockInv is inductive and holds throughout.                                 *)
LEMMA LocksInductive == LockSpec => []LockInv
<1>1. LockInv /\ UNCHANGED lockVars => LockInv'
  BY DEF lockVars, LockInv, LockTypes, Once, Pending, Short, Bounded, WriterAlone
<1>2. LockInv /\ [LockNext]_lockVars => LockInv'
  BY <1>1, CallInv, AwaitInv, GrantInv, ReturnInv DEF LockNext
<1> QED
  BY <1>2, LockInitInv, PTL DEF LockSpec

----------------------------------------------------------------------------
(* A task never has more locks than its method awaits.                     *)
THEOREM LocksTypeCorrect == LockSpec => []LockTypeOK
<1>1. LockInv => LockTypeOK
  BY DEF LockInv, LockTypes, Bounded, LockTypeOK
<1> QED
  BY <1>1, LocksInductive, PTL

(* What a task that waits has asked for, and what the locks it was granted *)
(* are: between them they say which task can stand in whose way.           *)
Wanted(t) == Awaited(call[t])[granted[t] + 1]

Asks ==
  \A l \in Lock : \A i \in 1 .. Len(queue[l]) :
    Wanted(queue[l][i].task) = [lock |-> l, mode |-> queue[l][i].mode]

Owns ==
  \A l \in Lock : \A h \in held[l] :
    \E i \in 1 .. granted[h.task] : Awaited(call[h.task])[i] = [lock |-> l, mode |-> h.mode]

Has ==
  \A t \in Task : \A i \in 1 .. granted[t] :
    [task |-> t, mode |-> Awaited(call[t])[i].mode] \in held[Awaited(call[t])[i].lock]

OwnInv == Asks /\ Owns /\ Has

(* A task that can be called, or that can return, waits in no queue, and   *)
(* neither does one that has just been granted its lock.                   *)
LEMMA Unqueued ==
  ASSUME LockInv, NEW t \in Task, ~Short(t)
  PROVE  \A l \in Lock : \A i \in 1 .. Len(queue[l]) : queue[l][i].task # t
BY DEF LockInv, Pending

LEMMA CallOwn ==
  ASSUME LockInv, OwnInv, NEW t \in Task, NEW m \in Methods, Call(t, m)
  PROVE  OwnInv'
<1>1. call[t] = "none" /\ granted[t] = 0 /\ ~Short(t)
  BY DEF Call, LockInv, Bounded, LockTypes, Short
<1>2. /\ \A u \in Task \ {t} : call'[u] = call[u]
      /\ granted' = granted /\ queue' = queue /\ held' = held
  BY DEF Call, LockInv, LockTypes
<1>3. Asks'
  <2> SUFFICES ASSUME NEW l \in Lock, NEW i \in 1 .. Len(queue[l])
               PROVE  Wanted(queue[l][i].task)' = [lock |-> l, mode |-> queue[l][i].mode]
    BY <1>2 DEF Asks
  <2>1. queue[l][i] \in LockRequest /\ queue[l][i].task # t
    BY <1>1, Unqueued DEF LockInv, LockTypes
  <2>2. queue[l][i].task \in Task \ {t}
    BY <2>1 DEF LockRequest
  <2> QED
    BY <1>2, <2>2 DEF Wanted, OwnInv, Asks
<1>4. Owns'
  <2> SUFFICES ASSUME NEW l \in Lock, NEW h \in held[l]
               PROVE  \E i \in 1 .. granted[h.task] :
                        Awaited(call'[h.task])[i] = [lock |-> l, mode |-> h.mode]
    BY <1>2 DEF Owns
  <2>1. PICK i \in 1 .. granted[h.task] :
          Awaited(call[h.task])[i] = [lock |-> l, mode |-> h.mode]
    BY DEF OwnInv, Owns
  <2>2. h.task \in Task
    BY DEF LockInv, LockTypes, LockRequest
  <2>3. h.task # t
    BY <1>1, <2>1
  <2> QED
    BY <1>2, <2>1, <2>2, <2>3
<1>5. Has'
  <2> SUFFICES ASSUME NEW u \in Task, NEW i \in 1 .. granted[u]
               PROVE  [task |-> u, mode |-> Awaited(call'[u])[i].mode]
                        \in held[Awaited(call'[u])[i].lock]
    BY <1>2 DEF Has
  <2>1. u # t
    BY <1>1
  <2> QED
    BY <1>2, <2>1 DEF OwnInv, Has
<1> QED
  BY <1>3, <1>4, <1>5 DEF OwnInv

LEMMA AwaitOwn ==
  ASSUME LockInv, OwnInv, NEW t \in Task, Await(t)
  PROVE  OwnInv'
<1> DEFINE w == Wanted(t)
           k == w.lock
           r == [task |-> t, mode |-> w.mode]
<1>1. w \in Want
  <2>1. call[t] \in Methods /\ granted[t] \in Nat /\ granted[t] < Len(Awaited(call[t]))
    BY DEF Await, CanAwait, LockInv, LockTypes
  <2>2. Awaited(call[t]) \in Seq(Want)
    BY <2>1, AwaitedType
  <2>3. granted[t] + 1 \in 1 .. Len(Awaited(call[t]))
    BY <2>1, <2>2
  <2> QED
    BY <2>2, <2>3 DEF Wanted
<1>2. k \in Lock /\ r \in LockRequest /\ w = [lock |-> k, mode |-> r.mode] /\ r.task = t
  BY <1>1 DEF Want, LockRequest
<1>3. queue' = [queue EXCEPT ![k] = Append(@, r)] /\ UNCHANGED <<call, granted, held>>
  BY DEF Await, Wanted
<1> HIDE DEF k, r
<1>4. Owns' /\ Has'
  BY <1>3 DEF OwnInv, Owns, Has
<1>5. Asks'
  <2> SUFFICES ASSUME NEW l \in Lock, NEW i \in 1 .. Len(queue'[l])
               PROVE  Wanted(queue[l][i].task)' = [lock |-> l, mode |-> queue'[l][i].mode]
    BY DEF Asks
  <2>0. \A u : Awaited(call'[u])[granted'[u] + 1] = Wanted(u)
    BY <1>3 DEF Wanted
  <2>1. queue[k] \in Seq(LockRequest) /\ queue[l] \in Seq(LockRequest)
    BY <1>2 DEF LockInv, LockTypes
  <2>2. CASE l = k /\ i = Len(queue[k]) + 1
    <3>1. queue'[l][i] = r
      BY <1>2, <1>3, <2>1, <2>2 DEF LockInv, LockTypes
    <3>2. Wanted(queue'[l][i].task) = [lock |-> l, mode |-> queue'[l][i].mode]
      BY <1>2, <2>2, <3>1
    <3> QED
      BY <2>0, <3>2 DEF Wanted
  <2>3. CASE ~(l = k /\ i = Len(queue[k]) + 1)
    <3>1. i \in 1 .. Len(queue[l]) /\ queue'[l][i] = queue[l][i]
      BY <1>2, <1>3, <2>1, <2>3 DEF LockInv, LockTypes
    <3>2. Wanted(queue'[l][i].task) = [lock |-> l, mode |-> queue'[l][i].mode]
      BY <3>1 DEF OwnInv, Asks
    <3> QED
      BY <2>0, <3>2 DEF Wanted
  <2> QED
    BY <2>2, <2>3
<1> QED
  BY <1>4, <1>5 DEF OwnInv

LEMMA GrantOwn ==
  ASSUME LockInv, OwnInv, NEW k \in Lock, Grant(k)
  PROVE  OwnInv'
<1> DEFINE r == Head(queue[k])  t == r.task
<1>1. queue[k] \in Seq(LockRequest) /\ queue[k] # <<>>
  BY DEF Grant, CanGrant, LockInv, LockTypes
<1>2. /\ r \in LockRequest /\ r = queue[k][1] /\ 1 \in 1 .. Len(queue[k])
      /\ Len(Tail(queue[k])) = Len(queue[k]) - 1
      /\ \A i \in 1 .. Len(queue[k]) - 1 : Tail(queue[k])[i] = queue[k][i + 1]
      /\ Len(queue[k]) \in Nat
  BY <1>1
<1>3. t \in Task /\ granted[t] \in Nat /\ r = [task |-> t, mode |-> r.mode]
  BY <1>2 DEF LockRequest, LockInv, LockTypes
<1>4. Awaited(call[t])[granted[t] + 1] = [lock |-> k, mode |-> r.mode]
  BY <1>2 DEF OwnInv, Asks, Wanted
<1> HIDE DEF r
<1>5. /\ held' = [held EXCEPT ![k] = @ \cup {r}] /\ queue' = [queue EXCEPT ![k] = Tail(@)]
      /\ granted' = [granted EXCEPT ![t] = @ + 1] /\ UNCHANGED call
  BY DEF Grant, r
<1>6. /\ granted'[t] = granted[t] + 1 /\ \A u \in Task \ {t} : granted'[u] = granted[u]
      /\ held'[k] = held[k] \cup {r} /\ \A l \in Lock \ {k} : held'[l] = held[l]
  BY <1>3, <1>5 DEF LockInv, LockTypes
<1>7. Asks'
  <2> SUFFICES ASSUME NEW l \in Lock, NEW i \in 1 .. Len(queue'[l])
               PROVE  Wanted(queue[l][i].task)' = [lock |-> l, mode |-> queue'[l][i].mode]
    BY DEF Asks
  <2>1. PICK j \in 1 .. Len(queue[l]) : queue'[l][i] = queue[l][j] /\ ~(l = k /\ j = 1)
    <3>1. CASE l = k
      <4>1. queue'[l] = Tail(queue[k])
        BY <1>5, <3>1 DEF LockInv, LockTypes
      <4>2. i + 1 \in 1 .. Len(queue[l]) /\ queue'[l][i] = queue[l][i + 1] /\ i + 1 # 1
        BY <1>2, <3>1, <4>1
      <4> QED
        BY <4>2
    <3>2. CASE l # k
      <4>1. queue'[l] = queue[l]
        BY <1>5, <3>2 DEF LockInv, LockTypes
      <4> QED
        BY <3>2, <4>1
    <3> QED
      BY <3>1, <3>2
  <2>2. queue[l][j].task # t
    BY <1>2, <2>1 DEF LockInv, Once
  <2>3. queue[l][j].task \in Task
    <3>1. queue[l] \in Seq(LockRequest)
      BY DEF LockInv, LockTypes
    <3>2. queue[l][j] \in LockRequest
      BY <3>1
    <3> QED
      BY <3>2 DEF LockRequest
  <2>4. Wanted(queue[l][j].task) = [lock |-> l, mode |-> queue[l][j].mode]
    BY DEF OwnInv, Asks
  <2> PICK u : u = queue[l][j].task
    OBVIOUS
  <2>5. granted'[u] = granted[u] /\ call' = call
    BY <1>5, <1>6, <2>2, <2>3
  <2>6. Awaited(call'[u])[granted'[u] + 1] = Wanted(u)
    BY <2>5 DEF Wanted
  <2> QED
    BY <2>1, <2>4, <2>6 DEF Wanted
<1>8. Owns'
  <2> SUFFICES ASSUME NEW l \in Lock, NEW h \in held'[l]
               PROVE  \E i \in 1 .. granted'[h.task] :
                        Awaited(call[h.task])[i] = [lock |-> l, mode |-> h.mode]
    BY <1>5 DEF Owns
  <2>1. CASE h \in held[l]
    <3>1. PICK i \in 1 .. granted[h.task] :
            Awaited(call[h.task])[i] = [lock |-> l, mode |-> h.mode]
      BY <2>1 DEF OwnInv, Owns
    <3>2. h.task \in Task
      BY <2>1 DEF LockInv, LockTypes, LockRequest
    <3>3. i \in 1 .. granted'[h.task]
      BY <1>3, <1>6, <3>2
    <3> QED
      BY <3>1, <3>3
  <2>2. CASE h \notin held[l]
    <3>1. l = k /\ h = r
      BY <1>6, <2>2
    <3>2. granted[t] + 1 \in 1 .. granted'[t]
      BY <1>3, <1>6
    <3> QED
      BY <1>4, <3>1, <3>2
  <2> QED
    BY <2>1, <2>2
<1>9. Has'
  <2> SUFFICES ASSUME NEW u \in Task, NEW i \in 1 .. granted'[u]
               PROVE  [task |-> u, mode |-> Awaited(call[u])[i].mode]
                        \in held'[Awaited(call[u])[i].lock]
    BY <1>5 DEF Has
  <2>1. CASE i \in 1 .. granted[u]
    <3>1. [task |-> u, mode |-> Awaited(call[u])[i].mode] \in held[Awaited(call[u])[i].lock]
      BY <2>1 DEF OwnInv, Has
    <3>2. \A l : held[l] \subseteq held'[l] \/ l \notin Lock
      BY <1>6
    <3>3. Awaited(call[u])[i].lock \in Lock
      <4>1. granted[u] > 0 /\ granted[u] \in Nat /\ call[u] # "none" /\ granted[u] <= Len(Awaited(call[u]))
        BY <2>1 DEF LockInv, Bounded, LockTypes
      <4>2. call[u] \in Methods
        BY <4>1 DEF LockInv, LockTypes
      <4>3. Awaited(call[u]) \in Seq(Want)
        BY <4>2, AwaitedType
      <4>4. i \in 1 .. Len(Awaited(call[u]))
        BY <2>1, <4>1, <4>3
      <4>5. Awaited(call[u])[i] \in Want
        BY <4>3, <4>4
      <4> QED
        BY <4>5 DEF Want
    <3> QED
      BY <3>1, <3>2, <3>3
  <2>2. CASE i \notin 1 .. granted[u]
    <3>1. u = t /\ i = granted[t] + 1
      BY <1>3, <1>6, <2>2 DEF LockInv, LockTypes
    <3> QED
      BY <1>3, <1>4, <1>6, <3>1
  <2> QED
    BY <2>1, <2>2
<1> QED
  BY <1>7, <1>8, <1>9 DEF OwnInv

LEMMA ReturnOwn ==
  ASSUME LockInv, OwnInv, NEW t \in Task, Return(t)
  PROVE  OwnInv'
<1>1. ~Short(t)
  BY DEF Return, CanReturn, Short, LockInv, LockTypes
<1>2. /\ \A u \in Task \ {t} : call'[u] = call[u] /\ granted'[u] = granted[u]
      /\ granted'[t] = 0 /\ queue' = queue
      /\ \A l \in Lock : held'[l] = {h \in held[l] : h.task # t}
  BY DEF Return, LockInv, LockTypes
<1>3. Asks'
  <2> SUFFICES ASSUME NEW l \in Lock, NEW i \in 1 .. Len(queue[l])
               PROVE  Wanted(queue[l][i].task)' = [lock |-> l, mode |-> queue[l][i].mode]
    BY <1>2 DEF Asks
  <2>1. queue[l][i] \in LockRequest /\ queue[l][i].task # t
    BY <1>1, Unqueued DEF LockInv, LockTypes
  <2>2. queue[l][i].task \in Task \ {t}
    BY <2>1 DEF LockRequest
  <2> QED
    BY <1>2, <2>2 DEF Wanted, OwnInv, Asks
<1>4. Owns'
  <2> SUFFICES ASSUME NEW l \in Lock, NEW h \in held'[l]
               PROVE  \E i \in 1 .. granted'[h.task] :
                        Awaited(call'[h.task])[i] = [lock |-> l, mode |-> h.mode]
    BY DEF Owns
  <2>1. h \in held[l] /\ h.task # t
    BY <1>2
  <2>2. h.task \in Task \ {t}
    BY <2>1 DEF LockInv, LockTypes, LockRequest
  <2> QED
    BY <1>2, <2>1, <2>2 DEF OwnInv, Owns
<1>5. Has'
  <2> SUFFICES ASSUME NEW u \in Task, NEW i \in 1 .. granted'[u]
               PROVE  [task |-> u, mode |-> Awaited(call'[u])[i].mode]
                        \in held'[Awaited(call'[u])[i].lock]
    BY DEF Has
  <2>1. u # t
    BY <1>2
  <2>2. [task |-> u, mode |-> Awaited(call[u])[i].mode] \in held[Awaited(call[u])[i].lock]
    BY <1>2, <2>1 DEF OwnInv, Has
  <2>3. Awaited(call[u])[i].lock \in Lock
    <3>1. i \in 1 .. granted[u]
      BY <1>2, <2>1
    <3>2. granted[u] \in Nat /\ call[u] \in Methods /\ granted[u] <= Len(Awaited(call[u]))
      BY <3>1 DEF LockInv, Bounded, LockTypes
    <3>3. Awaited(call[u]) \in Seq(Want)
      BY <3>2, AwaitedType
    <3>4. Awaited(call[u])[i] \in Want
      BY <3>1, <3>2, <3>3
    <3> QED
      BY <3>4 DEF Want
  <2> QED
    BY <1>2, <2>1, <2>2, <2>3
<1> QED
  BY <1>3, <1>4, <1>5 DEF OwnInv

LEMMA OwnersInductive == LockSpec => []OwnInv
<1>1. LockInit => OwnInv
  <2> SUFFICES ASSUME LockInit PROVE OwnInv
    OBVIOUS
  <2>1. \A l \in Lock : Len(queue[l]) = 0 /\ held[l] = {}
    BY DEF LockInit
  <2>2. \A t \in Task : granted[t] = 0
    BY DEF LockInit
  <2> QED
    BY <2>1, <2>2 DEF OwnInv, Asks, Owns, Has
<1>2. LockInv /\ OwnInv /\ UNCHANGED lockVars => OwnInv'
  <2> SUFFICES ASSUME LockInv, OwnInv, UNCHANGED lockVars PROVE OwnInv'
    OBVIOUS
  <2>1. call' = call /\ granted' = granted /\ queue' = queue /\ held' = held
    BY DEF lockVars
  <2>2. \A u : Wanted(u)' = Wanted(u)
    BY <2>1 DEF Wanted
  <2>3. Asks'
    BY <2>1, <2>2 DEF OwnInv, Asks
  <2>4. Owns' /\ Has'
    BY <2>1 DEF OwnInv, Owns, Has
  <2> QED
    BY <2>3, <2>4 DEF OwnInv
<1>3. LockInv /\ OwnInv /\ [LockNext]_lockVars => OwnInv'
  BY <1>2, CallOwn, AwaitOwn, GrantOwn, ReturnOwn DEF LockNext
<1> QED
  BY <1>1, <1>3, LocksInductive, PTL DEF LockSpec

----------------------------------------------------------------------------
(* How many locks a method takes, and what it can be waiting for with so   *)
(* many: read off the table of the methods.                                *)
LEMMA Plans ==
  ASSUME NEW m \in Methods
  PROVE  /\ m = "register_user" =>
              Awaited(m) = <<write("user_sockets"), write("user_names")>>
         /\ m = "unregister_user" =>
              Awaited(m) = <<write("user_sockets"), read("user_names"), write("channels")>>
         /\ m = "broadcast_to_channel" =>
              Awaited(m) = <<read("channels"), read("user_sockets")>>
         /\ m \notin {"register_user", "unregister_user", "broadcast_to_channel"} =>
              \/ Awaited(m) = <<write("channels")>> \/ Awaited(m) = <<read("channels")>>
              \/ Awaited(m) = <<read("user_sockets")>>
BY DEF Awaited

(* The holder of a lock, when nobody can return: it has not all its locks, *)
(* and what it holds and what it still wants are two lines of its method.  *)
LEMMA HolderWants ==
  ASSUME LockInv, OwnInv, NEW l \in Lock, NEW h \in held[l], ~CanReturn(h.task)
  PROVE  LET u == h.task IN
         \/ /\ l = "user_sockets" /\ h.mode = "write" /\ granted[u] = 1
            /\ call[u] \in {"register_user", "unregister_user"} /\ Wanted(u).lock = "user_names"
         \/ /\ l = "user_sockets" /\ call[u] = "unregister_user" /\ granted[u] = 2
            /\ Wanted(u).lock = "channels"
         \/ /\ l = "user_names" /\ call[u] = "unregister_user" /\ granted[u] = 2
            /\ Wanted(u).lock = "channels"
         \/ /\ l = "channels" /\ call[u] = "broadcast_to_channel" /\ granted[u] = 1
            /\ Wanted(u).lock = "user_sockets"
<1> DEFINE u == h.task
<1>1. u \in Task
  BY DEF LockInv, LockTypes, LockRequest
<1>2. PICK i \in 1 .. granted[u] : Awaited(call[u])[i] = [lock |-> l, mode |-> h.mode]
  BY DEF OwnInv, Owns
<1> HIDE DEF u
<1>3. call[u] # "none" /\ granted[u] \in Nat /\ granted[u] <= Len(Awaited(call[u]))
  BY <1>1, <1>2 DEF LockInv, LockTypes, Bounded
<1>4. call[u] \in Methods
  BY <1>1, <1>3 DEF LockInv, LockTypes
<1>5. granted[u] # Len(Awaited(call[u]))
  BY <1>3 DEF CanReturn, u
<1>6. CASE call[u] = "register_user"
  <2>1. Awaited(call[u]) = <<write("user_sockets"), write("user_names")>>
    BY <1>4, <1>6, Plans
  <2>2. granted[u] = 1 /\ i = 1
    BY <1>2, <1>3, <1>5, <2>1
  <2> QED
    BY <1>2, <1>6, <2>1, <2>2 DEF Wanted, write, u
<1>7. CASE call[u] = "unregister_user"
  <2>1. Awaited(call[u]) = <<write("user_sockets"), read("user_names"), write("channels")>>
    BY <1>4, <1>7, Plans
  <2>2. granted[u] \in {1, 2} /\ i \in 1 .. granted[u]
    BY <1>2, <1>3, <1>5, <2>1
  <2>3. CASE granted[u] = 1
    <3>1. i = 1
      BY <2>2, <2>3
    <3> QED
      BY <1>2, <1>7, <2>1, <2>3, <3>1 DEF Wanted, write, read, u
  <2>4. CASE granted[u] = 2
    <3>1. i \in {1, 2}
      BY <2>2, <2>4
    <3> QED
      BY <1>2, <1>7, <2>1, <2>4, <3>1 DEF Wanted, write, read, u
  <2> QED
    BY <2>2, <2>3, <2>4
<1>8. CASE call[u] = "broadcast_to_channel"
  <2>1. Awaited(call[u]) = <<read("channels"), read("user_sockets")>>
    BY <1>4, <1>8, Plans
  <2>2. granted[u] = 1 /\ i = 1
    BY <1>2, <1>3, <1>5, <2>1
  <2> QED
    BY <1>2, <1>8, <2>1, <2>2 DEF Wanted, read, u
<1>9. CASE call[u] \notin {"register_user", "unregister_user", "broadcast_to_channel"}
  <2>1. Len(Awaited(call[u])) = 1
    BY <1>4, <1>9, Plans
  <2> QED
    BY <1>2, <1>3, <1>5, <2>1
<1> QED
  BY <1>6, <1>7, <1>8, <1>9

(* A task that waits for the names has the sockets for itself.             *)
LEMMA NamesWaiter ==
  ASSUME LockInv, OwnInv, NEW i \in 1 .. Len(queue["user_names"])
  PROVE  LET t == queue["user_names"][i].task IN
         t \in Task /\ granted[t] = 1 /\ [task |-> t, mode |-> "write"] \in held["user_sockets"]
<1> DEFINE t == queue["user_names"][i].task
<1>1. "user_names" \in Lock /\ "user_sockets" \in Lock
  BY DEF Lock
<1>2. t \in Task /\ Short(t) /\ Wanted(t).lock = "user_names"
  <2>1. queue["user_names"] \in Seq(LockRequest)
    BY <1>1 DEF LockInv, LockTypes
  <2>2. queue["user_names"][i] \in LockRequest
    BY <2>1
  <2>3. Short(t)
    BY <1>1 DEF LockInv, Pending
  <2>4. Wanted(t) = [lock |-> "user_names", mode |-> queue["user_names"][i].mode]
    BY <1>1 DEF OwnInv, Asks
  <2> QED
    BY <2>2, <2>3, <2>4 DEF LockRequest
<1> HIDE DEF t
<1>3. call[t] \in Methods /\ granted[t] \in Nat /\ granted[t] < Len(Awaited(call[t]))
  BY <1>2 DEF Short, LockInv, LockTypes
<1>4. CASE call[t] = "register_user"
  <2>1. Awaited(call[t]) = <<write("user_sockets"), write("user_names")>>
    BY <1>3, <1>4, Plans
  <2>2. granted[t] \in {0, 1}
    BY <1>3, <2>1
  <2>3. granted[t] = 1
    BY <1>2, <2>1, <2>2 DEF Wanted, write
  <2>4. Awaited(call[t])[1] = [lock |-> "user_sockets", mode |-> "write"] /\ 1 \in 1 .. granted[t]
    BY <2>1, <2>3 DEF write
  <2>5. [task |-> t, mode |-> "write"] \in held["user_sockets"]
    BY <1>2, <2>4 DEF OwnInv, Has
  <2> QED
    BY <1>2, <2>3, <2>5 DEF t
<1>5. CASE call[t] = "unregister_user"
  <2>1. Awaited(call[t]) = <<write("user_sockets"), read("user_names"), write("channels")>>
    BY <1>3, <1>5, Plans
  <2>2. granted[t] \in {0, 1, 2}
    BY <1>3, <2>1
  <2>3. granted[t] = 1
    BY <1>2, <2>1, <2>2 DEF Wanted, write, read
  <2>4. Awaited(call[t])[1] = [lock |-> "user_sockets", mode |-> "write"] /\ 1 \in 1 .. granted[t]
    BY <2>1, <2>3 DEF write
  <2>5. [task |-> t, mode |-> "write"] \in held["user_sockets"]
    BY <1>2, <2>4 DEF OwnInv, Has
  <2> QED
    BY <1>2, <2>3, <2>5 DEF t
<1>6. CASE call[t] = "broadcast_to_channel"
  <2>1. Awaited(call[t]) = <<read("channels"), read("user_sockets")>>
    BY <1>3, <1>6, Plans
  <2>2. granted[t] \in {0, 1}
    BY <1>3, <2>1
  <2> QED
    BY <1>2, <2>1, <2>2 DEF Wanted, read
<1>7. CASE call[t] \notin {"register_user", "unregister_user", "broadcast_to_channel"}
  <2>1. \/ Awaited(call[t]) = <<write("channels")>> \/ Awaited(call[t]) = <<read("channels")>>
        \/ Awaited(call[t]) = <<read("user_sockets")>>
    BY <1>3, <1>7, Plans
  <2>2. granted[t] = 0
    <3>1. Len(Awaited(call[t])) = 1
      BY <2>1
    <3> QED
      BY <1>3, <3>1
  <2> QED
    BY <1>2, <2>1, <2>2 DEF Wanted, read, write
<1> QED
  BY <1>4, <1>5, <1>6, <1>7

(* A queue that does not move has somebody in its lock.                    *)
LEMMA Blocked ==
  ASSUME LockInv, NEW l \in Lock, NEW i \in 1 .. Len(queue[l]), ~CanGrant(l)
  PROVE  held[l] # {} /\ 1 \in 1 .. Len(queue[l])
<1>1. queue[l] \in Seq(LockRequest) /\ queue[l] # <<>>
  BY DEF LockInv, LockTypes
<1> QED
  BY <1>1 DEF CanGrant, Compatible

(* The methods of the manager come to a standstill in one way only: a task *)
(* in unregister_user that has the sockets and wants the channels, and one *)
(* in broadcast_to_channel that has the channels and wants the sockets.    *)
(* Every other circle of tasks is broken by the order of the locks: for    *)
(* any number of tasks, calling any of the methods.                        *)
THEOREM OneEmbrace == LockSpec => []StuckOnlyWhenOpposed
<1>1. LockInv /\ OwnInv => StuckOnlyWhenOpposed
  <2> SUFFICES ASSUME LockInv, OwnInv, Stuck PROVE Opposed
    BY DEF StuckOnlyWhenOpposed
  <2>1. {"channels", "user_sockets", "user_names"} = Lock
    BY DEF Lock
  <2>2. \A l \in Lock : ~CanGrant(l)
    BY DEF Stuck
  <2>3. \A l \in Lock : \A h \in held[l] : h.task \in Task /\ ~CanReturn(h.task)
    BY DEF Stuck, LockInv, LockTypes, LockRequest
  <2>4. \A t \in Task : Short(t) => \E i \in 1 .. Len(queue[Wanted(t).lock]) :
                                      Wanted(t).lock \in Lock /\ queue[Wanted(t).lock][i].task = t
    <3> SUFFICES ASSUME NEW t \in Task, Short(t)
                 PROVE  \E i \in 1 .. Len(queue[Wanted(t).lock]) :
                          Wanted(t).lock \in Lock /\ queue[Wanted(t).lock][i].task = t
      OBVIOUS
    <3>1. Waits(t)
      BY DEF Stuck, CanAwait, Short
    <3>2. PICK l \in Lock : \E i \in 1 .. Len(queue[l]) : queue[l][i].task = t
      BY <3>1 DEF Waits
    <3>3. PICK i \in 1 .. Len(queue[l]) : queue[l][i].task = t
      BY <3>2
    <3>4. Wanted(t) = [lock |-> l, mode |-> queue[l][i].mode]
      BY <3>3 DEF OwnInv, Asks
    <3> QED
      BY <3>3, <3>4
  <2>5. \A l \in Lock : \A h \in held[l] : Short(h.task)
    <3> SUFFICES ASSUME NEW l \in Lock, NEW h \in held[l] PROVE Short(h.task)
      OBVIOUS
    <3>0. PICK i \in 1 .. granted[h.task] :
            Awaited(call[h.task])[i] = [lock |-> l, mode |-> h.mode]
      BY DEF OwnInv, Owns
    <3>1. h.task \in Task /\ granted[h.task] \in Nat /\ granted[h.task] > 0
      BY <2>3, <3>0 DEF LockInv, LockTypes
    <3>2. call[h.task] # "none" /\ granted[h.task] <= Len(Awaited(call[h.task]))
      BY <3>1 DEF LockInv, Bounded
    <3>3. call[h.task] \in Methods
      BY <3>1, <3>2 DEF LockInv, LockTypes
    <3>4. Len(Awaited(call[h.task])) \in Nat
      BY <3>3, AwaitedType
    <3> QED
      BY <2>3, <3>1, <3>2, <3>4 DEF Short, CanReturn
  <2>6. Len(queue["user_names"]) = 0
    <3> SUFFICES ASSUME NEW i \in 1 .. Len(queue["user_names"]) PROVE FALSE
      BY <2>1 DEF LockInv, LockTypes
    <3>1. PICK h \in held["user_names"] : TRUE
      BY <2>1, <2>2, Blocked
    <3>2. h.task \in Task /\ call[h.task] = "unregister_user" /\ granted[h.task] = 2
      BY <2>1, <2>3, HolderWants
    <3>3. call[h.task] \in Methods
      BY <3>2 DEF LockInv, LockTypes
    <3>4. Awaited(call[h.task])[1] = write("user_sockets")
      BY <3>2, <3>3, Plans
    <3>5. [task |-> h.task, mode |-> "write"] \in held["user_sockets"]
      BY <3>2, <3>4 DEF OwnInv, Has, write
    <3> PICK t : t = queue["user_names"][i].task
      OBVIOUS
    <3>6. granted[t] = 1 /\ [task |-> t, mode |-> "write"] \in held["user_sockets"]
      BY NamesWaiter
    <3>7. t = h.task
      BY <2>1, <3>5, <3>6 DEF LockInv, WriterAlone
    <3> QED
      BY <3>2, <3>6, <3>7
  <2>7. (\E i \in 1 .. Len(queue["user_sockets"]) : TRUE) =>
          \E t \in Task : /\ call[t] = "unregister_user" /\ granted[t] = 2
                         /\ \E i \in 1 .. Len(queue["channels"]) : TRUE
    <3> SUFFICES ASSUME NEW i \in 1 .. Len(queue["user_sockets"])
                 PROVE  \E t \in Task : /\ call[t] = "unregister_user" /\ granted[t] = 2
                                       /\ \E j \in 1 .. Len(queue["channels"]) : TRUE
      OBVIOUS
    <3>1. PICK h \in held["user_sockets"] : TRUE
      BY <2>1, <2>2, Blocked
    <3>2. h.task \in Task /\ Short(h.task) /\ Wanted(h.task).lock # "user_names"
      BY <2>1, <2>3, <2>4, <2>5, <2>6
    <3>3. call[h.task] = "unregister_user" /\ granted[h.task] = 2 /\ Wanted(h.task).lock = "channels"
      BY <2>1, <2>3, <3>2, HolderWants
    <3> QED
      BY <2>4, <3>2, <3>3
  <2>8. (\E i \in 1 .. Len(queue["channels"]) : TRUE) =>
          \E u \in Task : /\ call[u] = "broadcast_to_channel" /\ granted[u] = 1
                         /\ \E i \in 1 .. Len(queue["user_sockets"]) : TRUE
    <3> SUFFICES ASSUME NEW i \in 1 .. Len(queue["channels"])
                 PROVE  \E u \in Task : /\ call[u] = "broadcast_to_channel" /\ granted[u] = 1
                                       /\ \E j \in 1 .. Len(queue["user_sockets"]) : TRUE
      OBVIOUS
    <3>1. PICK h \in held["channels"] : TRUE
      BY <2>1, <2>2, Blocked
    <3>2. /\ h.task \in Task /\ Short(h.task) /\ call[h.task] = "broadcast_to_channel"
          /\ granted[h.task] = 1 /\ Wanted(h.task).lock = "user_sockets"
      BY <2>1, <2>3, <2>5, HolderWants
    <3> QED
      BY <2>4, <3>2
  <2>9. (\E i \in 1 .. Len(queue["user_sockets"]) : TRUE) \/ \E i \in 1 .. Len(queue["channels"]) : TRUE
    <3>1. PICK t \in Task : call[t] # "none"
      BY DEF Stuck
    <3>2. ~CanReturn(t) /\ granted[t] \in Nat /\ granted[t] <= Len(Awaited(call[t])) /\ call[t] \in Methods
      BY <3>1 DEF Stuck, LockInv, LockTypes, Bounded
    <3>3. Len(Awaited(call[t])) \in Nat
      BY <3>2, AwaitedType
    <3>4. Short(t)
      BY <3>1, <3>2, <3>3 DEF Short, CanReturn
    <3>5. PICK l \in Lock : \E i \in 1 .. Len(queue[l]) : TRUE
      BY <2>4, <3>4
    <3> QED
      BY <2>1, <2>6, <3>5
  <2> QED
    BY <2>7, <2>8, <2>9 DEF Opposed
<1> QED
  BY <1>1, LocksInductive, OwnersInductive, PTL
=============================================================================
