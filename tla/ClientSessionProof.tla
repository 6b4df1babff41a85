------------------------- MODULE ClientSessionProof -------------------------
(***************************************************************************)
(* Proofs about ClientSession for any users and channels and any bounds:   *)
(* an accepted dialog is through with its login, the channels that are     *)
(* heard, and the rosters and the list of users that notices keep up to    *)
(* date.                                                                   *)
(***************************************************************************)
EXTENDS ClientSession, TLAPS, SequenceTheorems

USE RegistrationAssumption, UserAssumption, ChannelAssumption

----------------------------------------------------------------------------
(* The login dialog.  Its variables change only by its own steps, by the   *)
(* answer to the login and when the main window forgets the registrations. *)
SignInStep ==
  \/ DialogStep
  \/ LoginAnswered(TRUE)
  \/ dialog = "accepted" /\ ForgetRegistrations
  \/ UNCHANGED signIn

LEMMA SignInSteps == [Next]_vars => SignInStep
  BY DEF Next, vars, SignInStep, Dialog, DialogSucceeds, EndGuest, OpenWindow, OnConnected,
     OnDisconnected, RequestRosters, Listen, Unlisten, ReadRoster, OnLogin, OnKeyExchange,
     OnError, OnChannelJoined, OnUserJoined, OnUserLeft, OnRosters, Authenticate, JoinChannel,
     RefuseChannel, LeaveChannel, BeginRosters, Forward, Broadcast, Move

Counters == asked \in [Flow -> Nat] /\ sends \in [Flow -> Nat] /\ closes \in [Flow -> Nat]
Flags    == waiting \in [Flow -> BOOLEAN]
Labels   ==
  /\ dialog \in {"open", "accepted", "rejected"} /\ isConnecting_ \in BOOLEAN
  /\ popups \subseteq {"accept", "refused", "registered", "not registered"}
  /\ dialogWs \in [Flow -> {"none", "opening", "open", "closed"}]

LEMMA CountersStep == Counters /\ SignInStep => Counters'
<1> SUFFICES ASSUME Counters, SignInStep PROVE Counters'
  OBVIOUS
<1> USE DEF Counters, Flow
<1>1. CASE OnLoginClicked
  BY <1>1 DEF OnLoginClicked, setConnecting, RequestLogin, Begin
<1>2. CASE OnRegisterClicked
  BY <1>2 DEF OnRegisterClicked, RequestRegistration, Begin
<1>3. CASE OnCancelClicked
  BY <1>3 DEF OnCancelClicked, setConnecting
<1>4. CASE SendLogin
  BY <1>4 DEF SendLogin, Send500
<1>5. CASE SendRegistration
  BY <1>5 DEF SendRegistration, Send500
<1>6. CASE CloseLogin
  BY <1>6 DEF CloseLogin, Close100
<1>7. CASE CloseRegistration
  BY <1>7 DEF CloseRegistration, Close100
<1>8. CASE RunPopup
  BY <1>8 DEF RunPopup
<1>9. ASSUME NEW f \in Flow, Connected(f) PROVE Counters'
  BY <1>9 DEF Connected
<1>10. ASSUME NEW f \in Flow, Lost(f) PROVE Counters'
  BY <1>10 DEF Lost
<1>11. ASSUME NEW ok \in BOOLEAN, LoginAnswered(ok) PROVE Counters'
  <2>1. Answered("login", ok)
    BY <1>11 DEF LoginAnswered
  <2> QED
    BY <2>1 DEF Answered
<1>12. ASSUME NEW ok \in BOOLEAN, Register(ok) PROVE Counters'
  <2>1. Answered("register", ok)
    BY <1>12 DEF Register
  <2> QED
    BY <2>1 DEF Answered
<1>13. CASE dialog = "accepted" /\ ForgetRegistrations
  BY <1>13 DEF ForgetRegistrations
<1>14. CASE UNCHANGED signIn
  BY <1>14 DEF signIn
<1> QED
  BY <1>1, <1>2, <1>3, <1>4, <1>5, <1>6, <1>7,
     <1>8, <1>9, <1>10, <1>11, <1>12, <1>13, <1>14
  DEF SignInStep, DialogStep

LEMMA FlagsStep == Flags /\ SignInStep => Flags'
<1> SUFFICES ASSUME Flags, SignInStep PROVE Flags'
  OBVIOUS
<1> USE DEF Flags, Flow
<1>1. CASE OnLoginClicked
  BY <1>1 DEF OnLoginClicked, setConnecting, RequestLogin, Begin
<1>2. CASE OnRegisterClicked
  BY <1>2 DEF OnRegisterClicked, RequestRegistration, Begin
<1>3. CASE OnCancelClicked
  BY <1>3 DEF OnCancelClicked, setConnecting
<1>4. CASE SendLogin
  BY <1>4 DEF SendLogin, Send500
<1>5. CASE SendRegistration
  BY <1>5 DEF SendRegistration, Send500
<1>6. CASE CloseLogin
  BY <1>6 DEF CloseLogin, Close100
<1>7. CASE CloseRegistration
  BY <1>7 DEF CloseRegistration, Close100
<1>8. CASE RunPopup
  BY <1>8 DEF RunPopup
<1>9. ASSUME NEW f \in Flow, Connected(f) PROVE Flags'
  BY <1>9 DEF Connected
<1>10. ASSUME NEW f \in Flow, Lost(f) PROVE Flags'
  BY <1>10 DEF Lost
<1>11. ASSUME NEW ok \in BOOLEAN, LoginAnswered(ok) PROVE Flags'
  BY <1>11 DEF LoginAnswered, Answered
<1>12. ASSUME NEW ok \in BOOLEAN, Register(ok) PROVE Flags'
  BY <1>12 DEF Register, Answered
<1>13. CASE dialog = "accepted" /\ ForgetRegistrations
  BY <1>13 DEF ForgetRegistrations
<1>14. CASE UNCHANGED signIn
  BY <1>14 DEF signIn
<1> QED
  BY <1>1, <1>2, <1>3, <1>4, <1>5, <1>6, <1>7,
     <1>8, <1>9, <1>10, <1>11, <1>12, <1>13, <1>14
  DEF SignInStep, DialogStep

LEMMA LabelsStep == Labels /\ SignInStep => Labels'
<1> SUFFICES ASSUME Labels, SignInStep PROVE Labels'
  OBVIOUS
<1> USE DEF Labels, Flow
<1>1. CASE OnLoginClicked
  BY <1>1 DEF OnLoginClicked, setConnecting, RequestLogin, Begin
<1>2. CASE OnRegisterClicked
  BY <1>2 DEF OnRegisterClicked, RequestRegistration, Begin
<1>3. CASE OnCancelClicked
  BY <1>3 DEF OnCancelClicked, setConnecting
<1>4. CASE SendLogin
  BY <1>4 DEF SendLogin, Send500
<1>5. CASE SendRegistration
  BY <1>5 DEF SendRegistration, Send500
<1>6. CASE CloseLogin
  BY <1>6 DEF CloseLogin, Close100
<1>7. CASE CloseRegistration
  BY <1>7 DEF CloseRegistration, Close100
<1>8. CASE RunPopup
  BY <1>8 DEF RunPopup
<1>9. ASSUME NEW f \in Flow, Connected(f) PROVE Labels'
  BY <1>9 DEF Connected
<1>10. ASSUME NEW f \in Flow, Lost(f) PROVE Labels'
  BY <1>10 DEF Lost
<1>11. ASSUME NEW ok \in BOOLEAN, LoginAnswered(ok) PROVE Labels'
  BY <1>11 DEF LoginAnswered, Answered
<1>12. ASSUME NEW ok \in BOOLEAN, Register(ok) PROVE Labels'
  BY <1>12 DEF Register, Answered
<1>13. CASE dialog = "accepted" /\ ForgetRegistrations
  BY <1>13 DEF ForgetRegistrations
<1>14. CASE UNCHANGED signIn
  BY <1>14 DEF signIn
<1> QED
  BY <1>1, <1>2, <1>3, <1>4, <1>5, <1>6, <1>7,
     <1>8, <1>9, <1>10, <1>11, <1>12, <1>13, <1>14
  DEF SignInStep, DialogStep

(* One attempt to log in at a time, and one in all: before it nothing of   *)
(* it is there, its request, its answer and its end follow on each other,  *)
(* and an answer that is good is the last.                                 *)
NotTried ==
  dialog = "open" /\ ~isConnecting_ =>
    /\ ~waiting["login"] /\ dialogWs["login"] = "none" /\ "accept" \notin popups
    /\ sends["login"] = 0 /\ asked["login"] = 0 /\ closes["login"] = 0

OneAttempt == sends["login"] + asked["login"] + closes["login"] <= 1

Succeeded ==
  "accept" \in popups \/ dialog = "accepted" =>
    /\ ~waiting["login"] /\ sends["login"] = 0 /\ asked["login"] = 0
    /\ dialogWs["login"] # "none" => closes["login"] > 0

LoginOnce == NotTried /\ OneAttempt /\ Succeeded

LEMMA LoginCounts == Counters => asked["login"] \in Nat /\ sends["login"] \in Nat /\
  closes["login"] \in Nat
  BY DEF Counters, Flow

LEMMA LoginOnceStep == Counters /\ Flags /\ Labels /\ LoginOnce /\ SignInStep => LoginOnce'
<1> SUFFICES ASSUME Counters, Flags, Labels, LoginOnce, SignInStep PROVE LoginOnce'
  OBVIOUS
<1>1. CASE OnLoginClicked
  <2>1. /\ sends' = [sends EXCEPT !["login"] = @ + 1] /\ asked' = [asked EXCEPT !["login"] = 0]
        /\ UNCHANGED <<dialog, popups, closes>> /\ dialog = "open" /\ popups = {} /\
           isConnecting_' = TRUE
        /\ ~isConnecting_
    BY <1>1 DEF OnLoginClicked, RequestLogin, Begin, MayClick, setConnecting
  <2>2. sends'["login"] = 1 /\ asked'["login"] = 0 /\ closes'["login"] = 0
    BY <2>1 DEF Counters, Flow, LoginOnce, NotTried
  <2> QED
    BY <2>1, <2>2 DEF LoginOnce, NotTried, OneAttempt, Succeeded
<1>2. CASE OnRegisterClicked
  BY <1>2 DEF Counters, Flags, Labels, LoginOnce, NotTried, OneAttempt, Succeeded, Flow,
     OnRegisterClicked, RequestRegistration, Begin
<1>3. CASE OnCancelClicked
  BY <1>3 DEF Counters, Flags, Labels, LoginOnce, NotTried, OneAttempt, Succeeded, Flow,
     OnCancelClicked, setConnecting
<1>4. CASE SendLogin
  <2>1. /\ sends["login"] > 0 /\ sends'["login"] = sends["login"] - 1
        /\ asked'["login"] \in {asked["login"], asked["login"] + 1}
        /\ UNCHANGED <<dialog, popups, closes, isConnecting_, waiting, dialogWs>>
    BY <1>4 DEF SendLogin, Send500, Counters, Flow
  <2> QED
    BY <2>1, LoginCounts DEF LoginOnce, NotTried, OneAttempt, Succeeded
<1>5. CASE SendRegistration
  BY <1>5 DEF Counters, Flags, Labels, LoginOnce, NotTried, OneAttempt, Succeeded, Flow,
     SendRegistration, Send500
<1>6. CASE CloseLogin
  <2>1. /\ closes["login"] > 0 /\ closes'["login"] = closes["login"] - 1
        /\ asked'["login"] = 0 /\ dialogWs'["login"] = "none"
        /\ UNCHANGED <<dialog, popups, sends, isConnecting_, waiting>>
    BY <1>6 DEF CloseLogin, Close100, Counters, Labels, Flow
  <2> QED
    BY <2>1, LoginCounts DEF LoginOnce, NotTried, OneAttempt, Succeeded
<1>7. CASE CloseRegistration
  BY <1>7 DEF Counters, Flags, Labels, LoginOnce, NotTried, OneAttempt, Succeeded, Flow,
     CloseRegistration, Close100
<1>8. CASE RunPopup
  BY <1>8 DEF Counters, Flags, Labels, LoginOnce, NotTried, OneAttempt, Succeeded, Flow,
     RunPopup
<1>9. ASSUME NEW f \in Flow, Connected(f) PROVE LoginOnce'
  BY <1>9 DEF Counters, Flags, Labels, LoginOnce, NotTried, OneAttempt, Succeeded, Flow,
     Connected
<1>10. ASSUME NEW f \in Flow, Lost(f) PROVE LoginOnce'
  <2>1. dialog = "open" /\ "accept" \notin popups /\ dialogWs[f] # "none"
        /\ UNCHANGED <<dialog, isConnecting_, popups, waiting, sends, closes>>
    BY <1>10 DEF Lost
  <2>2. asked'["login"] \in {0, asked["login"]}
    BY <1>10 DEF Lost, Counters, Flow
  <2>3. dialogWs["login"] = "none" => asked'["login"] = asked["login"] /\
        dialogWs'["login"] = dialogWs["login"]
    BY <1>10, <2>1 DEF Lost, Counters, Labels, Flow
  <2>4. NotTried'
    BY <2>1, <2>2, <2>3 DEF LoginOnce, NotTried
  <2>5. OneAttempt'
    <3>1. sends'["login"] = sends["login"] /\ closes'["login"] = closes["login"]
      BY <2>1
    <3>2. sends["login"] + asked["login"] + closes["login"] <= 1
      BY DEF LoginOnce, OneAttempt
    <3>3. sends["login"] + asked'["login"] + closes["login"] <= 1
      BY <2>2, <3>2, LoginCounts
    <3> QED
      BY <3>1, <3>3 DEF OneAttempt
  <2>6. Succeeded'
    BY <2>1 DEF Succeeded
  <2> QED
    BY <2>4, <2>5, <2>6 DEF LoginOnce
<1>11. ASSUME NEW ok \in BOOLEAN, LoginAnswered(ok) PROVE LoginOnce'
  <2>1. /\ asked["login"] > 0 /\ asked'["login"] = asked["login"] - 1
        /\ closes'["login"] = closes["login"] + 1
        /\ UNCHANGED <<dialog, sends, isConnecting_, dialogWs>>
    <3>1. Answered("login", ok)
      BY <1>11 DEF LoginAnswered
    <3> QED
      BY <3>1 DEF Answered, Counters, Flow
  <2>2. ~waiting'["login"]
    <3>1. Answered("login", ok)
      BY <1>11 DEF LoginAnswered
    <3> QED
      BY <3>1 DEF Answered, Flags, Flow
  <2>3. NotTried'
    BY <2>1, LoginCounts DEF LoginOnce, NotTried
  <2>4. OneAttempt' /\ sends'["login"] = 0 /\ asked'["login"] = 0 /\ closes'["login"] > 0
    BY <2>1, LoginCounts DEF LoginOnce, OneAttempt
  <2> QED
    BY <2>2, <2>3, <2>4 DEF LoginOnce, Succeeded
<1>12. ASSUME NEW ok \in BOOLEAN, Register(ok) PROVE LoginOnce'
  BY <1>12 DEF Counters, Flags, Labels, LoginOnce, NotTried, OneAttempt, Succeeded, Flow,
     Register, Answered
<1>13. CASE dialog = "accepted" /\ ForgetRegistrations
  BY <1>13 DEF Counters, Flags, Labels, LoginOnce, NotTried, OneAttempt, Succeeded, Flow,
     ForgetRegistrations
<1>14. CASE UNCHANGED signIn
  BY <1>14 DEF Counters, Flags, Labels, LoginOnce, NotTried, OneAttempt, Succeeded, Flow,
     signIn
<1> QED
  BY <1>1, <1>2, <1>3, <1>4, <1>5, <1>6, <1>7,
     <1>8, <1>9, <1>10, <1>11, <1>12, <1>13, <1>14
  DEF SignInStep, DialogStep

SignInInv == Counters /\ Flags /\ Labels /\ LoginOnce

LEMMA SignInInitInv == SignInInit => SignInInv
<1>1. SignInInit => Counters /\ Flags
  BY DEF SignInInit, Counters, Flags, Flow
<1>2. SignInInit => Labels
  BY DEF SignInInit, Labels, Flow
<1>3. SignInInit => LoginOnce
  BY DEF SignInInit, LoginOnce, NotTried, OneAttempt, Succeeded, Flow
<1> QED
  BY <1>1, <1>2, <1>3 DEF SignInInv

LEMMA SignInInvStep == SignInInv /\ [Next]_vars => SignInInv'
  BY SignInSteps, CountersStep, FlagsStep, LabelsStep, LoginOnceStep DEF SignInInv

----------------------------------------------------------------------------
(* Types.  TypeOK in groups, with the queues as sequences.                 *)
Tags ==
  /\ window \in {"none", "up", "crashed"} /\ ws \in {"opening", "open", "closed"}
  /\ {voiceSession_, authenticated_, rosterTimer, guest} \subseteq BOOLEAN
  /\ currentChannelId_ \in Channel \cup {NoChannel}
  /\ socket \in {"none", "guest", "main"}

Sets ==
  /\ {listening, todo, scanned, astray, unheard} \subseteq SUBSET Channel
  /\ rosters_ \in [Channel -> SUBSET Other]
  /\ userList_ \in [Other -> Nat]
  /\ members \in [Channel -> SUBSET User]

Queues ==
  /\ up \in Seq(Request) /\ down \in Seq(Message) /\ outbox \in Seq(Notice)
  /\ casting \in [Other -> Notice \cup {NoNotice}]

(* The request for the snapshot stays at the head until it is answered.    *)
Reading == todo # {} => up # <<>> /\ Head(up).type = "rosters"

Types == Tags /\ Sets /\ Queues /\ got \in Lists /\ Reading

LEMMA MessageParts ==
  ASSUME NEW m \in Message
  PROVE  /\ m.type = "channel_joined" => m.channel \in Channel /\ m.users \subseteq User
         /\ m.type \in {"user_joined", "user_left"} => m \in Notice
         /\ m.type = "all_channel_rosters" => m.lists \in Lists
  BY DEF Message, Notice

LEMMA NoticeParts ==
  ASSUME NEW m \in Notice
  PROVE  /\ m \in Message /\ m.type \in {"user_joined", "user_left"}
         /\ m.channel \in Channel /\ m.user \in Other
  BY DEF Message, Notice

LEMMA RequestParts ==
  ASSUME NEW r \in Request
  PROVE  /\ r.type \in {"login", "rosters", "join", "leave"}
         /\ r.type \in {"join", "leave"} => r.channel \in Channel
  BY DEF Request

LEMMA ListsParts ==
  ASSUME NEW lists
  PROVE  lists \in Lists <=> \E S \in SUBSET Channel : lists \in [S -> SUBSET User]
  BY DEF Lists

LEMMA NoLists == <<>> \in Lists
<1>1. <<>> \in [1 .. 0 -> SUBSET User]
  BY EmptySeq, LenProperties
<1>2. 1 .. 0 = {}
  OBVIOUS
<1> QED
  BY <1>1, <1>2, ListsParts

(* What is sent is well formed.                                            *)
LEMMA Formed ==
  /\ [type |-> "login"] \in Request /\ [type |-> "rosters"] \in Request
  /\ \A ch \in Channel : /\ [type |-> "join", channel |-> ch] \in Request
                         /\ [type |-> "leave", channel |-> ch] \in Request
  /\ [type |-> "auth_result"] \in Message /\ [type |-> "key_exchange_init"] \in Message
  /\ [type |-> "error"] \in Message
  /\ \A ch \in Channel, us \in SUBSET User :
       [type |-> "channel_joined", channel |-> ch, users |-> us] \in Message
  /\ \A lists \in Lists : [type |-> "all_channel_rosters", lists |-> lists] \in Message
  /\ \A ch \in Channel, u \in Other, t \in {"user_joined", "user_left"} :
       [type |-> t, channel |-> ch, user |-> u] \in Notice
  BY DEF Request, Message, Notice

(* What is at the head of a queue.                                         *)
LEMMA HeadOfDown ==
  ASSUME Types, down # <<>>, NEW h, h = Head(down)
  PROVE  /\ h \in Message /\ Tail(down) \in Seq(Message)
         /\ h.type = "channel_joined" => h.channel \in Channel /\ h.users \subseteq User
         /\ h.type \in {"user_joined", "user_left"} => h.channel \in Channel /\ h.user \in Other
         /\ h.type = "all_channel_rosters" => h.lists \in Lists
<1>1. h \in Message /\ Tail(down) \in Seq(Message)
  BY DEF Types, Queues
<1> QED
  BY <1>1, MessageParts, NoticeParts

LEMMA HeadOfUp ==
  ASSUME Types, up # <<>>, NEW h, h = Head(up)
  PROVE  /\ h \in Request /\ Tail(up) \in Seq(Request)
         /\ h.type \in {"join", "leave"} => h.channel \in Channel
<1>1. h \in Request /\ Tail(up) \in Seq(Request)
  BY DEF Types, Queues
<1> QED
  BY <1>1, RequestParts

(* Taking the first and appending one, for each of the queues.             *)
LEMMA Queue ==
  ASSUME NEW S, NEW q \in Seq(S)
  PROVE  /\ q # <<>> => Head(q) \in S /\ Tail(q) \in Seq(S)
         /\ \A m \in S : Append(q, m) \in Seq(S)
         /\ <<>> \in Seq(S) /\ \A m, n \in S : q \o <<m, n>> \in Seq(S)
  OBVIOUS

(* The lists that are read one after the other.                            *)
Lengthened(ch) == [c \in DOMAIN got \cup {ch} |-> IF c = ch THEN members[ch] ELSE got[c]]

LEMMA ListsRead ==
  ASSUME Types, NEW ch \in Channel
  PROVE  {got, Lengthened(ch)} \subseteq Lists
<1>1. PICK S \in SUBSET Channel : got \in [S -> SUBSET User]
  BY ListsParts DEF Types
<1>2. Lengthened(ch) \in [S \cup {ch} -> SUBSET User]
  BY <1>1 DEF Lengthened, Types, Sets
<1>3. S \cup {ch} \in SUBSET Channel
  OBVIOUS
<1>4. Lengthened(ch) \in Lists
  BY <1>2, <1>3, ListsParts
<1> QED
  BY <1>4 DEF Types

LEMMA TagsStep == Types /\ [Next]_vars => Tags'
<1> SUFFICES ASSUME Types, [Next]_vars PROVE Tags'
  OBVIOUS
<1> USE DEF Tags, Queues, Types, client, shown, server, past
<1>1. CASE Dialog
  BY <1>1 DEF Dialog
<1>2. CASE DialogSucceeds
  BY <1>2 DEF DialogSucceeds
<1>3. CASE EndGuest
  BY <1>3 DEF EndGuest
<1>4. CASE OpenWindow
  BY <1>4 DEF OpenWindow
<1>5. CASE OnConnected
  BY <1>5 DEF OnConnected, Login
<1>6. CASE OnDisconnected
  BY <1>6 DEF OnDisconnected
<1>7. CASE RequestRosters
  BY <1>7 DEF RequestRosters
<1>8. ASSUME NEW ch \in Channel, Listen(ch) PROVE Tags'
  BY <1>8 DEF Listen, Ask
<1>9. ASSUME NEW ch \in Channel, Unlisten(ch) PROVE Tags'
  BY <1>9 DEF Unlisten, Ask
<1>10. ASSUME NEW ch \in Channel, ReadRoster(ch) PROVE Tags'
  BY <1>10 DEF ReadRoster, Send
<1>11. CASE OnLogin
  BY <1>11 DEF OnLogin, Arrives, Take
<1>12. CASE OnKeyExchange
  BY <1>12 DEF OnKeyExchange, handle_key_exchange_init, Arrives, Take
<1>13. CASE OnError
  BY <1>13 DEF OnError, Arrives, Take
<1>14. CASE OnChannelJoined
  BY <1>14, Queue, MessageParts DEF OnChannelJoined, Arrives, Take, onWsChannelJoined
<1>15. CASE OnUserJoined
  BY <1>15 DEF OnUserJoined, Arrives, Take, onWsUserJoined, AddUser
<1>16. CASE OnUserLeft
  BY <1>16 DEF OnUserLeft, Arrives, Take, onWsUserLeft, RemoveUser
<1>17. CASE OnRosters
  BY <1>17 DEF OnRosters, handle_all_channel_rosters, Arrives, Take, updateAllRosters
<1>18. CASE Authenticate
  BY <1>18 DEF Authenticate, Free
<1>19. CASE JoinChannel
  BY <1>19 DEF JoinChannel, Free, Send
<1>20. CASE RefuseChannel
  BY <1>20 DEF RefuseChannel, Free, Send
<1>21. CASE LeaveChannel
  BY <1>21 DEF LeaveChannel, Free
<1>22. CASE BeginRosters
  BY <1>22 DEF BeginRosters, Free
<1>23. CASE Forward
  BY <1>23 DEF Forward
<1>24. ASSUME NEW u \in Other, Broadcast(u) PROVE Tags'
  BY <1>24 DEF Broadcast
<1>25. ASSUME NEW u \in Other, NEW ch \in Channel, Move(u, ch) PROVE Tags'
  BY <1>25 DEF Move
<1>26. CASE UNCHANGED vars
  BY <1>26 DEF vars
<1> QED
  BY <1>1, <1>2, <1>3, <1>4, <1>5, <1>6, <1>7, <1>8, <1>9, <1>10, <1>11, <1>12, <1>13,
     <1>14, <1>15, <1>16, <1>17, <1>18, <1>19, <1>20, <1>21, <1>22, <1>23, <1>24, <1>25,
     <1>26 DEF Next

LEMMA SetsStep == Types /\ [Next]_vars => Sets'
<1> SUFFICES ASSUME Types, [Next]_vars PROVE Sets'
  OBVIOUS
<1> USE DEF Sets, Types, client, shown, server, past
<1>1. CASE Dialog
  BY <1>1 DEF Dialog
<1>2. CASE DialogSucceeds
  BY <1>2 DEF DialogSucceeds
<1>3. CASE EndGuest
  BY <1>3 DEF EndGuest
<1>4. CASE OpenWindow
  BY <1>4 DEF OpenWindow
<1>5. CASE OnConnected
  BY <1>5 DEF OnConnected, Login
<1>6. CASE OnDisconnected
  BY <1>6 DEF OnDisconnected
<1>7. CASE RequestRosters
  BY <1>7 DEF RequestRosters
<1>8. ASSUME NEW ch \in Channel, Listen(ch) PROVE Sets'
  BY <1>8 DEF Listen, Ask
<1>9. ASSUME NEW ch \in Channel, Unlisten(ch) PROVE Sets'
  BY <1>9 DEF Unlisten, Ask
<1>10. ASSUME NEW ch \in Channel, ReadRoster(ch) PROVE Sets'
  BY <1>10 DEF ReadRoster, Send
<1>11. CASE OnLogin
  BY <1>11 DEF OnLogin, Arrives, Take
<1>12. CASE OnKeyExchange
  BY <1>12 DEF OnKeyExchange, handle_key_exchange_init, Arrives, Take
<1>13. CASE OnError
  BY <1>13 DEF OnError, Arrives, Take
<1>14. CASE OnChannelJoined
  BY <1>14 DEF OnChannelJoined, Arrives, Take, ShowUsers, onWsChannelJoined
<1>15. CASE OnUserJoined
  <2>1. Head(down).channel \in Channel /\ Head(down).user \in Other
    BY <1>15, HeadOfDown DEF OnUserJoined, Arrives
  <2> QED
    BY <1>15, <2>1 DEF OnUserJoined, onWsUserJoined, AddUser
<1>16. CASE OnUserLeft
  <2>1. Head(down).channel \in Channel /\ Head(down).user \in Other
    BY <1>16, HeadOfDown DEF OnUserLeft, Arrives
  <2> QED
    BY <1>16, <2>1 DEF OnUserLeft, onWsUserLeft, RemoveUser
<1>17. CASE OnRosters
  <2> DEFINE lists == Head(down).lists
  <2>1. \A ch \in DOMAIN lists : lists[ch] \ {Me} \subseteq Other
    BY <1>17, HeadOfDown, ListsParts DEF OnRosters, handle_all_channel_rosters, Arrives, User
  <2>2. rosters_' \in [Channel -> SUBSET Other]
    BY <1>17, <2>1 DEF OnRosters, updateAllRosters
  <2> QED
    BY <1>17, <2>2 DEF OnRosters
<1>18. CASE Authenticate
  BY <1>18 DEF Authenticate, Free
<1>19. CASE JoinChannel
  <2>1. Head(up).channel \in Channel
    BY <1>19, HeadOfUp DEF JoinChannel, Free
  <2> QED
    BY <1>19, <2>1 DEF JoinChannel, User
<1>20. CASE RefuseChannel
  <2>1. Head(up).channel \in Channel
    BY <1>20, HeadOfUp DEF RefuseChannel, Free
  <2> QED
    BY <1>20, <2>1 DEF RefuseChannel, User
<1>21. CASE LeaveChannel
  <2>1. Head(up).channel \in Channel
    BY <1>21, HeadOfUp DEF LeaveChannel, Free
  <2> QED
    BY <1>21, <2>1 DEF LeaveChannel, User
<1>22. CASE BeginRosters
  BY <1>22 DEF BeginRosters, Free
<1>23. CASE Forward
  BY <1>23 DEF Forward
<1>24. ASSUME NEW u \in Other, Broadcast(u) PROVE Sets'
  BY <1>24 DEF Broadcast
<1>25. ASSUME NEW u \in Other, NEW ch \in Channel, Move(u, ch) PROVE Sets'
  <2>1. members' \in [Channel -> SUBSET User]
    BY <1>25 DEF Move, User
  <2> QED
    BY <1>25, <2>1 DEF Move
<1>26. CASE UNCHANGED vars
  BY <1>26 DEF vars
<1> QED
  BY <1>1, <1>2, <1>3, <1>4, <1>5, <1>6, <1>7, <1>8, <1>9, <1>10, <1>11, <1>12, <1>13,
     <1>14, <1>15, <1>16, <1>17, <1>18, <1>19, <1>20, <1>21, <1>22, <1>23, <1>24, <1>25,
     <1>26 DEF Next

LEMMA QueuesStep == Types /\ [Next]_vars => Queues'
<1> SUFFICES ASSUME Types, [Next]_vars PROVE Queues'
  OBVIOUS
<1> USE DEF Queues, Types, client, shown, server, past
<1>1. CASE Dialog
  BY <1>1, Formed DEF Dialog
<1>2. CASE DialogSucceeds
  BY <1>2, Formed DEF DialogSucceeds
<1>3. CASE EndGuest
  BY <1>3, Formed DEF EndGuest
<1>4. CASE OpenWindow
  BY <1>4, Formed DEF OpenWindow
<1>5. CASE OnConnected
  BY <1>5, Formed DEF OnConnected, Login
<1>6. CASE OnDisconnected
  BY <1>6, Formed DEF OnDisconnected
<1>7. CASE RequestRosters
  BY <1>7, Formed DEF RequestRosters
<1>8. ASSUME NEW ch \in Channel, Listen(ch) PROVE Queues'
  <2>1. up' \in {up, Append(up, [type |-> "join", channel |-> ch])} /\ UNCHANGED <<down, outbox,
        casting>>
    BY <1>8 DEF Listen, Ask
  <2>2. up' \in Seq(Request)
    <3> DEFINE r == [type |-> "join", channel |-> ch]
    <3>1. r \in Request
      BY Formed
    <3>2. up' \in {up, Append(up, r)}
      BY <2>1
    <3> HIDE DEF r
    <3> QED
      BY <3>1, <3>2
  <2> QED
    BY <2>1, <2>2
<1>9. ASSUME NEW ch \in Channel, Unlisten(ch) PROVE Queues'
  <2>1. up' \in {up, Append(up, [type |-> "leave", channel |-> ch])} /\ UNCHANGED <<down, outbox,
        casting>>
    BY <1>9 DEF Unlisten, Ask
  <2>2. up' \in Seq(Request)
    <3> DEFINE r == [type |-> "leave", channel |-> ch]
    <3>1. r \in Request
      BY Formed
    <3>2. up' \in {up, Append(up, r)}
      BY <2>1
    <3> HIDE DEF r
    <3> QED
      BY <3>1, <3>2
  <2> QED
    BY <2>1, <2>2
<1>10. ASSUME NEW ch \in Channel, ReadRoster(ch) PROVE Queues'
  <2>1. \E lists \in Lists :
          \/ UNCHANGED <<up, down>>
          \/ up' = Tail(up) /\ down' = Append(down,
             [type |-> "all_channel_rosters", lists |-> lists])
    BY <1>10, ListsRead DEF ReadRoster, Send, Lengthened
  <2>2. UNCHANGED <<outbox, casting>>
    BY <1>10 DEF ReadRoster
  <2>3. up # <<>> => Tail(up) \in Seq(Request)
    OBVIOUS
  <2>4. up # <<>>
    BY <1>10 DEF ReadRoster, Reading
  <2>5. PICK m \in Message : UNCHANGED <<up, down>> \/ (up' = Tail(up) /\ down' = Append(down, m))
    BY <2>1, Formed
  <2>6. up' \in Seq(Request)
    BY <2>3, <2>4, <2>5
  <2>7. Append(down, m) \in Seq(Message) /\ down' \in {down, Append(down, m)}
    BY <2>5
  <2> QED
    BY <2>2, <2>6, <2>7
<1>11. CASE OnLogin
  <2>1. up' \in {up, Append(up, [type |-> "join", channel |-> General])}
    BY <1>11 DEF OnLogin
  <2>3. up' \in Seq(Request)
    <3> DEFINE r == [type |-> "join", channel |-> General]
    <3>1. r \in Request
      BY Formed
    <3>2. up' \in {up, Append(up, r)}
      BY <2>1
    <3> HIDE DEF r
    <3> QED
      BY <3>1, <3>2
  <2>2. down # <<>> /\ down' = Tail(down) /\ UNCHANGED <<outbox, casting>>
    BY <1>11 DEF OnLogin, Arrives, Take
  <2> QED
    BY <2>2, <2>3
<1>12. CASE OnKeyExchange
  BY <1>12, Formed DEF OnKeyExchange, handle_key_exchange_init, Arrives, Take
<1>13. CASE OnError
  BY <1>13, Formed DEF OnError, Arrives, Take
<1>14. CASE OnChannelJoined
  BY <1>14, Formed DEF OnChannelJoined, Arrives, Take, ShowUsers, onWsChannelJoined
<1>15. CASE OnUserJoined
  BY <1>15, Formed DEF OnUserJoined, Arrives, Take, onWsUserJoined, AddUser
<1>16. CASE OnUserLeft
  BY <1>16, Formed DEF OnUserLeft, Arrives, Take, onWsUserLeft, RemoveUser
<1>17. CASE OnRosters
  BY <1>17, Formed DEF OnRosters, handle_all_channel_rosters, Arrives, Take, updateAllRosters
<1>18. CASE Authenticate
  BY <1>18, Formed DEF Authenticate, Free
<1>19. CASE JoinChannel
  <2> DEFINE ch == Head(up).channel
             users == members[ch] \cup {Me}
  <2>1. ch \in Channel /\ users \in SUBSET User
    BY <1>19, HeadOfUp DEF JoinChannel, Free, Sets, User
  <2>2. up' = Tail(up) /\ down' = Append(down,
        [type |-> "channel_joined", channel |-> ch, users |-> users])
    BY <1>19 DEF JoinChannel, Send
  <2>3. up # <<>> /\ UNCHANGED <<outbox, casting>>
    BY <1>19 DEF JoinChannel, Free
  <2> DEFINE m == [type |-> "channel_joined", channel |-> ch, users |-> users]
  <2>4. m \in Message /\ down' = Append(down, m)
    BY <2>1, <2>2, Formed
  <2> HIDE DEF ch, users, m
  <2> QED
    BY <2>2, <2>3, <2>4
<1>20. CASE RefuseChannel
  BY <1>20, Formed DEF RefuseChannel, Free, Send
<1>21. CASE LeaveChannel
  BY <1>21, Formed DEF LeaveChannel, Free
<1>22. CASE BeginRosters
  BY <1>22, Formed DEF BeginRosters, Free
<1>23. CASE Forward
  <2>1. outbox # <<>> /\ outbox' = Tail(outbox) /\ down' = Append(down, Head(outbox)) /\
        UNCHANGED <<up, casting>>
    BY <1>23 DEF Forward
  <2>2. Head(outbox) \in Message /\ Tail(outbox) \in Seq(Notice)
    BY <2>1, NoticeParts
  <2> QED
    BY <2>1, <2>2
<1>24. ASSUME NEW u \in Other, Broadcast(u) PROVE Queues'
  BY <1>24, Formed DEF Broadcast
<1>25. ASSUME NEW u \in Other, NEW ch \in Channel, Move(u, ch) PROVE Queues'
  BY <1>25, Formed DEF Move
<1>26. CASE UNCHANGED vars
  BY <1>26, Formed DEF vars
<1> QED
  BY <1>1, <1>2, <1>3, <1>4, <1>5, <1>6, <1>7, <1>8, <1>9, <1>10, <1>11, <1>12, <1>13,
     <1>14, <1>15, <1>16, <1>17, <1>18, <1>19, <1>20, <1>21, <1>22, <1>23, <1>24, <1>25,
     <1>26 DEF Next

LEMMA GotStep == Types /\ [Next]_vars => got' \in Lists
<1> SUFFICES ASSUME Types, [Next]_vars PROVE got' \in Lists
  OBVIOUS
<1>0. got \in Lists
  BY DEF Types
<1> USE NoLists, <1>0 DEF client, shown, server, past
<1>1. CASE Dialog
  BY <1>1 DEF Dialog
<1>2. CASE DialogSucceeds
  BY <1>2 DEF DialogSucceeds
<1>3. CASE EndGuest
  BY <1>3 DEF EndGuest
<1>4. CASE OpenWindow
  BY <1>4 DEF OpenWindow
<1>5. CASE OnConnected
  BY <1>5 DEF OnConnected, Login
<1>6. CASE OnDisconnected
  BY <1>6 DEF OnDisconnected
<1>7. CASE RequestRosters
  BY <1>7 DEF RequestRosters
<1>8. ASSUME NEW ch \in Channel, Listen(ch) PROVE got' \in Lists
  BY <1>8 DEF Listen, Ask
<1>9. ASSUME NEW ch \in Channel, Unlisten(ch) PROVE got' \in Lists
  BY <1>9 DEF Unlisten, Ask
<1>10. ASSUME NEW ch \in Channel, ReadRoster(ch) PROVE got' \in Lists
  BY <1>10, ListsRead DEF ReadRoster, Lengthened
<1>11. CASE OnLogin
  BY <1>11 DEF OnLogin, Arrives, Take
<1>12. CASE OnKeyExchange
  BY <1>12 DEF OnKeyExchange, handle_key_exchange_init, Arrives, Take
<1>13. CASE OnError
  BY <1>13 DEF OnError, Arrives, Take
<1>14. CASE OnChannelJoined
  BY <1>14 DEF OnChannelJoined, Arrives, Take, ShowUsers, onWsChannelJoined
<1>15. CASE OnUserJoined
  BY <1>15 DEF OnUserJoined, Arrives, Take, onWsUserJoined, AddUser
<1>16. CASE OnUserLeft
  BY <1>16 DEF OnUserLeft, Arrives, Take, onWsUserLeft, RemoveUser
<1>17. CASE OnRosters
  BY <1>17 DEF OnRosters, handle_all_channel_rosters, Arrives, Take, updateAllRosters
<1>18. CASE Authenticate
  BY <1>18 DEF Authenticate, Free
<1>19. CASE JoinChannel
  BY <1>19 DEF JoinChannel, Free, Send
<1>20. CASE RefuseChannel
  BY <1>20 DEF RefuseChannel, Free, Send
<1>21. CASE LeaveChannel
  BY <1>21 DEF LeaveChannel, Free
<1>22. CASE BeginRosters
  BY <1>22 DEF BeginRosters, Free
<1>23. CASE Forward
  BY <1>23 DEF Forward
<1>24. ASSUME NEW u \in Other, Broadcast(u) PROVE got' \in Lists
  BY <1>24 DEF Broadcast
<1>25. ASSUME NEW u \in Other, NEW ch \in Channel, Move(u, ch) PROVE got' \in Lists
  BY <1>25 DEF Move
<1>26. CASE UNCHANGED vars
  BY <1>26 DEF vars
<1> QED
  BY <1>1, <1>2, <1>3, <1>4, <1>5, <1>6, <1>7, <1>8, <1>9, <1>10, <1>11, <1>12, <1>13,
     <1>14, <1>15, <1>16, <1>17, <1>18, <1>19, <1>20, <1>21, <1>22, <1>23, <1>24, <1>25,
     <1>26 DEF Next

LEMMA ReadingStep == Types /\ [Next]_vars => Reading'
<1> SUFFICES ASSUME Types, [Next]_vars PROVE Reading'
  OBVIOUS
<1>0. \A r : up # <<>> => Append(up, r) # <<>> /\ Head(Append(up, r)) = Head(up)
  BY HeadTailAppend, AppendProperties DEF Types, Queues
<1> USE <1>0 DEF Types, Reading, client, shown, server, past
<1>1. CASE Dialog
  BY <1>1 DEF Dialog
<1>2. CASE DialogSucceeds
  BY <1>2 DEF DialogSucceeds
<1>3. CASE EndGuest
  BY <1>3 DEF EndGuest
<1>4. CASE OpenWindow
  BY <1>4 DEF OpenWindow
<1>5. CASE OnConnected
  BY <1>5 DEF OnConnected, Login
<1>6. CASE OnDisconnected
  BY <1>6 DEF OnDisconnected
<1>7. CASE RequestRosters
  BY <1>7 DEF RequestRosters
<1>8. ASSUME NEW ch \in Channel, Listen(ch) PROVE Reading'
  BY <1>8 DEF Listen, Ask
<1>9. ASSUME NEW ch \in Channel, Unlisten(ch) PROVE Reading'
  BY <1>9 DEF Unlisten, Ask
<1>10. ASSUME NEW ch \in Channel, ReadRoster(ch) PROVE Reading'
  BY <1>10 DEF ReadRoster, Send
<1>11. CASE OnLogin
  BY <1>11 DEF OnLogin, Arrives, Take
<1>12. CASE OnKeyExchange
  BY <1>12 DEF OnKeyExchange, handle_key_exchange_init, Arrives, Take
<1>13. CASE OnError
  BY <1>13 DEF OnError, Arrives, Take
<1>14. CASE OnChannelJoined
  BY <1>14 DEF OnChannelJoined, Arrives, Take, ShowUsers, onWsChannelJoined
<1>15. CASE OnUserJoined
  BY <1>15 DEF OnUserJoined, Arrives, Take, onWsUserJoined, AddUser
<1>16. CASE OnUserLeft
  BY <1>16 DEF OnUserLeft, Arrives, Take, onWsUserLeft, RemoveUser
<1>17. CASE OnRosters
  BY <1>17 DEF OnRosters, handle_all_channel_rosters, Arrives, Take, updateAllRosters
<1>18. CASE Authenticate
  BY <1>18 DEF Authenticate, Free
<1>19. CASE JoinChannel
  BY <1>19 DEF JoinChannel, Free, Send
<1>20. CASE RefuseChannel
  BY <1>20 DEF RefuseChannel, Free, Send
<1>21. CASE LeaveChannel
  BY <1>21 DEF LeaveChannel, Free
<1>22. CASE BeginRosters
  BY <1>22 DEF BeginRosters, Free
<1>23. CASE Forward
  BY <1>23 DEF Forward
<1>24. ASSUME NEW u \in Other, Broadcast(u) PROVE Reading'
  BY <1>24 DEF Broadcast
<1>25. ASSUME NEW u \in Other, NEW ch \in Channel, Move(u, ch) PROVE Reading'
  BY <1>25 DEF Move
<1>26. CASE UNCHANGED vars
  BY <1>26 DEF vars
<1> QED
  BY <1>1, <1>2, <1>3, <1>4, <1>5, <1>6, <1>7, <1>8, <1>9, <1>10, <1>11, <1>12, <1>13,
     <1>14, <1>15, <1>16, <1>17, <1>18, <1>19, <1>20, <1>21, <1>22, <1>23, <1>24, <1>25,
     <1>26 DEF Next

LEMMA TypesStep == Types /\ [Next]_vars => Types'
  BY TagsStep, SetsStep, QueuesStep, GotStep, ReadingStep DEF Types

LEMMA TypesInit == Init => Types
<1>1. Init => Tags
  BY DEF Init, Tags
<1>3. Init => Sets
  <2> SUFFICES ASSUME Init PROVE Sets
    OBVIOUS
  <2>1. members \in [Channel -> SUBSET User]
    BY DEF Init, User
  <2> QED
    BY <2>1 DEF Init, Sets
<1>2. Init => Queues /\ got \in Lists /\ Reading
  BY NoLists DEF Init, Queues, Reading
<1> QED
  BY <1>1, <1>2, <1>3 DEF Types

----------------------------------------------------------------------------
(* What a queue says.  Of the messages that decide a question, yes or no,  *)
(* the last one counts: a queue says yes, says no, or says nothing.        *)
Says(q, yes, no) ==
  \E i \in 1 .. Len(q) : q[i] \in yes /\ \A j \in i + 1 .. Len(q) : q[j] \notin no

Never(q, no) == \A i \in 1 .. Len(q) : q[i] \notin no

LEMMA SaysNothing ==
  ASSUME NEW yes, NEW no
  PROVE  ~Says(<<>>, yes, no) /\ Never(<<>>, no)
  BY DEF Says, Never

LEMMA SaysAppended ==
  ASSUME NEW S, NEW q \in Seq(S), NEW m \in S, NEW yes, NEW no
  PROVE  /\ Says(Append(q, m), yes, no) <=> m \in yes \/ (Says(q, yes, no) /\ m \notin no)
         /\ Never(Append(q, m), no) <=> Never(q, no) /\ m \notin no
<1> DEFINE a == Append(q, m)
           n == Len(q)
<1>1. n \in Nat /\ Len(a) = n + 1 /\ a[n + 1] = m /\ \A i \in 1 .. n : a[i] = q[i]
  OBVIOUS
<1> HIDE DEF a, n
<1>2. Never(a, no) <=> Never(q, no) /\ m \notin no
  BY <1>1 DEF Never, n
<1>3. m \in yes => Says(a, yes, no)
  BY <1>1 DEF Says
<1>4. ASSUME Says(q, yes, no), m \notin no PROVE Says(a, yes, no)
  <2> PICK i \in 1 .. n : q[i] \in yes /\ \A j \in i + 1 .. n : q[j] \notin no
    BY <1>4 DEF Says, n
  <2>1. i \in 1 .. Len(a) /\ a[i] \in yes
    BY <1>1
  <2>2. \A j \in i + 1 .. Len(a) : a[j] \notin no
    BY <1>1, <1>4
  <2> QED
    BY <2>1, <2>2 DEF Says
<1>5. ASSUME Says(a, yes, no), m \notin yes PROVE Says(q, yes, no) /\ m \notin no
  <2> PICK i \in 1 .. Len(a) : a[i] \in yes /\ \A j \in i + 1 .. Len(a) : a[j] \notin no
    BY <1>5 DEF Says
  <2>1. i \in 1 .. n /\ q[i] \in yes
    BY <1>1, <1>5
  <2>2. m \notin no /\ \A j \in i + 1 .. n : q[j] \notin no
    BY <1>1, <2>1
  <2> QED
    BY <2>1, <2>2 DEF Says, n
<1> QED
  BY <1>2, <1>3, <1>4, <1>5 DEF a

LEMMA SaysTaken ==
  ASSUME NEW S, NEW q \in Seq(S), q # <<>>, NEW yes, NEW no
  PROVE  /\ Says(q, yes, no) <=> Says(Tail(q), yes, no) \/ (Head(q) \in yes /\ Never(Tail(q), no))
         /\ Never(q, no) <=> Head(q) \notin no /\ Never(Tail(q), no)
<1> DEFINE t == Tail(q)
           n == Len(t)
<1>1. n \in Nat /\ Len(q) = n + 1 /\ q[1] = Head(q) /\ \A i \in 1 .. n : t[i] = q[i + 1]
  OBVIOUS
<1> HIDE DEF t, n
<1>2. ASSUME NEW k \in 0 .. n
      PROVE  (\A j \in k + 1 .. n : t[j] \notin no) <=> (\A j \in k + 2 .. n + 1 : q[j] \notin no)
  <2>1. ASSUME \A j \in k + 1 .. n : t[j] \notin no, NEW j \in k + 2 .. n + 1
        PROVE  q[j] \notin no
    <3>1. j - 1 \in k + 1 .. n /\ j - 1 \in 1 .. n /\ (j - 1) + 1 = j
      BY <1>1
    <3> QED
      BY <1>1, <2>1, <3>1
  <2>2. ASSUME \A j \in k + 2 .. n + 1 : q[j] \notin no, NEW j \in k + 1 .. n
        PROVE  t[j] \notin no
    <3>1. j + 1 \in k + 2 .. n + 1 /\ j \in 1 .. n
      BY <1>1
    <3> QED
      BY <1>1, <2>2, <3>1
  <2> QED
    BY <2>1, <2>2
<1>3. Never(t, no) <=> \A j \in 2 .. n + 1 : q[j] \notin no
  BY <1>1, <1>2 DEF Never, n
<1>4. Never(q, no) <=> Head(q) \notin no /\ Never(t, no)
  BY <1>1, <1>3 DEF Never
<1>5. Head(q) \in yes /\ Never(t, no) => Says(q, yes, no)
  BY <1>1, <1>3 DEF Says
<1>6. ASSUME Says(t, yes, no) PROVE Says(q, yes, no)
  <2> PICK i \in 1 .. n : t[i] \in yes /\ \A j \in i + 1 .. n : t[j] \notin no
    BY <1>6 DEF Says, n
  <2>1. i + 1 \in 1 .. Len(q) /\ q[i + 1] \in yes
    BY <1>1
  <2>2. \A j \in (i + 1) + 1 .. Len(q) : q[j] \notin no
    <3>1. i \in 0 .. n /\ (i + 1) + 1 = i + 2 /\ Len(q) = n + 1
      BY <1>1
    <3>2. \A j \in i + 2 .. n + 1 : q[j] \notin no
      BY <1>2, <3>1
    <3> QED
      BY <3>1, <3>2
  <2> QED
    BY <2>1, <2>2 DEF Says
<1>7. ASSUME Says(q, yes, no), ~Says(t, yes, no) PROVE Head(q) \in yes /\ Never(t, no)
  <2> PICK i \in 1 .. n + 1 : q[i] \in yes /\ \A j \in i + 1 .. n + 1 : q[j] \notin no
    BY <1>1, <1>7 DEF Says
  <2>1. CASE i = 1
    BY <1>1, <1>3, <2>1
  <2>2. CASE i # 1
    <3>1. i - 1 \in 1 .. n /\ i - 1 \in 0 .. n /\ (i - 1) + 1 = i /\ (i - 1) + 2 = i + 1
      BY <1>1, <2>2
    <3>2. t[i - 1] \in yes
      BY <1>1, <3>1
    <3>3. \A j \in (i - 1) + 1 .. n : t[j] \notin no
      BY <1>2, <3>1
    <3> QED
      BY <1>7, <3>1, <3>2, <3>3 DEF Says, n
  <2> QED
    BY <2>1, <2>2
<1> QED
  BY <1>4, <1>5, <1>6, <1>7 DEF t

(* A message that decides leaves no way to say nothing.                    *)
LEMMA SaysSomething ==
  ASSUME NEW S, NEW q \in Seq(S), NEW yes, NEW no, ~Never(q, yes)
  PROVE  Never(q, no) => Says(q, yes, no)
  BY DEF Says, Never

----------------------------------------------------------------------------
(* What is on its way to the server.  Before the login is answered, the    *)
(* request to log in is the only one; the snapshot is asked for once.      *)
Logins     == {r \in Request : r.type = "login"}
Snapshots  == {r \in Request : r.type = "rosters"}
Joins(ch)  == {r \in Request : r.type = "join" /\ r.channel = ch}
Leaves(ch) == {r \in Request : r.type = "leave" /\ r.channel = ch}
Answers    == {m \in Message : m.type = "auth_result"}

Once(q, some) == \A i, j \in 1 .. Len(q) : q[i] \in some /\ q[j] \in some => i = j

UpAsking ==
  /\ ~authenticated_ => Never(up, Request \ Logins)
  /\ Once(up, Snapshots) /\ (rosterTimer => Never(up, Snapshots))
DownAsking ==
  Once(down, Answers) /\ (~Never(down, Answers) => ~authenticated_ /\ ws # "closed")
Asking == UpAsking /\ DownAsking

(* A channel is read once for a snapshot.                                  *)
Reads == (todo = {} => got = <<>>) /\ DOMAIN got \cap todo = {}

(* Until the server has the login, nothing has happened.                   *)
Opening == ws = "opening" \/ ~Never(up, Logins)
Fresh ==
  Opening =>
    /\ ws # "closed" /\ ~authenticated_ /\ ~rosterTimer /\ socket # "main"
    /\ Once(up, Logins) /\ (ws = "opening" => up = <<>>)
    /\ down = <<>> /\ outbox = <<>> /\ todo = {} /\ scanned = {}
    /\ \A ch \in Channel : Me \notin members[ch] /\ rosters_[ch] = {}
    /\ \A u \in Other : casting[u] = NoNotice

(* A notice that is not sent yet is true.                                  *)
CastOf(u) ==
  casting[u] # NoNotice =>
    casting[u].user = u /\ (casting[u].type = "user_joined" <=> u \in members[casting[u].channel])
Casts == \A u \in Other : CastOf(u)

(* The channels whose list the snapshot has still to read.                 *)
Ahead == ~authenticated_ \/ rosterTimer \/ ~Never(up, Snapshots)
Unread(ch) == IF todo # {} THEN ch \in todo ELSE Ahead

Scans ==
  ws # "closed" => \A ch \in scanned : ~Unread(ch) /\ (ch \notin astray => Me \in members[ch])

(* What is listened to is what the server will have of this user when it   *)
(* has handled the requests.                                               *)
Enters(ch) == Says(up, Joins(ch), Leaves(ch)) \/ (Never(up, Leaves(ch)) /\ Me \in members[ch])

FollowsIn(ch) ==
  ch \notin unheard \/ ~Never(up, Joins(ch)) \/ ~Never(up, Leaves(ch)) =>
    (ch \in listening <=> Enters(ch))
Follows == ws # "closed" => \A ch \in Channel : FollowsIn(ch)

LEMMA Kinds ==
  /\ [type |-> "login"] \in Logins /\ [type |-> "login"] \notin Snapshots
  /\ [type |-> "rosters"] \in Snapshots /\ [type |-> "rosters"] \notin Logins
  /\ \A c, ch \in Channel, t \in {"join", "leave"} :
       /\ [type |-> t, channel |-> c] \notin Logins \cup Snapshots
       /\ [type |-> t, channel |-> c] \in Joins(ch) <=> t = "join" /\ c = ch
       /\ [type |-> t, channel |-> c] \in Leaves(ch) <=> t = "leave" /\ c = ch
  /\ \A ch : [type |-> "login"] \notin Joins(ch) \cup Leaves(ch)
  /\ \A ch : [type |-> "rosters"] \notin Joins(ch) \cup Leaves(ch)
  BY Formed DEF Logins, Snapshots, Joins, Leaves

LEMMA OnceAppended ==
  ASSUME NEW S, NEW q \in Seq(S), NEW m \in S, NEW some, Once(q, some), 
         m \notin some \/ Never(q, some)
  PROVE  Once(Append(q, m), some)
<1> DEFINE a == Append(q, m)
           n == Len(q)
<1>1. n \in Nat /\ Len(a) = n + 1 /\ a[n + 1] = m /\ \A i \in 1 .. n : a[i] = q[i]
  OBVIOUS
<1> HIDE DEF a
<1> SUFFICES ASSUME NEW i \in 1 .. Len(a), NEW j \in 1 .. Len(a), a[i] \in some, a[j] \in some
             PROVE  i = j
  BY DEF Once, a
<1>2. CASE m \notin some
  <2>1. i \in 1 .. n /\ j \in 1 .. n
    BY <1>1, <1>2
  <2> QED
    BY <1>1, <2>1 DEF Once
<1>3. CASE Never(q, some)
  BY <1>1, <1>3 DEF Never
<1> QED
  BY <1>2, <1>3

LEMMA OnceTaken ==
  ASSUME NEW S, NEW q \in Seq(S), q # <<>>, NEW some, Once(q, some)
  PROVE  Once(Tail(q), some) /\ (Head(q) \in some => Never(Tail(q), some))
<1> DEFINE t == Tail(q)
           n == Len(t)
<1>1. n \in Nat /\ Len(q) = n + 1 /\ q[1] = Head(q) /\ \A i \in 1 .. n : t[i] = q[i + 1]
  OBVIOUS
<1> HIDE DEF t, n
<1>2. \A i \in 1 .. n : i + 1 \in 1 .. Len(q) /\ i + 1 # 1 /\ 1 \in 1 .. Len(q)
  BY <1>1
<1>3. Once(t, some)
  <2> SUFFICES ASSUME NEW i \in 1 .. n, NEW j \in 1 .. n, t[i] \in some, t[j] \in some PROVE i = j
    BY DEF Once, n
  <2>1. i + 1 = j + 1
    BY <1>1, <1>2 DEF Once
  <2> QED
    BY <2>1
<1>4. Head(q) \in some => Never(t, some)
  BY <1>1, <1>2 DEF Once, Never, n
<1> QED
  BY <1>3, <1>4 DEF t

LEMMA OnceNothing == \A some : Once(<<>>, some)
  BY DEF Once

(* The queue of requests, and what is asked about it.                      *)
LEMMA UpAppended ==
  ASSUME Types, NEW r \in Request
  PROVE  /\ \A no : Never(Append(up, r), no) <=> Never(up, no) /\ r \notin no
         /\ \A some : Once(up, some) /\ (r \notin some \/ Never(up, some)) =>
            Once(Append(up, r), some)
         /\ \A yes, no : Says(Append(up, r), yes, no) <=>
            r \in yes \/ (Says(up, yes, no) /\ r \notin no)
<1>1. up \in Seq(Request)
  BY DEF Types, Queues
<1> QED
  BY <1>1, SaysAppended, OnceAppended

LEMMA UpTaken ==
  ASSUME Types, up # <<>>
  PROVE  /\ \A no : Never(up, no) <=> Head(up) \notin no /\ Never(Tail(up), no)
         /\ \A some : Once(up, some) => Once(Tail(up), some) /\
            (Head(up) \in some => Never(Tail(up), some))
         /\ \A yes, no : Says(up, yes, no) <=>
              Says(Tail(up), yes, no) \/ (Head(up) \in yes /\ Never(Tail(up), no))
<1>1. up \in Seq(Request)
  BY DEF Types, Queues
<1> QED
  BY <1>1, SaysTaken, OnceTaken

LEMMA DownAppended ==
  ASSUME Types, NEW m \in Message
  PROVE  /\ \A no : Never(Append(down, m), no) <=> Never(down, no) /\ m \notin no
         /\ \A some : Once(down, some) /\ (m \notin some \/ Never(down, some)) =>
            Once(Append(down, m), some)
         /\ \A yes, no : Says(Append(down, m), yes, no) <=>
            m \in yes \/ (Says(down, yes, no) /\ m \notin no)
<1>1. down \in Seq(Message)
  BY DEF Types, Queues
<1> QED
  BY <1>1, SaysAppended, OnceAppended

LEMMA DownTaken ==
  ASSUME Types, down # <<>>
  PROVE  /\ \A no : Never(down, no) <=> Head(down) \notin no /\ Never(Tail(down), no)
         /\ \A some : Once(down, some) => Once(Tail(down), some) /\
            (Head(down) \in some => Never(Tail(down), some))
         /\ \A yes, no : Says(down, yes, no) <=>
              Says(Tail(down), yes, no) \/ (Head(down) \in yes /\ Never(Tail(down), no))
<1>1. down \in Seq(Message)
  BY DEF Types, Queues
<1> QED
  BY <1>1, SaysTaken, OnceTaken

LEMMA NeverLess ==
  ASSUME NEW q, NEW no, Never(q, no), NEW some \in SUBSET no
  PROVE  Never(q, some)
  BY DEF Never

LEMMA LoginsOnly ==
  /\ Snapshots \subseteq Request \ Logins
  /\ \A ch : Joins(ch) \subseteq Request \ Logins /\ Leaves(ch) \subseteq Request \ Logins
  BY DEF Snapshots, Logins, Joins, Leaves

LEMMA UpAskingStep == Types /\ Asking /\ [Next]_vars => UpAsking'
<1> SUFFICES ASSUME Types, Asking, [Next]_vars PROVE UpAsking'
  OBVIOUS
<1>a. Never(<<>>, Request \ Logins) /\ Never(<<>>, Snapshots) /\ Once(<<>>, Snapshots)
  BY SaysNothing, OnceNothing
<1>b. ASSUME up # <<>>
      PROVE  /\ Never(up, Request \ Logins) => Never(Tail(up), Request \ Logins)
             /\ Never(up, Snapshots) => Never(Tail(up), Snapshots)
             /\ Once(Tail(up), Snapshots)
  BY <1>b, UpTaken DEF Asking, UpAsking
<1>c. ASSUME NEW r \in Request, r \notin Snapshots
      PROVE  /\ Once(Append(up, r), Snapshots)
             /\ Never(up, Snapshots) => Never(Append(up, r), Snapshots)
  BY <1>c, UpAppended DEF Asking, UpAsking
<1> USE <1>a DEF Asking, UpAsking, client, shown, server, past
<1>1. CASE Dialog
  BY <1>1 DEF Dialog
<1>2. CASE DialogSucceeds
  BY <1>2 DEF DialogSucceeds
<1>3. CASE EndGuest
  BY <1>3 DEF EndGuest
<1>4. CASE OpenWindow
  BY <1>4 DEF OpenWindow
<1>5. CASE OnConnected
  <2> DEFINE r == [type |-> "login"]
  <2>1. r \in Request /\ r \in Logins /\ r \notin Snapshots
    BY Formed, Kinds
  <2>2. up' = Append(up, r) /\ UNCHANGED <<authenticated_, rosterTimer>>
    BY <1>5 DEF OnConnected, Login
  <2> HIDE DEF r
  <2> QED
    BY <2>1, <2>2, UpAppended
<1>6. CASE OnDisconnected
  BY <1>6 DEF OnDisconnected
<1>7. CASE RequestRosters
  <2> DEFINE r == [type |-> "rosters"]
  <2>1. r \in Request
    BY Formed
  <2>2. rosterTimer /\ ~rosterTimer' /\ authenticated_' = authenticated_
    BY <1>7 DEF RequestRosters
  <2>3. up' = up \/ (authenticated_ /\ up' = Append(up, r))
    BY <1>7 DEF RequestRosters
  <2> HIDE DEF r
  <2>4. Once(up, Snapshots) /\ Never(up, Snapshots)
    BY <2>2
  <2>5. Once(Append(up, r), Snapshots)
    BY ONLY Types, <2>1, <2>4, UpAppended
  <2> QED
    BY <2>2, <2>3, <2>4, <2>5
<1>8. ASSUME NEW ch \in Channel, Listen(ch) PROVE UpAsking'
  <2> DEFINE r == [type |-> "join", channel |-> ch]
  <2>1. r \in Request /\ r \notin Snapshots
    BY Formed, Kinds
  <2>2. up' = up \/ (authenticated_ /\ up' = Append(up, r))
    BY <1>8 DEF Listen, Ask
  <2>3. UNCHANGED <<authenticated_, rosterTimer>>
    BY <1>8 DEF Listen
  <2> HIDE DEF r
  <2>4. Once(up', Snapshots) /\ (Never(up, Snapshots) => Never(up', Snapshots))
    BY <2>1, <2>2, <1>c
  <2> QED
    BY <2>2, <2>3, <2>4
<1>9. ASSUME NEW ch \in Channel, Unlisten(ch) PROVE UpAsking'
  <2> DEFINE r == [type |-> "leave", channel |-> ch]
  <2>1. r \in Request /\ r \notin Snapshots
    BY Formed, Kinds
  <2>2. up' = up \/ (authenticated_ /\ up' = Append(up, r))
    BY <1>9 DEF Unlisten, Ask
  <2>3. UNCHANGED <<authenticated_, rosterTimer>>
    BY <1>9 DEF Unlisten
  <2> HIDE DEF r
  <2>4. Once(up', Snapshots) /\ (Never(up, Snapshots) => Never(up', Snapshots))
    BY <2>1, <2>2, <1>c
  <2> QED
    BY <2>2, <2>3, <2>4
<1>10. ASSUME NEW ch \in Channel, ReadRoster(ch) PROVE UpAsking'
  <2>1. up # <<>> /\ up' \in {up, Tail(up)} /\ UNCHANGED <<authenticated_, rosterTimer>>
    BY <1>10 DEF ReadRoster, Send, Types, Reading
  <2> QED
    BY <2>1, <1>b
<1>11. CASE OnLogin
  <2>1. \/ UNCHANGED <<up, rosterTimer>>
        \/ voiceSession_ /\ up' = Append(up, [type |-> "join", channel |-> General])
    BY <1>11 DEF OnLogin
  <2>2. authenticated_'
    BY <1>11 DEF OnLogin
  <2> DEFINE r == [type |-> "join", channel |-> General]
  <2>6. r \in Request /\ r \notin Snapshots
    BY Formed, Kinds
  <2>7. (UNCHANGED <<up, rosterTimer>>) \/ up' = Append(up, r)
    BY <2>1
  <2> HIDE DEF r
  <2>3. Once(up', Snapshots) /\ (Never(up, Snapshots) => Never(up', Snapshots))
    BY <2>6, <2>7, <1>c
  <2>5. ~authenticated_
    <3>1. Head(down) \in Answers /\ down # <<>>
      BY <1>11, HeadOfDown DEF OnLogin, Arrives, Answers
    <3> QED
      BY <3>1, DownTaken DEF DownAsking
  <2>4. ASSUME rosterTimer' PROVE Never(up', Snapshots)
    <3>1. ~authenticated_ => Never(up, Snapshots)
      BY NeverLess, LoginsOnly
    <3> QED
      BY <2>3, <2>5, <3>1
  <2> QED
    BY <2>2, <2>3, <2>4
<1>12. CASE OnKeyExchange
  BY <1>12 DEF OnKeyExchange, handle_key_exchange_init, Arrives, Take
<1>13. CASE OnError
  BY <1>13 DEF OnError, Arrives, Take
<1>14. CASE OnChannelJoined
  BY <1>14 DEF OnChannelJoined, Arrives, Take, ShowUsers, onWsChannelJoined
<1>15. CASE OnUserJoined
  BY <1>15 DEF OnUserJoined, Arrives, Take, onWsUserJoined, AddUser
<1>16. CASE OnUserLeft
  BY <1>16 DEF OnUserLeft, Arrives, Take, onWsUserLeft, RemoveUser
<1>17. CASE OnRosters
  BY <1>17 DEF OnRosters, handle_all_channel_rosters, Arrives, Take, updateAllRosters
<1>18. CASE Authenticate
  BY <1>18, <1>b DEF Authenticate, Free
<1>19. CASE JoinChannel
  BY <1>19, <1>b DEF JoinChannel, Free, Send
<1>20. CASE RefuseChannel
  BY <1>20, <1>b DEF RefuseChannel, Free, Send
<1>21. CASE LeaveChannel
  BY <1>21, <1>b DEF LeaveChannel, Free
<1>22. CASE BeginRosters
  BY <1>22 DEF BeginRosters, Free
<1>23. CASE Forward
  BY <1>23 DEF Forward
<1>24. ASSUME NEW u \in Other, Broadcast(u) PROVE UpAsking'
  BY <1>24 DEF Broadcast
<1>25. ASSUME NEW u \in Other, NEW ch \in Channel, Move(u, ch) PROVE UpAsking'
  BY <1>25 DEF Move
<1>26. CASE UNCHANGED vars
  BY <1>26 DEF vars
<1> QED
  BY <1>1, <1>2, <1>3, <1>4, <1>5, <1>6, <1>7, <1>8, <1>9, <1>10, <1>11, <1>12, <1>13,
     <1>14, <1>15, <1>16, <1>17, <1>18, <1>19, <1>20, <1>21, <1>22, <1>23, <1>24, <1>25,
     <1>26 DEF Next

LEMMA DownAskingStep == Types /\ Asking /\ Fresh /\ [Next]_vars => DownAsking'
<1> SUFFICES ASSUME Types, Asking, Fresh, [Next]_vars PROVE DownAsking'
  OBVIOUS
<1>a. Never(<<>>, Answers) /\ Once(<<>>, Answers)
  BY SaysNothing, OnceNothing
<1>b. ASSUME down # <<>>
      PROVE  /\ Never(down, Answers) => Never(Tail(down), Answers)
             /\ Once(Tail(down), Answers)
             /\ Head(down) \in Answers => Never(Tail(down), Answers)
  BY <1>b, DownTaken DEF Asking, DownAsking
<1>c. ASSUME NEW m \in Message, m \notin Answers
      PROVE  Once(Append(down, m), Answers) /\
             (Never(down, Answers) => Never(Append(down, m), Answers))
  BY <1>c, DownAppended DEF Asking, DownAsking
<1>d. ASSUME NEW m \in Message, m \notin Answers, down' = Append(down, m), ws' = ws,
             authenticated_' = authenticated_
      PROVE  DownAsking'
  BY <1>c, <1>d DEF Asking, DownAsking
<1> USE <1>a DEF Asking, DownAsking, client, shown, server, past
<1>1. CASE Dialog
  BY <1>1 DEF Dialog
<1>2. CASE DialogSucceeds
  BY <1>2 DEF DialogSucceeds
<1>3. CASE EndGuest
  BY <1>3 DEF EndGuest
<1>4. CASE OpenWindow
  BY <1>4 DEF OpenWindow
<1>5. CASE OnConnected
  BY <1>5 DEF OnConnected, Login
<1>6. CASE OnDisconnected
  <2>1. PICK n \in 0 .. Len(down) :
          /\ \A i \in 1 .. n : down[i].type \notin {"auth_result", "key_exchange_init"}
          /\ down' = SubSeq(down, 1, n)
    BY <1>6 DEF OnDisconnected
  <2>2. Never(SubSeq(down, 1, n), Answers)
    <3>1. Len(SubSeq(down, 1, n)) = n /\ \A i \in 1 .. n : SubSeq(down, 1, n)[i] = down[i]
      BY DEF Types, Queues
    <3> QED
      BY <2>1, <3>1 DEF Never, Answers
  <2> QED
    BY <2>1, <2>2 DEF Once, Never
<1>7. CASE RequestRosters
  BY <1>7 DEF RequestRosters
<1>8. ASSUME NEW ch \in Channel, Listen(ch) PROVE DownAsking'
  BY <1>8 DEF Listen, Ask
<1>9. ASSUME NEW ch \in Channel, Unlisten(ch) PROVE DownAsking'
  BY <1>9 DEF Unlisten, Ask
<1>10. ASSUME NEW ch \in Channel, ReadRoster(ch) PROVE DownAsking'
  <2>1. \E lists \in Lists :
          \/ UNCHANGED down
          \/ down' = Append(down, [type |-> "all_channel_rosters", lists |-> lists])
    BY <1>10, ListsRead DEF ReadRoster, Send, Lengthened
  <2>2. UNCHANGED <<ws, authenticated_>>
    BY <1>10 DEF ReadRoster
  <2>3. PICK m \in Message : (UNCHANGED down \/ down' = Append(down, m)) /\ m \notin Answers
    BY <2>1, Formed DEF Answers
  <2> QED
    BY <2>2, <2>3, <1>d
<1>11. CASE OnLogin
  <2>1. Head(down) \in Answers /\ down # <<>> /\ down' = Tail(down)
    BY <1>11, HeadOfDown DEF OnLogin, Arrives, Take, Answers
  <2> QED
    BY <2>1, <1>b
<1>12. CASE OnKeyExchange
  BY <1>12, <1>b DEF OnKeyExchange, handle_key_exchange_init, Arrives, Take
<1>13. CASE OnError
  BY <1>13, <1>b DEF OnError, Arrives, Take
<1>14. CASE OnChannelJoined
  BY <1>14, <1>b DEF OnChannelJoined, Arrives, Take
<1>15. CASE OnUserJoined
  BY <1>15, <1>b DEF OnUserJoined, Arrives, Take
<1>16. CASE OnUserLeft
  BY <1>16, <1>b DEF OnUserLeft, Arrives, Take
<1>17. CASE OnRosters
  BY <1>17, <1>b DEF OnRosters, handle_all_channel_rosters, Arrives, Take
<1>18. CASE Authenticate
  <2> DEFINE a == [type |-> "auth_result"]
             k == [type |-> "key_exchange_init"]
  <2>1. a \in Message /\ k \in Message /\ k \notin Answers
    BY Formed DEF Answers
  <2>2. down = <<>> /\ down' = <<a, k>> /\ ~authenticated_' /\ ws' # "closed"
    <3>1. up # <<>> /\ Head(up) \in Logins
      BY <1>18, HeadOfUp DEF Authenticate, Free, Logins
    <3>2. down = <<>> /\ ~authenticated_ /\ ws # "closed"
      BY <3>1, UpTaken DEF Fresh, Opening
    <3> QED
      BY <1>18, <3>2 DEF Authenticate
  <2> HIDE DEF a, k
  <2> QED
    BY <2>1, <2>2 DEF Once
<1>19. CASE JoinChannel
  <2> DEFINE ch == Head(up).channel
             users == members[ch] \cup {Me}
             m == [type |-> "channel_joined", channel |-> ch, users |-> users]
  <2>1. ch \in Channel /\ users \in SUBSET User
    BY <1>19, HeadOfUp DEF JoinChannel, Free, Types, Sets, User
  <2>2. down' = Append(down, m) /\ UNCHANGED <<ws, authenticated_>>
    BY <1>19 DEF JoinChannel, Send
  <2>3. m \in Message /\ m \notin Answers
    BY <2>1, Formed DEF Answers
  <2> HIDE DEF m
  <2> QED
    BY <2>2, <2>3, <1>d
<1>20. CASE RefuseChannel
  <2>1. [type |-> "error"] \in Message /\ [type |-> "error"] \notin Answers
    BY Formed DEF Answers
  <2> QED
    BY <1>20, <2>1, <1>d DEF RefuseChannel, Send
<1>21. CASE LeaveChannel
  BY <1>21 DEF LeaveChannel, Free
<1>22. CASE BeginRosters
  BY <1>22 DEF BeginRosters, Free
<1>23. CASE Forward
  <2>1. outbox # <<>> /\ down' = Append(down, Head(outbox)) /\ UNCHANGED <<ws, authenticated_>>
    BY <1>23 DEF Forward
  <2>2. Head(outbox) \in Message /\ Head(outbox) \notin Answers
    BY <2>1, Queue, NoticeParts DEF Types, Queues, Answers
  <2> QED
    BY <2>1, <2>2, <1>d
<1>24. ASSUME NEW u \in Other, Broadcast(u) PROVE DownAsking'
  BY <1>24 DEF Broadcast
<1>25. ASSUME NEW u \in Other, NEW ch \in Channel, Move(u, ch) PROVE DownAsking'
  BY <1>25 DEF Move
<1>26. CASE UNCHANGED vars
  BY <1>26 DEF vars
<1> QED
  BY <1>1, <1>2, <1>3, <1>4, <1>5, <1>6, <1>7, <1>8, <1>9, <1>10, <1>11, <1>12, <1>13,
     <1>14, <1>15, <1>16, <1>17, <1>18, <1>19, <1>20, <1>21, <1>22, <1>23, <1>24, <1>25,
     <1>26 DEF Next

LEMMA ReadsStep == Types /\ Reads /\ [Next]_vars => Reads'
<1> SUFFICES ASSUME Types, Reads, [Next]_vars PROVE Reads'
  OBVIOUS
<1>a. DOMAIN <<>> = {}
  OBVIOUS
<1> USE <1>a DEF Reads, client, shown, server, past
<1>1. CASE Dialog
  BY <1>1 DEF Dialog
<1>2. CASE DialogSucceeds
  BY <1>2 DEF DialogSucceeds
<1>3. CASE EndGuest
  BY <1>3 DEF EndGuest
<1>4. CASE OpenWindow
  BY <1>4 DEF OpenWindow
<1>5. CASE OnConnected
  BY <1>5 DEF OnConnected, Login
<1>6. CASE OnDisconnected
  BY <1>6 DEF OnDisconnected
<1>7. CASE RequestRosters
  BY <1>7 DEF RequestRosters
<1>8. ASSUME NEW ch \in Channel, Listen(ch) PROVE Reads'
  BY <1>8 DEF Listen, Ask
<1>9. ASSUME NEW ch \in Channel, Unlisten(ch) PROVE Reads'
  BY <1>9 DEF Unlisten, Ask
<1>10. ASSUME NEW ch \in Channel, ReadRoster(ch) PROVE Reads'
  <2>1. PICK lists \in {got, Lengthened(ch)} : got' = IF todo = {ch} THEN <<>> ELSE lists
    BY <1>10 DEF ReadRoster, Lengthened
  <2>2. ch \in todo /\ todo' = todo \ {ch} /\ DOMAIN lists \subseteq DOMAIN got \cup {ch}
    BY <1>10 DEF ReadRoster, Lengthened
  <2> QED
    BY <2>1, <2>2
<1>11. CASE OnLogin
  BY <1>11 DEF OnLogin, Arrives, Take
<1>12. CASE OnKeyExchange
  BY <1>12 DEF OnKeyExchange, handle_key_exchange_init, Arrives, Take
<1>13. CASE OnError
  BY <1>13 DEF OnError, Arrives, Take
<1>14. CASE OnChannelJoined
  BY <1>14 DEF OnChannelJoined, Arrives, Take, ShowUsers, onWsChannelJoined
<1>15. CASE OnUserJoined
  BY <1>15 DEF OnUserJoined, Arrives, Take, onWsUserJoined, AddUser
<1>16. CASE OnUserLeft
  BY <1>16 DEF OnUserLeft, Arrives, Take, onWsUserLeft, RemoveUser
<1>17. CASE OnRosters
  BY <1>17 DEF OnRosters, handle_all_channel_rosters, Arrives, Take, updateAllRosters
<1>18. CASE Authenticate
  BY <1>18 DEF Authenticate, Free
<1>19. CASE JoinChannel
  BY <1>19 DEF JoinChannel, Free, Send
<1>20. CASE RefuseChannel
  BY <1>20 DEF RefuseChannel, Free, Send
<1>21. CASE LeaveChannel
  BY <1>21 DEF LeaveChannel, Free
<1>22. CASE BeginRosters
  BY <1>22 DEF BeginRosters, Free
<1>23. CASE Forward
  BY <1>23 DEF Forward
<1>24. ASSUME NEW u \in Other, Broadcast(u) PROVE Reads'
  BY <1>24 DEF Broadcast
<1>25. ASSUME NEW u \in Other, NEW ch \in Channel, Move(u, ch) PROVE Reads'
  BY <1>25 DEF Move
<1>26. CASE UNCHANGED vars
  BY <1>26 DEF vars
<1> QED
  BY <1>1, <1>2, <1>3, <1>4, <1>5, <1>6, <1>7, <1>8, <1>9, <1>10, <1>11, <1>12, <1>13,
     <1>14, <1>15, <1>16, <1>17, <1>18, <1>19, <1>20, <1>21, <1>22, <1>23, <1>24, <1>25,
     <1>26 DEF Next


LEMMA OpeningStep == Types /\ Opening' /\ [Next]_vars => Opening
<1> SUFFICES ASSUME Types, Opening', [Next]_vars PROVE Opening
  OBVIOUS
<1>a. Never(<<>>, Logins)
  BY SaysNothing
<1>b. ASSUME up # <<>>, Never(up, Logins) PROVE Never(Tail(up), Logins)
  BY <1>b, UpTaken
<1>c. ASSUME NEW r \in Request, r \notin Logins, Never(up, Logins)
      PROVE  Never(Append(up, r), Logins)
  BY <1>c, UpAppended
<1> USE <1>a DEF Opening, client, shown, server, past
<1>1. CASE Dialog
  BY <1>1 DEF Dialog
<1>2. CASE DialogSucceeds
  BY <1>2 DEF DialogSucceeds
<1>3. CASE EndGuest
  BY <1>3 DEF EndGuest
<1>4. CASE OpenWindow
  BY <1>4 DEF OpenWindow
<1>5. CASE OnConnected
  BY <1>5 DEF OnConnected, Login
<1>6. CASE OnDisconnected
  BY <1>6 DEF OnDisconnected
<1>7. CASE RequestRosters
  <2> DEFINE r == [type |-> "rosters"]
  <2>1. r \in Request /\ r \notin Logins
    BY Formed, Kinds
  <2>2. up' \in {up, Append(up, r)} /\ UNCHANGED ws
    BY <1>7 DEF RequestRosters
  <2> HIDE DEF r
  <2> QED
    BY <2>1, <2>2, <1>c
<1>8. ASSUME NEW ch \in Channel, Listen(ch) PROVE Opening
  <2> DEFINE r == [type |-> "join", channel |-> ch]
  <2>1. r \in Request /\ r \notin Logins
    BY Formed, Kinds
  <2>2. up' \in {up, Append(up, r)} /\ UNCHANGED ws
    BY <1>8 DEF Listen, Ask
  <2> HIDE DEF r
  <2> QED
    BY <2>1, <2>2, <1>c
<1>9. ASSUME NEW ch \in Channel, Unlisten(ch) PROVE Opening
  <2> DEFINE r == [type |-> "leave", channel |-> ch]
  <2>1. r \in Request /\ r \notin Logins
    BY Formed, Kinds
  <2>2. up' \in {up, Append(up, r)} /\ UNCHANGED ws
    BY <1>9 DEF Unlisten, Ask
  <2> HIDE DEF r
  <2> QED
    BY <2>1, <2>2, <1>c
<1>10. ASSUME NEW ch \in Channel, ReadRoster(ch) PROVE Opening
  <2>1. up # <<>> /\ up' \in {up, Tail(up)} /\ UNCHANGED ws
    BY <1>10 DEF ReadRoster, Send, Types, Reading
  <2> QED
    BY <2>1, <1>b
<1>11. CASE OnLogin
  <2> DEFINE r == [type |-> "join", channel |-> General]
  <2>1. r \in Request /\ r \notin Logins
    BY Formed, Kinds
  <2>2. up' \in {up, Append(up, r)} /\ UNCHANGED ws
    BY <1>11 DEF OnLogin
  <2> HIDE DEF r
  <2> QED
    BY <2>1, <2>2, <1>c
<1>12. CASE OnKeyExchange
  BY <1>12 DEF OnKeyExchange, handle_key_exchange_init, Arrives, Take
<1>13. CASE OnError
  BY <1>13 DEF OnError, Arrives, Take
<1>14. CASE OnChannelJoined
  BY <1>14 DEF OnChannelJoined, Arrives, Take, ShowUsers, onWsChannelJoined
<1>15. CASE OnUserJoined
  BY <1>15 DEF OnUserJoined, Arrives, Take, onWsUserJoined, AddUser
<1>16. CASE OnUserLeft
  BY <1>16 DEF OnUserLeft, Arrives, Take, onWsUserLeft, RemoveUser
<1>17. CASE OnRosters
  BY <1>17 DEF OnRosters, handle_all_channel_rosters, Arrives, Take, updateAllRosters
<1>18. CASE Authenticate
  BY <1>18, <1>b DEF Authenticate, Free
<1>19. CASE JoinChannel
  BY <1>19, <1>b DEF JoinChannel, Free, Send
<1>20. CASE RefuseChannel
  BY <1>20, <1>b DEF RefuseChannel, Free, Send
<1>21. CASE LeaveChannel
  BY <1>21, <1>b DEF LeaveChannel, Free
<1>22. CASE BeginRosters
  BY <1>22 DEF BeginRosters, Free
<1>23. CASE Forward
  BY <1>23 DEF Forward
<1>24. ASSUME NEW u \in Other, Broadcast(u) PROVE Opening
  BY <1>24 DEF Broadcast
<1>25. ASSUME NEW u \in Other, NEW ch \in Channel, Move(u, ch) PROVE Opening
  BY <1>25 DEF Move
<1>26. CASE UNCHANGED vars
  BY <1>26 DEF vars
<1> QED
  BY <1>1, <1>2, <1>3, <1>4, <1>5, <1>6, <1>7, <1>8, <1>9, <1>10, <1>11, <1>12, <1>13,
     <1>14, <1>15, <1>16, <1>17, <1>18, <1>19, <1>20, <1>21, <1>22, <1>23, <1>24, <1>25,
     <1>26 DEF Next

LEMMA FreshStep == Types /\ Asking /\ Fresh /\ [Next]_vars => Fresh'
<1> SUFFICES ASSUME Types, Asking, Fresh, [Next]_vars, Opening' PROVE Fresh'
  BY DEF Fresh
<1>a. Opening
  BY OpeningStep
<1>b. ~authenticated_ /\ Never(up, Request \ Logins)
  BY <1>a DEF Fresh, Asking, UpAsking
<1>c. ASSUME up # <<>> PROVE Head(up).type = "login"
  <2>1. Head(up) \in Logins
    BY <1>b, <1>c, UpTaken, HeadOfUp
  <2> QED
    BY <2>1 DEF Logins
<1> USE <1>a, <1>b DEF Fresh, client, shown, server, past
<1>1. CASE Dialog
  BY <1>1 DEF Dialog
<1>2. CASE DialogSucceeds
  BY <1>2 DEF DialogSucceeds
<1>3. CASE EndGuest
  BY <1>3 DEF EndGuest
<1>4. CASE OpenWindow
  BY <1>4 DEF OpenWindow
<1>5. CASE OnConnected
  <2>1. up = <<>> /\ ws' # "opening" /\ ws' # "closed"
    BY <1>5 DEF OnConnected
  <2>2. Once(up', Logins)
    <3> DEFINE r == [type |-> "login"]
    <3>1. r \in Request /\ up' = Append(up, r)
      BY <1>5, Formed DEF OnConnected, Login
    <3> HIDE DEF r
    <3>2. Never(up, Logins) /\ Once(up, Logins)
      BY <2>1, SaysNothing, OnceNothing
    <3> QED
      BY <3>1, <3>2, UpAppended
  <2> QED
    BY <1>5, <2>1, <2>2 DEF OnConnected
<1>6. CASE OnDisconnected
  BY <1>6, SaysNothing DEF OnDisconnected, Opening
<1>7. CASE RequestRosters
  BY <1>7 DEF RequestRosters
<1>8. ASSUME NEW ch \in Channel, Listen(ch) PROVE Fresh'
  BY <1>8 DEF Listen, Ask
<1>9. ASSUME NEW ch \in Channel, Unlisten(ch) PROVE Fresh'
  BY <1>9 DEF Unlisten, Ask
<1>10. ASSUME NEW ch \in Channel, ReadRoster(ch) PROVE Fresh'
  BY <1>10 DEF ReadRoster, Send
<1>11. CASE OnLogin
  BY <1>11 DEF OnLogin, Arrives, Take
<1>12. CASE OnKeyExchange
  BY <1>12 DEF OnKeyExchange, handle_key_exchange_init, Arrives, Take
<1>13. CASE OnError
  BY <1>13 DEF OnError, Arrives, Take
<1>14. CASE OnChannelJoined
  BY <1>14 DEF OnChannelJoined, Arrives, Take, ShowUsers, onWsChannelJoined
<1>15. CASE OnUserJoined
  BY <1>15 DEF OnUserJoined, Arrives, Take, onWsUserJoined, AddUser
<1>16. CASE OnUserLeft
  BY <1>16 DEF OnUserLeft, Arrives, Take, onWsUserLeft, RemoveUser
<1>17. CASE OnRosters
  BY <1>17 DEF OnRosters, handle_all_channel_rosters, Arrives, Take, updateAllRosters
<1>18. CASE Authenticate
  <2>1. ws # "opening" /\ up # <<>> /\ up' = Tail(up) /\ UNCHANGED ws
    BY <1>18 DEF Authenticate, Free
  <2>2. Head(up) \in Logins
    BY <2>1, <1>c, HeadOfUp DEF Logins
  <2>3. Never(up', Logins)
    BY <2>1, <2>2, UpTaken
  <2> QED
    BY <2>1, <2>3 DEF Opening
<1>19. CASE JoinChannel
  BY <1>19, <1>c DEF JoinChannel, Free
<1>20. CASE RefuseChannel
  BY <1>20, <1>c DEF RefuseChannel, Free
<1>21. CASE LeaveChannel
  BY <1>21, <1>c DEF LeaveChannel, Free
<1>22. CASE BeginRosters
  BY <1>22, <1>c DEF BeginRosters, Free
<1>23. CASE Forward
  BY <1>23 DEF Forward
<1>24. ASSUME NEW u \in Other, Broadcast(u) PROVE Fresh'
  BY <1>24 DEF Broadcast
<1>25. ASSUME NEW u \in Other, NEW ch \in Channel, Move(u, ch) PROVE Fresh'
  BY <1>25 DEF Move
<1>26. CASE UNCHANGED vars
  BY <1>26 DEF vars
<1> QED
  BY <1>1, <1>2, <1>3, <1>4, <1>5, <1>6, <1>7, <1>8, <1>9, <1>10, <1>11, <1>12, <1>13,
     <1>14, <1>15, <1>16, <1>17, <1>18, <1>19, <1>20, <1>21, <1>22, <1>23, <1>24, <1>25,
     <1>26 DEF Next

LEMMA CastsStep == Types /\ Casts /\ [Next]_vars => Casts'
<1> SUFFICES ASSUME Types, Casts, [Next]_vars PROVE Casts'
  OBVIOUS
<1> SUFFICES ASSUME NEW v \in Other PROVE CastOf(v)'
  BY DEF Casts
<1>a. CastOf(v) /\ v # Me /\ casting \in [Other -> Notice \cup {NoNotice}] /\
      members \in [Channel -> SUBSET User]
  BY DEF Casts, Types, Queues, Sets
<1>b. casting[v] # NoNotice => casting[v].channel \in Channel
  BY <1>a, NoticeParts
<1> USE <1>a, <1>b DEF CastOf, client, shown, server, past
<1>1. CASE Dialog
  BY <1>1 DEF Dialog
<1>2. CASE DialogSucceeds
  BY <1>2 DEF DialogSucceeds
<1>3. CASE EndGuest
  BY <1>3 DEF EndGuest
<1>4. CASE OpenWindow
  BY <1>4 DEF OpenWindow
<1>5. CASE OnConnected
  BY <1>5 DEF OnConnected, Login
<1>6. CASE OnDisconnected
  BY <1>6 DEF OnDisconnected
<1>7. CASE RequestRosters
  BY <1>7 DEF RequestRosters
<1>8. ASSUME NEW ch \in Channel, Listen(ch) PROVE CastOf(v)'
  BY <1>8 DEF Listen, Ask
<1>9. ASSUME NEW ch \in Channel, Unlisten(ch) PROVE CastOf(v)'
  BY <1>9 DEF Unlisten, Ask
<1>10. ASSUME NEW ch \in Channel, ReadRoster(ch) PROVE CastOf(v)'
  BY <1>10 DEF ReadRoster, Send
<1>11. CASE OnLogin
  BY <1>11 DEF OnLogin, Arrives, Take
<1>12. CASE OnKeyExchange
  BY <1>12 DEF OnKeyExchange, handle_key_exchange_init, Arrives, Take
<1>13. CASE OnError
  BY <1>13 DEF OnError, Arrives, Take
<1>14. CASE OnChannelJoined
  BY <1>14 DEF OnChannelJoined, Arrives, Take, ShowUsers, onWsChannelJoined
<1>15. CASE OnUserJoined
  BY <1>15 DEF OnUserJoined, Arrives, Take, onWsUserJoined, AddUser
<1>16. CASE OnUserLeft
  BY <1>16 DEF OnUserLeft, Arrives, Take, onWsUserLeft, RemoveUser
<1>17. CASE OnRosters
  BY <1>17 DEF OnRosters, handle_all_channel_rosters, Arrives, Take, updateAllRosters
<1>18. CASE Authenticate
  BY <1>18 DEF Authenticate, Free
<1>19. CASE JoinChannel
  <2>1. UNCHANGED casting
    BY <1>19 DEF JoinChannel
  <2>2. \A c \in Channel : v \in members'[c] <=> v \in members[c]
    BY <1>19 DEF JoinChannel
  <2> QED
    BY <2>1, <2>2
<1>20. CASE RefuseChannel
  BY <1>20 DEF RefuseChannel, Free, Send
<1>21. CASE LeaveChannel
  <2>1. UNCHANGED casting
    BY <1>21 DEF LeaveChannel
  <2>2. \A c \in Channel : v \in members'[c] <=> v \in members[c]
    BY <1>21 DEF LeaveChannel
  <2> QED
    BY <2>1, <2>2
<1>22. CASE BeginRosters
  BY <1>22 DEF BeginRosters, Free
<1>23. CASE Forward
  BY <1>23 DEF Forward
<1>24. ASSUME NEW u \in Other, Broadcast(u) PROVE CastOf(v)'
  BY <1>24 DEF Broadcast
<1>25. ASSUME NEW u \in Other, NEW ch \in Channel, Move(u, ch) PROVE CastOf(v)'
  <2> DEFINE n == [type |-> IF u \in members[ch] THEN "user_left" ELSE "user_joined",
                   channel |-> ch, user |-> u]
  <2>1. casting' = [casting EXCEPT ![u] = n]
    BY <1>25 DEF Move
  <2>2. members' = [members EXCEPT ![ch] = IF u \in @ THEN @ \ {u} ELSE @ \cup {u}]
    BY <1>25 DEF Move
  <2>3. n.user = u /\ n.channel = ch /\ (n.type = "user_joined" <=> u \notin members[ch])
    OBVIOUS
  <2> HIDE DEF n
  <2>4. CASE v = u
    BY <2>1, <2>2, <2>3, <2>4
  <2>5. CASE v # u
    <3>1. casting'[v] = casting[v]
      BY <2>1, <2>5
    <3>2. \A c \in Channel : v \in members'[c] <=> v \in members[c]
      BY <2>2, <2>5
    <3> QED
      BY <3>1, <3>2
  <2> QED
    BY <2>4, <2>5
<1>26. CASE UNCHANGED vars
  BY <1>26 DEF vars
<1> QED
  BY <1>1, <1>2, <1>3, <1>4, <1>5, <1>6, <1>7, <1>8, <1>9, <1>10, <1>11, <1>12, <1>13,
     <1>14, <1>15, <1>16, <1>17, <1>18, <1>19, <1>20, <1>21, <1>22, <1>23, <1>24, <1>25,
     <1>26 DEF Next


LEMMA AnswerInTime ==
  ASSUME Types, Asking, Arrives("auth_result")
  PROVE  ~authenticated_ /\ ws # "closed"
<1>1. Head(down) \in Answers /\ down # <<>>
  BY HeadOfDown DEF Arrives, Answers
<1> QED
  BY <1>1, DownTaken DEF Asking, DownAsking

LEMMA Authenticated ==
  ASSUME Types, Asking, up # <<>>, Head(up).type # "login"
  PROVE  authenticated_
<1>1. Head(up) \in Request \ Logins
  BY HeadOfUp DEF Logins
<1> QED
  BY <1>1, UpTaken DEF Asking, UpAsking

LEMMA LastRead ==
  ASSUME Types, Asking, NEW ch \in Channel, ReadRoster(ch), todo = {ch}
  PROVE  ~Ahead'
<1>1. up # <<>> /\ Head(up).type = "rosters" /\ up' = Tail(up)
  BY DEF ReadRoster, Send, Types, Reading
<1>2. Head(up) \in Snapshots
  BY <1>1, HeadOfUp DEF Snapshots
<1>3. authenticated_ /\ ~rosterTimer /\ Never(Tail(up), Snapshots)
  BY <1>1, <1>2, Authenticated, UpTaken DEF Asking, UpAsking
<1> QED
  BY <1>1, <1>3 DEF ReadRoster, client, Ahead

LEMMA UnreadStep == ws' # "closed" /\ Types /\ Asking /\ [Next]_vars =>
  \A c \in Channel : Unread(c)' => Unread(c)
<1> SUFFICES ASSUME Types, Asking, [Next]_vars, ws' # "closed", NEW c \in Channel, Unread(c)'
             PROVE  Unread(c)
  OBVIOUS
<1>b. ASSUME up # <<>>, Never(up, Snapshots) PROVE Never(Tail(up), Snapshots)
  BY <1>b, UpTaken
<1>c. ASSUME NEW r \in Request, r \notin Snapshots, Never(up, Snapshots)
      PROVE  Never(Append(up, r), Snapshots)
  BY <1>c, UpAppended
<1> USE DEF Unread, Ahead, client, shown, server, past
<1>1. CASE Dialog
  BY <1>1 DEF Dialog
<1>2. CASE DialogSucceeds
  BY <1>2 DEF DialogSucceeds
<1>3. CASE EndGuest
  BY <1>3 DEF EndGuest
<1>4. CASE OpenWindow
  BY <1>4 DEF OpenWindow
<1>5. CASE OnConnected
  <2> DEFINE r == [type |-> "login"]
  <2>1. r \in Request /\ r \notin Snapshots
    BY Formed, Kinds
  <2>2. up' \in {up, Append(up, r)} /\ UNCHANGED <<authenticated_, rosterTimer, todo>>
    BY <1>5 DEF OnConnected, Login
  <2> HIDE DEF r
  <2> QED
    BY <2>1, <2>2, <1>c
<1>6. CASE OnDisconnected
  BY <1>6 DEF OnDisconnected
<1>7. CASE RequestRosters
  BY <1>7 DEF RequestRosters
<1>8. ASSUME NEW ch \in Channel, Listen(ch) PROVE Unread(c)
  <2> DEFINE r == [type |-> "join", channel |-> ch]
  <2>1. r \in Request /\ r \notin Snapshots
    BY Formed, Kinds
  <2>2. up' \in {up, Append(up, r)} /\ UNCHANGED <<authenticated_, rosterTimer, todo>>
    BY <1>8 DEF Listen, Ask
  <2> HIDE DEF r
  <2> QED
    BY <2>1, <2>2, <1>c
<1>9. ASSUME NEW ch \in Channel, Unlisten(ch) PROVE Unread(c)
  <2> DEFINE r == [type |-> "leave", channel |-> ch]
  <2>1. r \in Request /\ r \notin Snapshots
    BY Formed, Kinds
  <2>2. up' \in {up, Append(up, r)} /\ UNCHANGED <<authenticated_, rosterTimer, todo>>
    BY <1>9 DEF Unlisten, Ask
  <2> HIDE DEF r
  <2> QED
    BY <2>1, <2>2, <1>c
<1>10. ASSUME NEW ch \in Channel, ReadRoster(ch) PROVE Unread(c)
  <2>1. CASE todo # {ch}
    BY <1>10, <2>1 DEF ReadRoster
  <2>2. CASE todo = {ch}
    BY <1>10, <2>2, LastRead DEF ReadRoster
  <2> QED
    BY <2>1, <2>2
<1>11. CASE OnLogin
  BY <1>11, AnswerInTime DEF OnLogin
<1>12. CASE OnKeyExchange
  BY <1>12 DEF OnKeyExchange, handle_key_exchange_init, Arrives, Take
<1>13. CASE OnError
  BY <1>13 DEF OnError, Arrives, Take
<1>14. CASE OnChannelJoined
  BY <1>14 DEF OnChannelJoined, Arrives, Take, ShowUsers, onWsChannelJoined
<1>15. CASE OnUserJoined
  BY <1>15 DEF OnUserJoined, Arrives, Take, onWsUserJoined, AddUser
<1>16. CASE OnUserLeft
  BY <1>16 DEF OnUserLeft, Arrives, Take, onWsUserLeft, RemoveUser
<1>17. CASE OnRosters
  BY <1>17 DEF OnRosters, handle_all_channel_rosters, Arrives, Take, updateAllRosters
<1>18. CASE Authenticate
  BY <1>18, <1>b DEF Authenticate, Free
<1>19. CASE JoinChannel
  BY <1>19, <1>b DEF JoinChannel, Free, Send
<1>20. CASE RefuseChannel
  BY <1>20, <1>b DEF RefuseChannel, Free, Send
<1>21. CASE LeaveChannel
  BY <1>21, <1>b DEF LeaveChannel, Free
<1>22. CASE BeginRosters
  <2>1. up # <<>> /\ Head(up) \in Snapshots /\ todo = {}
    BY <1>22, HeadOfUp DEF BeginRosters, Free, Snapshots
  <2> QED
    BY <2>1, UpTaken
<1>23. CASE Forward
  BY <1>23 DEF Forward
<1>24. ASSUME NEW u \in Other, Broadcast(u) PROVE Unread(c)
  BY <1>24 DEF Broadcast
<1>25. ASSUME NEW u \in Other, NEW ch \in Channel, Move(u, ch) PROVE Unread(c)
  BY <1>25 DEF Move
<1>26. CASE UNCHANGED vars
  BY <1>26 DEF vars
<1> QED
  BY <1>1, <1>2, <1>3, <1>4, <1>5, <1>6, <1>7, <1>8, <1>9, <1>10, <1>11, <1>12, <1>13,
     <1>14, <1>15, <1>16, <1>17, <1>18, <1>19, <1>20, <1>21, <1>22, <1>23, <1>24, <1>25,
     <1>26 DEF Next

LEMMA ScansStep == Types /\ Asking /\ Scans /\ [Next]_vars => Scans'
<1> SUFFICES ASSUME Types, Asking, Scans, [Next]_vars, ws' # "closed"
             PROVE  \A c \in scanned' : ~Unread(c)' /\ (c \notin astray' => Me \in members'[c])
  BY DEF Scans
<1>a. ASSUME NEW c \in Channel, Unread(c)' PROVE Unread(c)
  BY <1>a, UnreadStep
<1>b. ws # "closed" => \A c \in scanned : ~Unread(c) /\ (c \notin astray => Me \in members[c])
  BY DEF Scans
<1>c. scanned \subseteq Channel /\ Me \notin Other /\ members \in [Channel -> SUBSET User]
  BY DEF Types, Sets
<1>d. ws # "closed" /\ (scanned' = scanned => \A c \in scanned' : ~Unread(c)')
  <2>1. ws # "closed"
    BY DEF Next, vars, Dialog, DialogSucceeds, EndGuest, OpenWindow, OnConnected, OnDisconnected,
       RequestRosters, Listen, Unlisten, ReadRoster, OnLogin, OnKeyExchange, OnError,
       OnChannelJoined, OnUserJoined, OnUserLeft, OnRosters, Authenticate, JoinChannel,
       RefuseChannel, LeaveChannel, BeginRosters, Forward, Broadcast, Move,
       client, shown, server, past
  <2> QED
    BY <2>1, <1>a, <1>b, <1>c
<1> USE <1>b, <1>c, <1>d DEF client, shown, server, past
<1>1. CASE Dialog
  BY <1>1 DEF Dialog
<1>2. CASE DialogSucceeds
  BY <1>2 DEF DialogSucceeds
<1>3. CASE EndGuest
  BY <1>3 DEF EndGuest
<1>4. CASE OpenWindow
  BY <1>4 DEF OpenWindow
<1>5. CASE OnConnected
  BY <1>5 DEF OnConnected, Login
<1>6. CASE OnDisconnected
  BY <1>6 DEF OnDisconnected
<1>7. CASE RequestRosters
  BY <1>7 DEF RequestRosters
<1>8. ASSUME NEW ch \in Channel, Listen(ch)
      PROVE  \A c \in scanned' : ~Unread(c)' /\ (c \notin astray' => Me \in members'[c])
  BY <1>8 DEF Listen, Ask
<1>9. ASSUME NEW ch \in Channel, Unlisten(ch)
      PROVE  \A c \in scanned' : ~Unread(c)' /\ (c \notin astray' => Me \in members'[c])
  BY <1>9 DEF Unlisten, Ask
<1>10. ASSUME NEW ch \in Channel, ReadRoster(ch)
       PROVE  \A c \in scanned' : ~Unread(c)' /\ (c \notin astray' => Me \in members'[c])
  <2>1. todo' = todo \ {ch} /\ ch \in todo /\ UNCHANGED <<members, astray>>
    BY <1>10 DEF ReadRoster
  <2>2. \/ scanned' = scanned
        \/ scanned' = scanned \cup {ch} /\ Me \in members[ch]
    BY <1>10 DEF ReadRoster
  <2>3. CASE scanned' = scanned
    BY <2>1, <2>3
  <2>4. CASE scanned' = scanned \cup {ch} /\ Me \in members[ch]
    <3>1. ~Unread(ch)'
      BY <1>10, <2>1, LastRead DEF Unread
    <3> QED
      BY <2>1, <2>4, <3>1, <1>a
  <2> QED
    BY <2>2, <2>3, <2>4
<1>11. CASE OnLogin
  BY <1>11 DEF OnLogin, Arrives, Take
<1>12. CASE OnKeyExchange
  BY <1>12 DEF OnKeyExchange, handle_key_exchange_init, Arrives, Take
<1>13. CASE OnError
  BY <1>13 DEF OnError, Arrives, Take
<1>14. CASE OnChannelJoined
  BY <1>14 DEF OnChannelJoined, Arrives, Take, ShowUsers, onWsChannelJoined
<1>15. CASE OnUserJoined
  BY <1>15 DEF OnUserJoined, Arrives, Take, onWsUserJoined, AddUser
<1>16. CASE OnUserLeft
  BY <1>16 DEF OnUserLeft, Arrives, Take, onWsUserLeft, RemoveUser
<1>17. CASE OnRosters
  BY <1>17 DEF OnRosters, handle_all_channel_rosters, Arrives, Take, updateAllRosters
<1>18. CASE Authenticate
  BY <1>18 DEF Authenticate, Free
<1>19. CASE JoinChannel
  BY <1>19 DEF JoinChannel, Free, Send
<1>20. CASE RefuseChannel
  BY <1>20 DEF RefuseChannel, Free, Send
<1>21. CASE LeaveChannel
  BY <1>21 DEF LeaveChannel, Free
<1>22. CASE BeginRosters
  BY <1>22 DEF BeginRosters, Free
<1>23. CASE Forward
  BY <1>23 DEF Forward
<1>24. ASSUME NEW u \in Other, Broadcast(u)
       PROVE  \A c \in scanned' : ~Unread(c)' /\ (c \notin astray' => Me \in members'[c])
  BY <1>24 DEF Broadcast
<1>25. ASSUME NEW u \in Other, NEW ch \in Channel, Move(u, ch)
       PROVE  \A c \in scanned' : ~Unread(c)' /\ (c \notin astray' => Me \in members'[c])
  <2>1. \A c \in Channel : Me \in members'[c] <=> Me \in members[c]
    BY <1>25 DEF Move
  <2>2. UNCHANGED <<scanned, astray>>
    BY <1>25 DEF Move
  <2> QED
    BY <2>1, <2>2
<1>26. CASE UNCHANGED vars
  BY <1>26 DEF vars
<1> QED
  BY <1>1, <1>2, <1>3, <1>4, <1>5, <1>6, <1>7, <1>8, <1>9, <1>10, <1>11, <1>12, <1>13,
     <1>14, <1>15, <1>16, <1>17, <1>18, <1>19, <1>20, <1>21, <1>22, <1>23, <1>24, <1>25,
     <1>26 DEF Next


LEMMA StaysOpen == [Next]_vars /\ ws' # "closed" => ws # "closed"
  BY DEF Next, vars, Dialog, DialogSucceeds, EndGuest, OpenWindow, OnConnected, OnDisconnected,
     RequestRosters, Listen, Unlisten, ReadRoster, OnLogin, OnKeyExchange, OnError,
     OnChannelJoined, OnUserJoined, OnUserLeft, OnRosters, Authenticate, JoinChannel,
     RefuseChannel, LeaveChannel, BeginRosters, Forward, Broadcast, Move,
     client, shown, server, past

(* A request that is sent is the last word about its channel.              *)
LEMMA FollowsSent ==
  ASSUME Types, NEW c \in Channel, FollowsIn(c), NEW r \in Request, up' = Append(up, r),
         Me \in members'[c] <=> Me \in members[c], unheard' = unheard,
         \/ r \notin Joins(c) \cup Leaves(c) /\ (c \in listening' <=> c \in listening)
         \/ r \in Joins(c) /\ r \notin Leaves(c) /\ c \in listening'
         \/ r \in Leaves(c) /\ r \notin Joins(c) /\ c \notin listening'
  PROVE  FollowsIn(c)'
<1> DEFINE J == Joins(c)
           L == Leaves(c)
<1>1. /\ Never(up', J) <=> Never(up, J) /\ r \notin J
      /\ Never(up', L) <=> Never(up, L) /\ r \notin L
      /\ Says(up', J, L) <=> r \in J \/ (Says(up, J, L) /\ r \notin L)
  BY UpAppended
<1> QED
  BY <1>1 DEF FollowsIn, Enters

(* What is handled changes the members as it said.                         *)
LEMMA FollowsHandled ==
  ASSUME Types, NEW c \in Channel, FollowsIn(c), up # <<>>, up' = Tail(up),
         listening' = listening,
         \/ /\ Head(up) \notin Joins(c) \cup Leaves(c) /\ (c \notin unheard' => c \notin unheard)
            /\ Me \in members'[c] <=> Me \in members[c]
         \/ Head(up) \in Joins(c) /\ Head(up) \notin Leaves(c) /\
            (c \in unheard' \/ Me \in members'[c])
         \/ Head(up) \in Leaves(c) /\ Head(up) \notin Joins(c) /\ Me \notin members'[c]
  PROVE  FollowsIn(c)'
<1> DEFINE J == Joins(c)
           L == Leaves(c)
           h == Head(up)
<1>1. /\ Never(up, J) <=> h \notin J /\ Never(up', J)
      /\ Never(up, L) <=> h \notin L /\ Never(up', L)
      /\ Says(up, J, L) <=> Says(up', J, L) \/ (h \in J /\ Never(up', L))
  BY UpTaken
<1>2. ~Never(up', J) /\ Never(up', L) => Says(up', J, L)
  <2>1. up' \in Seq(Request)
    BY HeadOfUp
  <2> QED
    BY <2>1, SaysSomething
<1>3. FollowsIn(c)' <=>
        (c \notin unheard' \/ ~Never(up', J) \/ ~Never(up', L) =>
          (c \in listening' <=> Says(up', J, L) \/ (Never(up', L) /\ Me \in members'[c])))
  BY DEF FollowsIn, Enters
<1>4. c \notin unheard \/ ~Never(up, J) \/ ~Never(up, L) =>
        (c \in listening <=> Says(up, J, L) \/ (Never(up, L) /\ Me \in members[c]))
  BY DEF FollowsIn, Enters
<1> HIDE DEF h, J, L
<1> QED
  BY <1>1, <1>2, <1>3, <1>4 DEF h, J, L

LEMMA FollowsStill ==
  ASSUME Types, NEW c \in Channel, FollowsIn(c), up' = up,
         \/ (listening' = listening /\ (Me \in members'[c] <=> Me \in members[c]) /\
            unheard' = unheard)
         \/ c \in unheard' /\ listening' = listening
         \/ c \in unheard' /\ Never(up, Joins(c)) /\ Never(up, Leaves(c))
  PROVE  FollowsIn(c)'
<1>1. ~Never(up, Joins(c)) /\ Never(up, Leaves(c)) => Says(up, Joins(c), Leaves(c))
  BY SaysSomething DEF Types, Queues
<1> QED
  BY <1>1 DEF FollowsIn, Enters

LEMMA FollowsStep == Types /\ Asking /\ Follows /\ [Next]_vars => Follows'
<1> SUFFICES ASSUME Types, Asking, Follows, [Next]_vars, ws' # "closed", NEW c \in Channel
             PROVE  FollowsIn(c)'
  BY DEF Follows
<1>a. FollowsIn(c)
  BY StaysOpen DEF Follows
<1>b. members \in [Channel -> SUBSET User] /\ Me \notin Other
  BY DEF Types, Sets
<1>c. ASSUME UNCHANGED <<up, listening, unheard>>, Me \in members'[c] <=> Me \in members[c]
      PROVE  FollowsIn(c)'
  BY <1>a, <1>c, FollowsStill
<1> USE DEF client, shown, server, past
<1>1. CASE Dialog
  BY <1>1, <1>c DEF Dialog
<1>2. CASE DialogSucceeds
  BY <1>2, <1>c DEF DialogSucceeds
<1>3. CASE EndGuest
  <2>1. UNCHANGED <<up, listening>>
    BY <1>3 DEF EndGuest
  <2>2. CASE Me \in members[c]
    <3>1. c \in unheard'
      BY <1>3, <2>2 DEF EndGuest
    <3> QED
      BY <1>a, <2>1, <3>1, FollowsStill
  <2>3. CASE Me \notin members[c]
    <3>1. Me \notin members'[c] /\ (c \in unheard' <=> c \in unheard)
      BY <1>3, <1>b, <2>3 DEF EndGuest
    <3>2. Joins(c)' = Joins(c) /\ Leaves(c)' = Leaves(c)
      BY DEF Joins, Leaves
    <3> QED
      BY <1>a, <2>1, <2>3, <3>1, <3>2 DEF FollowsIn, Enters
  <2> QED
    BY <2>2, <2>3
<1>4. CASE OpenWindow
  BY <1>4, <1>c DEF OpenWindow
<1>5. CASE OnConnected
  <2> DEFINE r == [type |-> "login"]
  <2>1. r \in Request /\ r \notin Joins(c) \cup Leaves(c)
    BY Formed, Kinds
  <2>2. up' = Append(up, r) /\ UNCHANGED <<listening, unheard, members>>
    BY <1>5 DEF OnConnected, Login
  <2> HIDE DEF r
  <2> QED
    BY <1>a, <2>1, <2>2, FollowsSent
<1>6. CASE OnDisconnected
  BY <1>6, <1>c DEF OnDisconnected
<1>7. CASE RequestRosters
  <2> DEFINE r == [type |-> "rosters"]
  <2>1. r \in Request /\ r \notin Joins(c) \cup Leaves(c)
    BY Formed, Kinds
  <2>2. up' \in {up, Append(up, r)} /\ UNCHANGED <<listening, unheard, members>>
    BY <1>7 DEF RequestRosters
  <2> HIDE DEF r
  <2> QED
    BY <1>a, <1>c, <2>1, <2>2, FollowsSent
<1>8. ASSUME NEW ch \in Channel, Listen(ch) PROVE FollowsIn(c)'
  <2> DEFINE r == [type |-> "join", channel |-> ch]
  <2>1. /\ r \in Request
        /\ r \in Joins(c) <=> c = ch
        /\ r \in Leaves(c) <=> FALSE
    BY Formed, Kinds
  <2>2. UNCHANGED members /\ listening' = listening \cup {ch}
    BY <1>8 DEF Listen
  <2>3. CASE authenticated_
    <3>1. up' = Append(up, r) /\ UNCHANGED unheard
      BY <1>8, <2>3 DEF Listen, Ask
    <3> HIDE DEF r
    <3> QED
      BY <1>a, <2>1, <2>2, <3>1, FollowsSent
  <2>4. CASE ~authenticated_
    <3>1. UNCHANGED up /\ unheard' = unheard \cup {ch}
      BY <1>8, <2>4 DEF Listen, Ask
    <3>2. Never(up, Joins(c)) /\ Never(up, Leaves(c))
      <4>1. Never(up, Request \ Logins)
        BY <2>4 DEF Asking, UpAsking
      <4> QED
        BY <4>1, NeverLess, LoginsOnly
    <3>3. CASE c = ch
      BY <1>a, <3>1, <3>2, <3>3, FollowsStill
    <3>4. CASE c # ch
      <4>1. (c \in listening' <=> c \in listening) /\ (c \in unheard' <=> c \in unheard)
        BY <2>2, <3>1, <3>4
      <4> QED
        BY <1>a, <2>2, <3>1, <4>1 DEF FollowsIn, Enters
    <3> QED
      BY <3>3, <3>4
  <2> QED
    BY <2>3, <2>4
<1>9. ASSUME NEW ch \in Channel, Unlisten(ch) PROVE FollowsIn(c)'
  <2> DEFINE r == [type |-> "leave", channel |-> ch]
  <2>1. /\ r \in Request
        /\ r \in Joins(c) <=> FALSE
        /\ r \in Leaves(c) <=> c = ch
    BY Formed, Kinds
  <2>2. UNCHANGED members /\ listening' = listening \ {ch}
    BY <1>9 DEF Unlisten
  <2>3. CASE authenticated_
    <3>1. up' = Append(up, r) /\ UNCHANGED unheard
      BY <1>9, <2>3 DEF Unlisten, Ask
    <3> HIDE DEF r
    <3> QED
      BY <1>a, <2>1, <2>2, <3>1, FollowsSent
  <2>4. CASE ~authenticated_
    <3>1. UNCHANGED up /\ unheard' = unheard \cup {ch}
      BY <1>9, <2>4 DEF Unlisten, Ask
    <3>2. Never(up, Joins(c)) /\ Never(up, Leaves(c))
      <4>1. Never(up, Request \ Logins)
        BY <2>4 DEF Asking, UpAsking
      <4> QED
        BY <4>1, NeverLess, LoginsOnly
    <3>3. CASE c = ch
      BY <1>a, <3>1, <3>2, <3>3, FollowsStill
    <3>4. CASE c # ch
      <4>1. (c \in listening' <=> c \in listening) /\ (c \in unheard' <=> c \in unheard)
        BY <2>2, <3>1, <3>4
      <4> QED
        BY <1>a, <2>2, <3>1, <4>1 DEF FollowsIn, Enters
    <3> QED
      BY <3>3, <3>4
  <2> QED
    BY <2>3, <2>4
<1>10. ASSUME NEW ch \in Channel, ReadRoster(ch) PROVE FollowsIn(c)'
  <2>1. up # <<>> /\ up' \in {up, Tail(up)} /\ UNCHANGED <<listening, members, unheard>>
    BY <1>10 DEF ReadRoster, Send, Types, Reading
  <2>2. Head(up) \notin Joins(c) \cup Leaves(c)
    BY <1>10 DEF ReadRoster, Types, Reading, Joins, Leaves
  <2> QED
    BY <1>a, <1>c, <2>1, <2>2, FollowsHandled
<1>11. CASE OnLogin
  <2> DEFINE r == [type |-> "join", channel |-> General]
  <2>1. r \in Request /\ (r \in Joins(c) <=> c = General) /\ r \notin Leaves(c)
    BY Formed, Kinds
  <2>2. UNCHANGED <<members, unheard>>
    BY <1>11 DEF OnLogin
  <2>3. \/ UNCHANGED <<up, listening>>
        \/ up' = Append(up, r) /\ listening' = listening \cup {General}
    BY <1>11 DEF OnLogin
  <2> HIDE DEF r
  <2> QED
    BY <1>a, <1>c, <2>1, <2>2, <2>3, FollowsSent
<1>12. CASE OnKeyExchange
  BY <1>12, <1>c DEF OnKeyExchange, handle_key_exchange_init, Arrives, Take
<1>13. CASE OnError
  BY <1>13, <1>c DEF OnError, Arrives, Take
<1>14. CASE OnChannelJoined
  BY <1>14, <1>c DEF OnChannelJoined, Arrives, Take, ShowUsers, onWsChannelJoined
<1>15. CASE OnUserJoined
  BY <1>15, <1>c DEF OnUserJoined, Arrives, Take, onWsUserJoined, AddUser
<1>16. CASE OnUserLeft
  BY <1>16, <1>c DEF OnUserLeft, Arrives, Take, onWsUserLeft, RemoveUser
<1>17. CASE OnRosters
  BY <1>17, <1>c DEF OnRosters, handle_all_channel_rosters, Arrives, Take, updateAllRosters
<1>18. CASE Authenticate
  <2>1. up # <<>> /\ up' = Tail(up) /\ UNCHANGED <<listening, members, unheard>>
    BY <1>18 DEF Authenticate, Free
  <2>2. Head(up) \notin Joins(c) \cup Leaves(c)
    BY <1>18 DEF Authenticate, Free, Joins, Leaves
  <2> QED
    BY <1>a, <2>1, <2>2, FollowsHandled
<1>19. CASE JoinChannel
  <2>1. up # <<>> /\ up' = Tail(up) /\ UNCHANGED listening
    BY <1>19 DEF JoinChannel, Free, Send
  <2>2. Head(up) \notin Leaves(c)
    BY <1>19 DEF JoinChannel, Free, Joins, Leaves
  <2>3. CASE Head(up) \in Joins(c)
    <3>1. Head(up).channel = c
      BY <2>3 DEF Joins
    <3>2. Me \in members'[c]
      BY <1>19, <1>b, <3>1 DEF JoinChannel
    <3> QED
      BY <1>a, <2>1, <2>2, <2>3, <3>2, FollowsHandled
  <2>4. CASE Head(up) \notin Joins(c)
    <3>1. Head(up).channel # c
      BY <1>19, <2>4, HeadOfUp DEF JoinChannel, Free, Joins
    <3>2. (c \notin unheard' => c \notin unheard) /\ (Me \in members'[c] <=> Me \in members[c])
      BY <1>19, <1>b, <3>1 DEF JoinChannel
    <3> QED
      BY <1>a, <2>1, <2>2, <2>4, <3>2, FollowsHandled
  <2> QED
    BY <2>3, <2>4
<1>20. CASE RefuseChannel
  <2>1. up # <<>> /\ up' = Tail(up) /\ UNCHANGED listening
    BY <1>20 DEF RefuseChannel, Free, Send
  <2>2. Head(up) \notin Leaves(c)
    BY <1>20 DEF RefuseChannel, Free, Joins, Leaves
  <2>3. CASE Head(up) \in Joins(c)
    <3>1. Head(up).channel = c
      BY <2>3 DEF Joins
    <3>2. c \in unheard'
      BY <1>20, <1>b, <3>1 DEF RefuseChannel
    <3> QED
      BY <1>a, <2>1, <2>2, <2>3, <3>2, FollowsHandled
  <2>4. CASE Head(up) \notin Joins(c)
    <3>1. Head(up).channel # c
      BY <1>20, <2>4, HeadOfUp DEF RefuseChannel, Free, Joins
    <3>2. (c \notin unheard' => c \notin unheard) /\ (Me \in members'[c] <=> Me \in members[c])
      BY <1>20, <1>b, <3>1 DEF RefuseChannel
    <3> QED
      BY <1>a, <2>1, <2>2, <2>4, <3>2, FollowsHandled
  <2> QED
    BY <2>3, <2>4
<1>21. CASE LeaveChannel
  <2>1. up # <<>> /\ up' = Tail(up) /\ UNCHANGED listening
    BY <1>21 DEF LeaveChannel, Free
  <2>2. Head(up) \notin Joins(c)
    BY <1>21 DEF LeaveChannel, Free, Joins, Leaves
  <2>3. CASE Head(up) \in Leaves(c)
    <3>1. Head(up).channel = c
      BY <2>3 DEF Leaves
    <3>2. Me \notin members'[c]
      BY <1>21, <1>b, <3>1 DEF LeaveChannel
    <3> QED
      BY <1>a, <2>1, <2>2, <2>3, <3>2, FollowsHandled
  <2>4. CASE Head(up) \notin Leaves(c)
    <3>1. Head(up).channel # c
      BY <1>21, <2>4, HeadOfUp DEF LeaveChannel, Free, Leaves
    <3>2. (c \notin unheard' => c \notin unheard) /\ (Me \in members'[c] <=> Me \in members[c])
      BY <1>21, <1>b, <3>1 DEF LeaveChannel
    <3> QED
      BY <1>a, <2>1, <2>2, <2>4, <3>2, FollowsHandled
  <2> QED
    BY <2>3, <2>4
<1>22. CASE BeginRosters
  BY <1>22, <1>c DEF BeginRosters, Free
<1>23. CASE Forward
  BY <1>23, <1>c DEF Forward
<1>24. ASSUME NEW u \in Other, Broadcast(u) PROVE FollowsIn(c)'
  BY <1>24, <1>c DEF Broadcast
<1>25. ASSUME NEW u \in Other, NEW ch \in Channel, Move(u, ch) PROVE FollowsIn(c)'
  <2>1. Me \in members'[c] <=> Me \in members[c]
    BY <1>25, <1>b DEF Move
  <2> QED
    BY <1>25, <2>1, <1>c DEF Move
<1>26. CASE UNCHANGED vars
  BY <1>26, <1>c DEF vars
<1> QED
  BY <1>1, <1>2, <1>3, <1>4, <1>5, <1>6, <1>7, <1>8, <1>9, <1>10, <1>11, <1>12, <1>13,
     <1>14, <1>15, <1>16, <1>17, <1>18, <1>19, <1>20, <1>21, <1>22, <1>23, <1>24, <1>25,
     <1>26 DEF Next


----------------------------------------------------------------------------
(* What the mail that is on its way says of a user and a channel.  The     *)
(* server's answers are ahead of the notices in the outbox, and the lists  *)
(* that are being read will be one of these answers.                       *)
Adds(ch, u) ==
  {m \in Message : \/ m.type = "user_joined" /\ m.channel = ch /\ m.user = u
                   \/ m.type = "all_channel_rosters" /\ ch \in DOMAIN m.lists /\
                      u \in m.lists[ch]}
Drops(ch, u) == {m \in Message : m.type = "user_left" /\ m.channel = ch /\ m.user = u}

Listing(lists, ch, u) == ch \in DOMAIN lists /\ u \in lists[ch]
Shown(ch, u) ==
  \/ Says(down, Adds(ch, u), Drops(ch, u))
  \/ Never(down, Drops(ch, u)) /\ u \in rosters_[ch]

(* Whether the roster will have the user when all of it is applied.        *)
Roster(ch, u) ==
  \/ Says(outbox, Adds(ch, u), Drops(ch, u))
  \/ Never(outbox, Drops(ch, u)) /\ (Shown(ch, u) \/ Listing(got, ch, u))

Live == ws # "closed" /\ socket = "main"
Owes(ch, u) == casting[u] # NoNotice /\ casting[u].channel = ch
Noted(ch, u) == ~Never(outbox, Adds(ch, u)) \/ ~Never(outbox, Drops(ch, u))

InformedOf(ch, u) ==
  /\ Me \notin members[ch] => ~Noted(ch, u) /\ (Unread(ch) => ~Roster(ch, u))
  /\ Me \in members[ch] /\ ~Owes(ch, u) =>
       /\ (Unread(ch) \/ ch \in scanned) /\ Roster(ch, u) => u \in members[ch]
       /\ (Noted(ch, u) \/ ch \in scanned) /\ u \in members[ch] => Roster(ch, u)

Informed == Live => \A ch \in Channel \ astray, u \in Other : InformedOf(ch, u)

(* The same for the list of users, which is about one channel: the last    *)
(* one that was joined.                                                    *)
Opens(ch)     == {m \in Message : m.type = "channel_joined" /\ m.channel = ch}
OpensElse(ch) == {m \in Message : m.type = "channel_joined" /\ m.channel # ch}
Shows(ch, u) ==
  {m \in Message : \/ m.type = "user_joined" /\ m.channel = ch /\ m.user = u
                   \/ m.type = "channel_joined" /\ m.channel = ch /\ u \in m.users}
Hides(ch, u) ==
  {m \in Message : \/ m.type = "user_left" /\ m.channel = ch /\ m.user = u
                   \/ m.type = "channel_joined" /\ ~(m.channel = ch /\ u \in m.users)}

Ends(ch) ==
  \/ Says(down, Opens(ch), OpensElse(ch))
  \/ Never(down, OpensElse(ch)) /\ currentChannelId_ = ch
Rows(ch, u) ==
  \/ Says(down, Shows(ch, u), Hides(ch, u))
  \/ Never(down, Hides(ch, u)) /\ currentChannelId_ = ch /\ userList_[u] > 0
Row(ch, u) ==
  \/ Says(outbox, Adds(ch, u), Drops(ch, u))
  \/ Never(outbox, Drops(ch, u)) /\ Rows(ch, u)

ListedIn(ch, u) == Me \in members[ch] /\ ~Owes(ch, u) /\ Ends(ch) /\ u \in members[ch] =>
  Row(ch, u)

Listed == Live => \A ch \in Channel \ astray, u \in Other : ListedIn(ch, u)

(* A channel that was opened and never left is one the user is in.         *)
Entered ==
  ws # "closed" => \A ch \in Channel \ astray :
    currentChannelId_ = ch \/ ~Never(down, Opens(ch)) => Me \in members[ch]

(* What each kind of message says.                                         *)
LEMMA MailKinds ==
  ASSUME NEW ch, NEW u, NEW m \in Message
  PROVE  /\ m.type \in {"auth_result", "key_exchange_init", "error"} =>
              /\ m \notin Adds(ch, u) /\ m \notin Drops(ch, u)
              /\ m \notin Opens(ch) /\ m \notin OpensElse(ch)
              /\ m \notin Shows(ch, u) /\ m \notin Hides(ch, u)
         /\ m.type = "channel_joined" =>
              /\ m \notin Adds(ch, u) /\ m \notin Drops(ch, u)
              /\ m \in Opens(ch) <=> m.channel = ch
              /\ m \in OpensElse(ch) <=> m.channel # ch
              /\ m \in Shows(ch, u) <=> m.channel = ch /\ u \in m.users
              /\ m \in Hides(ch, u) <=> ~(m.channel = ch /\ u \in m.users)
         /\ m.type = "all_channel_rosters" =>
              /\ m \in Adds(ch, u) <=> Listing(m.lists, ch, u)
              /\ m \notin Drops(ch, u) /\ m \notin Opens(ch) /\ m \notin OpensElse(ch)
              /\ m \notin Shows(ch, u) /\ m \notin Hides(ch, u)
         /\ m.type \in {"user_joined", "user_left"} =>
              /\ m \notin Opens(ch) /\ m \notin OpensElse(ch)
              /\ m \in Adds(ch, u) <=> m.type = "user_joined" /\ m.channel = ch /\ m.user = u
              /\ m \in Drops(ch, u) <=> m.type = "user_left" /\ m.channel = ch /\ m.user = u
              /\ m \in Shows(ch, u) <=> m \in Adds(ch, u)
              /\ m \in Hides(ch, u) <=> m \in Drops(ch, u)
  BY DEF Adds, Drops, Opens, OpensElse, Shows, Hides, Listing

LEMMA SayingIsOne ==
  ASSUME NEW ch, NEW u, NEW m
  PROVE  /\ ~(m \in Adds(ch, u) /\ m \in Drops(ch, u))
         /\ ~(m \in Opens(ch) /\ m \in OpensElse(ch))
         /\ ~(m \in Shows(ch, u) /\ m \in Hides(ch, u))
         /\ m \in Opens(ch) => m \in Shows(ch, u) \/ m \in Hides(ch, u)
  BY DEF Adds, Drops, Opens, OpensElse, Shows, Hides

(* The window applies the message it takes as the message says.            *)
Received ==
  \/ OnLogin \/ OnKeyExchange \/ OnError \/ OnChannelJoined
  \/ OnUserJoined \/ OnUserLeft \/ OnRosters

AppliedTo(ch, u, h) ==
  /\ u \in rosters_'[ch] <=> h \in Adds(ch, u) \/ (u \in rosters_[ch] /\ h \notin Drops(ch, u))
  /\ currentChannelId_' = ch <=> h \in Opens(ch) \/
     (currentChannelId_ = ch /\ h \notin OpensElse(ch))
  /\ \/ h \in Shows(ch, u) /\ (currentChannelId_ = ch \/ h \in Opens(ch))
     \/ h \notin Hides(ch, u) /\ currentChannelId_ = ch /\ userList_[u] > 0
     => currentChannelId_' = ch /\ userList_'[u] > 0

LEMMA Applied ==
  ASSUME Types, Received, NEW ch \in Channel, NEW u \in Other
  PROVE  AppliedTo(ch, u, Head(down)) /\ down # <<>> /\ down' = Tail(down)
<1> DEFINE h == Head(down)
<1>0. down # <<>> /\ down' = Tail(down)
  BY DEF Received, OnLogin, OnKeyExchange, OnError, OnChannelJoined, OnUserJoined, OnUserLeft,
     OnRosters, handle_key_exchange_init, handle_all_channel_rosters, Arrives, Take
<1>1. /\ h \in Message
      /\ h.type = "channel_joined" => h.channel \in Channel /\ h.users \subseteq User
      /\ h.type \in {"user_joined", "user_left"} => h.channel \in Channel /\ h.user \in Other
      /\ h.type = "all_channel_rosters" => h.lists \in Lists
  BY <1>0, HeadOfDown
<1>2. rosters_ \in [Channel -> SUBSET Other] /\ userList_ \in [Other -> Nat] /\ u # Me
  BY DEF Types, Sets
<1>3. CASE UNCHANGED <<rosters_, userList_, currentChannelId_>>
           /\ h.type \in {"auth_result", "key_exchange_init", "error"}
  BY <1>0, <1>1, <1>3, MailKinds DEF AppliedTo
<1>4. CASE OnChannelJoined
  <2>1. h.type = "channel_joined" /\ UNCHANGED rosters_ /\ currentChannelId_' = h.channel
        /\ userList_' = [v \in Other |-> IF v \in h.users THEN 1 ELSE 0]
    BY <1>4 DEF OnChannelJoined, Arrives, ShowUsers, onWsChannelJoined
  <2>2. u \in h.users => userList_'[u] > 0
    BY <2>1
  <2> HIDE DEF h
  <2>3. AppliedTo(ch, u, h)
    BY <1>1, <2>1, <2>2, MailKinds DEF AppliedTo
  <2> QED
    BY <1>0, <2>3 DEF h
<1>5. CASE OnUserJoined
  <2>1. /\ h.type = "user_joined" /\ UNCHANGED currentChannelId_
        /\ rosters_' = [rosters_ EXCEPT ![h.channel] = @ \cup {h.user}]
        /\ userList_' = IF h.channel = currentChannelId_
                          THEN [userList_ EXCEPT ![h.user] = @ + 1] ELSE userList_
    BY <1>5 DEF OnUserJoined, Arrives, onWsUserJoined, AddUser
  <2> HIDE DEF h
  <2>2. u \in rosters_'[ch] <=> (ch = h.channel /\ u = h.user) \/ u \in rosters_[ch]
    BY <1>1, <1>2, <2>1
  <2>3. /\ userList_[u] > 0 => userList_'[u] > 0
        /\ h.channel = currentChannelId_ /\ h.user = u => userList_'[u] > 0
    BY <1>1, <1>2, <2>1
  <2>4. AppliedTo(ch, u, h)
    BY <1>1, <2>1, <2>2, <2>3, MailKinds DEF AppliedTo
  <2> QED
    BY <1>0, <2>4 DEF h
<1>6. CASE OnUserLeft
  <2>1. /\ h.type = "user_left" /\ UNCHANGED currentChannelId_
        /\ rosters_' = [rosters_ EXCEPT ![h.channel] = @ \ {h.user}]
        /\ userList_' = IF h.channel = currentChannelId_ /\ userList_[h.user] > 0
                          THEN [userList_ EXCEPT ![h.user] = @ - 1] ELSE userList_
    BY <1>6 DEF OnUserLeft, Arrives, onWsUserLeft, RemoveUser
  <2> HIDE DEF h
  <2>2. u \in rosters_'[ch] <=> ~(ch = h.channel /\ u = h.user) /\ u \in rosters_[ch]
    BY <1>1, <1>2, <2>1
  <2>3. userList_[u] > 0 /\ ~(h.channel = currentChannelId_ /\ h.user = u) => userList_'[u] > 0
    BY <1>1, <1>2, <2>1
  <2>4. AppliedTo(ch, u, h)
    BY <1>1, <2>1, <2>2, <2>3, MailKinds DEF AppliedTo
  <2> QED
    BY <1>0, <2>4 DEF h
<1>7. CASE OnRosters
  <2>1. /\ h.type = "all_channel_rosters" /\ UNCHANGED <<currentChannelId_, userList_>>
        /\ rosters_' = [c \in Channel |->
             rosters_[c] \cup IF c \in DOMAIN h.lists THEN h.lists[c] \ {Me} ELSE {}]
    BY <1>7 DEF OnRosters, handle_all_channel_rosters, Arrives, updateAllRosters
  <2> HIDE DEF h
  <2>2. u \in rosters_'[ch] <=> u \in rosters_[ch] \/ Listing(h.lists, ch, u)
    BY <1>2, <2>1 DEF Listing
  <2>3. AppliedTo(ch, u, h)
    BY <1>1, <2>1, <2>2, MailKinds DEF AppliedTo
  <2> QED
    BY <1>0, <2>3 DEF h
<1>8. CASE OnLogin
  BY <1>3, <1>8 DEF OnLogin, Arrives
<1>9. CASE OnKeyExchange
  BY <1>3, <1>9 DEF OnKeyExchange, handle_key_exchange_init, Arrives, shown
<1>10. CASE OnError
  BY <1>3, <1>10 DEF OnError, Arrives, client, shown
<1> QED
  BY <1>4, <1>5, <1>6, <1>7, <1>8, <1>9, <1>10 DEF Received

(* So taking a message changes nothing of what all the mail says.          *)
LEMMA ShownTaken ==
  ASSUME Types, Received, NEW ch \in Channel, NEW u \in Other
  PROVE  Shown(ch, u)' <=> Shown(ch, u)
<1> DEFINE A == Adds(ch, u)
           D == Drops(ch, u)
           h == Head(down)
<1>1. down # <<>> /\ down' = Tail(down)
      /\ (u \in rosters_'[ch] <=> h \in A \/ (u \in rosters_[ch] /\ h \notin D))
  BY Applied DEF AppliedTo
<1>2. /\ Never(down, D) <=> h \notin D /\ Never(Tail(down), D)
      /\ Says(down, A, D) <=> Says(Tail(down), A, D) \/ (h \in A /\ Never(Tail(down), D))
  BY <1>1, DownTaken
<1>3. Shown(ch, u)' <=> Says(down', A, D) \/ (Never(down', D) /\ u \in rosters_'[ch])
  BY DEF Shown
<1>4. Shown(ch, u) <=> Says(down, A, D) \/ (Never(down, D) /\ u \in rosters_[ch])
  BY DEF Shown
<1>5. ~(h \in A /\ h \in D)
  BY SayingIsOne
<1> HIDE DEF A, D, h
<1> QED
  BY <1>1, <1>2, <1>3, <1>4, <1>5

LEMMA EndsTaken ==
  ASSUME Types, Received, NEW ch \in Channel, NEW u \in Other
  PROVE  (Ends(ch)' <=> Ends(ch)) /\ (Ends(ch) /\ Rows(ch, u) => Rows(ch, u)')
<1> DEFINE O == Opens(ch)
           E == OpensElse(ch)
           S == Shows(ch, u)
           H == Hides(ch, u)
           h == Head(down)
           t == Tail(down)
           base == currentChannelId_ = ch /\ userList_[u] > 0
<1>1. AppliedTo(ch, u, h) /\ down # <<>> /\ down' = t /\ t \in Seq(Message)
  BY Applied, HeadOfDown
<1>2. /\ Never(down, E) <=> h \notin E /\ Never(t, E)
      /\ Says(down, O, E) <=> Says(t, O, E) \/ (h \in O /\ Never(t, E))
      /\ Never(down, H) <=> h \notin H /\ Never(t, H)
      /\ Says(down, S, H) <=> Says(t, S, H) \/ (h \in S /\ Never(t, H))
  BY <1>1, DownTaken
<1>3. ~(h \in O /\ h \in E) /\ ~(h \in S /\ h \in H)
  BY SayingIsOne
<1>4. /\ currentChannelId_' = ch <=> h \in O \/ (currentChannelId_ = ch /\ h \notin E)
      /\ \/ h \in S /\ (currentChannelId_ = ch \/ h \in O)
         \/ h \notin H /\ currentChannelId_ = ch /\ userList_[u] > 0
         => currentChannelId_' = ch /\ userList_'[u] > 0
  BY <1>1 DEF AppliedTo
<1>5. /\ Ends(ch)' <=> Says(t, O, E) \/ (Never(t, E) /\ currentChannelId_' = ch)
      /\ Rows(ch, u)' <=> Says(t, S, H) \/
         (Never(t, H) /\ currentChannelId_' = ch /\ userList_'[u] > 0)
  BY <1>1 DEF Ends, Rows
<1>6. /\ Ends(ch) <=> Says(down, O, E) \/ (Never(down, E) /\ currentChannelId_ = ch)
      /\ Rows(ch, u) <=> Says(down, S, H) \/
         (Never(down, H) /\ currentChannelId_ = ch /\ userList_[u] > 0)
  BY DEF Ends, Rows
<1>7. Says(t, O, E) /\ Never(t, H) => Says(t, S, H)
  <2> SUFFICES ASSUME Says(t, O, E), Never(t, H) PROVE Says(t, S, H)
    OBVIOUS
  <2>1. ~Never(t, S)
    BY SayingIsOne DEF Says, Never
  <2> QED
    BY <1>1, <2>1, SaysSomething
<1> HIDE DEF O, E, S, H, h, t
<1>8. Ends(ch)' <=> Ends(ch)
  BY <1>2, <1>3, <1>4, <1>5, <1>6
<1>9. ASSUME Ends(ch), Rows(ch, u) PROVE Rows(ch, u)'
  BY <1>2, <1>3, <1>4, <1>5, <1>6, <1>7, <1>9
<1> QED
  BY <1>8, <1>9

LEMMA DownKept ==
  ASSUME Types, NEW ch \in Channel, NEW u \in Other, NEW m \in Message, down' = Append(down, m),
         UNCHANGED <<rosters_, currentChannelId_, userList_>>
  PROVE  /\ Shown(ch, u)' <=> m \in Adds(ch, u) \/ (Shown(ch, u) /\ m \notin Drops(ch, u))
         /\ Ends(ch)' <=> m \in Opens(ch) \/ (Ends(ch) /\ m \notin OpensElse(ch))
         /\ Rows(ch, u)' <=> m \in Shows(ch, u) \/ (Rows(ch, u) /\ m \notin Hides(ch, u))
<1>1. /\ \A no : Never(down', no) <=> Never(down, no) /\ m \notin no
      /\ \A yes, no : Says(down', yes, no) <=> m \in yes \/ (Says(down, yes, no) /\ m \notin no)
  BY DownAppended
<1>2. Shown(ch, u)' <=> m \in Adds(ch, u) \/ (Shown(ch, u) /\ m \notin Drops(ch, u))
  BY <1>1, SayingIsOne DEF Shown
<1>3. Ends(ch)' <=> m \in Opens(ch) \/ (Ends(ch) /\ m \notin OpensElse(ch))
  BY <1>1, SayingIsOne DEF Ends
<1>4. Rows(ch, u)' <=> m \in Shows(ch, u) \/ (Rows(ch, u) /\ m \notin Hides(ch, u))
  BY <1>1, SayingIsOne DEF Rows
<1> QED
  BY <1>2, <1>3, <1>4

LEMMA OutboxFacts ==
  ASSUME Types, NEW yes, NEW no
  PROVE  /\ \A m \in Notice :
              /\ Never(Append(outbox, m), no) <=> Never(outbox, no) /\ m \notin no
              /\ Says(Append(outbox, m), yes, no) <=>
                 m \in yes \/ (Says(outbox, yes, no) /\ m \notin no)
         /\ outbox # <<>> =>
              /\ Never(outbox, no) <=> Head(outbox) \notin no /\ Never(Tail(outbox), no)
              /\ Says(outbox, yes, no) <=>
                   Says(Tail(outbox), yes, no) \/
                     (Head(outbox) \in yes /\ Never(Tail(outbox), no))
         /\ ~Never(outbox, yes) /\ Never(outbox, no) => Says(outbox, yes, no)
<1>1. outbox \in Seq(Notice)
  BY DEF Types, Queues
<1> QED
  BY <1>1, SaysAppended, SaysTaken, SaysSomething

(* Forwarding a notice changes nothing either.                             *)
LEMMA ForwardSame ==
  ASSUME Types, Reads, Forward, NEW ch \in Channel, NEW u \in Other
  PROVE  /\ Roster(ch, u)' <=> Roster(ch, u)
         /\ Noted(ch, u)' => Noted(ch, u)
         /\ Ends(ch)' <=> Ends(ch)
         /\ Row(ch, u)' <=> Row(ch, u)
<1> DEFINE A == Adds(ch, u)
           D == Drops(ch, u)
           h == Head(outbox)
           t == Tail(outbox)
<1>1. outbox # <<>> /\ outbox' = t /\ down' = Append(down, h) /\ got = <<>> /\ got' = got
      /\ UNCHANGED <<rosters_, currentChannelId_, userList_>>
  BY DEF Forward, Reads, client, shown
<1>2. h \in Notice
  BY <1>1 DEF Types, Queues
<1>3. h \in Message /\ h.type \in {"user_joined", "user_left"}
  BY <1>2, NoticeParts
<1>4. /\ Shown(ch, u)' <=> h \in A \/ (Shown(ch, u) /\ h \notin D)
      /\ Ends(ch)' <=> Ends(ch)
      /\ Rows(ch, u)' <=> h \in A \/ (Rows(ch, u) /\ h \notin D)
  BY <1>1, <1>3, DownKept, MailKinds
<1>5. /\ Never(outbox, A) <=> h \notin A /\ Never(t, A)
      /\ Never(outbox, D) <=> h \notin D /\ Never(t, D)
      /\ Says(outbox, A, D) <=> Says(t, A, D) \/ (h \in A /\ Never(t, D))
  BY <1>1, OutboxFacts
<1>6. ~Listing(got, ch, u) /\ ~Listing(got, ch, u)'
  BY <1>1 DEF Listing
<1>7. /\ Roster(ch, u)' <=> Says(t, A, D) \/ (Never(t, D) /\ Shown(ch, u)')
      /\ Row(ch, u)' <=> Says(t, A, D) \/ (Never(t, D) /\ Rows(ch, u)')
      /\ Noted(ch, u)' <=> ~Never(t, A) \/ ~Never(t, D)
  BY <1>1, <1>6 DEF Roster, Row, Noted
<1>8. /\ Roster(ch, u) <=> Says(outbox, A, D) \/ (Never(outbox, D) /\ Shown(ch, u))
      /\ Row(ch, u) <=> Says(outbox, A, D) \/ (Never(outbox, D) /\ Rows(ch, u))
      /\ Noted(ch, u) <=> ~Never(outbox, A) \/ ~Never(outbox, D)
  BY <1>6 DEF Roster, Row, Noted
<1>9. ~(h \in A /\ h \in D)
  BY SayingIsOne
<1> HIDE DEF A, D, h, t
<1> QED
  BY <1>4, <1>5, <1>7, <1>8, <1>9

(* The steps of the window and the server that are about the mail.         *)
Elsewhere ==
  /\ UNCHANGED <<down, outbox, rosters_, userList_, currentChannelId_>>
  /\ UNCHANGED <<members, casting, got, scanned>>
  /\ astray \subseteq astray'

Serving ==
  \/ Authenticate \/ JoinChannel \/ RefuseChannel \/ LeaveChannel \/ Forward
  \/ \E ch \in Channel : ReadRoster(ch)
  \/ \E u \in Other : Broadcast(u) \/ \E ch \in Channel : Move(u, ch)

LEMMA StepKinds ==
  Reads /\ [Next]_vars /\ ws' # "closed" => Elsewhere \/ EndGuest \/ Received \/ Serving
<1> SUFFICES ASSUME Reads, [Next]_vars, ws' # "closed"
             PROVE  Elsewhere \/ EndGuest \/ Received \/ Serving
  OBVIOUS
<1> USE DEF client, shown, server, past
<1>1. CASE Dialog \/ DialogSucceeds \/ OpenWindow
  BY <1>1 DEF Dialog, DialogSucceeds, OpenWindow, Elsewhere
<1>2. CASE OnConnected \/ RequestRosters
  BY <1>2 DEF OnConnected, RequestRosters, Elsewhere
<1>3. ASSUME NEW ch \in Channel, Listen(ch) \/ Unlisten(ch) PROVE Elsewhere
  BY <1>3 DEF Listen, Unlisten, Ask, Elsewhere
<1>4. CASE BeginRosters
  BY <1>4 DEF BeginRosters, Free, Reads, Elsewhere
<1>5. CASE UNCHANGED vars
  BY <1>5 DEF vars, Elsewhere
<1>6. ~OnDisconnected
  BY DEF OnDisconnected
<1> QED
  BY <1>1, <1>2, <1>3, <1>4, <1>5, <1>6 DEF Next, Received, Serving

LEMMA GoesLive == [Next]_vars /\ Live' => Live \/ Authenticate
  BY StaysOpen DEF Live, Next, vars, Dialog, DialogSucceeds, EndGuest, OpenWindow, OnConnected,
     OnDisconnected, RequestRosters, Listen, Unlisten, ReadRoster, OnLogin, OnKeyExchange,
       OnError,
     OnChannelJoined, OnUserJoined, OnUserLeft, OnRosters, JoinChannel,
     RefuseChannel, LeaveChannel, BeginRosters, Forward, Broadcast, Move,
     client, shown, server, past

LEMMA AstrayGrows == [Next]_vars => astray \subseteq astray'
  BY DEF Next, vars, Dialog, DialogSucceeds, EndGuest, OpenWindow, OnConnected,
     OnDisconnected, RequestRosters, Listen, Unlisten, Ask, ReadRoster, OnLogin, OnKeyExchange,
     OnError, OnChannelJoined, OnUserJoined, OnUserLeft, OnRosters, Authenticate, JoinChannel,
     RefuseChannel, LeaveChannel, BeginRosters, Forward, Broadcast, Move,
     client, shown, server, past

(* The server has nothing of this user when it handles the login.          *)
LEMMA AtLogin ==
  ASSUME Types, Fresh, Authenticate
  PROVE  /\ down = <<>> /\ outbox = <<>> /\ todo = {} /\ scanned = {}
         /\ \A ch \in Channel : Me \notin members[ch] /\ rosters_[ch] = {}
<1>1. up # <<>> /\ Head(up) \in Logins
  BY HeadOfUp DEF Authenticate, Free, Logins
<1> QED
  BY <1>1, UpTaken DEF Fresh, Opening

(* What stays the same when the server answers.                            *)
LEMMA JoinAnswer ==
  ASSUME Types, JoinChannel
  PROVE  \E m \in Message :
           /\ down' = Append(down, m) /\ m.type = "channel_joined"
           /\ m.channel = Head(up).channel /\ m.users = members[Head(up).channel] \cup {Me}
           /\ Head(up).channel \in Channel
<1> DEFINE c == Head(up).channel
           users == members[c] \cup {Me}
           m == [type |-> "channel_joined", channel |-> c, users |-> users]
<1>1. c \in Channel /\ users \in SUBSET User
  BY HeadOfUp DEF JoinChannel, Free, Types, Sets, User
<1>2. down' = Append(down, m)
  BY DEF JoinChannel, Send
<1>3. m \in Message /\ m.type = "channel_joined" /\ m.channel = c /\ m.users = users
  BY <1>1, Formed
<1> QED
  BY <1>1, <1>2, <1>3

LEMMA RefusalAnswer ==
  ASSUME RefuseChannel
  PROVE  \E m \in Message : down' = Append(down, m) /\ m.type = "error"
<1> DEFINE m == [type |-> "error"]
<1>1. m \in Message /\ m.type = "error" /\ down' = Append(down, m)
  BY Formed DEF RefuseChannel, Send
<1> QED
  BY <1>1

LEMMA ReadingAnswer ==
  ASSUME Types, NEW c \in Channel, ReadRoster(c)
  PROVE  \E lists \in {got, Lengthened(c)} :
           /\ scanned' = IF c \in DOMAIN lists /\
              Me \in members[c] THEN scanned \cup {c} ELSE scanned
           /\ \/ todo # {c} /\ UNCHANGED down /\ got' = lists
              \/ /\ todo = {c} /\ got' = <<>>
                 /\ \E m \in Message : /\ m.type = "all_channel_rosters" /\ m.lists = lists
                                       /\ down' = Append(down, m)
<1>1. PICK lists \in {got, Lengthened(c)} :
        /\ scanned' = IF c \in DOMAIN lists /\
           Me \in members[c] THEN scanned \cup {c} ELSE scanned
        /\ IF todo = {c}
             THEN Send([type |-> "all_channel_rosters", lists |-> lists]) /\ got' = <<>>
             ELSE got' = lists /\ UNCHANGED <<up, down>>
  BY DEF ReadRoster, Lengthened
<1>2. lists \in Lists
  BY ListsRead
<1> DEFINE m == [type |-> "all_channel_rosters", lists |-> lists]
<1>3. m \in Message /\ m.type = "all_channel_rosters" /\ m.lists = lists
  BY <1>2, Formed
<1>4. todo = {c} => down' = Append(down, m)
  BY <1>1 DEF Send
<1> HIDE DEF m
<1> QED
  BY <1>1, <1>3, <1>4

LEMMA EnteredStep ==
  Types /\ Fresh /\ Reads /\ Entered /\ [Next]_vars => Entered'
<1> SUFFICES ASSUME Types, Fresh, Reads, Entered, [Next]_vars, ws' # "closed",
                    NEW ch \in Channel, ch \notin astray',
                    currentChannelId_' = ch \/ ~Never(down', Opens(ch))
             PROVE  Me \in members'[ch]
  BY DEF Entered
<1>1. ch \notin astray /\ (currentChannelId_ = ch \/ ~Never(down, Opens(ch)) =>
      Me \in members[ch])
  BY AstrayGrows, StaysOpen DEF Entered
<1>2. members \in [Channel -> SUBSET User] /\ Me \notin Other
  BY DEF Types, Sets
<1>3. ASSUME NEW m \in Message, down' = Append(down, m), UNCHANGED <<currentChannelId_, members>>,
             m \notin Opens(ch)
      PROVE  Me \in members'[ch]
  BY <1>1, <1>3, DownAppended
<1> USE DEF client, shown, server, past
<1>4. CASE Elsewhere
  BY <1>1, <1>4 DEF Elsewhere
<1>5. CASE EndGuest
  BY <1>1, <1>5 DEF EndGuest
<1>6. CASE Received
  <2>1. down # <<>> /\ down' = Tail(down) /\ UNCHANGED members
    BY <1>6 DEF Received, OnLogin, OnKeyExchange, OnError, OnChannelJoined, OnUserJoined,
       OnUserLeft, OnRosters, handle_key_exchange_init, handle_all_channel_rosters, Arrives, Take
  <2>2. currentChannelId_' = currentChannelId_ \/ OnChannelJoined
    BY <1>6 DEF Received, OnLogin, OnKeyExchange, OnError, OnUserJoined, OnUserLeft, OnRosters
  <2>3. OnChannelJoined => Head(down) \in Opens(currentChannelId_')
    BY <2>1, HeadOfDown DEF OnChannelJoined, Arrives, onWsChannelJoined, Opens
  <2> QED
    BY <1>1, <2>1, <2>2, <2>3, DownTaken
<1>7. CASE Authenticate
  <2> DEFINE a == [type |-> "auth_result"]
             k == [type |-> "key_exchange_init"]
  <2>1. down' = <<a, k>> /\ UNCHANGED <<members, currentChannelId_>> /\ Never(down, Opens(ch))
    BY <1>7, AtLogin, SaysNothing DEF Authenticate
  <2>2. a \notin Opens(ch) /\ k \notin Opens(ch)
    BY DEF Opens
  <2> HIDE DEF a, k
  <2>3. Never(down', Opens(ch))
    BY <2>1, <2>2 DEF Never
  <2> QED
    BY <1>1, <2>1, <2>3
<1>8. CASE JoinChannel
  <2>1. PICK m \in Message : /\ down' = Append(down, m) /\ m.type = "channel_joined"
                             /\ m.channel = Head(up).channel /\ Head(up).channel \in Channel
    BY <1>8, JoinAnswer
  <2>2. /\ members' = [members EXCEPT ![Head(up).channel] = @ \cup {Me}]
        /\ UNCHANGED currentChannelId_
    BY <1>8 DEF JoinChannel
  <2>3. m \in Opens(ch) <=> m.channel = ch
    BY <2>1, MailKinds
  <2> QED
    BY <1>1, <1>2, <2>1, <2>2, <2>3, DownAppended
<1>9. CASE RefuseChannel
  <2>1. UNCHANGED <<currentChannelId_, members>>
    BY <1>9 DEF RefuseChannel
  <2> QED
    BY <1>3, <1>9, <2>1, RefusalAnswer, MailKinds
<1>10. CASE LeaveChannel
  BY <1>1, <1>2, <1>10 DEF LeaveChannel
<1>11. CASE Forward
  <2>1. Head(outbox) \in Message /\ Head(outbox).type \in {"user_joined", "user_left"}
    BY <1>11, NoticeParts DEF Forward, Types, Queues
  <2> QED
    BY <1>3, <1>11, <2>1, MailKinds DEF Forward
<1>12. ASSUME NEW c \in Channel, ReadRoster(c) PROVE Me \in members'[ch]
  <2>1. UNCHANGED <<currentChannelId_, members>>
    BY <1>12 DEF ReadRoster
  <2>2. UNCHANGED down \/ \E m \in Message : m.type = "all_channel_rosters" /\
        down' = Append(down, m)
    BY <1>12, ReadingAnswer
  <2> QED
    BY <1>1, <1>3, <2>1, <2>2, MailKinds
<1>13. ASSUME NEW v \in Other, Broadcast(v) PROVE Me \in members'[ch]
  BY <1>1, <1>13 DEF Broadcast
<1>14. ASSUME NEW v \in Other, NEW c \in Channel, Move(v, c) PROVE Me \in members'[ch]
  BY <1>1, <1>2, <1>14 DEF Move
<1> QED
  BY <1>4, <1>5, <1>6, <1>7, <1>8, <1>9, <1>10, <1>11, <1>12, <1>13, <1>14, StepKinds DEF Serving

(* A step that leaves the mail, the members and the debts as they are.     *)
LEMMA InformedSame ==
  ASSUME NEW ch \in Channel, NEW u \in Other, InformedOf(ch, u), Unread(ch)' => Unread(ch),
         Roster(ch, u)' <=> Roster(ch, u), Noted(ch, u)' => Noted(ch, u),
         ch \in scanned' => ch \in scanned,
         Me \in members'[ch] <=> Me \in members[ch], u \in members'[ch] <=> u \in members[ch],
         Owes(ch, u) => Owes(ch, u)'
  PROVE  InformedOf(ch, u)'
  BY DEF InformedOf

LEMMA MailSame ==
  ASSUME NEW ch \in Channel, NEW u \in Other, UNCHANGED outbox
  PROVE  /\ Noted(ch, u)' <=> Noted(ch, u)
         /\ (Shown(ch, u)' <=> Shown(ch, u)) /\ got' = got => (Roster(ch, u)' <=> Roster(ch, u))
         /\ (Rows(ch, u) => Rows(ch, u)') => (Row(ch, u) => Row(ch, u)')
  BY DEF Noted, Roster, Row, Listing

(* Reading one channel's list.                                             *)
LEMMA InformedRead ==
  ASSUME Types, Asking, Reads, Scans, ws # "closed", NEW c \in Channel, ReadRoster(c),
         NEW ch \in Channel, NEW u \in Other, ch \notin astray, InformedOf(ch, u),
         Unread(ch)' => Unread(ch)
  PROVE  InformedOf(ch, u)'
<1> DEFINE A == Adds(ch, u)
           D == Drops(ch, u)
<1>1. /\ c \in todo /\ todo' = todo \ {c}
      /\ UNCHANGED <<outbox, members, casting, rosters_, currentChannelId_, userList_>>
  BY DEF ReadRoster, client, shown
<1>2. PICK lists \in {got, Lengthened(c)} :
        /\ scanned' = IF c \in DOMAIN lists /\
           Me \in members[c] THEN scanned \cup {c} ELSE scanned
        /\ \/ todo # {c} /\ UNCHANGED down /\ got' = lists
           \/ /\ todo = {c} /\ got' = <<>>
              /\ \E m \in Message : /\ m.type = "all_channel_rosters" /\ m.lists = lists
                                    /\ down' = Append(down, m)
  BY ReadingAnswer
<1>3. Shown(ch, u)' \/ Listing(got', ch, u) <=> Shown(ch, u) \/ Listing(lists, ch, u)
  <2>1. CASE todo # {c}
    <3>1. Shown(ch, u)' <=> Shown(ch, u)
      BY <1>1, <1>2, <2>1 DEF Shown
    <3> QED
      BY <1>2, <2>1, <3>1
  <2>2. CASE todo = {c}
    <3>1. PICK m \in Message : /\ m.type = "all_channel_rosters" /\ m.lists = lists
                               /\ down' = Append(down, m)
      BY <1>2, <2>2
    <3>2. Shown(ch, u)' <=> m \in A \/ (Shown(ch, u) /\ m \notin D)
      BY <1>1, <3>1, DownKept
    <3>3. (m \in A <=> Listing(lists, ch, u)) /\ m \notin D
      BY <3>1, MailKinds
    <3>4. ~Listing(got', ch, u)
      BY <1>2, <2>2 DEF Listing
    <3> QED
      BY <3>2, <3>3, <3>4
  <2> QED
    BY <2>1, <2>2
<1>4. /\ Roster(ch, u)' <=> Says(outbox, A, D) \/
         (Never(outbox, D) /\ (Shown(ch, u) \/ Listing(lists, ch, u)))
      /\ Roster(ch, u) <=> Says(outbox, A, D) \/
         (Never(outbox, D) /\ (Shown(ch, u) \/ Listing(got, ch, u)))
      /\ Noted(ch, u)' <=> Noted(ch, u)
      /\ Noted(ch, u) <=> ~Never(outbox, A) \/ ~Never(outbox, D)
      /\ Owes(ch, u)' <=> Owes(ch, u)
  <2>1. Roster(ch, u)' <=> Says(outbox, A, D) \/
        (Never(outbox, D) /\ (Shown(ch, u)' \/ Listing(got', ch, u)))
    BY <1>1 DEF Roster, Listing
  <2> QED
    BY <1>1, <1>3, <2>1 DEF Roster, Noted, Owes
<1>5. c \notin DOMAIN got
  BY <1>1 DEF Reads
<1>6. CASE ch # c
  <2>1. Listing(lists, ch, u) <=> Listing(got, ch, u)
    BY <1>2, <1>6 DEF Listing, Lengthened
  <2>2. ch \in scanned' => ch \in scanned
    BY <1>2, <1>6
  <2> QED
    BY <1>1, <1>4, <2>1, <2>2, InformedSame
<1>7. CASE ch = c
  <2>1. Unread(ch) /\ ~Listing(got, ch, u) /\ ch \notin scanned
    BY <1>1, <1>5, <1>7 DEF Unread, Listing, Scans
  <2>2. ~Unread(ch)'
    <3>1. todo = {c} => ~Ahead'
      BY LastRead
    <3> QED
      BY <1>1, <1>7, <3>1 DEF Unread
  <2>3. /\ Listing(lists, ch, u) => u \in members[ch]
        /\ ch \in scanned' => Me \in members[ch] /\ (u \in members[ch] => Listing(lists, ch, u))
    BY <1>2, <1>5, <1>7, <2>1 DEF Listing, Lengthened
  <2> HIDE DEF A, D
  <2> QED
    BY <1>1, <1>4, <2>1, <2>2, <2>3 DEF InformedOf
<1> QED
  BY <1>6, <1>7

(* The notice of a move is sent.                                           *)
LEMMA BroadcastSays ==
  ASSUME Types, Casts, NEW v \in Other, Broadcast(v), socket = "main",
         NEW ch \in Channel, NEW u \in Other
  PROVE  /\ ~(v = u /\ Owes(ch, u) /\ Me \in members[ch]) =>
              /\ Roster(ch, u)' <=> Roster(ch, u)
              /\ Noted(ch, u)' <=> Noted(ch, u)
              /\ Row(ch, u)' <=> Row(ch, u)
              /\ (v # u \/ ~Owes(ch, u)) /\ Owes(ch, u) => Owes(ch, u)'
         /\ v = u /\ Owes(ch, u) /\ Me \in members[ch] =>
              /\ Roster(ch, u)' <=> u \in members[ch]
              /\ u \in members[ch] => Row(ch, u)'
<1> DEFINE A == Adds(ch, u)
           D == Drops(ch, u)
           m == casting[v]
<1>1. /\ m # NoNotice /\ casting' = [casting EXCEPT ![v] = NoNotice]
      /\ outbox' = IF Me \in members[m.channel] THEN Append(outbox, m) ELSE outbox
      /\ UNCHANGED <<down, rosters_, currentChannelId_, userList_, got, members>>
  BY DEF Broadcast, client, shown
<1>2. casting \in [Other -> Notice \cup {NoNotice}]
  BY DEF Types, Queues
<1>3. m \in Notice /\ m \in Message /\ m.type \in {"user_joined", "user_left"} /\ m.user = v
      /\ (m.type = "user_joined" <=> v \in members[m.channel])
  BY <1>1, <1>2, NoticeParts DEF Casts, CastOf
<1>4. /\ m \in A <=> m.type = "user_joined" /\ m.channel = ch /\ m.user = u
      /\ m \in D <=> m.type = "user_left" /\ m.channel = ch /\ m.user = u
  BY <1>3, MailKinds
<1>5. /\ Never(Append(outbox, m), A) <=> Never(outbox, A) /\ m \notin A
      /\ Never(Append(outbox, m), D) <=> Never(outbox, D) /\ m \notin D
      /\ Says(Append(outbox, m), A, D) <=> m \in A \/ (Says(outbox, A, D) /\ m \notin D)
  BY <1>3, OutboxFacts
<1>6. (Shown(ch, u)' <=> Shown(ch, u)) /\ (Rows(ch, u)' <=> Rows(ch, u))
      /\ (Listing(got, ch, u)' <=> Listing(got, ch, u))
  BY <1>1 DEF Shown, Rows, Listing
<1>7. /\ Roster(ch, u)' <=> Says(outbox', A, D) \/
         (Never(outbox', D) /\ (Shown(ch, u) \/ Listing(got, ch, u)))
      /\ Row(ch, u)' <=> Says(outbox', A, D) \/ (Never(outbox', D) /\ Rows(ch, u))
      /\ Noted(ch, u)' <=> ~Never(outbox', A) \/ ~Never(outbox', D)
  BY <1>6 DEF Roster, Row, Noted
<1>8. /\ Roster(ch, u) <=> Says(outbox, A, D) \/
         (Never(outbox, D) /\ (Shown(ch, u) \/ Listing(got, ch, u)))
      /\ Row(ch, u) <=> Says(outbox, A, D) \/ (Never(outbox, D) /\ Rows(ch, u))
      /\ Noted(ch, u) <=> ~Never(outbox, A) \/ ~Never(outbox, D)
  BY DEF Roster, Row, Noted
<1>9. CASE v = u /\ Owes(ch, u) /\ Me \in members[ch]
  <2>1. m.channel = ch /\ outbox' = Append(outbox, m)
    BY <1>1, <1>9 DEF Owes
  <2>2. (u \in members[ch] => m \in A) /\ (u \notin members[ch] => m \notin A /\ m \in D)
    BY <1>3, <1>4, <1>9, <2>1
  <2> HIDE DEF A, D, m
  <2> QED
    BY <1>5, <1>7, <1>9, <2>1, <2>2
<1>10. CASE ~(v = u /\ Owes(ch, u) /\ Me \in members[ch])
  <2>1. outbox' = outbox \/ (outbox' = Append(outbox, m) /\ m \notin A /\ m \notin D)
    BY <1>1, <1>3, <1>4, <1>10 DEF Owes
  <2>2. v # u => (Owes(ch, u)' <=> Owes(ch, u))
    BY <1>1, <1>2 DEF Owes
  <2> HIDE DEF A, D, m
  <2> QED
    BY <1>5, <1>7, <1>8, <1>10, <2>1, <2>2
<1> QED
  BY <1>9, <1>10

(* Who moves owes a notice about that channel, and no other.               *)
LEMMA MoveOwes ==
  ASSUME Types, NEW ch \in Channel, NEW u \in Other, Move(u, ch)
  PROVE  Owes(ch, u)'
<1> DEFINE n == [type |-> IF u \in members[ch] THEN "user_left" ELSE "user_joined",
                 channel |-> ch, user |-> u]
<1>1. casting' = [casting EXCEPT ![u] = n] /\ casting \in [Other -> Notice \cup {NoNotice}]
  BY DEF Move, Types, Queues
<1>2. n.channel = ch /\ n.type # "none" /\ NoNotice.type = "none"
  BY DEF NoNotice
<1> HIDE DEF n
<1> QED
  BY <1>1, <1>2 DEF Owes

LEMMA MoveElsewhere ==
  ASSUME Types, NEW v \in Other, NEW c \in Channel, Move(v, c), NEW ch \in Channel,
         NEW u \in Other,
         ~(v = u /\ c = ch)
  PROVE  (u \in members'[ch] <=> u \in members[ch]) /\ (Owes(ch, u) => Owes(ch, u)')
<1>1. members \in [Channel -> SUBSET User] /\ casting \in [Other -> Notice \cup {NoNotice}]
  BY DEF Types, Sets, Queues
<1>2. u \in members'[ch] <=> u \in members[ch]
  BY <1>1 DEF Move
<1>3. Owes(ch, u) => v # u
  BY DEF Move, Owes
<1>4. v # u => casting'[u] = casting[u]
  BY <1>1 DEF Move
<1> QED
  BY <1>2, <1>3, <1>4 DEF Owes

LEMMA InformedStep ==
  /\ Types /\ Asking /\ Reads /\ Fresh /\ Casts /\ Scans /\ Informed
  /\ [Next]_vars
  => Informed'
<1> SUFFICES ASSUME Types, Asking, Reads, Fresh, Casts, Scans, Informed, [Next]_vars, Live',
                    NEW ch \in Channel, ch \notin astray', NEW u \in Other
             PROVE  InformedOf(ch, u)'
  BY DEF Informed
<1>1. CASE Authenticate
  <2> DEFINE a == [type |-> "auth_result"]
             k == [type |-> "key_exchange_init"]
  <2>1. /\ down' = <<a, k>> /\ outbox' = <<>> /\ got' = <<>> /\ rosters_'[ch] = {}
        /\ Me \notin members'[ch]
    BY <1>1, AtLogin DEF Authenticate, Reads, client, shown
  <2>2. a \notin Adds(ch, u) /\ k \notin Adds(ch, u)
    BY DEF Adds
  <2>3. ~Noted(ch, u)'
    BY <2>1, SaysNothing DEF Noted
  <2>4. ~Says(down', Adds(ch, u), Drops(ch, u))
    <3> HIDE DEF a, k
    <3> QED
      BY <2>1, <2>2 DEF Says
  <2>5. ~Roster(ch, u)'
    <3>1. ~Shown(ch, u)'
      BY <2>1, <2>4 DEF Shown
    <3>2. ~Listing(got', ch, u) /\ ~Says(outbox', Adds(ch, u), Drops(ch, u))
      BY <2>1, SaysNothing DEF Listing
    <3> QED
      BY <3>1, <3>2 DEF Roster, Listing
  <2> QED
    BY <2>1, <2>3, <2>5 DEF InformedOf
<1>2. CASE ~Authenticate
  <2>1. Live /\ ws # "closed" /\ ws' # "closed" /\ socket = "main" /\ ch \notin astray /\
        InformedOf(ch, u)
    BY <1>2, GoesLive, AstrayGrows DEF Live, Informed
  <2>2. Unread(ch)' => Unread(ch)
    BY <2>1, UnreadStep
  <2>3. members \in [Channel -> SUBSET User] /\ Me \notin Other /\ u # Me
    BY DEF Types, Sets
  <2> USE DEF client, shown, server, past
  <2>4. CASE Elsewhere
    <3>1. /\ Roster(ch, u)' <=> Roster(ch, u)
          /\ Noted(ch, u)' <=> Noted(ch, u)
          /\ Owes(ch, u)' <=> Owes(ch, u)
      BY <2>4 DEF Elsewhere, Roster, Shown, Listing, Noted, Owes
    <3> QED
      BY <2>1, <2>2, <2>4, <3>1, InformedSame DEF Elsewhere
  <2>5. ~EndGuest
    BY DEF EndGuest, Live
  <2>6. CASE Received
    <3>1. UNCHANGED <<outbox, members, casting, got, scanned>>
      BY <2>6 DEF Received, OnLogin, OnKeyExchange, OnError, OnChannelJoined, OnUserJoined,
         OnUserLeft, OnRosters
    <3>2. /\ Roster(ch, u)' <=> Roster(ch, u)
          /\ Noted(ch, u)' <=> Noted(ch, u)
          /\ Owes(ch, u)' <=> Owes(ch, u)
      BY <2>6, <3>1, ShownTaken, MailSame DEF Owes
    <3> QED
      BY <2>1, <2>2, <3>1, <3>2, InformedSame
  <2>7. CASE JoinChannel
    <3>1. PICK m \in Message : down' = Append(down, m) /\ m.type = "channel_joined"
      BY <2>7, JoinAnswer
    <3>2. UNCHANGED <<outbox, casting, got, scanned, rosters_, currentChannelId_, userList_>>
      BY <2>7 DEF JoinChannel
    <3>3. Shown(ch, u)' <=> Shown(ch, u)
      BY <3>1, <3>2, DownKept, MailKinds
    <3>4. /\ Roster(ch, u)' <=> Roster(ch, u)
          /\ Noted(ch, u)' <=> Noted(ch, u)
          /\ Owes(ch, u)' <=> Owes(ch, u)
      BY <3>2, <3>3, MailSame DEF Owes
    <3>5. /\ u \in members'[ch] <=> u \in members[ch]
          /\ Me \in members[ch] => Me \in members'[ch]
      BY <2>3, <2>7 DEF JoinChannel
    <3>6. CASE Me \in members[ch]
      BY <2>1, <2>2, <3>2, <3>4, <3>5, <3>6, InformedSame
    <3>7. CASE Me \notin members[ch]
      <4>1. ch \notin scanned
        BY <2>1, <3>7 DEF Scans
      <4> QED
        BY <2>1, <2>2, <3>2, <3>4, <3>7, <4>1 DEF InformedOf
    <3> QED
      BY <3>6, <3>7
  <2>8. CASE RefuseChannel
    <3>1. PICK m \in Message : down' = Append(down, m) /\ m.type = "error"
      BY <2>8, RefusalAnswer
    <3>2. /\ UNCHANGED <<outbox, casting, got, scanned, rosters_, currentChannelId_, userList_>>
          /\ UNCHANGED members
      BY <2>8 DEF RefuseChannel
    <3>3. Shown(ch, u)' <=> Shown(ch, u)
      BY <3>1, <3>2, DownKept, MailKinds
    <3>4. /\ Roster(ch, u)' <=> Roster(ch, u)
          /\ Noted(ch, u)' <=> Noted(ch, u)
          /\ Owes(ch, u)' <=> Owes(ch, u)
      BY <3>2, <3>3, MailSame DEF Owes
    <3> QED
      BY <2>1, <2>2, <3>2, <3>4, InformedSame
  <2>9. CASE LeaveChannel
    <3>1. /\ UNCHANGED <<outbox, down, casting, got, scanned, rosters_>>
          /\ ch # Head(up).channel /\ members' = [members EXCEPT ![Head(up).channel] = @ \ {Me}]
      BY <2>9 DEF LeaveChannel
    <3>2. members'[ch] = members[ch]
      BY <2>3, <3>1
    <3>3. /\ Roster(ch, u)' <=> Roster(ch, u)
          /\ Noted(ch, u)' <=> Noted(ch, u)
          /\ Owes(ch, u)' <=> Owes(ch, u)
      BY <3>1 DEF Roster, Shown, Listing, Noted, Owes
    <3> QED
      BY <2>1, <2>2, <3>1, <3>2, <3>3, InformedSame
  <2>10. CASE Forward
    <3>1. UNCHANGED <<members, casting, scanned>>
      BY <2>10 DEF Forward
    <3>2. Owes(ch, u)' <=> Owes(ch, u)
      BY <3>1 DEF Owes
    <3> QED
      BY <2>1, <2>2, <2>10, <3>1, <3>2, ForwardSame, InformedSame
  <2>11. ASSUME NEW c \in Channel, ReadRoster(c) PROVE InformedOf(ch, u)'
    BY <2>1, <2>2, <2>11, InformedRead
  <2>12. ASSUME NEW v \in Other, Broadcast(v) PROVE InformedOf(ch, u)'
    <3>1. UNCHANGED <<members, scanned>>
      BY <2>12 DEF Broadcast
    <3>2. CASE v = u /\ Owes(ch, u) /\ Me \in members[ch]
      <4>1. Roster(ch, u)' <=> u \in members[ch]
        BY <2>1, <2>12, <3>2, BroadcastSays
      <4> QED
        BY <3>1, <3>2, <4>1 DEF InformedOf
    <3>3. CASE ~(v = u /\ Owes(ch, u) /\ Me \in members[ch])
      <4>1. /\ Roster(ch, u)' <=> Roster(ch, u)
            /\ Noted(ch, u)' <=> Noted(ch, u)
            /\ (v # u \/ ~Owes(ch, u)) /\ Owes(ch, u) => Owes(ch, u)'
        BY <2>1, <2>12, <3>3, BroadcastSays
      <4>2. CASE Me \in members[ch]
        BY <2>1, <2>2, <3>1, <3>3, <4>1, <4>2, InformedSame
      <4>3. CASE Me \notin members[ch]
        BY <2>1, <2>2, <3>1, <4>1, <4>3 DEF InformedOf
      <4> QED
        BY <4>2, <4>3
    <3> QED
      BY <3>2, <3>3
  <2>13. ASSUME NEW v \in Other, NEW c \in Channel, Move(v, c) PROVE InformedOf(ch, u)'
    <3>1. UNCHANGED <<outbox, down, got, scanned, rosters_>>
      BY <2>13 DEF Move
    <3>2. /\ Roster(ch, u)' <=> Roster(ch, u)
          /\ Noted(ch, u)' <=> Noted(ch, u)
      BY <3>1 DEF Roster, Shown, Listing, Noted
    <3>3. Me \in members'[ch] <=> Me \in members[ch]
      BY <2>3, <2>13 DEF Move
    <3>4. CASE v = u /\ c = ch
      <4>1. Owes(ch, u)'
        BY <2>13, <3>4, MoveOwes
      <4> QED
        BY <2>1, <2>2, <3>1, <3>2, <3>3, <4>1 DEF InformedOf
    <3>5. CASE ~(v = u /\ c = ch)
      <4>1. (u \in members'[ch] <=> u \in members[ch]) /\ (Owes(ch, u) => Owes(ch, u)')
        BY <2>13, <3>5, MoveElsewhere
      <4> QED
        BY <2>1, <2>2, <3>1, <3>2, <3>3, <4>1, InformedSame
    <3> QED
      BY <3>4, <3>5
  <2> QED
    BY <1>2, <2>1, <2>4, <2>5, <2>6, <2>7, <2>8, <2>9, <2>10, <2>11, <2>12, <2>13, StepKinds
       DEF Serving
<1> QED
  BY <1>1, <1>2

LEMMA ListedSame ==
  ASSUME NEW ch \in Channel, NEW u \in Other, ListedIn(ch, u), Row(ch, u) => Row(ch, u)',
         Ends(ch)' => Ends(ch), Me \in members'[ch] => Me \in members[ch],
         u \in members'[ch] => u \in members[ch], Owes(ch, u) => Owes(ch, u)'
  PROVE  ListedIn(ch, u)'
  BY DEF ListedIn

LEMMA ListedStep ==
  /\ Types /\ Reads /\ Fresh /\ Casts /\ Informed /\ Listed
  /\ [Next]_vars
  => Listed'
<1> SUFFICES ASSUME Types, Reads, Fresh, Casts, Informed, Listed, [Next]_vars, Live',
                    NEW ch \in Channel, ch \notin astray', NEW u \in Other
             PROVE  ListedIn(ch, u)'
  BY DEF Listed
<1> USE DEF client, shown, server, past
<1>1. CASE Authenticate
  <2>1. Me \notin members'[ch]
    BY <1>1, AtLogin DEF Authenticate
  <2> QED
    BY <2>1 DEF ListedIn
<1>2. CASE ~Authenticate
  <2>1. Live /\ ws' # "closed" /\ socket = "main" /\ ch \notin astray
        /\ ListedIn(ch, u) /\ InformedOf(ch, u)
    BY <1>2, GoesLive, AstrayGrows DEF Live, Informed, Listed
  <2>2. members \in [Channel -> SUBSET User] /\ Me \notin Other /\ u # Me
    BY DEF Types, Sets
  <2>3. ASSUME NEW m \in Message, down' = Append(down, m),
               UNCHANGED <<outbox, rosters_, currentChannelId_, userList_, casting, members>>,
               m.type \in {"error", "all_channel_rosters"}
        PROVE  ListedIn(ch, u)'
    <3>1. Ends(ch)' = Ends(ch) /\ (Rows(ch, u)' <=> Rows(ch, u))
      BY <2>3, DownKept, MailKinds DEF Ends
    <3>2. (Row(ch, u) => Row(ch, u)') /\ (Owes(ch, u)' <=> Owes(ch, u))
      BY <2>3, <3>1, MailSame DEF Owes
    <3> QED
      BY <2>1, <2>3, <3>1, <3>2, ListedSame
  <2>4. CASE Elsewhere
    <3>1. (Row(ch, u)' <=> Row(ch, u)) /\ (Ends(ch)' <=> Ends(ch)) /\
          (Owes(ch, u)' <=> Owes(ch, u))
      BY <2>4 DEF Elsewhere, Row, Rows, Ends, Owes
    <3> QED
      BY <2>1, <2>4, <3>1, ListedSame DEF Elsewhere
  <2>5. ~EndGuest
    BY DEF EndGuest, Live
  <2>6. CASE Received
    <3>1. UNCHANGED <<outbox, members, casting>>
      BY <2>6 DEF Received, OnLogin, OnKeyExchange, OnError, OnChannelJoined, OnUserJoined,
         OnUserLeft, OnRosters
    <3>2. (Ends(ch)' <=> Ends(ch)) /\ (Ends(ch) /\ Rows(ch, u) => Rows(ch, u)')
      BY <2>6, EndsTaken
    <3>3. Ends(ch) => (Row(ch, u) => Row(ch, u)')
      BY <3>1, <3>2, MailSame
    <3>4. Owes(ch, u)' <=> Owes(ch, u)
      BY <3>1 DEF Owes
    <3> QED
      BY <2>1, <3>1, <3>2, <3>3, <3>4 DEF ListedIn
  <2>7. CASE JoinChannel
    <3>1. PICK m \in Message : /\ down' = Append(down, m) /\ m.type = "channel_joined"
                               /\ m.channel = Head(up).channel
                               /\ m.users = members[Head(up).channel] \cup {Me}
      BY <2>7, JoinAnswer
    <3>2. UNCHANGED <<outbox, casting, rosters_, currentChannelId_, userList_>>
      BY <2>7 DEF JoinChannel
    <3>3. /\ Ends(ch)' <=> m \in Opens(ch) \/ (Ends(ch) /\ m \notin OpensElse(ch))
          /\ Rows(ch, u)' <=> m \in Shows(ch, u) \/ (Rows(ch, u) /\ m \notin Hides(ch, u))
      BY <3>1, <3>2, DownKept
    <3>4. CASE m.channel # ch
      BY <3>1, <3>3, <3>4, MailKinds DEF ListedIn
    <3>5. CASE m.channel = ch /\ u \notin members'[ch]
      BY <3>5 DEF ListedIn
    <3>6. CASE m.channel = ch /\ u \in members'[ch] /\ ~Owes(ch, u)
      <4>1. u \in members[ch]
        BY <2>2, <2>7, <3>1, <3>6 DEF JoinChannel
      <4>2. Rows(ch, u)'
        BY <3>1, <3>3, <3>6, <4>1, MailKinds
      <4>3. Says(outbox, Adds(ch, u), Drops(ch, u)) \/ Never(outbox, Drops(ch, u))
        BY <2>1, <3>6, <4>1 DEF InformedOf, Noted, Roster
      <4>4. Row(ch, u)'
        BY <3>2, <4>2, <4>3 DEF Row
      <4> QED
        BY <4>4 DEF ListedIn
    <3>7. Owes(ch, u)' <=> Owes(ch, u)
      BY <3>2 DEF Owes
    <3> QED
      BY <3>4, <3>5, <3>6, <3>7 DEF ListedIn
  <2>8. CASE RefuseChannel
    <3>1. UNCHANGED <<outbox, rosters_, currentChannelId_, userList_, casting, members>>
      BY <2>8 DEF RefuseChannel
    <3> QED
      BY <2>3, <2>8, <3>1, RefusalAnswer
  <2>9. CASE LeaveChannel
    <3>1. /\ UNCHANGED <<outbox, down, casting, currentChannelId_, userList_>>
          /\ ch # Head(up).channel /\ members' = [members EXCEPT ![Head(up).channel] = @ \ {Me}]
      BY <2>9 DEF LeaveChannel
    <3>2. members'[ch] = members[ch]
      BY <2>2, <3>1
    <3>3. (Row(ch, u)' <=> Row(ch, u)) /\ (Ends(ch)' <=> Ends(ch)) /\
          (Owes(ch, u)' <=> Owes(ch, u))
      BY <3>1 DEF Row, Rows, Ends, Owes
    <3> QED
      BY <2>1, <3>1, <3>2, <3>3, ListedSame
  <2>10. CASE Forward
    <3>1. UNCHANGED <<members, casting>>
      BY <2>10 DEF Forward
    <3>2. Owes(ch, u)' <=> Owes(ch, u)
      BY <3>1 DEF Owes
    <3> QED
      BY <2>1, <2>10, <3>1, <3>2, ForwardSame, ListedSame
  <2>11. ASSUME NEW c \in Channel, ReadRoster(c) PROVE ListedIn(ch, u)'
    <3>1. UNCHANGED <<outbox, rosters_, currentChannelId_, userList_, casting, members>>
      BY <2>11 DEF ReadRoster
    <3>2. CASE UNCHANGED down
      <4>1. (Row(ch, u)' <=> Row(ch, u)) /\ (Ends(ch)' <=> Ends(ch)) /\
            (Owes(ch, u)' <=> Owes(ch, u))
        BY <3>1, <3>2 DEF Row, Rows, Ends, Owes
      <4> QED
        BY <2>1, <3>1, <4>1, ListedSame
    <3> QED
      BY <2>3, <2>11, <3>1, <3>2, ReadingAnswer
  <2>12. ASSUME NEW v \in Other, Broadcast(v) PROVE ListedIn(ch, u)'
    <3>1. UNCHANGED <<members, down, currentChannelId_>>
      BY <2>12 DEF Broadcast
    <3>2. Ends(ch)' <=> Ends(ch)
      BY <3>1 DEF Ends
    <3>3. CASE v = u /\ Owes(ch, u) /\ Me \in members[ch]
      <4>1. u \in members[ch] => Row(ch, u)'
        BY <2>1, <2>12, <3>3, BroadcastSays
      <4> QED
        BY <3>1, <4>1 DEF ListedIn
    <3>4. CASE ~(v = u /\ Owes(ch, u) /\ Me \in members[ch])
      <4>1. /\ Row(ch, u)' <=> Row(ch, u)
            /\ (v # u \/ ~Owes(ch, u)) /\ Owes(ch, u) => Owes(ch, u)'
        BY <2>1, <2>12, <3>4, BroadcastSays
      <4> QED
        BY <2>1, <3>1, <3>2, <3>4, <4>1 DEF ListedIn
    <3> QED
      BY <3>3, <3>4
  <2>13. ASSUME NEW v \in Other, NEW c \in Channel, Move(v, c) PROVE ListedIn(ch, u)'
    <3>1. UNCHANGED <<outbox, down, currentChannelId_, userList_>>
      BY <2>13 DEF Move
    <3>2. (Row(ch, u)' <=> Row(ch, u)) /\ (Ends(ch)' <=> Ends(ch))
      BY <3>1 DEF Row, Rows, Ends
    <3>3. Me \in members'[ch] <=> Me \in members[ch]
      BY <2>2, <2>13 DEF Move
    <3>4. CASE v = u /\ c = ch
      BY <2>13, <3>4, MoveOwes DEF ListedIn
    <3>5. CASE ~(v = u /\ c = ch)
      BY <2>1, <2>13, <3>2, <3>3, <3>5, MoveElsewhere, ListedSame
    <3> QED
      BY <3>4, <3>5
  <2> QED
    BY <1>2, <2>1, <2>4, <2>5, <2>6, <2>7, <2>8, <2>9, <2>10, <2>11, <2>12, <2>13, StepKinds
       DEF Serving
<1> QED
  BY <1>1, <1>2

----------------------------------------------------------------------------
(* The inductive invariant and what it says.                               *)
RosterInv ==
  /\ Types /\ Asking /\ Reads /\ Fresh /\ Casts /\ Scans
  /\ Follows /\ Informed /\ Listed /\ Entered

LEMMA RosterInit == Init => RosterInv
<1> SUFFICES ASSUME Init PROVE RosterInv
  OBVIOUS
<1>1. Types
  BY TypesInit
<1>2. Asking /\ Reads
  <2>1. up = <<>> /\ down = <<>> /\ got = <<>> /\ todo = {} /\ ~rosterTimer
    BY DEF Init
  <2> QED
    BY <2>1, SaysNothing, OnceNothing DEF Asking, UpAsking, DownAsking, Reads
<1>3. Fresh
  BY SaysNothing, OnceNothing DEF Init, Fresh, User
<1>4. Casts /\ Scans
  BY DEF Init, Casts, CastOf, Scans
<1>5. Follows
  <2> SUFFICES ASSUME NEW ch \in Channel PROVE FollowsIn(ch)
    BY DEF Follows
  <2>1. up = <<>> /\ Me \notin members[ch] /\ ch \notin listening
    BY DEF Init
  <2> QED
    BY <2>1, SaysNothing DEF FollowsIn, Enters
<1>6. Informed /\ Listed
  BY DEF Init, Informed, Listed, Live
<1>7. Entered
  <2>1. down = <<>> /\ currentChannelId_ = NoChannel
    BY DEF Init
  <2> QED
    BY <2>1, SaysNothing DEF Entered
<1> QED
  BY <1>1, <1>2, <1>3, <1>4, <1>5, <1>6, <1>7 DEF RosterInv

LEMMA RosterStep == RosterInv /\ [Next]_vars => RosterInv'
<1> SUFFICES ASSUME RosterInv, [Next]_vars PROVE RosterInv'
  OBVIOUS
<1> USE DEF RosterInv
<1>1. Types' /\ Asking' /\ Reads'
  BY TypesStep, UpAskingStep, DownAskingStep, ReadsStep DEF Asking
<1>2. Fresh' /\ Casts' /\ Scans'
  BY FreshStep, CastsStep, ScansStep
<1>3. Follows' /\ Entered'
  BY FollowsStep, EnteredStep
<1>4. Informed' /\ Listed'
  BY InformedStep, ListedStep
<1> QED
  BY <1>1, <1>2, <1>3, <1>4

(* The dialog's invariant holds whatever the window and the server do.     *)
THEOREM AlwaysSignIn == Spec => []SignInInv
<1>1. Init => SignInInv
  BY SignInInitInv DEF Init
<1> QED
  BY <1>1, SignInInvStep, PTL DEF Spec

(* What is shown, what is on its way and what the server has fit together. *)
THEOREM AlwaysRoster == Spec => []RosterInv
  BY RosterInit, RosterStep, PTL DEF Spec

(* Every variable keeps its type: what is in a queue is a message of that  *)
(* queue, and the rosters hold others and never the user of this client.   *)
THEOREM TypeCorrect == Spec => []TypeOK
<1>1. SignInInv => SignInTypeOK
  BY DEF SignInInv, Counters, Flags, Labels, SignInTypeOK
<1>2. Types => Range(up) \subseteq Request /\ Range(down) \subseteq Message /\
      Range(outbox) \subseteq Notice
  BY DEF Types, Queues, Range
<1>3. SignInInv /\ Types => TypeOK
  <2> SUFFICES ASSUME SignInInv, Types PROVE TypeOK
    OBVIOUS
  <2>1. Tags /\ Sets /\ casting \in [Other -> Notice \cup {NoNotice}] /\ got \in Lists
    BY DEF Types, Queues
  <2> QED
    BY <1>1, <1>2, <2>1 DEF TypeOK, Tags, Sets
<1>4. RosterInv => Types
  BY DEF RosterInv
<1> QED
  BY <1>3, <1>4, AlwaysSignIn, AlwaysRoster, PTL

(* An accepted dialog leaves no login behind: none is sent or answered     *)
(* after it, and the client it used is dropped or about to be.             *)
THEOREM AcceptedIsOver == Spec => []NothingLeftBehind
<1>1. SignInInv => NothingLeftBehind
  BY DEF SignInInv, LoginOnce, Succeeded, NothingLeftBehind
<1> QED
  BY <1>1, AlwaysSignIn, PTL

(* When nothing is on its way, the channels that are played and shown as   *)
(* joined are those the server has the user in, but for the channels       *)
(* whose last request did not reach them.                                  *)
THEOREM VoiceFollows == Spec => []VoiceFollowsMembership
<1>1. RosterInv => VoiceFollowsMembership
  <2> SUFFICES ASSUME RosterInv, Quiet, NEW ch \in Channel \ unheard
               PROVE  ch \in listening <=> Me \in members[ch]
    BY DEF VoiceFollowsMembership
  <2>1. FollowsIn(ch) /\ up = <<>>
    BY DEF RosterInv, Follows, Quiet
  <2> QED
    BY <2>1, SaysNothing DEF FollowsIn, Enters
<1> QED
  BY <1>1, AlwaysRoster, PTL

(* When nothing is on its way, the roster of a channel that was joined     *)
(* before the snapshot read it, and never left, has exactly the others     *)
(* that are in it, in whatever order the snapshot, the notices and the     *)
(* moves of the others came.                                               *)
THEOREM RostersAreRight == Spec => []RostersSettle
<1>1. RosterInv => RostersSettle
  <2> SUFFICES ASSUME RosterInv, Quiet, socket = "main", NEW ch \in scanned \ astray
               PROVE  rosters_[ch] = members[ch] \ {Me}
    BY DEF RostersSettle
  <2>1. /\ ch \in Channel /\ rosters_[ch] \subseteq Other /\ members[ch] \subseteq User
        /\ Me \in members[ch] /\ Live
    BY DEF RosterInv, Types, Sets, Scans, Quiet, Live
  <2>2. ASSUME NEW u \in Other PROVE u \in rosters_[ch] <=> u \in members[ch]
    <3>1. InformedOf(ch, u)
      BY <2>1 DEF RosterInv, Informed
    <3>2. down = <<>> /\ outbox = <<>> /\ got = <<>> /\ ~Owes(ch, u)
      BY DEF RosterInv, Quiet, Reads, Owes
    <3>3. Roster(ch, u) <=> u \in rosters_[ch]
      BY <3>2, SaysNothing DEF Roster, Shown, Listing
    <3> QED
      BY <2>1, <3>1, <3>2, <3>3 DEF InformedOf
  <2> QED
    BY <2>1, <2>2 DEF User
<1> QED
  BY <1>1, AlwaysRoster, PTL

(* When nothing is on its way, the list of users of the current channel,   *)
(* if it was never left, has a row for each of the others in it.           *)
THEOREM ListIsComplete == Spec => []NobodyIsMissing
<1>1. RosterInv => NobodyIsMissing
  <2> SUFFICES ASSUME RosterInv, Quiet, socket = "main", currentChannelId_ \in Channel \ astray,
                      NEW u \in members[currentChannelId_] \ {Me}
               PROVE  userList_[u] > 0
    BY DEF NobodyIsMissing
  <2> DEFINE ch == currentChannelId_
  <2>1. Live /\ Me \in members[ch] /\ u \in Other
    BY DEF RosterInv, Types, Sets, Entered, Quiet, Live, User
  <2>2. ListedIn(ch, u)
    BY <2>1 DEF RosterInv, Listed
  <2>3. down = <<>> /\ outbox = <<>> /\ ~Owes(ch, u)
    BY <2>1 DEF Quiet, Owes
  <2>4. Ends(ch) /\ (Row(ch, u) => userList_[u] > 0)
    BY <2>3, SaysNothing DEF Ends, Row, Rows
  <2> QED
    BY <2>1, <2>2, <2>3, <2>4 DEF ListedIn
<1> QED
  BY <1>1, AlwaysRoster, PTL
====
