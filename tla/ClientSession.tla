--------------------------- MODULE ClientSession ----------------------------
(***************************************************************************)
(* A client from the login dialog on: the main window with its WebSocket   *)
(* client (main_window.cpp, websocket_client.cpp) and the rosters it shows *)
(* (channel_roster_manager.cpp), against the server's members of the       *)
(* channels.  The window is optimistic: it shows a channel as joined when  *)
(* the request is sent (and its own user in its roster, which the model    *)
(* leaves out), and nothing takes that back.  The rosters learn who else   *)
(* is there from ONE snapshot, asked for 500 ms after the login, and from  *)
(* the notices of the channels the user is in; the list of users from      *)
(* ChannelJoined and the same notices.                                     *)
(*                                                                         *)
(* down stands for the messages on the wire and, behind them, the calls    *)
(* they queued in the event loop: both are FIFO, and only the answer to    *)
(* the login and the key exchange act before they are queued.              *)
(***************************************************************************)
EXTENDS SignIn, Sequences, Functions

CONSTANTS
  Me,         \* the user of this client
  Other,      \* the other users
  Channel,
  General,    \* the channel that is joined after the login
  NoChannel,
  MaxMail,    \* bound: no new click or move while a queue holds this many
  MaxClicks,  \* bound: clicks on the Listen buttons
  MaxMoves    \* bound: moves of the others while this client is logged in

ASSUME UserAssumption == Me \notin Other
ASSUME ChannelAssumption == General \in Channel /\ NoChannel \notin Channel

User == {Me} \cup Other

VARIABLES
  window,     \* "none" before the login dialog is done; crashed
  voiceSession_, \* the voice session was initialized and given to the window
  ws,         \* the connection of the main window
  authenticated_, currentChannelId_,
  listening,  \* channels the voice session and the widgets have as joined
  rosters_,   \* ChannelRosterManager: the others in each channel
  userList_,  \* the list of users: how many rows each other has
  rosterTimer, \* the timer of 500 ms that asks for the snapshot
  up, down,   \* requests to the server; messages from it (see above)
  outbox,     \* notices for this client that its task has not sent yet
  socket,     \* whose outbox the server reaches the user by
  guest,      \* the server still serves the connection of the login dialog
  members,    \* ChannelManager.channels
  casting,    \* other users -> the notice of their last move, if unsent
  todo, got,  \* AllChannelRosters in the making: channels to read, lists read
  clicks, moves, \* how many there were, for the bounds
  scanned,    \* history: channels whose list was read while Me was in it
  astray,     \* history: channels Me ever left, or was refused or dropped from
  unheard     \* channels of astray whose last request did not reach members

shown  == <<currentChannelId_, listening, rosters_, userList_>>
client == <<window, voiceSession_, ws, authenticated_, rosterTimer, shown>>
server == <<outbox, socket, guest, members, casting, todo, got>>
past   == <<clicks, moves, scanned, astray, unheard>>
vars   == <<signIn, client, up, down, server, past>>

Request == [type : {"login", "rosters"}] \cup [type : {"join", "leave"}, channel : Channel]
Notice  == [type : {"user_joined", "user_left"}, channel : Channel, user : Other]
Lists   == UNION {[S -> SUBSET User] : S \in SUBSET Channel}
Message == [type : {"auth_result", "key_exchange_init", "error"}]
             \cup [type : {"channel_joined"}, channel : Channel, users : SUBSET User]
             \cup [type : {"all_channel_rosters"}, lists : Lists]
             \cup Notice
NoNotice == [type |-> "none"]

TypeOK ==
  /\ SignInTypeOK
  /\ window \in {"none", "up", "crashed"} /\ ws \in {"opening", "open", "closed"}
  /\ {voiceSession_, authenticated_, rosterTimer, guest} \subseteq BOOLEAN
  /\ currentChannelId_ \in Channel \cup {NoChannel}
  /\ {listening, todo, scanned, astray, unheard} \subseteq SUBSET Channel
  /\ rosters_ \in [Channel -> SUBSET Other]
  /\ userList_ \in [Other -> Nat]
  /\ Range(up) \subseteq Request /\ Range(down) \subseteq Message
  /\ Range(outbox) \subseteq Notice
  /\ socket \in {"none", "guest", "main"}
  /\ members \in [Channel -> SUBSET User]
  /\ casting \in [Other -> Notice \cup {NoNotice}]
  /\ got \in Lists

Init ==
  /\ SignInInit
  /\ window = "none" /\ ws = "opening" /\ voiceSession_ \in BOOLEAN
  /\ authenticated_ = FALSE /\ rosterTimer = FALSE
  /\ currentChannelId_ = NoChannel /\ listening = {}
  /\ rosters_ = [ch \in Channel |-> {}]
  /\ userList_ = [u \in Other |-> 0]
  /\ up = <<>> /\ down = <<>> /\ outbox = <<>>
  /\ socket = "none" /\ guest = FALSE
  /\ members \in [Channel -> SUBSET Other]
  /\ casting = [u \in Other |-> NoNotice]
  /\ todo = {} /\ got = <<>>
  /\ clicks = 0 /\ moves = 0
  /\ scanned = {} /\ astray = {} /\ unheard = {}

----------------------------------------------------------------------------
(* The dialog.  Its connection is logged in on the server like any other,  *)
(* and registers the user's outbox.                                        *)
Dialog ==
  /\ DialogStep
  /\ UNCHANGED <<client, up, down, server, past>>

DialogSucceeds ==
  /\ LoginAnswered(TRUE)
  /\ guest' = TRUE /\ socket' = "guest"
  /\ UNCHANGED <<client, up, down, outbox, members, casting, todo, got, past>>

(* The cleanup of the dialog's connection: unregister_user takes the USER  *)
(* out of every channel and forgets the outbox, whoever it belongs to.     *)
EndGuest ==
  /\ guest /\ dialogWs["login"] # "open"
  /\ guest' = FALSE
  /\ socket' = "none"
  /\ members' = [ch \in Channel |-> members[ch] \ {Me}]
  /\ LET dropped == {ch \in Channel : Me \in members[ch]} IN
       /\ astray' = astray \cup dropped
       /\ unheard' = unheard \cup dropped
  /\ UNCHANGED <<signIn, client, up, down, outbox, casting, todo, got, clicks, moves, scanned>>

(* The main window is made and starts to connect.                          *)
OpenWindow ==
  /\ dialog = "accepted" /\ window = "none"
  /\ window' = "up"
  /\ ForgetRegistrations
  /\ UNCHANGED <<voiceSession_, ws, authenticated_, rosterTimer, shown,
                 up, down, server, past>>

----------------------------------------------------------------------------
(* The main window.                                                        *)
Running == window = "up"

Login == up' = Append(up, [type |-> "login"])

(* on_connected: the login is sent at once.                                *)
OnConnected ==
  /\ Running /\ ws = "opening"
  /\ ws' = "open"
  /\ Login
  /\ UNCHANGED <<signIn, window, voiceSession_, authenticated_, rosterTimer, shown,
                 down, server, past>>

(* on_disconnected: nothing is tried again, and nothing shown is cleared.  *)
(* What is in the event loop is still done.  The server's task cleans up,  *)
(* and what it knows of the others does not matter any more.               *)
OnDisconnected ==
  /\ Running /\ ws # "closed"
  /\ ws' = "closed" /\ authenticated_' = FALSE
  /\ up' = <<>>
  /\ \E n \in 0..Len(down) :
       /\ \A i \in 1..n : down[i].type \notin {"auth_result", "key_exchange_init"}
       /\ down' = SubSeq(down, 1, n)
  /\ outbox' = <<>> /\ todo' = {} /\ got' = <<>>
  /\ socket' = "none" /\ guest' = FALSE
  /\ members' = [ch \in Channel |-> {}] /\ casting' = [u \in Other |-> NoNotice]
  /\ UNCHANGED <<signIn, window, voiceSession_, rosterTimer, shown, past>>

AddUser(ch, u)    == rosters_' = [rosters_ EXCEPT ![ch] = @ \cup {u}]
RemoveUser(ch, u) == rosters_' = [rosters_ EXCEPT ![ch] = @ \ {u}]

(* join_channel and leave_channel of the WebSocket client: an error before *)
(* the login and after the connection, which the window does not look at.  *)
Ask(type, ch) ==
  IF authenticated_
    THEN up' = Append(up, [type |-> type, channel |-> ch]) /\ UNCHANGED <<astray, unheard>>
    ELSE astray' = astray \cup {ch} /\ unheard' = unheard \cup {ch} /\ UNCHANGED up

Listen(ch) ==
  /\ Running /\ voiceSession_
  /\ ch \notin listening /\ Len(up) < MaxMail /\ clicks < MaxClicks
  /\ clicks' = clicks + 1
  /\ listening' = listening \cup {ch}
  /\ Ask("join", ch)
  /\ UNCHANGED <<signIn, window, voiceSession_, ws, authenticated_, rosterTimer,
                 currentChannelId_, rosters_, userList_, down, server, moves, scanned>>

(* Broken variant: only the server is told.                                *)
UnlistenKeepsVoice(ch) ==
  /\ Running /\ voiceSession_
  /\ ch \in listening /\ Len(up) < MaxMail /\ clicks < MaxClicks
  /\ clicks' = clicks + 1
  /\ Ask("leave", ch)
  /\ UNCHANGED <<signIn, client, down, server, moves, scanned>>

Unlisten(ch) ==
  /\ Running /\ voiceSession_
  /\ ch \in listening /\ Len(up) < MaxMail /\ clicks < MaxClicks
  /\ clicks' = clicks + 1
  /\ listening' = listening \ {ch}
  /\ Ask("leave", ch)
  /\ UNCHANGED <<signIn, window, voiceSession_, ws, authenticated_, rosterTimer,
                 currentChannelId_, rosters_, userList_, down, server, moves, scanned>>

RequestRosters ==
  /\ rosterTimer
  /\ rosterTimer' = FALSE
  /\ up' = IF authenticated_ THEN Append(up, [type |-> "rosters"]) ELSE up
  /\ UNCHANGED <<signIn, window, voiceSession_, ws, authenticated_, shown,
                 down, server, past>>

----------------------------------------------------------------------------
(* What arrives, in order.                                                 *)
Arrives(type) == Running /\ down # <<>> /\ Head(down).type = type
Take == down' = Tail(down)

(* The login callback: with a voice session, General is joined.            *)
OnLogin ==
  /\ Arrives("auth_result") /\ Take
  /\ authenticated_' = TRUE
  /\ IF voiceSession_
       THEN /\ listening' = listening \cup {General}
            /\ up' = Append(up, [type |-> "join", channel |-> General])
            /\ rosterTimer' = TRUE
       ELSE UNCHANGED <<listening, up, rosterTimer>>
  /\ UNCHANGED <<signIn, window, voiceSession_, ws, currentChannelId_, rosters_, userList_,
                 server, past>>

handle_key_exchange_init == Arrives("key_exchange_init") /\ Take

(* The key exchange callback answers and then uses the voice session,      *)
(* without looking whether there is one.  (What the keys are for is left   *)
(* to ControlServer.)                                                      *)
OnKeyExchange ==
  /\ handle_key_exchange_init
  /\ window' = IF voiceSession_ THEN "up" ELSE "crashed"
  /\ UNCHANGED <<signIn, voiceSession_, ws, authenticated_, rosterTimer, shown,
                 up, server, past>>

OnError ==
  /\ Arrives("error") /\ Take
  /\ UNCHANGED <<signIn, client, up, server, past>>

(* The list is cleared and filled anew, with one row for each user.  (The  *)
(* call that follows it in the event loop, onWsChannelJoined, stores the   *)
(* same channel again.)                                                    *)
ShowUsers(users) == userList_' = [u \in Other |-> IF u \in users THEN 1 ELSE 0]
onWsChannelJoined(ch) == currentChannelId_' = ch

OnChannelJoined ==
  /\ Arrives("channel_joined") /\ Take
  /\ ShowUsers(Head(down).users)
  /\ onWsChannelJoined(Head(down).channel)
  /\ UNCHANGED <<signIn, window, voiceSession_, ws, authenticated_, rosterTimer,
                 listening, rosters_, up, server, past>>

onWsUserJoined(ch, u) ==
  /\ AddUser(ch, u)
  /\ userList_' = IF ch = currentChannelId_ THEN [userList_ EXCEPT ![u] = @ + 1] ELSE userList_

OnUserJoined ==
  /\ Arrives("user_joined") /\ Take
  /\ onWsUserJoined(Head(down).channel, Head(down).user)
  /\ UNCHANGED <<signIn, window, voiceSession_, ws, authenticated_, rosterTimer,
                 currentChannelId_, listening, up, server, past>>

(* Broken variants: the rows of the user go whatever channel it left, or   *)
(* the notice is taken to be about the current channel.                    *)
OnUserLeftAnywhere ==
  /\ Arrives("user_left") /\ Take
  /\ RemoveUser(Head(down).channel, Head(down).user)
  /\ userList_' = [userList_ EXCEPT ![Head(down).user] = 0]
  /\ UNCHANGED <<signIn, window, voiceSession_, ws, authenticated_, rosterTimer,
                 currentChannelId_, listening, up, server, past>>

OnUserLeftCurrent ==
  /\ Arrives("user_left") /\ Take
  /\ RemoveUser(currentChannelId_, Head(down).user)
  /\ UNCHANGED <<signIn, window, voiceSession_, ws, authenticated_, rosterTimer,
                 currentChannelId_, listening, userList_, up, server, past>>

(* Only the first row of the user is taken out.                            *)
onWsUserLeft(ch, u) ==
  /\ RemoveUser(ch, u)
  /\ userList_' = IF ch = currentChannelId_ /\ userList_[u] > 0
                    THEN [userList_ EXCEPT ![u] = @ - 1] ELSE userList_

OnUserLeft ==
  /\ Arrives("user_left") /\ Take
  /\ onWsUserLeft(Head(down).channel, Head(down).user)
  /\ UNCHANGED <<signIn, window, voiceSession_, ws, authenticated_, rosterTimer,
                 currentChannelId_, listening, up, server, past>>

handle_all_channel_rosters == Arrives("all_channel_rosters") /\ Take

(* Users are only added.                                                   *)
updateAllRosters(lists) ==
  rosters_' = [ch \in Channel |->
                 rosters_[ch] \cup IF ch \in DOMAIN lists THEN lists[ch] \ {Me} ELSE {}]

OnRosters ==
  /\ handle_all_channel_rosters
  /\ updateAllRosters(Head(down).lists)
  /\ UNCHANGED <<signIn, window, voiceSession_, ws, authenticated_, rosterTimer,
                 currentChannelId_, listening, userList_, up, server, past>>

----------------------------------------------------------------------------
(* The server.  The task of this client handles one request at a time;     *)
(* what it answers goes out before the notices that wait in the outbox.    *)
Free(type) == up # <<>> /\ Head(up).type = type /\ todo = {}
Send(m) == up' = Tail(up) /\ down' = Append(down, m)

Authenticate ==
  /\ Free("login")
  /\ up' = Tail(up)
  /\ socket' = "main"
  /\ down' = down \o <<[type |-> "auth_result"], [type |-> "key_exchange_init"]>>
  /\ UNCHANGED <<signIn, client, outbox, guest, members, casting, todo, got, past>>

JoinChannel ==
  /\ Free("join")
  /\ LET ch == Head(up).channel IN
       /\ members' = [members EXCEPT ![ch] = @ \cup {Me}]
       /\ Send([type |-> "channel_joined", channel |-> ch, users |-> members[ch] \cup {Me}])
       /\ unheard' = unheard \ {ch}
  /\ UNCHANGED <<signIn, client, outbox, socket, guest, casting, todo, got, clicks, moves,
                 scanned, astray>>

(* The password or the permission is missing.                              *)
RefuseChannel ==
  /\ Free("join")
  /\ Send([type |-> "error"])
  /\ astray' = astray \cup {Head(up).channel}
  /\ unheard' = unheard \cup {Head(up).channel}
  /\ UNCHANGED <<signIn, client, server, clicks, moves, scanned>>

LeaveChannel ==
  /\ Free("leave")
  /\ up' = Tail(up)
  /\ LET ch == Head(up).channel IN
       /\ members' = [members EXCEPT ![ch] = @ \ {Me}]
       /\ astray' = astray \cup {ch}
       /\ unheard' = unheard \ {ch}
  /\ UNCHANGED <<signIn, client, down, outbox, socket, guest, casting, todo, got, clicks,
                 moves, scanned>>

(* RequestAllChannelRosters reads one channel after the other, and skips   *)
(* those the user has no permission to join.                               *)
BeginRosters ==
  /\ Free("rosters")
  /\ todo' = Channel /\ got' = <<>>
  /\ UNCHANGED <<signIn, client, up, down, outbox, socket, guest, members, casting, past>>

ReadRoster(ch) ==
  /\ ch \in todo
  /\ todo' = todo \ {ch}
  /\ \E lists \in {got, [c \in DOMAIN got \cup {ch} |-> IF c = ch THEN members[ch] ELSE got[c]]} :
       /\ scanned' = IF ch \in DOMAIN lists /\ Me \in members[ch] THEN scanned \cup {ch}
                     ELSE scanned
       /\ IF todo = {ch}
            THEN Send([type |-> "all_channel_rosters", lists |-> lists]) /\ got' = <<>>
            ELSE got' = lists /\ UNCHANGED <<up, down>>
  /\ UNCHANGED <<signIn, client, outbox, socket, guest, members, casting, clicks, moves,
                 astray, unheard>>

(* The outbox is served between two requests.                              *)
Forward ==
  /\ outbox # <<>> /\ todo = {} /\ Len(down) < MaxMail
  /\ outbox' = Tail(outbox) /\ down' = Append(down, Head(outbox))
  /\ UNCHANGED <<signIn, client, up, socket, guest, members, casting, todo, got, past>>

(* Another user joins or leaves; the notice follows under another lock.    *)
(* (The moves before the login are in Init, those of a time when no notice *)
(* can reach this client are left out.)                                    *)
Move(u, ch) ==
  /\ socket = "main" /\ casting[u] = NoNotice /\ Len(outbox) < MaxMail /\ moves < MaxMoves
  /\ moves' = moves + 1
  /\ members' = [members EXCEPT ![ch] = IF u \in @ THEN @ \ {u} ELSE @ \cup {u}]
  /\ casting' = [casting EXCEPT ![u] =
                   [type |-> IF u \in members[ch] THEN "user_left" ELSE "user_joined",
                    channel |-> ch, user |-> u]]
  /\ UNCHANGED <<signIn, client, up, down, outbox, socket, guest, todo, got, clicks, scanned,
                 astray, unheard>>

Broadcast(u) ==
  /\ casting[u] # NoNotice
  /\ casting' = [casting EXCEPT ![u] = NoNotice]
  /\ outbox' = IF socket = "main" /\ Me \in members[casting[u].channel]
                 THEN Append(outbox, casting[u]) ELSE outbox
  /\ UNCHANGED <<signIn, client, up, down, socket, guest, members, todo, got, past>>

Next ==
  \/ Dialog \/ DialogSucceeds \/ EndGuest \/ OpenWindow
  \/ OnConnected \/ OnDisconnected \/ RequestRosters
  \/ \E ch \in Channel : Listen(ch) \/ Unlisten(ch) \/ ReadRoster(ch)
  \/ OnLogin \/ OnKeyExchange \/ OnError \/ OnChannelJoined
  \/ OnUserJoined \/ OnUserLeft \/ OnRosters
  \/ Authenticate \/ JoinChannel \/ RefuseChannel \/ LeaveChannel \/ BeginRosters \/ Forward
  \/ \E u \in Other : Broadcast(u) \/ \E ch \in Channel : Move(u, ch)

Spec == Init /\ [][Next]_vars

----------------------------------------------------------------------------
(* Nothing is on its way.                                                  *)
Quiet ==
  /\ Running /\ ws = "open" /\ authenticated_
  /\ up = <<>> /\ down = <<>> /\ outbox = <<>> /\ todo = {}
  /\ \A u \in Other : casting[u] = NoNotice

(* The roster of a channel that was joined before the snapshot was read    *)
(* and never left is right once all is applied, however the snapshot, the  *)
(* notices it overtook and the moves of the others were interleaved.       *)
RostersSettle ==
  Quiet /\ socket = "main" => \A ch \in scanned \ astray : rosters_[ch] = members[ch] \ {Me}

(* The list of users of the current channel misses nobody.  (A user who    *)
(* joined just before Me is in ChannelJoined and in a notice, and then has *)
(* two rows, one of which stays when the user leaves.)                     *)
NobodyIsMissing ==
  Quiet /\ socket = "main" /\ currentChannelId_ \in Channel \ astray =>
    \A u \in members[currentChannelId_] \ {Me} : userList_[u] > 0

(* The channels the voice session plays and the widgets show as joined are *)
(* those the server sends this user, but for a request that was refused or *)
(* not sent, and for channels the end of the dialog's connection took away.*)
VoiceFollowsMembership ==
  Quiet => \A ch \in Channel \ unheard : ch \in listening <=> Me \in members[ch]
=============================================================================
