------------------------------- MODULE SignIn -------------------------------
(***************************************************************************)
(* The login dialog (login_dialog.cpp) and what main makes of its buttons  *)
(* (ui_main.cpp).  Logging in and registering have a WebSocket client of   *)
(* their own each, kept in a static pointer, and are driven by timers: 500 *)
(* ms after the click the request is sent on whatever client the pointer   *)
(* then holds, 100 ms after an answer that client is closed and dropped.   *)
(*                                                                         *)
(* The dialog can log in once: nobody ever calls setConnecting(false).     *)
(* Register always works, and every click makes a new client.  What the    *)
(* fields hold, and the boxes that refuse it, are left out: a click here   *)
(* is one with valid fields.  Timers fire in any order.                    *)
(***************************************************************************)
EXTENDS Naturals

CONSTANT MaxRegistrations \* bound: clicks on the Register button

ASSUME RegistrationAssumption == MaxRegistrations \in Nat

Flow == {"login", "register"}

VARIABLES
  dialog,           \* the login dialog: open, or its result
  isConnecting_,
  popups,           \* what answers queued for the event loop, or show
  waiting,          \* loginInProgress; an answer to Register is waited for
  dialogWs,         \* the client of the pointer; "none" for a null pointer
  asked,            \* requests it has sent that were not answered yet
  sends,            \* timers of 500 ms that run
  closes,           \* timers of 100 ms that run
  registrations     \* clicks on Register, for the bound

signIn == <<dialog, isConnecting_, popups, waiting, dialogWs, asked, sends, closes,
            registrations>>

SignInTypeOK ==
  /\ dialog \in {"open", "accepted", "rejected"}
  /\ popups \subseteq {"accept", "refused", "registered", "not registered"}
  /\ dialogWs \in [Flow -> {"none", "opening", "open", "closed"}]
  /\ isConnecting_ \in BOOLEAN /\ waiting \in [Flow -> BOOLEAN]
  /\ {asked, sends, closes} \subseteq [Flow -> Nat]

SignInInit ==
  /\ dialog = "open" /\ isConnecting_ = FALSE /\ popups = {}
  /\ dialogWs = [f \in Flow |-> "none"]
  /\ waiting = [f \in Flow |-> FALSE]
  /\ asked = [f \in Flow |-> 0]
  /\ sends = [f \in Flow |-> 0] /\ closes = [f \in Flow |-> 0]
  /\ registrations = 0

----------------------------------------------------------------------------
(* A click makes a new client and destroys the one it replaces; timers of  *)
(* that one that still run will act on the new one.                        *)
Begin(f) ==
  /\ waiting' = [waiting EXCEPT ![f] = TRUE]
  /\ dialogWs' = [dialogWs EXCEPT ![f] = "opening"]
  /\ asked' = [asked EXCEPT ![f] = 0]
  /\ sends' = [sends EXCEPT ![f] = @ + 1]
  /\ UNCHANGED <<dialog, popups, closes>>

(* No box covers the dialog.                                               *)
MayClick == dialog = "open" /\ popups = {}

setConnecting(on) == isConnecting_' = on

RequestLogin ==
  /\ ~waiting["login"]
  /\ Begin("login")
  /\ UNCHANGED registrations

OnLoginClicked ==
  /\ MayClick /\ ~isConnecting_
  /\ setConnecting(TRUE)
  /\ RequestLogin

RequestRegistration ==
  /\ registrations < MaxRegistrations
  /\ registrations' = registrations + 1
  /\ Begin("register")

OnRegisterClicked ==
  /\ MayClick
  /\ RequestRegistration
  /\ UNCHANGED isConnecting_

(* Cancel, or closing the dialog, ends the program.                        *)
OnCancelClicked ==
  /\ MayClick
  /\ setConnecting(FALSE)
  /\ dialog' = "rejected"
  /\ UNCHANGED <<popups, waiting, dialogWs, asked, sends, closes, registrations>>

Connected(f) ==
  /\ dialogWs[f] = "opening"
  /\ dialogWs' = [dialogWs EXCEPT ![f] = "open"]
  /\ UNCHANGED <<dialog, isConnecting_, popups, waiting, asked, sends, closes,
                 registrations>>

(* The server cannot be reached, or the connection is lost.  The clients   *)
(* of the dialog have no callback for either.  (A loss after that is no    *)
(* other than the close that is due by then.)                              *)
Lost(f) ==
  /\ dialog = "open" /\ "accept" \notin popups /\ dialogWs[f] \in {"opening", "open"}
  /\ dialogWs' = [dialogWs EXCEPT ![f] = "closed"]
  /\ asked' = [asked EXCEPT ![f] = 0]
  /\ UNCHANGED <<dialog, isConnecting_, popups, waiting, sends, closes, registrations>>

(* 500 ms later.  login() on a client that is not connected returns an     *)
(* error nobody looks at; register_account() writes to a closed socket.    *)
Send500(f) ==
  /\ sends[f] > 0
  /\ sends' = [sends EXCEPT ![f] = @ - 1]
  /\ asked' = [asked EXCEPT ![f] = @ + IF dialogWs[f] = "open" THEN 1 ELSE 0]
  /\ UNCHANGED <<dialog, isConnecting_, popups, waiting, dialogWs, closes, registrations>>

SendLogin == Send500("login")
SendRegistration == Send500("register")

(* 100 ms after an answer: disconnect() and reset().                       *)
Close100(f) ==
  /\ closes[f] > 0
  /\ closes' = [closes EXCEPT ![f] = @ - 1]
  /\ dialogWs' = [dialogWs EXCEPT ![f] = "none"]
  /\ asked' = [asked EXCEPT ![f] = 0]
  /\ UNCHANGED <<dialog, isConnecting_, popups, waiting, sends, registrations>>

CloseLogin == Close100("login")
CloseRegistration == Close100("register")

(* Broken variant: the client is not closed after the answer.              *)
AnsweredOpen(f, ok) ==
  /\ dialogWs[f] = "open" /\ asked[f] > 0
  /\ asked' = [asked EXCEPT ![f] = @ - 1]
  /\ waiting' = [waiting EXCEPT ![f] = FALSE]
  /\ UNCHANGED <<dialog, isConnecting_, dialogWs, sends, closes, registrations>>

(* An answer; ok says whether it is good.                                  *)
Answered(f, ok) ==
  /\ dialogWs[f] = "open" /\ asked[f] > 0
  /\ asked' = [asked EXCEPT ![f] = @ - 1]
  /\ waiting' = [waiting EXCEPT ![f] = FALSE]
  /\ closes' = [closes EXCEPT ![f] = @ + 1]
  /\ UNCHANGED <<dialog, isConnecting_, dialogWs, sends, registrations>>

LoginAnswered(ok) ==
  /\ Answered("login", ok)
  /\ popups' = popups \cup {IF ok THEN "accept" ELSE "refused"}

(* The server creates the account, or there is one of that name.           *)
Register(ok) ==
  /\ Answered("register", ok)
  /\ popups' = popups \cup {IF ok THEN "registered" ELSE "not registered"}

(* The event loop shows a box until it is dismissed, or accepts.           *)
RunPopup ==
  /\ dialog = "open"
  /\ \E p \in popups :
       /\ popups' = popups \ {p}
       /\ dialog' = IF p = "accept" THEN "accepted" ELSE "open"
  /\ UNCHANGED <<isConnecting_, waiting, dialogWs, asked, sends, closes, registrations>>

(* What is left of registrations when the dialog is done touches nothing   *)
(* but a box, and is not followed further.                                 *)
ForgetRegistrations ==
  /\ popups' = {} /\ registrations' = 0
  /\ waiting'  = [waiting EXCEPT !["register"] = FALSE]
  /\ dialogWs' = [dialogWs EXCEPT !["register"] = "none"]
  /\ asked'    = [asked EXCEPT !["register"] = 0]
  /\ sends'    = [sends EXCEPT !["register"] = 0]
  /\ closes'   = [closes EXCEPT !["register"] = 0]
  /\ UNCHANGED <<dialog, isConnecting_>>

DialogStep ==
  \/ OnLoginClicked \/ OnRegisterClicked \/ OnCancelClicked
  \/ \E f \in Flow : Connected(f) \/ Lost(f)
  \/ SendLogin \/ SendRegistration \/ CloseLogin \/ CloseRegistration
  \/ LoginAnswered(FALSE) \/ \E ok \in BOOLEAN : Register(ok)
  \/ RunPopup

----------------------------------------------------------------------------
(* A dialog that is accepted leaves no login behind: nothing is sent for   *)
(* one later, and the client it used is dropped or about to be.            *)
NothingLeftBehind ==
  dialog = "accepted" =>
    /\ ~waiting["login"] /\ sends["login"] = 0 /\ asked["login"] = 0
    /\ dialogWs["login"] # "none" => closes["login"] > 0
=============================================================================
