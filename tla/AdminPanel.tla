----------------------------- MODULE AdminPanel -----------------------------
(***************************************************************************)
(* The admin panel of the client (admin_panel.cpp and the managers of      *)
(* users, channels and roles): lists that are fetched again after every    *)
(* change, and dialogs that are modal for the admin but not for the        *)
(* program, whose event loop goes on handling answers while they are open. *)
(***************************************************************************)
EXTENDS AdminApi

CONSTANTS
  SearchText,  \* what users are searched for
  MaxRequests, \* bound: requests in flight after a request of the admin
  Kept         \* what a form makes of a stored value: trimmed text, a number
               \* in the range of its spin box, permissions with a check box

ASSUME AdminPanelAssumption ==
  /\ Kept \in [Value -> Value] /\ \A v \in Value : Kept[Kept[v]] = Kept[v]
  /\ MaxRequests \in Nat

VARIABLES
  all,       \* the lists of the manager (all_users_, ...) and of the voice tab,
             \* the latter without its rows, which nothing here reads
  search,    \* the text users are filtered by
  selected,  \* the id in the current row of the manager's table, 0 for none
  dialog,    \* the modal dialog that is open
  busy,      \* whether status_label_ shows "Loading..."
  reported,  \* history: the last change that was reported to the admin
  missed     \* history: lists whose last request failed, or was made while
             \* another for them was outstanding

panelVars == <<all, search, selected, dialog, busy, reported, missed>>
vars == <<apiVars, panelVars>>

Lists     == {"manager", "voice"}
AnyText   == "any text"
NoDialog  == [op |-> "none", id |-> 0, original |-> NoRow]

(* The requests in flight, each copy by itself. *)
Copies(bag) == UNION {{<<r, i>> : i \in 1..bag[r]} : r \in BagToSet(bag)}

TypeOK ==
  /\ kind \in Kind
  /\ table \in Rows /\ serial \in Id /\ version \in 0..MaxChanges
  /\ BagToSet(requests) \subseteq Request /\ IsABag(requests)
  /\ IsFiniteSet(Copies(requests)) /\ pending_requests_ = Cardinality(Copies(requests))
  /\ {base_url_, busy} \subseteq BOOLEAN
  /\ all \in [Lists -> [rows : Rows, version : 0..MaxChanges]]
  /\ search \in SearchText \cup {AnyText} /\ selected \in Id \cup {0}
  /\ dialog \in [op : {"none", "create", "edit", "delete"}, id : Id \cup {0},
                 original : {NoRow} \cup Row]
  /\ reported \in 0..MaxChanges /\ missed \subseteq Lists

(* The requests that the constructors made, without an address, have failed. *)
Init ==
  /\ ApiInit
  /\ all = [v \in Lists |-> [rows |-> NoRow, version |-> 0]]
  /\ search = AnyText /\ selected = 0 /\ dialog = NoDialog
  /\ busy = FALSE /\ reported = 0 /\ missed = Lists

(* filterUsers: the rows the table shows; the other tables show all. *)
Shown ==
  LET rows == all["manager"].rows
  IN  {id \in DOMAIN rows : search = AnyText \/ \E f \in Field : rows[id][f] = search}

(* A form: what it shows of a row, and what can be typed in it. *)
FormOf(row) == [f \in Field |-> Kept[row[f]]]
FormValue   == {Kept[v] : v \in Value}
-----------------------------------------------------------------------------
(* The panel of another admin, the same program, changes the table: as     *)
(* here a user's name can be cleared, not the email, and of the others the *)
(* second field, not the name.                                             *)
ChangeElsewhere ==
  /\ \E id \in DOMAIN table :
       \/ \E f \in Field, v \in FormValue :
            /\ v # table[id][f] /\ v = Cleared => (f = "name" <=> kind = "users")
            /\ ChangeTable(Updated(table, id, [g \in {f} |-> v]))
       \/ ChangeTable(Deleted(table, id))
  /\ UNCHANGED <<kind, serial, requests, pending_requests_, base_url_, panelVars>>
-----------------------------------------------------------------------------
(* What the admin does; a modal dialog keeps everything else from it. *)
MayClick == dialog = NoDialog /\ BagCardinality(requests) < MaxRequests

(* missed, when the requests new join those in flight. *)
Missed(flying, new) ==
  LET Asked(rs) == {r.view : r \in {q \in rs : q.op = "list"}} \cap Lists
  IN  (missed \ Asked(new)) \cup (Asked(new) \cap Asked(flying))

(* requestStarted *)
Start(r) ==
  /\ Send({r})
  /\ missed' = Missed(BagToSet(requests), {r})
  /\ busy' = TRUE
  /\ UNCHANGED <<kind, table, serial, version>>

(* setUserPermissions at the login: the panel refreshes its first tab      *)
(* before it is given the address of the server.                           *)
SetUserPermissions ==
  /\ ~base_url_ /\ MayClick
  /\ base_url_' = TRUE
  /\ Start(List("dashboard"))
  /\ UNCHANGED <<all, search, selected, dialog, reported>>

(* onTabChanged and onRefreshClicked *)
Refresh ==
  /\ base_url_ /\ MayClick
  /\ Start(List("manager"))
  /\ UNCHANGED <<base_url_, all, search, selected, dialog, reported>>

(* The timer of the dashboard runs whatever the admin does (bound: one     *)
(* request less may be in flight, so that the admin can click after it).   *)
OnAutoRefreshTimer ==
  /\ BagCardinality(requests) < MaxRequests - 1
  /\ Start(List("dashboard"))
  /\ UNCHANGED <<base_url_, all, search, selected, dialog, reported>>

(* onSearchChanged fills the table again, which takes the current row away. *)
Search(text) ==
  /\ kind = "users" /\ MayClick /\ text # search
  /\ search' = text /\ selected' = 0
  /\ UNCHANGED <<apiVars, all, dialog, busy, reported, missed>>

Select(id) ==
  /\ MayClick /\ id \in Shown /\ id # selected
  /\ selected' = id
  /\ UNCHANGED <<apiVars, all, search, dialog, busy, reported, missed>>

Open(d) ==
  /\ base_url_ /\ MayClick
  /\ dialog' = d
  /\ UNCHANGED <<apiVars, all, search, selected, busy, reported, missed>>

OnCreate == Open([NoDialog EXCEPT !.op = "create"])

(* The id is read before the dialog opens, which keeps the row it is given. *)
OnEdit ==
  /\ selected # 0
  /\ Open([op |-> "edit", id |-> selected, original |-> all["manager"].rows[selected]])

OnDelete ==
  /\ selected # 0
  /\ Open([NoDialog EXCEPT !.op = "delete", !.id = selected])

CloseDialog ==
  /\ dialog' = NoDialog
  /\ UNCHANGED <<base_url_, all, search, selected, reported>>

Cancel ==
  /\ dialog # NoDialog
  /\ CloseDialog
  /\ UNCHANGED <<kind, table, serial, version, requests, pending_requests_, busy,
                 missed>>

AcceptCreate ==
  /\ dialog.op = "create" /\ CloseDialog
  /\ \E row \in FirstRows :
       Start(Ask("create", "manager", 0, FormOf(row)))

(* getUpdatedData: the fields whose form differs from the original row. *)
UpdatedData(d, form) ==
  [f \in {g \in Field : form[g] # d.original[g]} |-> form[f]]

(* The dialog is accepted with what is in its form.  Its boxes, for the    *)
(* status of a user and the persistence of a channel, are in no request.   *)
AcceptEdit(form) ==
  /\ dialog.op = "edit" /\ CloseDialog
  /\ LET data == UpdatedData(dialog, form)
     IN  \/ /\ DOMAIN data # {}
            /\ Start(Ask("update", "manager", dialog.id, data))
         \/ /\ DOMAIN data = {}
            /\ busy' = FALSE
            /\ UNCHANGED <<kind, table, serial, version, requests,
                           pending_requests_, missed>>

(* onAccept, when validateForm finds no fault *)
SaveChanges ==
  \E form \in [Field -> FormValue] : form["name"] # Cleared /\ AcceptEdit(form)

(* The button accepts a user's dialog at once, and so sends its changes;   *)
(* nobody resets the password.                                             *)
ResetPassword ==
  kind = "users" /\ \E form \in [Field -> FormValue] : AcceptEdit(form)

AcceptDelete ==
  /\ dialog.op = "delete" /\ CloseDialog
  /\ Start(Ask("delete", "manager", dialog.id, NoRow))

(* onBanUser and onUnbanUser do not ask. *)
Ban ==
  /\ kind = "users" /\ MayClick /\ selected # 0
  /\ Start(Ask("ban", "manager", selected, NoRow))
  /\ UNCHANGED <<base_url_, all, search, selected, dialog, reported>>
-----------------------------------------------------------------------------
(* Answers.  requestFinished, when nothing else is pending: *)
Finished == busy /\ pending_requests_ # 1

OnError(r) ==
  /\ r.phase = "refused"
  /\ HandleReply(r, {})
  /\ busy' = FALSE
  /\ missed' = IF r.op = "list" THEN missed \cup ({r.view} \cap Lists) ELSE missed
  /\ UNCHANGED <<all, selected, reported>>

(* onStatsReceived *)
OnStats(r) ==
  /\ r.phase = "served" /\ r.view = "dashboard"
  /\ HandleReply(r, {})
  /\ busy' = Finished
  /\ UNCHANGED <<all, selected, reported, missed>>

Loaded(r) ==
  /\ r.phase = "served" /\ r.op = "list"
  /\ HandleReply(r, {})
  /\ all' = [all EXCEPT ![r.view] = [rows |-> r.rows, version |-> r.version]]
  /\ UNCHANGED <<reported, missed>>

(* onUsersLoaded, onChannelsLoaded, onRolesLoaded: a table filled anew has *)
(* no current row.                                                         *)
OnLoaded(r) ==
  /\ r.view = "manager" /\ Loaded(r)
  /\ busy' = FALSE /\ selected' = 0

(* onAdminChannelsChanged *)
OnVoiceLoaded(r) ==
  /\ r.view = "voice" /\ Loaded(r)
  /\ busy' = Finished /\ UNCHANGED selected

(* updateUser takes an answer without an id for a failure, and update_user *)
(* answers without one.                                                    *)
Succeeded(r) == ~(r.op = "update" /\ kind = "users")

(* Mutant: the voice tab is told of new and deleted channels only. *)
RefetchedForCount(r) ==
  IF kind = "channels" /\ r.op # "update" THEN {List("manager"), List("voice")}
  ELSE {List("manager")}

(* The lists that a success fetches again; channelsChanged makes the       *)
(* window rebuild its voice tab.                                           *)
Refetched(r) ==
  IF kind = "channels" /\ r.op # "ban" THEN {List("manager"), List("voice")}
  ELSE {List("manager")}

OnModified(r) ==
  /\ r.phase = "served" /\ r.op \in Modifying
  /\ \/ /\ Succeeded(r)
        /\ HandleReply(r, Refetched(r))
        /\ missed' = Missed(BagToSet(requests (-) SetToBag({r})), Refetched(r))
        /\ busy' = TRUE
        /\ reported' = IF r.version > reported THEN r.version ELSE reported
     \/ /\ ~Succeeded(r)
        /\ HandleReply(r, {})
        /\ busy' = FALSE
        /\ UNCHANGED <<reported, missed>>
  /\ UNCHANGED <<all, selected>>

OnReply ==
  /\ \E r \in BagToSet(requests) :
       OnError(r) \/ OnStats(r) \/ OnLoaded(r) \/ OnVoiceLoaded(r) \/ OnModified(r)
  /\ UNCHANGED <<kind, table, serial, version, base_url_, search, dialog>>
-----------------------------------------------------------------------------
Next ==
  \/ SetUserPermissions \/ Refresh \/ OnAutoRefreshTimer
  \/ \E text \in SearchText \cup {AnyText} : Search(text)
  \/ \E id \in Id : Select(id)
  \/ OnCreate \/ OnEdit \/ OnDelete \/ Cancel
  \/ AcceptCreate \/ SaveChanges \/ ResetPassword \/ AcceptDelete \/ Ban
  \/ Serve /\ UNCHANGED panelVars
  \/ ChangeElsewhere
  \/ OnReply

Spec == Init /\ [][Next]_vars
-----------------------------------------------------------------------------
(* The panel says "Loading..." only while an answer is outstanding, also   *)
(* after errors and when answers make new requests.                        *)
BusyLabelIsTrue == busy => requests # EmptyBag

(* When every answer has come, a change that was reported to the admin is  *)
(* in the list of its manager, and a channel's in the voice tab, unless    *)
(* the last request for that list failed or was made while another was     *)
(* outstanding, whose older answer may come last.                          *)
ListsShowReportedChanges ==
  requests = EmptyBag =>
    \A v \in Lists \ missed :
      v = "manager" \/ kind = "channels" => all[v].version >= reported
=============================================================================
