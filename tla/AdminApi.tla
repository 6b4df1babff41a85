------------------------------ MODULE AdminApi ------------------------------
(***************************************************************************)
(* The admin API between one panel and the server.  AdminApiClient         *)
(* (admin_api_client.cpp) sends a request and goes on; its network manager *)
(* has several connections, so that the server takes the requests of one   *)
(* panel, and the panel their answers, in any order.  The handlers of the  *)
(* server (users.rs, channels.rs, roles.rs) run one SQL statement or two.  *)
(* The tables of users, channels and roles share nothing but the queue of  *)
(* requests; a behaviour is about one of them.                             *)
(***************************************************************************)
EXTENDS Integers, FiniteSets, Bags

CONSTANTS
  Kind,        \* "users", "channels", "roles", or some of them
  Value,       \* what a field can hold
  Cleared,     \* the value of an emptied text, an email's is sent as null
  FirstRows,   \* the rows the table may start with
  MaxId,       \* bound: rows the table ever has
  MaxChanges   \* bound: changes of the table

Field == {"name", "detail"}
Id    == 1..MaxId
Row   == [Field -> Value]

ASSUME AdminApiAssumption ==
  /\ Kind \subseteq {"users", "channels", "roles"} /\ FirstRows \subseteq Row
  /\ Cleared \in Value /\ {MaxId, MaxChanges} \subseteq Nat \ {0}

VARIABLES
  kind,        \* the table the behaviour is about
  table,       \* its rows in the database
  serial,      \* its sequence: an id is never given twice
  version,     \* history: how often it has changed
  requests,    \* the bag of the replies the client waits for
  pending_requests_,
  base_url_    \* whether setBaseUrl was called

apiVars == <<kind, table, serial, version, requests, pending_requests_, base_url_>>

NoRow == [f \in {} |-> 0]
Rows  == UNION {[ids -> Row] : ids \in SUBSET Id}

View      == {"manager", "voice", "dashboard"}  \* who asks for a list
Modifying == {"create", "update", "delete", "ban"}

(* A request: the view that asks for a list, or the manager; the row and   *)
(* the fields sent; how far the server is with it ("half": update_user has *)
(* set the name); and its answer.  Without an address every request fails. *)
Request ==
  [op : {"list"} \cup Modifying, view : View, id : Id \cup {0},
   data : UNION {[fs -> Value] : fs \in SUBSET Field},
   phase : {"sent", "half", "served", "refused"}, rows : Rows, version : 0..MaxChanges]

Ask(op, view, id, data) ==
  [op |-> op, view |-> view, id |-> id, data |-> data,
   phase |-> IF base_url_ THEN "sent" ELSE "refused",
   rows |-> NoRow, version |-> 0]

List(view) == Ask("list", view, 0, NoRow)

ApiInit ==
  /\ kind \in Kind
  /\ table \in {[id \in {1} |-> row] : row \in FirstRows}
  /\ serial = 1 /\ version = 0
  /\ requests = EmptyBag /\ pending_requests_ = 0
  /\ base_url_ = FALSE

(* Requests that a step of the client makes. *)
Send(new) ==
  /\ requests' = requests (+) SetToBag(new)
  /\ pending_requests_' = pending_requests_ + Cardinality(new)

(* Mutant: a reply with an error returns before it is counted. *)
HandleReplyOfSuccess(r, new) ==
  /\ requests' = (requests (-) SetToBag({r})) (+) SetToBag(new)
  /\ pending_requests_' = pending_requests_ + Cardinality(new)
                          - (IF r.phase = "refused" THEN 0 ELSE 1)

(* handleReply takes the reply first, then calls back, which may ask again. *)
HandleReply(r, new) ==
  /\ requests' = (requests (-) SetToBag({r})) (+) SetToBag(new)
  /\ pending_requests_' = pending_requests_ - 1 + Cardinality(new)
-----------------------------------------------------------------------------
(* The handlers of the server. *)
Updated(rows, id, data) ==
  [rows EXCEPT ![id] = [f \in Field |-> IF f \in DOMAIN data THEN data[f] ELSE @[f]]]

Deleted(rows, id) == [i \in DOMAIN rows \ {id} |-> rows[i]]

ChangeTable(rows) ==
  /\ version < MaxChanges
  /\ table' = rows /\ version' = version + 1

Become(r, q) == requests' = (requests (-) SetToBag({r})) (+) SetToBag({q})

(* The answer says nothing of what was sent; the client goes by the kind   *)
(* of the request alone.                                                   *)
Answer(r, answer) == Become(r, [answer EXCEPT !.id = 0, !.data = NoRow])

Changed(r, rows) ==
  /\ ChangeTable(rows)
  /\ Answer(r, [r EXCEPT !.phase = "served", !.version = version + 1])

ServeList(r) ==
  /\ r.op = "list"
  /\ Answer(r, [r EXCEPT !.phase = "served",
                         !.rows = IF r.view = "manager" THEN table ELSE NoRow,
                         !.version = IF r.view = "dashboard" THEN 0 ELSE version])
  /\ UNCHANGED <<table, serial, version>>

(* create_*: the INSERT takes the next id. *)
ServeCreate(r) ==
  /\ r.op = "create" /\ serial < MaxId
  /\ serial' = serial + 1
  /\ Changed(r, [id \in DOMAIN table \cup {serial'} |->
                   IF id = serial' THEN r.data ELSE table[id]])

(* update_channel, update_role: one UPDATE of the fields that were sent,   *)
(* the others keep their value; a row that is gone cannot be fetched.      *)
ServeUpdate(r) ==
  /\ r.op = "update" /\ kind # "users"
  /\ \/ r.id \in DOMAIN table /\ Changed(r, Updated(table, r.id, r.data))
     \/ /\ r.id \notin DOMAIN table
        /\ Answer(r, [r EXCEPT !.phase = "refused"])
        /\ UNCHANGED <<table, version>>
  /\ UNCHANGED serial

(* update_user: an UPDATE of its own for each field that is not null.  It  *)
(* answers success, without an id, even when there is no such row.         *)
GivenToUser(r) == {f \in DOMAIN r.data : f = "detail" => r.data[f] # Cleared}

SetField(r, f) ==
  IF f \in GivenToUser(r) /\ r.id \in DOMAIN table
  THEN ChangeTable(Updated(table, r.id, [g \in {f} |-> r.data[f]]))
  ELSE UNCHANGED <<table, version>>

UpdateUser(r) ==
  /\ r.op = "update" /\ kind = "users" /\ UNCHANGED serial
  /\ \/ /\ r.phase = "sent"
        /\ SetField(r, "name") /\ Become(r, [r EXCEPT !.phase = "half"])
     \/ /\ r.phase = "half"
        /\ SetField(r, "detail") /\ Answer(r, [r EXCEPT !.phase = "served"])

(* delete_*: success also when there is no such row. *)
ServeDelete(r) ==
  /\ r.op = "delete"
  /\ \/ r.id \in DOMAIN table /\ Changed(r, Deleted(table, r.id))
     \/ /\ r.id \notin DOMAIN table
        /\ Answer(r, [r EXCEPT !.phase = "served"])
        /\ UNCHANGED <<table, version>>
  /\ UNCHANGED serial

(* ban_user and unban_user only say that they succeeded. *)
ServeBan(r) ==
  /\ r.op = "ban"
  /\ Answer(r, [r EXCEPT !.phase = "served"])
  /\ UNCHANGED <<table, serial, version>>

(* If the network or the database fails (a name is taken, an email too     *)
(* long for its column) the reply carries an error; the change may have    *)
(* been made all the same: the name's before the email's failed, or all of *)
(* it, when only the answer was lost.                                      *)
Fail(r) ==
  /\ r.phase # "refused"
  /\ Answer(r, [r EXCEPT !.phase = "refused", !.rows = NoRow, !.version = 0])
  /\ UNCHANGED <<table, serial, version>>

Serve ==
  /\ \E r \in BagToSet(requests) :
       \/ /\ r.phase = "sent"
          /\ \/ ServeList(r) \/ ServeCreate(r) \/ ServeUpdate(r)
             \/ ServeDelete(r) \/ ServeBan(r)
       \/ UpdateUser(r)
       \/ Fail(r)
  /\ UNCHANGED <<kind, pending_requests_, base_url_>>
=============================================================================
