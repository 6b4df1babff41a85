--------------------------- MODULE AdminPanelProof ---------------------------
(***************************************************************************)
(* Proofs about AdminPanel for any values, first rows, searches, forms and *)
(* bounds, and any number of requests in flight.                           *)
(***************************************************************************)
EXTENDS AdminPanel, TLAPS, FiniteSetTheorems

USE AdminApiAssumption, AdminPanelAssumption

----------------------------------------------------------------------------
(* Bags of requests, by the copies in them.                                *)
LEMMA CopiesAre ==
  ASSUME NEW b
  PROVE  \A c : c \in Copies(b) <=> \E r \in DOMAIN b : \E i \in 1..b[r] : c = <<r, i>>
  BY DEF Copies, BagToSet

(* Only copies of new requests come, one of each, and as many as counted.  *)
LEMMA Adding ==
  ASSUME NEW b, IsABag(b), IsFiniteSet(Copies(b)), NEW new, IsFiniteSet(new),
         NEW a, a = b (+) SetToBag(new)
  PROVE  /\ IsABag(a) /\ DOMAIN a = DOMAIN b \cup new
         /\ Copies(b) \subseteq Copies(a)
         /\ \A c \in Copies(a) \ Copies(b) : c[1] \in new
         /\ \A c, d \in Copies(a) \ Copies(b) : c[1] = d[1] => c = d
         /\ IsFiniteSet(Copies(a))
         /\ Cardinality(Copies(a)) = Cardinality(Copies(b)) + Cardinality(new)
<1>1. /\ DOMAIN a = DOMAIN b \cup new
      /\ \A r \in DOMAIN b \ new : a[r] = b[r]
      /\ \A r \in DOMAIN b \cap new : a[r] = b[r] + 1
      /\ \A r \in new \ DOMAIN b : a[r] = 1
      /\ \A r \in DOMAIN b : b[r] \in Nat /\ b[r] > 0
      /\ a = [r \in DOMAIN a |-> a[r]]
  BY DEF IsABag, (+), SetToBag
<1> DEFINE Last(r) == <<r, a[r]>>
           come == {Last(r) : r \in new}
<1>2. IsABag(a)
  <2>1. \A r \in DOMAIN a : a[r] \in {n \in Nat : n > 0}
    BY <1>1
  <2> QED
    BY <1>1, <2>1 DEF IsABag
<1>3. Copies(a) = Copies(b) \cup come
  <2>1. ASSUME NEW c PROVE c \in Copies(a) <=> c \in Copies(b) \/ c \in come
    <3>1. ASSUME NEW r \in DOMAIN a, NEW i \in 1..a[r], c = <<r, i>>
          PROVE  c \in Copies(b) \/ c \in come
      <4>1. CASE r \in new /\ i = a[r]
        BY <3>1, <4>1
      <4>2. CASE ~(r \in new /\ i = a[r])
        <5>1. r \in DOMAIN b /\ i \in 1..b[r]
          BY <1>1, <4>2
        <5> QED
          BY <3>1, <5>1, CopiesAre
      <4> QED
        BY <4>1, <4>2
    <3>2. ASSUME NEW r \in DOMAIN b, NEW i \in 1..b[r], c = <<r, i>>
          PROVE  c \in Copies(a)
      <4>1. r \in DOMAIN a /\ i \in 1..a[r]
        BY <1>1
      <4> QED
        BY <3>2, <4>1, CopiesAre
    <3>3. ASSUME NEW r \in new, c = Last(r) PROVE c \in Copies(a)
      <4>1. r \in DOMAIN a /\ a[r] \in 1..a[r]
        BY <1>1
      <4> QED
        BY <3>3, <4>1, CopiesAre
    <3> HIDE DEF Last
    <3> QED
      BY <3>1, <3>2, <3>3, CopiesAre
  <2> HIDE DEF come
  <2> QED
    BY <2>1
<1>4. \A r \in new : Last(r) \notin Copies(b)
  <2> SUFFICES ASSUME NEW r \in new, Last(r) \in Copies(b) PROVE FALSE
    OBVIOUS
  <2> PICK s \in DOMAIN b : \E i \in 1..b[s] : Last(r) = <<s, i>>
    BY CopiesAre
  <2> PICK i \in 1..b[s] : Last(r) = <<s, i>>
    OBVIOUS
  <2>1. s = r /\ i = a[r]
    OBVIOUS
  <2> QED
    BY <1>1, <2>1
<1>5. /\ \A c \in Copies(a) \ Copies(b) : c \in come
      /\ \A c \in come : c[1] \in new /\ c = Last(c[1])
  BY <1>3
<1>6. IsFiniteSet(come) /\ Cardinality(come) = Cardinality(new)
  <2> DEFINE f == [r \in new |-> Last(r)]
  <2>1. f \in Bijection(new, come)
    <3>1. f \in [new -> come]
      OBVIOUS
    <3>2. \A r, s \in new : f[r] = f[s] => r = s
      OBVIOUS
    <3>3. \A c \in come : \E r \in new : f[r] = c
      OBVIOUS
    <3> HIDE DEF f, come
    <3> QED
      BY <3>1, <3>2, <3>3 DEF Bijection, Injection, Surjection, IsInjective
  <2>2. ExistsBijection(new, come)
    BY <2>1 DEF ExistsBijection
  <2> HIDE DEF come
  <2> QED
    BY <2>2, FS_Bijection
<1>7. Copies(b) \cap come = {}
  BY <1>4
<1>8. /\ IsFiniteSet(Copies(a))
      /\ Cardinality(Copies(a)) = Cardinality(Copies(b)) + Cardinality(new)
  <2> HIDE DEF come
  <2>1. /\ IsFiniteSet(Copies(b) \cup come)
        /\ Cardinality(Copies(b) \cup come) =
             Cardinality(Copies(b)) + Cardinality(come) - Cardinality(Copies(b) \cap come)
    BY <1>6, FS_Union
  <2>2. Cardinality(Copies(b) \cap come) = 0
    BY <1>7, FS_EmptySet
  <2>3. Cardinality(Copies(b)) \in Nat /\ Cardinality(new) \in Nat
    BY FS_CardinalityType
  <2> QED
    BY <1>3, <1>6, <2>1, <2>2, <2>3
<1> HIDE DEF come, Last
<1> QED
  BY <1>1, <1>2, <1>3, <1>5, <1>8

(* A reply takes one copy of its request away.                             *)
LEMMA Removing ==
  ASSUME NEW b, IsABag(b), IsFiniteSet(Copies(b)), NEW r \in DOMAIN b,
         NEW a, a = b (-) SetToBag({r})
  PROVE  /\ IsABag(a) /\ DOMAIN a \subseteq DOMAIN b /\ DOMAIN b \ {r} \subseteq DOMAIN a
         /\ IsFiniteSet(Copies(a))
         /\ \E c \in Copies(b) : c[1] = r /\ Copies(a) = Copies(b) \ {c}
         /\ Cardinality(Copies(a)) = Cardinality(Copies(b)) - 1
<1>1. /\ \A s \in DOMAIN b : b[s] \in Nat /\ b[s] > 0
      /\ DOMAIN a = {s \in DOMAIN b : s # r \/ b[s] - 1 > 0}
      /\ \A s \in DOMAIN a \ {r} : a[s] = b[s]
      /\ r \in DOMAIN a => a[r] = b[r] - 1
      /\ a = [s \in DOMAIN a |-> a[s]]
  BY DEF IsABag, (-), SetToBag
<1>2. IsABag(a)
  <2>1. \A s \in DOMAIN a : a[s] \in {n \in Nat : n > 0}
    BY <1>1
  <2> QED
    BY <1>1, <2>1 DEF IsABag
<1> DEFINE gone == <<r, b[r]>>
<1>3. gone \in Copies(b)
  <2>1. b[r] \in 1..b[r]
    BY <1>1
  <2> QED
    BY <2>1, CopiesAre
<1>4. Copies(a) = Copies(b) \ {gone}
  <2>1. ASSUME NEW c PROVE c \in Copies(a) <=> c \in Copies(b) /\ c # gone
    <3>1. ASSUME NEW s \in DOMAIN a, NEW i \in 1..a[s], c = <<s, i>>
          PROVE  c \in Copies(b) /\ c # gone
      <4>1. s \in DOMAIN b /\ i \in 1..b[s] /\ ~(s = r /\ i = b[r])
        <5>1. CASE s = r
          BY <1>1, <5>1
        <5>2. CASE s # r
          <6>1. a[s] = b[s]
            BY <1>1, <5>2
          <6> QED
            BY <1>1, <5>2, <6>1
        <5> QED
          BY <5>1, <5>2
      <4> QED
        BY <3>1, <4>1, CopiesAre
    <3>2. ASSUME NEW s \in DOMAIN b, NEW i \in 1..b[s], c = <<s, i>>, c # gone
          PROVE  c \in Copies(a)
      <4>1. s \in DOMAIN a /\ i \in 1..a[s]
        <5>1. CASE s = r
          <6>1. i # b[r]
            BY <3>2, <5>1
          <6> QED
            BY <1>1, <5>1, <6>1
        <5>2. CASE s # r
          <6>1. s \in DOMAIN a /\ a[s] = b[s]
            BY <1>1, <5>2
          <6> QED
            BY <6>1
        <5> QED
          BY <5>1, <5>2
      <4> QED
        BY <3>2, <4>1, CopiesAre
    <3> HIDE DEF gone
    <3>3. ASSUME c \in Copies(a) PROVE c \in Copies(b) /\ c # gone
      <4>1. PICK s \in DOMAIN a : \E i \in 1..a[s] : c = <<s, i>>
        <5>1. \A e : e \in Copies(a) <=> \E s \in DOMAIN a : \E i \in 1..a[s] : e = <<s, i>>
          BY ONLY CopiesAre
        <5> QED
          BY ONLY <3>3, <5>1
      <4> QED
        BY <3>1, <4>1
    <3>4. ASSUME c \in Copies(b), c # gone PROVE c \in Copies(a)
      <4>1. PICK s \in DOMAIN b : \E i \in 1..b[s] : c = <<s, i>>
        BY <3>4, CopiesAre
      <4> QED
        BY <3>2, <3>4, <4>1
    <3> QED
      BY <3>3, <3>4
  <2> HIDE DEF gone
  <2> QED
    BY <2>1
<1>5. gone[1] = r
  OBVIOUS
<1> HIDE DEF gone
<1>6. IsFiniteSet(Copies(a)) /\ Cardinality(Copies(a)) = Cardinality(Copies(b)) - 1
  BY <1>3, <1>4, FS_RemoveElement
<1> QED
  BY <1>1, <1>2, <1>3, <1>4, <1>5, <1>6
----------------------------------------------------------------------------
(* The inductive invariant.  What a dialog was opened with, and the row    *)
(* that is selected, are there.                                            *)
Chosen ==
  /\ selected # 0 => selected \in DOMAIN all["manager"].rows
  /\ dialog.op = "edit" => dialog.id \in Id /\ dialog.original \in Row
  /\ dialog.op = "delete" => dialog.id \in Id

(* A request is as the panel makes it, and its answer knows no change that *)
(* was not made.                                                           *)
WellAsked(r) ==
  /\ r.op # "list" => r.view = "manager"
  /\ r.op = "create" /\ r.phase = "sent" => r.data \in Row
  /\ r.op = "ban" => r.version = 0

Mail == \A r \in BagToSet(requests) : WellAsked(r) /\ r.version <= version

(* The lists in which the admin looks for what was reported.               *)
ForList(r, v) == r.op = "list" /\ r.view = v
Relevant(v)   == v = "manager" \/ kind = "channels"

(* Unless it is missed, a list was last asked for when no older request    *)
(* for it was outstanding: there is one at most,                           *)
AloneIn(bag, v) ==
  \A c, d \in Copies(bag) : ForList(c[1], v) /\ ForList(d[1], v) => c = d

(* its answer has all that was reported,                                   *)
Recent(r, v) == ForList(r, v) /\ r.phase = "served" => reported <= r.version

(* and if there is none the list has.                                      *)
Fetched(v) ==
  reported <= all[v].version \/ \E r \in BagToSet(requests) : ForList(r, v)

Fresh ==
  /\ reported <= version
  /\ \A v \in Lists \ missed :
       /\ AloneIn(requests, v)
       /\ Relevant(v) => Fetched(v) /\ \A r \in BagToSet(requests) : Recent(r, v)

(* The requests in flight are well typed and counted.                      *)
Counted ==
  /\ DOMAIN requests \subseteq Request /\ IsABag(requests)
  /\ IsFiniteSet(Copies(requests)) /\ pending_requests_ = Cardinality(Copies(requests))

Flight == Counted /\ Mail /\ Fresh /\ BusyLabelIsTrue

Typed ==
  /\ kind \in Kind
  /\ table \in Rows /\ serial \in Id /\ version \in 0..MaxChanges
  /\ base_url_ \in BOOLEAN /\ busy \in BOOLEAN
  /\ all \in [Lists -> [rows : Rows, version : 0..MaxChanges]]
  /\ search \in SearchText \cup {AnyText} /\ selected \in Id \cup {0}
  /\ dialog \in [op : {"none", "create", "edit", "delete"}, id : Id \cup {0},
                 original : {NoRow} \cup Row]
  /\ reported \in 0..MaxChanges /\ missed \subseteq Lists

IInv == Typed /\ Chosen /\ Flight
----------------------------------------------------------------------------
(* Rows and requests.                                                      *)
Data == UNION {[fs -> Value] : fs \in SUBSET Field}

LEMMA DataAre ==
  /\ \A fs \in SUBSET Field : \A d \in [fs -> Value] : d \in Data
  /\ \A d \in Data : DOMAIN d \subseteq Field /\ d \in [DOMAIN d -> Value]
  /\ NoRow \in Data /\ Row \subseteq Data
<1>1. \A fs \in SUBSET Field : \A d \in [fs -> Value] : d \in Data
  BY DEF Data
<1>2. \A d \in Data : DOMAIN d \subseteq Field /\ d \in [DOMAIN d -> Value]
  BY DEF Data
<1>3. NoRow \in [{} -> Value]
  BY DEF NoRow
<1> QED
  BY <1>1, <1>2, <1>3 DEF Row

LEMMA RowsAre ==
  /\ \A ids \in SUBSET Id : \A d \in [ids -> Row] : d \in Rows
  /\ \A d \in Rows : DOMAIN d \subseteq Id /\ d \in [DOMAIN d -> Row]
  /\ NoRow \in Rows
<1>1. \A ids \in SUBSET Id : \A d \in [ids -> Row] : d \in Rows
  BY DEF Rows
<1>2. \A d \in Rows : DOMAIN d \subseteq Id /\ d \in [DOMAIN d -> Row]
  BY DEF Rows
<1>3. NoRow \in [{} -> Row]
  BY DEF NoRow
<1> QED
  BY <1>1, <1>2, <1>3

LEMMA Bounds == MaxId \in Nat /\ MaxId > 0 /\ MaxChanges \in Nat /\ MaxChanges > 0
  OBVIOUS

(* A form can be filled for any row.                                       *)
LEMMA Forms ==
  /\ FormValue \subseteq Value
  /\ \A row \in Row : FormOf(row) \in Row
  BY DEF FormValue, FormOf, Row

LEMMA UpdatedIs ==
  ASSUME NEW rows \in Rows, NEW id \in DOMAIN rows, NEW data \in Data
  PROVE  Updated(rows, id, data) \in Rows
<1>1. rows \in [DOMAIN rows -> Row] /\ DOMAIN rows \in SUBSET Id /\ data \in [DOMAIN data -> Value]
  BY RowsAre, DataAre
<1> DEFINE row == [f \in Field |-> IF f \in DOMAIN data THEN data[f] ELSE rows[id][f]]
<1>2. row \in Row
  BY <1>1 DEF Row
<1>3. Updated(rows, id, data) = [rows EXCEPT ![id] = row]
  BY <1>1 DEF Updated
<1> HIDE DEF row
<1>4. Updated(rows, id, data) \in [DOMAIN rows -> Row]
  BY <1>1, <1>2, <1>3
<1> QED
  BY <1>1, <1>4, RowsAre

LEMMA DeletedIs ==
  ASSUME NEW rows \in Rows, NEW id
  PROVE  Deleted(rows, id) \in Rows
<1>1. rows \in [DOMAIN rows -> Row] /\ DOMAIN rows \ {id} \in SUBSET Id
  BY RowsAre
<1>2. Deleted(rows, id) \in [DOMAIN rows \ {id} -> Row]
  BY <1>1 DEF Deleted
<1> QED
  BY <1>1, <1>2, RowsAre

LEMMA AskIs ==
  ASSUME base_url_ \in BOOLEAN,
         NEW op \in {"list"} \cup Modifying, NEW view \in View, NEW id \in Id \cup {0},
         NEW data \in Data, NEW r, r = Ask(op, view, id, data)
  PROVE  /\ r \in Request
         /\ r.op = op /\ r.view = view /\ r.id = id /\ r.data = data
         /\ r.phase \in {"sent", "refused"} /\ r.version = 0
<1> DEFINE phase == IF base_url_ THEN "sent" ELSE "refused"
<1>1. phase \in {"sent", "half", "served", "refused"} /\ phase \in {"sent", "refused"}
  OBVIOUS
<1>2. 0 \in 0..MaxChanges /\ NoRow \in Rows
  BY Bounds, RowsAre
<1>3. r = [op |-> op, view |-> view, id |-> id, data |-> data,
           phase |-> phase, rows |-> NoRow, version |-> 0]
  BY DEF Ask
<1> HIDE DEF phase
<1>4. r \in Request
  BY <1>1, <1>2, <1>3 DEF Request, Data
<1> QED
  BY <1>1, <1>3, <1>4

(* The answer says nothing of what was sent.                               *)
Told(q) == [q EXCEPT !.id = 0, !.data = NoRow]

LEMMA ToldIs ==
  ASSUME NEW q \in Request, NEW a, a = Told(q)
  PROVE  /\ a \in Request
         /\ a.op = q.op /\ a.view = q.view /\ a.phase = q.phase /\ a.version = q.version
<1>1. NoRow \in UNION {[fs -> Value] : fs \in SUBSET Field} /\ DOMAIN NoRow = {}
  BY DataAre DEF Data, NoRow
<1>2. a \in Request
  BY <1>1 DEF Told, Request
<1> QED
  BY <1>1, <1>2 DEF Told, Request
----------------------------------------------------------------------------
(* What the steps of the panel and of the server do to what is in flight.  *)

(* New requests: what missed then means.                                   *)
LEMMA AddLists ==
  ASSUME NEW b, IsABag(b), IsFiniteSet(Copies(b)), NEW new, IsFiniteSet(new),
         NEW a, a = b (+) SetToBag(new),
         \A v \in Lists : \A x, y \in new : ForList(x, v) /\ ForList(y, v) => x = y,
         \A v \in Lists \ missed : AloneIn(b, v),
         NEW v \in Lists \ Missed(DOMAIN b, new)
  PROVE  /\ AloneIn(a, v)
         /\ \/ v \notin missed /\ \A x \in new : ~ForList(x, v)
            \/ (\E x \in new : ForList(x, v)) /\ \A x \in DOMAIN b : ~ForList(x, v)
<1>1. /\ DOMAIN a = DOMAIN b \cup new
      /\ \A c \in Copies(a) \ Copies(b) : c[1] \in new
      /\ \A c, d \in Copies(a) \ Copies(b) : c[1] = d[1] => c = d
  BY Adding
<1>2. \A c \in Copies(b) : c[1] \in DOMAIN b
  <2> SUFFICES ASSUME NEW c \in Copies(b) PROVE c[1] \in DOMAIN b
    OBVIOUS
  <2>1. PICK r \in DOMAIN b : \E i \in 1..b[r] : c = <<r, i>>
    <3>1. \A e : e \in Copies(b) <=> \E s \in DOMAIN b : \E i \in 1..b[s] : e = <<s, i>>
      BY ONLY CopiesAre
    <3> QED
      BY <3>1
  <2> QED
    BY <2>1
<1>3. CASE \E x \in new : ForList(x, v)
  <2>1. \A x \in DOMAIN b : ~ForList(x, v)
    BY <1>3 DEF Missed, ForList
  <2>2. \A c \in Copies(a) : ForList(c[1], v) => c \in Copies(a) \ Copies(b) /\ c[1] \in new
    BY <1>1, <1>2, <2>1
  <2>3. AloneIn(a, v)
    BY <1>1, <2>2 DEF AloneIn
  <2> QED
    BY <1>3, <2>1, <2>3
<1>4. CASE ~\E x \in new : ForList(x, v)
  <2>1. v \notin missed
    BY <1>4 DEF Missed, ForList
  <2>2. \A c \in Copies(a) : ForList(c[1], v) => c \in Copies(b)
    BY <1>1, <1>4
  <2>3. AloneIn(a, v)
    BY <2>1, <2>2 DEF AloneIn
  <2> QED
    BY <1>4, <2>1, <2>3
<1> QED
  BY <1>3, <1>4

LEMMA MissedType ==
  ASSUME missed \subseteq Lists, NEW flying, NEW new
  PROVE  Missed(flying, new) \subseteq Lists
  BY DEF Missed

LEMMA CountedOnes ==
  ASSUME NEW b, Copies(b) # {}
  PROVE  b # EmptyBag
<1>1. \A e : e \in Copies(b) <=> \E s \in DOMAIN b : \E i \in 1..b[s] : e = <<s, i>>
  BY ONLY CopiesAre
<1>2. DOMAIN EmptyBag = {}
  BY DEF EmptyBag, SetToBag
<1>3. DOMAIN b # {}
  BY <1>1
<1> QED
  BY <1>2, <1>3

LEMMA SomeRequest ==
  ASSUME NEW b, NEW r \in DOMAIN b
  PROVE  b # EmptyBag
  BY DEF EmptyBag, SetToBag

(* What a request of the admin leaves in flight.                           *)
LEMMA StartFlight ==
  ASSUME IInv, NEW r \in Request, WellAsked(r), r.version = 0, r.phase # "served",
         Start(r), UNCHANGED <<all, reported>>
  PROVE  Flight' /\ missed' \subseteq Lists /\ busy' = TRUE
<1>1. /\ requests' = requests (+) SetToBag({r})
      /\ pending_requests_' = pending_requests_ + Cardinality({r})
      /\ missed' = Missed(DOMAIN requests, {r}) /\ busy' = TRUE
      /\ UNCHANGED <<kind, version, all, reported>>
  BY DEF Start, Send, BagToSet
<1>2. IsFiniteSet({r}) /\ IsABag(requests) /\ IsFiniteSet(Copies(requests))
  BY FS_Singleton DEF IInv, Flight, Counted
<1>3. /\ IsABag(requests') /\ DOMAIN requests' = DOMAIN requests \cup {r}
      /\ IsFiniteSet(Copies(requests'))
      /\ Cardinality(Copies(requests')) = Cardinality(Copies(requests)) + Cardinality({r})
  BY <1>1, <1>2, Adding
<1>4. Counted'
  BY <1>1, <1>3 DEF IInv, Flight, Counted, Copies, BagToSet
<1>5. version \in Nat /\ reported \in Nat
  BY Bounds DEF IInv, Typed
<1>6. Mail'
  BY <1>1, <1>3, <1>5 DEF IInv, Flight, Mail, WellAsked, BagToSet
<1>7. ASSUME NEW v \in Lists \ missed'
      PROVE  /\ AloneIn(requests', v)
             /\ \/ v \notin missed /\ ~ForList(r, v)
                \/ ForList(r, v) /\ \A x \in DOMAIN requests : ~ForList(x, v)
  <2>1. \A w \in Lists \ missed : AloneIn(requests, w)
    BY DEF IInv, Flight, Fresh
  <2>2. \A w \in Lists : \A x, y \in {r} : ForList(x, w) /\ ForList(y, w) => x = y
    OBVIOUS
  <2>3. v \in Lists \ Missed(DOMAIN requests, {r})
    BY <1>1
  <2> QED
    BY <1>1, <1>2, <2>1, <2>2, <2>3, AddLists
<1>8. Fresh'
  <2>1. reported' <= version'
    BY <1>1 DEF IInv, Flight, Fresh
  <2>2. ASSUME NEW v \in Lists \ missed', Relevant(v)
        PROVE  Fetched(v)' /\ \A x \in DOMAIN requests' : Recent(x, v)
    <3>1. CASE ForList(r, v)
      BY <1>1, <1>3, <1>7, <3>1 DEF Fetched, Recent, ForList, BagToSet
    <3>2. CASE ~ForList(r, v)
      <4>1. Fetched(v) /\ \A x \in DOMAIN requests : Recent(x, v)
        BY <1>7, <2>2, <3>2 DEF IInv, Flight, Fresh, BagToSet
      <4>2. Fetched(v)'
        BY <1>1, <1>3, <4>1 DEF Fetched, BagToSet
      <4>3. \A x \in DOMAIN requests' : Recent(x, v)
        BY <1>3, <3>2, <4>1 DEF Recent
      <4> QED
        BY <4>2, <4>3
    <3> QED
      BY <3>1, <3>2
  <2> QED
    BY <1>1, <1>7, <2>1, <2>2 DEF Fresh, AloneIn, Copies, Relevant, Recent, BagToSet
<1>9. BusyLabelIsTrue'
  BY <1>3, SomeRequest DEF BusyLabelIsTrue
<1>10. missed' \subseteq Lists
  BY <1>1, MissedType DEF IInv, Typed
<1> QED
  BY <1>1, <1>4, <1>6, <1>8, <1>9, <1>10 DEF Flight

(* What a step of the server, whose answer no list in Lists can call older *)
(* than what was reported, leaves in flight.                               *)
LEMMA BecomeFlight ==
  ASSUME IInv, NEW r \in DOMAIN requests, NEW t \in Request,
         t.op = r.op, t.view = r.view, t.phase # "sent", t.op = "ban" => t.version = 0,
         t.version <= version', \A v \in Lists : Recent(t, v),
         Become(r, t), version <= version', version' \in Nat,
         UNCHANGED <<kind, pending_requests_, panelVars>>
  PROVE  Flight'
<1> DEFINE b == requests (-) SetToBag({r})
<1>1. requests' = b (+) SetToBag({t})
  BY DEF Become
<1>2. UNCHANGED <<kind, pending_requests_, all, busy, reported, missed>>
  BY DEF panelVars
<1>3. /\ r \in Request /\ IsABag(requests) /\ IsFiniteSet(Copies(requests))
      /\ pending_requests_ = Cardinality(Copies(requests))
  BY DEF IInv, Flight, Counted
<1>5. /\ IsABag(b) /\ DOMAIN b \subseteq DOMAIN requests /\ DOMAIN requests \ {r} \subseteq DOMAIN b
      /\ IsFiniteSet(Copies(b))
      /\ \E c \in Copies(requests) : c[1] = r /\ Copies(b) = Copies(requests) \ {c}
      /\ Cardinality(Copies(b)) = Cardinality(Copies(requests)) - 1
  <2> HIDE DEF b
  <2>1. b = requests (-) SetToBag({r})
    BY DEF b
  <2> QED
    BY <1>3, <2>1, Removing
<1> HIDE DEF b
<1>6. IsFiniteSet({t}) /\ Cardinality({t}) = 1
  BY FS_Singleton
<1>7. /\ IsABag(requests') /\ DOMAIN requests' = DOMAIN b \cup {t}
      /\ \A c \in Copies(requests') \ Copies(b) : c[1] = t
      /\ \A c, d \in Copies(requests') \ Copies(b) : c[1] = d[1] => c = d
      /\ IsFiniteSet(Copies(requests'))
      /\ Cardinality(Copies(requests')) = Cardinality(Copies(b)) + Cardinality({t})
  <2>1. /\ IsABag(requests') /\ DOMAIN requests' = DOMAIN b \cup {t}
        /\ \A c \in Copies(requests') \ Copies(b) : c[1] \in {t}
        /\ \A c, d \in Copies(requests') \ Copies(b) : c[1] = d[1] => c = d
        /\ IsFiniteSet(Copies(requests'))
        /\ Cardinality(Copies(requests')) = Cardinality(Copies(b)) + Cardinality({t})
    <3>1. IsABag(b) /\ IsFiniteSet(Copies(b)) /\ IsFiniteSet({t}) /\ requests' = b (+) SetToBag({t})
      BY <1>1, <1>5, <1>6
    <3> QED
      BY ONLY <3>1, Adding
  <2>2. \A c \in Copies(requests') \ Copies(b) : c[1] = t
    BY <2>1
  <2> QED
    BY <2>1, <2>2
<1>8. Counted'
  <2>1. Cardinality(Copies(requests)) \in Int
    BY <1>3, FS_CardinalityType
  <2>2. DOMAIN requests' \subseteq Request
    BY <1>5, <1>7 DEF IInv, Flight, Counted
  <2>3. pending_requests_' = Cardinality(Copies(requests'))
    BY <1>2, <1>3, <1>5, <1>6, <1>7, <2>1
  <2> QED
    BY <1>7, <2>2, <2>3 DEF Counted, Copies, BagToSet
<1>9. Mail'
  <2>1. WellAsked(r)
    BY DEF IInv, Flight, Mail, BagToSet
  <2>2. WellAsked(t) /\ t.version <= version'
    BY <2>1 DEF WellAsked
  <2>3. ASSUME NEW x \in DOMAIN b PROVE WellAsked(x) /\ x.version <= version'
    <3>1. WellAsked(x) /\ x.version <= version /\ x.version \in Nat /\ version \in Nat
      BY <1>5, Bounds DEF IInv, Flight, Mail, Counted, Typed, Request, BagToSet
    <3> QED
      BY <3>1
  <2>4. \A x \in DOMAIN requests' : WellAsked(x) /\ x.version <= version'
    BY <1>7, <2>2, <2>3
  <2> QED
    BY <2>4 DEF Mail, WellAsked, BagToSet
<1>10. Fresh'
  <2>1. reported' <= version'
    <3>1. reported <= version /\ reported \in Nat /\ version \in Nat
      BY Bounds DEF IInv, Flight, Fresh, Typed
    <3> QED
      BY <1>2, <3>1
  <2>2. ASSUME NEW v \in Lists \ missed
        PROVE  AloneIn(requests', v)
    <3> PICK gone \in Copies(requests) : gone[1] = r /\ Copies(b) = Copies(requests) \ {gone}
      BY <1>5
    <3>1. \A c, d \in Copies(requests) : ForList(c[1], v) /\ ForList(d[1], v) => c = d
      BY DEF IInv, Flight, Fresh, AloneIn
    <3>2. ForList(t, v) <=> ForList(r, v)
      BY DEF ForList
    <3>3. ASSUME NEW c \in Copies(requests'), NEW d \in Copies(requests'),
                 ForList(c[1], v), ForList(d[1], v), c \in Copies(b)
          PROVE  d \in Copies(b)
      <4> SUFFICES ASSUME d \notin Copies(b) PROVE FALSE
        OBVIOUS
      <4>1. ForList(r, v)
        BY <1>7, <3>2, <3>3
      <4> QED
        BY <3>1, <3>3, <4>1
    <3>4. ASSUME NEW c \in Copies(requests'), NEW d \in Copies(requests'),
                 ForList(c[1], v), ForList(d[1], v)
          PROVE  c = d
      <4>1. CASE c \in Copies(b)
        BY <3>1, <3>3, <3>4, <4>1
      <4>2. CASE c \notin Copies(b)
        <5>1. d \notin Copies(b)
          BY <3>3, <3>4, <4>2
        <5> QED
          BY <1>7, <4>2, <5>1
      <4> QED
        BY <4>1, <4>2
    <3> QED
      BY <3>4 DEF AloneIn
  <2>3. ASSUME NEW v \in Lists \ missed, Relevant(v)
        PROVE  Fetched(v)' /\ \A x \in DOMAIN requests' : Recent(x, v)
    <3>1. Fetched(v) /\ \A x \in DOMAIN requests : Recent(x, v)
      BY <2>3 DEF IInv, Flight, Fresh, BagToSet
    <3>2. ForList(t, v) <=> ForList(r, v)
      BY DEF ForList
    <3>3. Fetched(v)'
      <4>1. (\E x \in DOMAIN requests : ForList(x, v)) => \E x \in DOMAIN requests' : ForList(x, v)
        BY <1>5, <1>7, <3>2
      <4> QED
        BY <1>2, <3>1, <4>1 DEF Fetched, ForList, BagToSet
    <3>4. \A x \in DOMAIN requests' : Recent(x, v)
      BY <1>5, <1>7, <3>1
    <3> QED
      BY <3>3, <3>4
  <2> QED
    BY <1>2, <2>1, <2>2, <2>3 DEF Fresh, AloneIn, Copies, Relevant, Recent, BagToSet
<1>11. BusyLabelIsTrue'
  BY <1>7, SomeRequest DEF BusyLabelIsTrue
<1> QED
  BY <1>8, <1>9, <1>10, <1>11 DEF Flight

(* What an answer that reaches the panel leaves in flight, with the        *)
(* requests it makes.  A list it does not ask for again has all that was   *)
(* reported, or was not in the answer and nothing new was reported.        *)
LEMMA ReplyFlight ==
  ASSUME IInv, NEW r \in DOMAIN requests, NEW new, IsFiniteSet(new), new \subseteq Request,
         \A x \in new : WellAsked(x) /\ x.version = 0 /\ x.phase # "served",
         \A v \in Lists : \A x, y \in new : ForList(x, v) /\ ForList(y, v) => x = y,
         HandleReply(r, new), UNCHANGED <<kind, version>>,
         Missed(DOMAIN (requests (-) SetToBag({r})), new) \subseteq missed',
         busy' => new # {} \/ (busy /\ pending_requests_ # 1),
         reported' <= version,
         \A v \in Lists \ missed' : Relevant(v) /\ (\A x \in new : ~ForList(x, v)) =>
           /\ reported' = reported
           /\ reported <= all'[v].version \/ (all'[v] = all[v] /\ ~ForList(r, v))
  PROVE  Flight'
<1> DEFINE b == requests (-) SetToBag({r})
<1>1. /\ requests' = b (+) SetToBag(new)
      /\ pending_requests_' = pending_requests_ - 1 + Cardinality(new)
  BY DEF HandleReply
<1>2. /\ IsABag(requests) /\ IsFiniteSet(Copies(requests))
      /\ pending_requests_ = Cardinality(Copies(requests))
  BY DEF IInv, Flight, Counted
<1>3. /\ IsABag(b) /\ DOMAIN b \subseteq DOMAIN requests /\ DOMAIN requests \ {r} \subseteq DOMAIN b
      /\ IsFiniteSet(Copies(b)) /\ Copies(b) \subseteq Copies(requests)
      /\ Cardinality(Copies(b)) = Cardinality(Copies(requests)) - 1
  <2> HIDE DEF b
  <2>1. b = requests (-) SetToBag({r})
    BY DEF b
  <2>2. /\ IsABag(b)
        /\ DOMAIN b \subseteq DOMAIN requests /\ DOMAIN requests \ {r} \subseteq DOMAIN b
        /\ IsFiniteSet(Copies(b))
        /\ \E c \in Copies(requests) : c[1] = r /\ Copies(b) = Copies(requests) \ {c}
        /\ Cardinality(Copies(b)) = Cardinality(Copies(requests)) - 1
    BY <1>2, <2>1, Removing
  <2>3. Copies(b) \subseteq Copies(requests)
    BY <2>2
  <2> QED
    BY <2>2, <2>3
<1>4. Missed(DOMAIN b, new) \subseteq missed'
  OBVIOUS
<1> HIDE DEF b
<1>5. /\ IsABag(requests') /\ DOMAIN requests' = DOMAIN b \cup new
      /\ IsFiniteSet(Copies(requests'))
      /\ Cardinality(Copies(requests')) = Cardinality(Copies(b)) + Cardinality(new)
  <2>1. IsABag(b) /\ IsFiniteSet(Copies(b)) /\ IsFiniteSet(new) /\ requests' = b (+) SetToBag(new)
    BY <1>1, <1>3
  <2> QED
    BY ONLY <2>1, Adding
<1>6. /\ Cardinality(Copies(requests)) \in Int /\ Cardinality(new) \in Int
      /\ Cardinality(Copies(b)) \in Int
  BY <1>2, <1>3, FS_CardinalityType
<1>7. Counted'
  <2>1. DOMAIN requests' \subseteq Request
    BY <1>3, <1>5 DEF IInv, Flight, Counted
  <2>2. pending_requests_' = Cardinality(Copies(requests'))
    BY <1>1, <1>2, <1>3, <1>5, <1>6
  <2> QED
    BY <1>5, <2>1, <2>2 DEF Counted, Copies, BagToSet
<1>8. Mail'
  <2>1. \A x \in DOMAIN requests : WellAsked(x) /\ x.version <= version
    BY DEF IInv, Flight, Mail, BagToSet
  <2>2. 0 <= version
    BY Bounds DEF IInv, Typed
  <2>3. \A x \in DOMAIN requests' : WellAsked(x) /\ x.version <= version'
    BY <1>3, <1>5, <2>1, <2>2
  <2> QED
    BY <2>3 DEF Mail, WellAsked, BagToSet
<1>9. ASSUME NEW v \in Lists \ missed'
      PROVE  /\ AloneIn(requests', v)
             /\ \/ v \notin missed /\ \A x \in new : ~ForList(x, v)
                \/ (\E x \in new : ForList(x, v)) /\ \A x \in DOMAIN b : ~ForList(x, v)
  <2>1. \A w \in Lists \ missed : AloneIn(b, w)
    BY <1>3 DEF IInv, Flight, Fresh, AloneIn
  <2>2. v \in Lists \ Missed(DOMAIN b, new)
    BY <1>4
  <2> QED
    BY <1>1, <1>3, <2>1, <2>2, AddLists
<1>10. Fresh'
  <2>1. reported' <= version'
    OBVIOUS
  <2>2. ASSUME NEW v \in Lists \ missed', Relevant(v)
        PROVE  Fetched(v)' /\ \A x \in DOMAIN requests' : Recent(x, v)'
    <3>1. CASE \E x \in new : ForList(x, v)
      <4>1. \A x \in DOMAIN b : ~ForList(x, v)
        BY <1>9, <3>1
      <4>2. Fetched(v)'
        BY <1>5, <3>1 DEF Fetched, ForList, BagToSet
      <4>3. \A x \in DOMAIN requests' : ForList(x, v) => x.phase # "served"
        BY <1>5, <4>1
      <4> QED
        BY <4>2, <4>3 DEF Recent, ForList
    <3>2. CASE \A x \in new : ~ForList(x, v)
      <4>1. v \notin missed
        BY <1>9, <3>2
      <4>2. Fetched(v) /\ \A x \in DOMAIN requests : Recent(x, v)
        BY <2>2, <4>1 DEF IInv, Flight, Fresh, BagToSet
      <4>3. /\ reported' = reported
            /\ reported <= all'[v].version \/ (all'[v] = all[v] /\ ~ForList(r, v))
        BY <2>2, <3>2
      <4>4. Fetched(v)'
        <5>1. CASE reported <= all'[v].version
          BY <4>3, <5>1 DEF Fetched
        <5>2. CASE all'[v] = all[v] /\ ~ForList(r, v)
          <6>1. (\E x \in DOMAIN requests : ForList(x, v))
                  => \E x \in DOMAIN requests' : ForList(x, v)
            BY <1>3, <1>5, <5>2
          <6> QED
            BY <4>2, <4>3, <5>2, <6>1 DEF Fetched, ForList, BagToSet
        <5> QED
          BY <4>3, <5>1, <5>2
      <4>5. \A x \in DOMAIN requests' : ForList(x, v) => Recent(x, v)
        BY <1>3, <1>5, <3>2, <4>2
      <4>6. \A x \in DOMAIN requests' : Recent(x, v)'
        BY <4>3, <4>5 DEF Recent, ForList
      <4> QED
        BY <4>4, <4>6
    <3> QED
      BY <3>1, <3>2
  <2>3. \A v \in Lists \ missed' : AloneIn(requests', v)
    BY <1>9
  <2>4. \A v : Relevant(v)' <=> Relevant(v)
    BY DEF Relevant
  <2> QED
    BY <2>1, <2>2, <2>3, <2>4 DEF Fresh, AloneIn, Copies, BagToSet
<1>11. BusyLabelIsTrue'
  <2> SUFFICES ASSUME busy' PROVE requests' # EmptyBag
    BY DEF BusyLabelIsTrue
  <2>1. CASE new # {}
    BY <1>5, <2>1, SomeRequest
  <2>2. CASE new = {}
    <3>1. Cardinality(new) = 0 /\ pending_requests_ # 1
      BY <2>2, FS_EmptySet
    <3>2. Cardinality(Copies(requests')) # 0
      BY <1>2, <1>3, <1>5, <1>6, <3>1
    <3>3. Copies(requests') # {}
      BY <3>2, FS_EmptySet
    <3> QED
      BY <3>3, CountedOnes
  <2> QED
    BY <2>1, <2>2
<1> QED
  BY <1>7, <1>8, <1>10, <1>11 DEF Flight
(* A step that leaves what is in flight as it is.                          *)
LEMMA FlightStays ==
  ASSUME IInv, version' \in Nat, version <= version', busy' => busy,
         UNCHANGED <<kind, requests, pending_requests_, all, reported, missed>>
  PROVE  Flight'
<1>1. Counted'
  BY DEF IInv, Flight, Counted, Copies, BagToSet
<1>2. Mail'
  <2>1. ASSUME NEW r \in DOMAIN requests PROVE WellAsked(r) /\ r.version <= version'
    <3>1. WellAsked(r) /\ r.version <= version /\ r.version \in Nat /\ version \in Nat
      BY Bounds DEF IInv, Flight, Mail, Counted, Typed, Request, BagToSet
    <3> QED
      BY <3>1
  <2> QED
    BY <2>1 DEF Mail, WellAsked, BagToSet
<1>3. Fresh'
  <2>1. reported' <= version'
    <3>1. reported <= version /\ reported \in Nat /\ version \in Nat
      BY Bounds DEF IInv, Flight, Fresh, Typed
    <3> QED
      BY <3>1
  <2> QED
    BY <2>1 DEF IInv, Flight, Fresh, AloneIn, Copies, Relevant, Fetched, Recent, BagToSet
<1>4. BusyLabelIsTrue'
  BY DEF IInv, Flight, BusyLabelIsTrue
<1> QED
  BY <1>1, <1>2, <1>3, <1>4 DEF Flight

(* A request as the panel makes them.                                      *)
LEMMA AskWell ==
  ASSUME IInv,
         NEW op \in {"list"} \cup Modifying, NEW view \in View, NEW id \in Id \cup {0},
         NEW data \in Data,
         op # "list" => view = "manager", op = "create" => data \in Row,
         NEW r, r = Ask(op, view, id, data)
  PROVE  /\ r \in Request /\ WellAsked(r) /\ r.version = 0 /\ r.phase # "served"
         /\ r.op = op /\ r.view = view
<1>1. base_url_ \in BOOLEAN
  BY DEF IInv, Typed
<1>2. /\ r \in Request
      /\ r.op = op /\ r.view = view /\ r.id = id /\ r.data = data
      /\ r.phase \in {"sent", "refused"} /\ r.version = 0
  BY <1>1, AskIs
<1> QED
  BY <1>2 DEF WellAsked

LEMMA ListWell ==
  ASSUME IInv, NEW view \in View, NEW r, r = List(view)
  PROVE  /\ r \in Request /\ WellAsked(r) /\ r.version = 0 /\ r.phase # "served"
         /\ r.op = "list" /\ r.view = view
<1>1. r = Ask("list", view, 0, NoRow)
  BY DEF List
<1>2. NoRow \in Data
  BY DataAre
<1> QED
  BY <1>1, <1>2, AskWell

(* A request of the admin, whatever becomes of the dialog.                 *)
LEMMA StartInv ==
  ASSUME IInv, NEW r \in Request, WellAsked(r), r.version = 0, r.phase # "served",
         Start(r), UNCHANGED <<all, search, selected, reported>>,
         base_url_' \in BOOLEAN, dialog' \in {dialog, NoDialog}
  PROVE  IInv'
<1>1. Flight' /\ missed' \subseteq Lists /\ busy' = TRUE
  BY StartFlight
<1>2. UNCHANGED <<kind, table, serial, version>>
  BY DEF Start
<1>3. NoDialog \in [op : {"none", "create", "edit", "delete"}, id : Id \cup {0},
                    original : {NoRow} \cup Row]
  BY DEF NoDialog
<1>4. Typed'
  BY <1>1, <1>2, <1>3 DEF IInv, Typed
<1>5. Chosen'
  BY DEF IInv, Chosen, NoDialog
<1> QED
  BY <1>1, <1>4, <1>5 DEF IInv

LEMMA InitInv == Init => IInv
<1> SUFFICES ASSUME Init PROVE IInv
  OBVIOUS
<1> USE DEF Init, ApiInit
<1>1. Typed
  <2>1. table \in Rows
    <3>1. PICK row \in FirstRows : table = [id \in {1} |-> row]
      OBVIOUS
    <3>2. {1} \in SUBSET Id /\ row \in Row
      BY Bounds DEF Id
    <3>3. table \in [{1} -> Row]
      BY <3>1, <3>2
    <3> QED
      BY <3>2, <3>3, RowsAre
  <2>2. 1 \in Id /\ 0 \in 0..MaxChanges
    BY Bounds DEF Id
  <2>3. all \in [Lists -> [rows : Rows, version : 0..MaxChanges]]
    BY <2>2, RowsAre
  <2>4. NoDialog \in [op : {"none", "create", "edit", "delete"}, id : Id \cup {0},
                      original : {NoRow} \cup Row]
    BY DEF NoDialog
  <2> QED
    BY <2>1, <2>2, <2>3, <2>4 DEF Typed
<1>2. DOMAIN requests = {} /\ IsABag(requests)
  BY DEF EmptyBag, SetToBag, IsABag
<1>3. Counted
  <2>1. \A c : c \in Copies(requests) <=>
               \E s \in DOMAIN requests : \E i \in 1..requests[s] : c = <<s, i>>
    BY ONLY CopiesAre
  <2>2. Copies(requests) = {}
    BY <1>2, <2>1
  <2> QED
    BY <1>2, <2>2, FS_EmptySet DEF Counted
<1>4. Mail /\ BusyLabelIsTrue /\ Chosen
  BY <1>2 DEF Mail, BagToSet, BusyLabelIsTrue, Chosen, NoDialog
<1>5. Fresh
  BY DEF Fresh
<1> QED
  BY <1>1, <1>3, <1>4, <1>5 DEF IInv, Flight

----------------------------------------------------------------------------
(* The actions of the admin and of the timer.                              *)
LEMMA ChangeElsewhereInv == IInv /\ ChangeElsewhere => IInv'
<1> SUFFICES ASSUME IInv, ChangeElsewhere PROVE IInv'
  OBVIOUS
<1>1. /\ version < MaxChanges /\ version' = version + 1
      /\ UNCHANGED <<kind, serial, requests, pending_requests_, base_url_,
                     all, search, selected, dialog, busy, reported, missed>>
  BY DEF ChangeElsewhere, ChangeTable, panelVars
<1>2. version' \in 0..MaxChanges /\ version <= version' /\ version' \in Nat
  BY <1>1, Bounds DEF IInv, Typed
<1>3. table' \in Rows
  <2>1. PICK id \in DOMAIN table :
          \/ \E f \in Field, v \in FormValue : table' = Updated(table, id, [g \in {f} |-> v])
          \/ table' = Deleted(table, id)
    BY DEF ChangeElsewhere, ChangeTable
  <2>2. table \in Rows
    BY DEF IInv, Typed
  <2>3. CASE table' = Deleted(table, id)
    BY <2>2, <2>3, DeletedIs
  <2>4. CASE \E f \in Field, v \in FormValue : table' = Updated(table, id, [g \in {f} |-> v])
    <3> PICK f \in Field, v \in FormValue : table' = Updated(table, id, [g \in {f} |-> v])
      BY <2>4
    <3>1. {f} \in SUBSET Field /\ [g \in {f} |-> v] \in [{f} -> Value]
      BY Forms
    <3>2. [g \in {f} |-> v] \in Data
      BY <3>1, DataAre
    <3> QED
      BY <2>2, <3>2, UpdatedIs
  <2> QED
    BY <2>1, <2>3, <2>4
<1>4. Flight'
  BY <1>1, <1>2, FlightStays
<1>5. Typed' /\ Chosen'
  BY <1>1, <1>2, <1>3 DEF IInv, Typed, Chosen
<1> QED
  BY <1>4, <1>5 DEF IInv

LEMMA RefreshInv == IInv /\ (SetUserPermissions \/ Refresh \/ OnAutoRefreshTimer) => IInv'
<1> SUFFICES ASSUME IInv, SetUserPermissions \/ Refresh \/ OnAutoRefreshTimer PROVE IInv'
  OBVIOUS
<1>1. PICK view \in View : Start(List(view))
  BY DEF SetUserPermissions, Refresh, OnAutoRefreshTimer, View
<1>2. /\ UNCHANGED <<all, search, selected, dialog, reported>>
      /\ base_url_' \in BOOLEAN
  BY DEF SetUserPermissions, Refresh, OnAutoRefreshTimer, IInv, Typed
<1> DEFINE r == List(view)
<1>3. r \in Request /\ WellAsked(r) /\ r.version = 0 /\ r.phase # "served"
  BY ListWell
<1>4. Start(r)
  BY <1>1
<1> HIDE DEF r
<1> QED
  BY <1>2, <1>3, <1>4, StartInv

LEMMA SelectInv ==
  IInv /\ ((\E text \in SearchText \cup {AnyText} : Search(text)) \/ \E id \in Id : Select(id))
    => IInv'
<1> SUFFICES ASSUME IInv, (\E text \in SearchText \cup {AnyText} : Search(text))
                          \/ \E id \in Id : Select(id)
             PROVE  IInv'
  OBVIOUS
<1>1. UNCHANGED <<kind, table, serial, version, requests, pending_requests_, base_url_,
                  all, dialog, busy, reported, missed>>
  BY DEF Search, Select, apiVars
<1>2. /\ search' \in SearchText \cup {AnyText} /\ selected' \in Id \cup {0}
      /\ selected' # 0 => selected' \in DOMAIN all["manager"].rows
  BY DEF Search, Select, Shown, IInv, Typed
<1>3. version' \in Nat /\ version <= version'
  BY <1>1, Bounds DEF IInv, Typed
<1>4. Flight'
  BY <1>1, <1>3, FlightStays
<1>5. Typed' /\ Chosen'
  BY <1>1, <1>2 DEF IInv, Typed, Chosen
<1> QED
  BY <1>4, <1>5 DEF IInv

(* The dialogs: opened, closed without a request, accepted.                *)
LEMMA DialogInv ==
  ASSUME IInv, NEW d \in [op : {"none", "create", "edit", "delete"}, id : Id \cup {0},
                          original : {NoRow} \cup Row],
         d.op = "edit" => d.id \in Id /\ d.original \in Row,
         d.op = "delete" => d.id \in Id,
         dialog' = d, busy' \in BOOLEAN, busy' => busy,
         UNCHANGED <<kind, table, serial, version, requests, pending_requests_, base_url_,
                     all, search, selected, reported, missed>>
  PROVE  IInv'
<1>1. version' \in Nat /\ version <= version'
  BY Bounds DEF IInv, Typed
<1>2. Flight'
  BY <1>1, FlightStays
<1>3. Typed' /\ Chosen'
  BY DEF IInv, Typed, Chosen
<1> QED
  BY <1>2, <1>3 DEF IInv

LEMMA OpenInv == IInv /\ (OnCreate \/ OnEdit \/ OnDelete) => IInv'
<1> SUFFICES ASSUME IInv, NEW d, Open(d),
                    \/ d = [NoDialog EXCEPT !.op = "create"]
                    \/ selected # 0 /\ d = [op |-> "edit", id |-> selected,
                                            original |-> all["manager"].rows[selected]]
                    \/ selected # 0 /\ d = [NoDialog EXCEPT !.op = "delete", !.id = selected]
             PROVE  IInv'
  BY DEF OnCreate, OnEdit, OnDelete
<1>1. /\ dialog' = d /\ busy' \in BOOLEAN /\ busy' = busy
      /\ UNCHANGED <<kind, table, serial, version, requests, pending_requests_, base_url_,
                     all, search, selected, reported, missed>>
  BY DEF Open, apiVars, IInv, Typed
<1>2. selected # 0 => selected \in Id /\ all["manager"].rows[selected] \in Row
  <2>1. all["manager"].rows \in Rows
    BY DEF IInv, Typed, Lists
  <2>2. selected # 0 => selected \in DOMAIN all["manager"].rows
    BY DEF IInv, Chosen
  <2> QED
    BY <2>1, <2>2, RowsAre
<1>3. /\ d \in [op : {"none", "create", "edit", "delete"}, id : Id \cup {0},
                original : {NoRow} \cup Row]
      /\ d.op = "edit" => d.id \in Id /\ d.original \in Row
      /\ d.op = "delete" => d.id \in Id
  <2>1. CASE d = [NoDialog EXCEPT !.op = "create"]
    BY <2>1 DEF NoDialog
  <2>2. CASE selected # 0 /\ d = [op |-> "edit", id |-> selected,
                                  original |-> all["manager"].rows[selected]]
    BY <1>2, <2>2
  <2>3. CASE selected # 0 /\ d = [NoDialog EXCEPT !.op = "delete", !.id = selected]
    BY <1>2, <2>3 DEF NoDialog
  <2> QED
    BY <2>1, <2>2, <2>3
<1> QED
  BY <1>1, <1>3, DialogInv

LEMMA CloseInv ==
  ASSUME IInv, dialog' = NoDialog, busy' \in BOOLEAN, busy' => busy,
         UNCHANGED <<kind, table, serial, version, requests, pending_requests_, base_url_,
                     all, search, selected, reported, missed>>
  PROVE  IInv'
<1>1. /\ NoDialog \in [op : {"none", "create", "edit", "delete"}, id : Id \cup {0},
                       original : {NoRow} \cup Row]
      /\ NoDialog.op = "none"
  BY DEF NoDialog
<1> QED
  BY <1>1, DialogInv

LEMMA CancelInv == IInv /\ Cancel => IInv'
<1> SUFFICES ASSUME IInv, Cancel PROVE IInv'
  OBVIOUS
<1>1. /\ dialog' = NoDialog /\ busy' \in BOOLEAN /\ busy' = busy
      /\ UNCHANGED <<kind, table, serial, version, requests, pending_requests_, base_url_,
                     all, search, selected, reported, missed>>
  BY DEF Cancel, CloseDialog, IInv, Typed
<1> QED
  BY <1>1, CloseInv

LEMMA AcceptCreateInv == IInv /\ AcceptCreate => IInv'
<1> SUFFICES ASSUME IInv, AcceptCreate PROVE IInv'
  OBVIOUS
<1>1. PICK row \in FirstRows : Start(Ask("create", "manager", 0, FormOf(row)))
  BY DEF AcceptCreate
<1>2. /\ UNCHANGED <<all, search, selected, reported>> /\ dialog' = NoDialog
      /\ base_url_' \in BOOLEAN
  BY DEF AcceptCreate, CloseDialog, IInv, Typed
<1>3. FormOf(row) \in Row /\ FormOf(row) \in Data
  <2>1. FormOf(row) \in Row
    BY Forms
  <2> QED
    BY <2>1, DataAre
<1> DEFINE r == Ask("create", "manager", 0, FormOf(row))
<1>4. r \in Request /\ WellAsked(r) /\ r.version = 0 /\ r.phase # "served"
  <2> HIDE DEF r
  <2>1. r = Ask("create", "manager", 0, FormOf(row))
    BY DEF r
  <2>2. "create" \in {"list"} \cup Modifying /\ "manager" \in View
    BY DEF Modifying, View
  <2> QED
    BY <1>3, <2>1, <2>2, AskWell
<1>5. Start(r)
  BY <1>1
<1> HIDE DEF r
<1> QED
  BY <1>2, <1>4, <1>5, StartInv

LEMMA AcceptEditInv ==
  ASSUME IInv, NEW form \in [Field -> FormValue], AcceptEdit(form)
  PROVE  IInv'
<1>1. /\ UNCHANGED <<base_url_, all, search, selected, reported>> /\ dialog' = NoDialog
      /\ base_url_' \in BOOLEAN /\ dialog.op = "edit"
  BY DEF AcceptEdit, CloseDialog, IInv, Typed
<1>2. dialog.id \in Id /\ dialog.original \in Row
  BY <1>1 DEF IInv, Chosen
<1> DEFINE data == UpdatedData(dialog, form)
           r    == Ask("update", "manager", dialog.id, data)
<1>3. \/ Start(r)
      \/ /\ busy' = FALSE
         /\ UNCHANGED <<kind, table, serial, version, requests, pending_requests_, missed>>
  BY DEF AcceptEdit
<1>4. data \in Data
  <2>1. DOMAIN data \subseteq Field
    BY DEF UpdatedData
  <2>2. data \in [DOMAIN data -> Value]
    BY Forms DEF UpdatedData
  <2> QED
    BY <2>1, <2>2, DataAre
<1>5. CASE Start(r)
  <2>1. r \in Request /\ WellAsked(r) /\ r.version = 0 /\ r.phase # "served"
    <3> HIDE DEF r, data
    <3>1. r = Ask("update", "manager", dialog.id, data)
      BY DEF r
    <3>2. "update" \in {"list"} \cup Modifying /\ "manager" \in View /\ "update" # "create"
      BY DEF Modifying, View
    <3> QED
      BY <1>2, <1>4, <3>1, <3>2, AskWell
  <2> HIDE DEF r
  <2> QED
    BY <1>1, <1>5, <2>1, StartInv
<1>6. CASE /\ busy' = FALSE
           /\ UNCHANGED <<kind, table, serial, version, requests, pending_requests_, missed>>
  BY <1>1, <1>6, CloseInv
<1> QED
  BY <1>3, <1>5, <1>6

LEMMA AcceptDeleteInv == IInv /\ AcceptDelete => IInv'
<1> SUFFICES ASSUME IInv, AcceptDelete PROVE IInv'
  OBVIOUS
<1>1. /\ UNCHANGED <<all, search, selected, reported>> /\ dialog' = NoDialog
      /\ base_url_' \in BOOLEAN /\ dialog.op = "delete"
  BY DEF AcceptDelete, CloseDialog, IInv, Typed
<1> DEFINE r == Ask("delete", "manager", dialog.id, NoRow)
<1>2. r \in Request /\ WellAsked(r) /\ r.version = 0 /\ r.phase # "served"
  <2> HIDE DEF r
  <2>1. r = Ask("delete", "manager", dialog.id, NoRow)
    BY DEF r
  <2>2. "delete" \in {"list"} \cup Modifying /\ "manager" \in View /\ "delete" # "create"
    BY DEF Modifying, View
  <2>3. NoRow \in Data
    BY DataAre
  <2>4. dialog.id \in Id
    BY <1>1 DEF IInv, Chosen
  <2> QED
    BY <2>1, <2>2, <2>3, <2>4, AskWell
<1>3. Start(r)
  BY DEF AcceptDelete
<1> HIDE DEF r
<1> QED
  BY <1>1, <1>2, <1>3, StartInv

LEMMA BanInv == IInv /\ Ban => IInv'
<1> SUFFICES ASSUME IInv, Ban PROVE IInv'
  OBVIOUS
<1>1. /\ UNCHANGED <<all, search, selected, dialog, reported>>
      /\ base_url_' \in BOOLEAN
  BY DEF Ban, IInv, Typed
<1> DEFINE r == Ask("ban", "manager", selected, NoRow)
<1>2. r \in Request /\ WellAsked(r) /\ r.version = 0 /\ r.phase # "served"
  <2> HIDE DEF r
  <2>1. r = Ask("ban", "manager", selected, NoRow)
    BY DEF r
  <2>2. "ban" \in {"list"} \cup Modifying /\ "manager" \in View /\ "ban" # "create"
    BY DEF Modifying, View
  <2>3. NoRow \in Data
    BY DataAre
  <2>4. selected \in Id \cup {0}
    BY DEF IInv, Typed
  <2> QED
    BY <2>1, <2>2, <2>3, <2>4, AskWell
<1>3. Start(r)
  BY DEF Ban
<1> HIDE DEF r
<1> QED
  BY <1>1, <1>2, <1>3, StartInv
----------------------------------------------------------------------------
(* The actions of the server.                                              *)
LEMMA BecomeInv ==
  ASSUME IInv, NEW r \in DOMAIN requests, NEW q \in Request,
         q.op = r.op, q.view = r.view, q.phase # "sent", q.op = "ban" => q.version = 0,
         q.version <= version', \A v \in Lists : Recent(q, v),
         Become(r, q), version <= version', version' \in 0..MaxChanges,
         table' \in Rows, serial' \in Id,
         UNCHANGED <<kind, pending_requests_, base_url_, panelVars>>
  PROVE  IInv'
<1>1. version' \in Nat
  BY Bounds
<1>2. Flight'
  BY <1>1, BecomeFlight
<1>3. UNCHANGED <<kind, base_url_, all, search, selected, dialog, busy, reported, missed>>
  BY DEF panelVars
<1>4. Typed' /\ Chosen'
  BY <1>3 DEF IInv, Typed, Chosen
<1> QED
  BY <1>2, <1>4 DEF IInv

LEMMA AnswerInv ==
  ASSUME IInv, NEW r \in DOMAIN requests, NEW q \in Request,
         q.op = r.op, q.view = r.view, q.phase # "sent", q.op = "ban" => q.version = 0,
         q.version <= version', \A v \in Lists : Recent(q, v),
         Answer(r, q), version <= version', version' \in 0..MaxChanges,
         table' \in Rows, serial' \in Id,
         UNCHANGED <<kind, pending_requests_, base_url_, panelVars>>
  PROVE  IInv'
<1> DEFINE t == Told(q)
<1>1. Become(r, t)
  BY DEF Answer, Told
<1>2. /\ t \in Request /\ t.op = q.op /\ t.view = q.view /\ t.phase = q.phase
      /\ t.version = q.version
  BY ToldIs
<1> HIDE DEF t
<1>3. \A v \in Lists : Recent(t, v)
  BY <1>2 DEF Recent, ForList
<1> QED
  BY <1>1, <1>2, <1>3, BecomeInv

LEMMA ServeInv == IInv /\ Serve /\ UNCHANGED panelVars => IInv'
<1> SUFFICES ASSUME IInv, UNCHANGED panelVars, NEW r \in DOMAIN requests,
                    \/ /\ r.phase = "sent"
                       /\ \/ ServeList(r) \/ ServeCreate(r) \/ ServeUpdate(r)
                          \/ ServeDelete(r) \/ ServeBan(r)
                    \/ UpdateUser(r)
                    \/ Fail(r),
                    UNCHANGED <<kind, pending_requests_, base_url_>>
             PROVE  IInv'
  BY DEF Serve, BagToSet
<1>1. r \in Request /\ WellAsked(r) /\ r.version <= version /\ r.version \in 0..MaxChanges
  BY DEF IInv, Flight, Counted, Mail, BagToSet, Request
<1>2. table \in Rows /\ serial \in Id /\ version \in 0..MaxChanges /\ version \in Nat
  BY Bounds DEF IInv, Typed
<1>3. reported <= version /\ reported \in Nat
  BY Bounds DEF IInv, Flight, Fresh, Typed
<1>4. ASSUME ServeList(r) PROVE IInv'
  <2> DEFINE q == [r EXCEPT !.phase = "served",
                            !.rows = IF r.view = "manager" THEN table ELSE NoRow,
                            !.version = IF r.view = "dashboard" THEN 0 ELSE version]
  <2>1. /\ r.op = "list" /\ Answer(r, q)
        /\ UNCHANGED <<table, serial, version>>
    BY <1>4 DEF ServeList
  <2>2. (IF r.view = "manager" THEN table ELSE NoRow) \in Rows
    BY <1>2, RowsAre
  <2>3. (IF r.view = "dashboard" THEN 0 ELSE version) \in 0..MaxChanges
    BY <1>2, Bounds
  <2>4. /\ q \in Request /\ q.op = r.op /\ q.view = r.view /\ q.phase = "served"
        /\ q.version = IF r.view = "dashboard" THEN 0 ELSE version
    BY <1>1, <2>2, <2>3 DEF Request
  <2> HIDE DEF q
  <2>5. \A v \in Lists : Recent(q, v)
    BY <1>3, <2>4 DEF Recent, ForList, Lists
  <2>6. q.version <= version' /\ version <= version' /\ "list" # "ban"
    BY <1>2, <2>1, <2>4
  <2> QED
    BY <1>1, <1>2, <2>1, <2>4, <2>5, <2>6, AnswerInv
<1>5. ASSUME NEW rows \in Rows, Changed(r, rows), r.op \in {"create", "update", "delete"},
             serial' \in Id
      PROVE  IInv'
  <2> DEFINE q == [r EXCEPT !.phase = "served", !.version = version + 1]
  <2>1. Answer(r, q) /\ table' = rows /\ version' = version + 1 /\ version < MaxChanges
    BY <1>5 DEF Changed, ChangeTable
  <2>2. version + 1 \in 0..MaxChanges
    BY <1>2, <2>1, Bounds
  <2>3. /\ q \in Request /\ q.op = r.op /\ q.view = r.view /\ q.phase = "served"
        /\ q.version = version + 1
    BY <1>1, <2>2 DEF Request
  <2> HIDE DEF q
  <2>4. \A v \in Lists : Recent(q, v)
    BY <1>5, <2>3 DEF Recent, ForList
  <2>5. q.version <= version' /\ version <= version' /\ q.op # "ban"
    BY <1>2, <1>5, <2>1, <2>3
  <2> QED
    BY <1>1, <1>5, <2>1, <2>2, <2>3, <2>4, <2>5, AnswerInv
<1>6. ASSUME NEW phase \in {"served", "refused"}, Answer(r, [r EXCEPT !.phase = phase]),
             r.op # "list", UNCHANGED <<table, serial, version>>
      PROVE  IInv'
  <2> DEFINE q == [r EXCEPT !.phase = phase]
  <2>1. /\ q \in Request /\ q.op = r.op /\ q.view = r.view /\ q.phase = phase
        /\ q.version = r.version
    BY <1>1 DEF Request
  <2>2. Answer(r, q)
    BY <1>6
  <2> HIDE DEF q
  <2>3. \A v \in Lists : Recent(q, v)
    BY <1>6, <2>1 DEF Recent, ForList
  <2>4. /\ q.version <= version' /\ version <= version' /\ q.phase # "sent"
        /\ q.op = "ban" => q.version = 0
    BY <1>1, <1>2, <1>6, <2>1 DEF WellAsked
  <2> QED
    BY <1>1, <1>2, <1>6, <2>1, <2>2, <2>3, <2>4, AnswerInv
<1>7. ASSUME ServeCreate(r), r.phase = "sent" PROVE IInv'
  <2>1. r.op = "create" /\ serial < MaxId /\ serial' = serial + 1
    BY <1>7 DEF ServeCreate
  <2>2. serial' \in Id
    BY <1>2, <2>1, Bounds DEF Id
  <2> DEFINE rows == [id \in DOMAIN table \cup {serial'} |->
                        IF id = serial' THEN r.data ELSE table[id]]
  <2>3. rows \in Rows
    <3>1. r.data \in Row
      BY <1>1, <1>7, <2>1 DEF WellAsked
    <3>2. DOMAIN table \subseteq Id /\ table \in [DOMAIN table -> Row]
      BY <1>2, RowsAre
    <3>3. DOMAIN table \cup {serial'} \in SUBSET Id
      BY <2>2, <3>2
    <3>4. rows \in [DOMAIN table \cup {serial'} -> Row]
      BY <3>1, <3>2
    <3> QED
      BY <3>3, <3>4, RowsAre
  <2>4. Changed(r, rows)
    BY <1>7 DEF ServeCreate
  <2> HIDE DEF rows
  <2> QED
    BY <1>5, <2>1, <2>2, <2>3, <2>4
<1>8. ASSUME ServeUpdate(r) PROVE IInv'
  <2>1. r.op = "update" /\ serial' = serial
    BY <1>8 DEF ServeUpdate
  <2>2. CASE r.id \in DOMAIN table /\ Changed(r, Updated(table, r.id, r.data))
    <3>1. r.data \in Data
      BY <1>1 DEF Request, Data
    <3>2. Updated(table, r.id, r.data) \in Rows
      BY <1>2, <2>2, <3>1, UpdatedIs
    <3> QED
      BY <1>2, <1>5, <2>1, <2>2, <3>2
  <2>3. CASE Answer(r, [r EXCEPT !.phase = "refused"]) /\ UNCHANGED <<table, version>>
    BY <1>6, <2>1, <2>3
  <2> QED
    BY <1>8, <2>2, <2>3 DEF ServeUpdate
<1>9. ASSUME ServeDelete(r) PROVE IInv'
  <2>1. r.op = "delete" /\ serial' = serial
    BY <1>9 DEF ServeDelete
  <2>2. CASE Changed(r, Deleted(table, r.id))
    <3>1. Deleted(table, r.id) \in Rows
      BY <1>2, DeletedIs
    <3> QED
      BY <1>2, <1>5, <2>1, <2>2, <3>1
  <2>3. CASE Answer(r, [r EXCEPT !.phase = "served"]) /\ UNCHANGED <<table, version>>
    BY <1>6, <2>1, <2>3
  <2> QED
    BY <1>9, <2>2, <2>3 DEF ServeDelete
<1>10. ASSUME ServeBan(r) PROVE IInv'
  BY <1>6, <1>10 DEF ServeBan
<1>11. ASSUME Fail(r) PROVE IInv'
  <2> DEFINE q == [r EXCEPT !.phase = "refused", !.rows = NoRow, !.version = 0]
  <2>1. Answer(r, q) /\ UNCHANGED <<table, serial, version>>
    BY <1>11 DEF Fail
  <2>2. NoRow \in Rows /\ 0 \in 0..MaxChanges
    BY Bounds, RowsAre
  <2>3. q \in Request /\ q.op = r.op /\ q.view = r.view /\ q.phase = "refused" /\ q.version = 0
    BY <1>1, <2>2 DEF Request
  <2> HIDE DEF q
  <2>4. \A v \in Lists : Recent(q, v)
    BY <2>3 DEF Recent
  <2>5. q.version <= version' /\ version <= version'
    BY <1>2, <2>1, <2>3
  <2> QED
    BY <1>1, <1>2, <2>1, <2>3, <2>4, <2>5, AnswerInv
<1>12. ASSUME UpdateUser(r) PROVE IInv'
  <2>1. r.op = "update" /\ serial' = serial
    BY <1>12 DEF UpdateUser
  <2>2. ASSUME NEW f, SetField(r, f)
        PROVE  table' \in Rows /\ version' \in 0..MaxChanges /\ version <= version'
    <3>1. CASE f \in GivenToUser(r) /\ r.id \in DOMAIN table
      <4>1. /\ table' = Updated(table, r.id, [g \in {f} |-> r.data[f]])
            /\ version' = version + 1 /\ version < MaxChanges
        BY <2>2, <3>1 DEF SetField, ChangeTable
      <4>2. r.data \in Data
        BY <1>1 DEF Request, Data
      <4>3. {f} \in SUBSET Field /\ [g \in {f} |-> r.data[f]] \in [{f} -> Value]
        BY <3>1, <4>2, DataAre DEF GivenToUser
      <4>4. [g \in {f} |-> r.data[f]] \in Data
        BY <4>3, DataAre
      <4>5. table' \in Rows
        BY <1>2, <3>1, <4>1, <4>4, UpdatedIs
      <4> QED
        BY <1>2, <4>1, <4>5, Bounds
    <3>2. CASE ~(f \in GivenToUser(r) /\ r.id \in DOMAIN table)
      BY <1>2, <2>2, <3>2 DEF SetField
    <3> QED
      BY <3>1, <3>2
  <2>3. ASSUME NEW phase \in {"half", "served"}, NEW q, q = [r EXCEPT !.phase = phase],
               version' \in 0..MaxChanges, version <= version'
        PROVE  /\ q \in Request /\ q.op = r.op /\ q.view = r.view /\ q.phase # "sent"
               /\ q.op # "ban" /\ q.version <= version' /\ \A v \in Lists : Recent(q, v)
    <3>1. /\ q \in Request /\ q.op = r.op /\ q.view = r.view /\ q.phase = phase
          /\ q.version = r.version
      BY <1>1, <2>3 DEF Request
    <3>2. q.version <= version'
      BY <1>1, <1>2, <2>3, <3>1, Bounds
    <3> QED
      BY <2>1, <3>1, <3>2 DEF Recent, ForList
  <2>4. CASE SetField(r, "name") /\ Become(r, [r EXCEPT !.phase = "half"])
    <3> DEFINE q == [r EXCEPT !.phase = "half"]
    <3>1. table' \in Rows /\ version' \in 0..MaxChanges /\ version <= version'
      BY <2>2, <2>4
    <3>2. /\ q \in Request /\ q.op = r.op /\ q.view = r.view /\ q.phase # "sent"
          /\ q.op # "ban" /\ q.version <= version' /\ \A v \in Lists : Recent(q, v)
      BY <2>3, <3>1
    <3>3. Become(r, q)
      BY <2>4
    <3> HIDE DEF q
    <3> QED
      BY <1>2, <2>1, <3>1, <3>2, <3>3, BecomeInv
  <2>5. CASE SetField(r, "detail") /\ Answer(r, [r EXCEPT !.phase = "served"])
    <3> DEFINE q == [r EXCEPT !.phase = "served"]
    <3>1. table' \in Rows /\ version' \in 0..MaxChanges /\ version <= version'
      BY <2>2, <2>5
    <3>2. /\ q \in Request /\ q.op = r.op /\ q.view = r.view /\ q.phase # "sent"
          /\ q.op # "ban" /\ q.version <= version' /\ \A v \in Lists : Recent(q, v)
      BY <2>3, <3>1
    <3>3. Answer(r, q)
      BY <2>5
    <3> HIDE DEF q
    <3> QED
      BY <1>2, <2>1, <3>1, <3>2, <3>3, AnswerInv
  <2> QED
    BY <1>12, <2>4, <2>5 DEF UpdateUser
<1> QED
  BY <1>4, <1>7, <1>8, <1>9, <1>10, <1>11, <1>12

----------------------------------------------------------------------------
(* The answers, as the panel takes them.                                   *)

(* A reply that makes no new request changes no list but its own.          *)
LEMMA PlainReply ==
  ASSUME IInv, NEW r \in DOMAIN requests, HandleReply(r, {}),
         UNCHANGED <<kind, table, serial, version, base_url_, search, dialog, reported>>,
         missed \subseteq missed', missed' \subseteq Lists,
         busy' \in BOOLEAN, busy' => busy /\ pending_requests_ # 1,
         all' \in [Lists -> [rows : Rows, version : 0..MaxChanges]],
         selected' = 0 \/ (UNCHANGED selected /\ all'["manager"] = all["manager"]),
         \A v \in Lists \ missed' : Relevant(v) =>
           reported <= all'[v].version \/ (all'[v] = all[v] /\ ~ForList(r, v))
  PROVE  IInv'
<1>1. IsFiniteSet({}) /\ {} \subseteq Request
  BY FS_EmptySet
<1>2. Missed(DOMAIN (requests (-) SetToBag({r})), {}) \subseteq missed'
  BY DEF Missed
<1>3. reported' <= version
  BY DEF IInv, Flight, Fresh
<1>4. Flight'
  BY <1>1, <1>2, <1>3, ReplyFlight
<1>5. Typed' /\ Chosen'
  BY DEF IInv, Typed, Chosen
<1> QED
  BY <1>4, <1>5 DEF IInv

LEMMA ReplyInv == IInv /\ OnReply => IInv'
<1> SUFFICES ASSUME IInv, NEW r \in DOMAIN requests,
                    OnError(r) \/ OnStats(r) \/ OnLoaded(r) \/ OnVoiceLoaded(r) \/ OnModified(r),
                    UNCHANGED <<kind, table, serial, version, base_url_, search, dialog>>
             PROVE  IInv'
  BY DEF OnReply, BagToSet
<1>1. r \in Request /\ WellAsked(r) /\ r.version <= version /\ r.version \in 0..MaxChanges
  BY DEF IInv, Flight, Counted, Mail, BagToSet, Request
<1>2. /\ all \in [Lists -> [rows : Rows, version : 0..MaxChanges]] /\ busy \in BOOLEAN
      /\ missed \subseteq Lists
  BY DEF IInv, Typed
<1>3. ASSUME OnError(r) PROVE IInv'
  <2>1. /\ HandleReply(r, {}) /\ busy' = FALSE /\ UNCHANGED <<all, selected, reported>>
        /\ missed' = IF r.op = "list" THEN missed \cup ({r.view} \cap Lists) ELSE missed
    BY <1>3 DEF OnError
  <2>2. missed \subseteq missed' /\ missed' \subseteq Lists
    BY <1>2, <2>1
  <2>3. \A v \in Lists \ missed' : ~ForList(r, v)
    BY <2>1 DEF ForList
  <2> QED
    BY <1>2, <2>1, <2>2, <2>3, PlainReply
<1>4. ASSUME OnStats(r) PROVE IInv'
  <2>1. /\ HandleReply(r, {}) /\ UNCHANGED <<all, selected, reported, missed>>
        /\ r.view = "dashboard" /\ busy' = (busy /\ pending_requests_ # 1)
    BY <1>4 DEF OnStats, Finished
  <2>2. \A v \in Lists : ~ForList(r, v)
    BY <2>1 DEF ForList, Lists
  <2> QED
    BY <1>2, <2>1, <2>2, PlainReply
<1>5. ASSUME Loaded(r), r.view \in Lists,
             busy' \in BOOLEAN, busy' => busy /\ pending_requests_ # 1,
             selected' = 0 \/ (UNCHANGED selected /\ r.view # "manager")
      PROVE  IInv'
  <2>1. /\ HandleReply(r, {}) /\ UNCHANGED <<reported, missed>>
        /\ r.phase = "served" /\ r.op = "list"
        /\ all' = [all EXCEPT ![r.view] = [rows |-> r.rows, version |-> r.version]]
    BY <1>5 DEF Loaded
  <2>2. r.rows \in Rows
    BY <1>1 DEF Request
  <2>3. all' \in [Lists -> [rows : Rows, version : 0..MaxChanges]]
    BY <1>1, <1>2, <2>1, <2>2
  <2>4. r.view # "manager" => all'["manager"] = all["manager"]
    BY <1>2, <2>1 DEF Lists
  <2>5. ASSUME NEW v \in Lists \ missed', Relevant(v)
        PROVE  reported <= all'[v].version \/ (all'[v] = all[v] /\ ~ForList(r, v))
    <3>1. CASE v = r.view
      <4>1. Recent(r, v)
        BY <2>1, <2>5 DEF IInv, Flight, Fresh, BagToSet
      <4>2. reported <= r.version
        BY <2>1, <3>1, <4>1 DEF Recent, ForList
      <4> QED
        BY <1>2, <2>1, <3>1, <4>2
    <3>2. CASE v # r.view
      BY <1>2, <2>1, <3>2 DEF ForList
    <3> QED
      BY <3>1, <3>2
  <2> QED
    BY <1>2, <1>5, <2>1, <2>3, <2>4, <2>5, PlainReply
<1>6. ASSUME OnLoaded(r) PROVE IInv'
  <2>1. Loaded(r) /\ r.view \in Lists /\ busy' = FALSE /\ selected' = 0
    BY <1>6 DEF OnLoaded, Lists
  <2>2. busy' \in BOOLEAN /\ ~busy'
    BY <2>1
  <2> QED
    BY <1>5, <2>1, <2>2
<1>7. ASSUME OnVoiceLoaded(r) PROVE IInv'
  BY <1>2, <1>5, <1>7 DEF OnVoiceLoaded, Lists, Finished
<1>8. ASSUME OnModified(r) PROVE IInv'
  <2>1. /\ r.phase = "served" /\ r.op \in Modifying /\ UNCHANGED <<all, selected>>
    BY <1>8 DEF OnModified
  <2>2. \A v : ~ForList(r, v)
    BY <2>1 DEF ForList, Modifying
  <2>3. CASE HandleReply(r, {}) /\ busy' = FALSE /\ UNCHANGED <<reported, missed>>
    BY <1>2, <2>1, <2>2, <2>3, PlainReply
  <2>4. CASE /\ HandleReply(r, Refetched(r))
             /\ missed' = Missed(BagToSet(requests (-) SetToBag({r})), Refetched(r))
             /\ busy' = TRUE
             /\ reported' = IF r.version > reported THEN r.version ELSE reported
    <3> DEFINE m == List("manager")
               w == List("voice")
    <3>1. /\ m \in Request /\ WellAsked(m) /\ m.version = 0 /\ m.phase # "served"
          /\ m.op = "list" /\ m.view = "manager"
      BY ListWell DEF View
    <3>2. /\ w \in Request /\ WellAsked(w) /\ w.version = 0 /\ w.phase # "served"
          /\ w.op = "list" /\ w.view = "voice"
      BY ListWell DEF View
    <3>3. Refetched(r) = IF kind = "channels" /\ r.op # "ban" THEN {m, w} ELSE {m}
      BY DEF Refetched
    <3> HIDE DEF m, w
    <3>4. IsFiniteSet({m}) /\ IsFiniteSet({m, w})
      <4>1. IsFiniteSet({m})
        BY FS_Singleton
      <4>2. IsFiniteSet({m} \cup {w}) /\ {m} \cup {w} = {m, w}
        BY <4>1, FS_AddElement
      <4> QED
        BY <4>1, <4>2
    <3> DEFINE new == Refetched(r)
    <3>5. /\ IsFiniteSet(new) /\ new \subseteq Request /\ new # {} /\ m \in new
          /\ \A x \in new : WellAsked(x) /\ x.version = 0 /\ x.phase # "served"
          /\ \A v \in Lists : \A x, y \in new : ForList(x, v) /\ ForList(y, v) => x = y
      BY <3>1, <3>2, <3>3, <3>4 DEF ForList
    <3>6. /\ missed' = Missed(DOMAIN (requests (-) SetToBag({r})), new)
          /\ HandleReply(r, new)
      BY <2>4 DEF BagToSet
    <3>7. /\ reported <= version /\ reported \in 0..MaxChanges /\ reported' \in 0..MaxChanges
          /\ reported' <= version
      BY <1>1, <2>4, Bounds DEF IInv, Flight, Fresh, Typed
    <3>8. ASSUME NEW v \in Lists \ missed', Relevant(v), \A x \in new : ~ForList(x, v)
          PROVE  reported' = reported /\ all'[v] = all[v] /\ ~ForList(r, v)
      <4>1. v = "voice" /\ kind = "channels"
        BY <3>1, <3>5, <3>8 DEF ForList, Lists, Relevant
      <4>2. r.op = "ban"
        BY <3>2, <3>3, <3>8, <4>1 DEF ForList
      <4>3. r.version = 0
        BY <1>1, <4>2 DEF WellAsked
      <4> QED
        BY <2>1, <2>2, <2>4, <3>7, <4>3
    <3> HIDE DEF new
    <3>9. Flight'
      BY <3>5, <3>6, <3>7, <3>8, ReplyFlight
    <3>10. missed' \subseteq Lists
      BY <1>2, <3>6, MissedType
    <3>11. Typed' /\ Chosen'
      BY <2>1, <2>4, <3>7, <3>10 DEF IInv, Typed, Chosen
    <3> QED
      BY <3>9, <3>11 DEF IInv
  <2> QED
    BY <1>8, <2>3, <2>4 DEF OnModified
<1> QED
  BY <1>3, <1>4, <1>6, <1>7, <1>8

----------------------------------------------------------------------------
(* IInv is inductive and holds throughout.                                 *)
LEMMA Inductive == Spec => []IInv
<1>1. IInv /\ UNCHANGED vars => IInv'
  <2> SUFFICES ASSUME IInv, UNCHANGED vars PROVE IInv'
    OBVIOUS
  <2>1. UNCHANGED <<kind, table, serial, version, requests, pending_requests_, base_url_,
                    all, search, selected, dialog, busy, reported, missed>>
    BY DEF vars, apiVars, panelVars
  <2>2. version' \in Nat /\ version <= version'
    BY <2>1, Bounds DEF IInv, Typed
  <2>3. Flight'
    BY <2>1, <2>2, FlightStays
  <2>4. Typed' /\ Chosen'
    BY <2>1 DEF IInv, Typed, Chosen
  <2> QED
    BY <2>3, <2>4 DEF IInv
<1>2. IInv /\ Next => IInv'
  BY RefreshInv, SelectInv, OpenInv, CancelInv, AcceptCreateInv, AcceptEditInv, AcceptDeleteInv,
     BanInv, ServeInv, ChangeElsewhereInv, ReplyInv DEF Next, SaveChanges, ResetPassword
<1>3. IInv /\ [Next]_vars => IInv'
  BY <1>1, <1>2
<1> QED
  BY <1>3, InitInv, PTL DEF Spec

(* Types, and that pending_requests_ counts the requests in flight.        *)
THEOREM TypeCorrect == Spec => []TypeOK
<1>1. IInv => TypeOK
  BY DEF IInv, Typed, Flight, Counted, TypeOK, BagToSet
<1> QED
  BY <1>1, Inductive, PTL

(* "Loading..." is shown only while an answer is outstanding.              *)
THEOREM BusyLabel == Spec => []BusyLabelIsTrue
<1>1. IInv => BusyLabelIsTrue
  BY DEF IInv, Flight
<1> QED
  BY <1>1, Inductive, PTL

(* With every answer in, a list that is not missed has every change that   *)
(* was reported to the admin, in whatever order server and panel took      *)
(* requests and answers.                                                   *)
THEOREM ListsAreFresh == Spec => []ListsShowReportedChanges
<1>1. IInv => ListsShowReportedChanges
  <2> SUFFICES ASSUME IInv, requests = EmptyBag, NEW v \in Lists \ missed, Relevant(v)
               PROVE  all[v].version >= reported
    BY DEF ListsShowReportedChanges, Relevant
  <2>1. DOMAIN requests = {}
    BY DEF EmptyBag, SetToBag
  <2>2. Fetched(v)
    BY DEF IInv, Flight, Fresh
  <2>3. reported <= all[v].version
    BY <2>1, <2>2 DEF Fetched, BagToSet
  <2>4. reported \in Nat /\ all[v].version \in Nat
    BY Bounds DEF IInv, Typed
  <2> QED
    BY <2>3, <2>4
<1> QED
  BY <1>1, Inductive, PTL
=============================================================================
