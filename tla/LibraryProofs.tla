--------------------------- MODULE LibraryProofs ---------------------------
(***************************************************************************)
(* What holds of the clients, factories and listers for every number of    *)
(* tasks, callers, threads and factories: no update is lost, a factory's   *)
(* users share one informer, and, where the selectors of the filtered      *)
(* factories do not differ, who is through reads a complete lister.        *)
(***************************************************************************)
EXTENDS InformerFactory, TLAPS

Maybe(S) == S \cup {NoValue}

-----------------------------------------------------------------------------
(* Requests, and what the API server makes of them. *)

Verbs    == {"create", "update", "updateStatus", "patch", "delete"}
Sent     == Verbs \ {"updateStatus"}
Requests == [verb : Sent, name : Tasks, body : Objects, sub : {"", "status"}]

\* What a request to write body under name is, whichever client made it.
Sends(q, verb, name, body) ==
  /\ q \in Requests
  /\ q.name = name
  /\ q.body = body
  /\ q.verb = IF verb = "updateStatus" THEN "update" ELSE verb
  /\ verb = "updateStatus" => q.sub = "status"
  /\ verb = "delete" => q.sub = ""

LEMMA RequestSends ==
  ASSUME NEW c \in Callers, NEW verb \in Verbs, NEW name \in Tasks, NEW body \in Objects,
         NEW sub \in {"", "status"}
  PROVE  Sends(Request(c, verb, name, body, sub), verb, name, body)
<1>1. CASE ClientOf[c] = "typed"
  BY <1>1 DEF Sends, Request, TypedRequest, Requests, Sent, Verbs
<1>2. CASE ClientOf[c] # "typed"
  BY <1>2 DEF Sends, Request, WrappedRequest, Requests, Sent, Verbs
<1> QED
  BY <1>1, <1>2

LEMMA StoredType ==
  ASSUME ClientTypeOK, NEW q \in Requests, revision < MaxRevision,
         q.verb = "patch" => store[q.name] # NoValue
  PROVE  /\ Stored(q) \in Maybe(Objects)
         /\ q.verb = "delete" <=> Stored(q) = NoValue
         /\ q.verb # "delete" =>
              /\ Stored(q) \in Objects
              /\ Stored(q).version = revision + 1
              /\ q.verb = "patch" => Stored(q).marks = store[q.name].marks
              /\ q.verb # "patch" => Stored(q).marks = q.body.marks
<1>0. q.name \in Tasks /\ q.body \in Objects
  BY DEF Requests
<1>4. revision + 1 \in 0..MaxRevision
  BY RevisionAssumption DEF ClientTypeOK
<1>1. CASE q.verb = "delete"
  BY <1>1 DEF Stored, Maybe
<1>2. CASE q.verb = "patch"
  <2>1. store[q.name] \in Objects
    BY <1>0, <1>2 DEF ClientTypeOK
  <2>2. Stored(q) = [store[q.name] EXCEPT !.version = revision + 1, !.label = q.body.label]
    BY <1>2 DEF Stored
  <2>3. /\ Stored(q) \in Objects
        /\ Stored(q).version = revision + 1
        /\ Stored(q).marks = store[q.name].marks
    BY <1>0, <1>4, <2>1, <2>2 DEF Objects
  <2> QED
    BY <1>2, <2>3, NoValueAssumption DEF Maybe
<1>3. CASE q.verb \notin {"delete", "patch"}
  <2>1. Stored(q) = [q.body EXCEPT !.version = revision + 1]
    BY <1>3 DEF Stored
  <2>2. /\ Stored(q) \in Objects
        /\ Stored(q).version = revision + 1
        /\ Stored(q).marks = q.body.marks
    BY <1>0, <1>4, <2>1 DEF Objects
  <2> QED
    BY <1>3, <2>2, NoValueAssumption DEF Maybe
<1> QED
  BY <1>1, <1>2, <1>3

(***************************************************************************)
(* No copy of a task is newer than what was written, and one that has the  *)
(* version of the stored task is that task. An update is then accepted     *)
(* only if it brings along all marks that the stored task carries.         *)
(***************************************************************************)
AsStored(t, o) ==
  o # NoValue =>
    /\ o.version <= revision
    /\ store[t] # NoValue /\ store[t].version = o.version => o = store[t]

KeepsMarks(q) ==
  q.verb \in {"create", "update"} /\ store[q.name] # NoValue =>
    store[q.name].marks \subseteq q.body.marks

LEMMA WriteKeeps ==
  ASSUME ClientTypeOK, NoUpdateLost, NEW q \in Requests, NEW c \in Callers,
         NEW marks \in BOOLEAN, Serve(q), acked' = Acked(c, q, marks),
         q.verb = "patch" => store[q.name] # NoValue,
         KeepsMarks(q),
         marks => q.verb \in {"create", "update"} /\ c \in q.body.marks,
         \A t \in Tasks : AsStored(t, store[t])
  PROVE  /\ store' \in [Tasks -> Maybe(Objects)]
         /\ revision' \in 0..MaxRevision
         /\ acked' \in [Callers -> SUBSET Tasks]
         /\ NoUpdateLost'
         /\ \A t \in Tasks, o \in Maybe(Objects) : AsStored(t, o) => AsStored(t, o)'
         /\ \A t \in Tasks : AsStored(t, store[t])'
<1>1. /\ q.name \in Tasks /\ q.verb \in Sent
      /\ revision \in Nat /\ revision < MaxRevision /\ revision' = revision + 1
  <2>1. q.name \in Tasks /\ q.verb \in Sent
    BY DEF Requests
  <2>2. revision \in Nat
    BY RevisionAssumption DEF ClientTypeOK
  <2> QED
    BY <2>1, <2>2 DEF Serve
<1>2. revision' \in 0..MaxRevision
  BY <1>1, RevisionAssumption
<1>3. store' = [store EXCEPT ![q.name] = Stored(q)] /\ Stored(q) \in Maybe(Objects)
  BY <1>1, StoredType DEF Serve
<1>4. store' \in [Tasks -> Maybe(Objects)]
  BY <1>1, <1>3 DEF ClientTypeOK, Maybe
<1>5. acked' \in [Callers -> SUBSET Tasks]
  BY <1>1 DEF Acked, ClientTypeOK
<1>6. Stored(q) # NoValue => Stored(q).version = revision + 1
  BY <1>1, StoredType
<1>7. ASSUME NEW t \in Tasks, NEW o \in Maybe(Objects), AsStored(t, o)
      PROVE  AsStored(t, o)'
  <2>1. o # NoValue => o.version \in Nat /\ o.version <= revision
    BY <1>7 DEF AsStored, Maybe, Objects
  <2>2. CASE t = q.name
    BY <1>1, <1>3, <1>6, <2>1, <2>2 DEF AsStored, ClientTypeOK
  <2>3. CASE t # q.name
    <3>1. store'[t] = store[t]
      BY <1>3, <2>3 DEF ClientTypeOK
    <3> QED
      BY <1>1, <1>7, <2>1, <3>1 DEF AsStored
  <2> QED
    BY <2>2, <2>3
<1>8. ASSUME NEW t \in Tasks PROVE AsStored(t, store[t])'
  <2>1. CASE t = q.name
    BY <1>1, <1>3, <1>6, <2>1 DEF AsStored, ClientTypeOK
  <2>2. CASE t # q.name
    <3>1. store'[t] = store[t] /\ store[t] \in Maybe(Objects)
      BY <1>3, <2>2 DEF ClientTypeOK, Maybe
    <3>2. AsStored(t, store[t])
      OBVIOUS
    <3>3. store[t] # NoValue => store[t].version \in Nat
      BY <3>1 DEF Maybe, Objects
    <3> QED
      BY <1>1, <3>1, <3>2, <3>3 DEF AsStored
  <2> QED
    BY <2>1, <2>2
<1>9. NoUpdateLost'
  <2> SUFFICES ASSUME NEW d \in Callers, NEW t \in acked'[d]
               PROVE  store'[t] # NoValue /\ d \in store'[t].marks
    BY DEF NoUpdateLost
  <2>1. t \in Tasks
    BY <1>5
  <2>2. CASE t # q.name
    <3>1. t \in acked[d]
      BY <2>2 DEF Acked, ClientTypeOK
    <3> QED
      BY <1>3, <2>1, <2>2, <3>1 DEF NoUpdateLost, ClientTypeOK
  <2>3. CASE t = q.name
    <3>1. store'[t] = Stored(q)
      BY <1>1, <1>3, <2>3 DEF ClientTypeOK
    <3>2. q.verb # "delete" /\ (t \in acked[d] \/ (d = c /\ marks))
      BY <2>3 DEF Acked, ClientTypeOK
    <3>3. t \in acked[d] => store[t] # NoValue /\ d \in store[t].marks
      BY DEF NoUpdateLost
    <3>4. Stored(q) # NoValue
      BY <1>1, <3>2, StoredType
    <3>5. CASE q.verb = "patch"
      <4>1. Stored(q).marks = store[q.name].marks /\ ~marks
        BY <1>1, <3>5, StoredType
      <4> QED
        BY <2>3, <3>1, <3>2, <3>3, <3>4, <4>1
    <3>6. CASE q.verb \in {"create", "update"}
      <4>1. Stored(q).marks = q.body.marks
        BY <1>1, <3>6, StoredType
      <4>2. store[t] # NoValue => store[t].marks \subseteq q.body.marks
        BY <2>3, <3>6 DEF KeepsMarks
      <4> QED
        BY <2>3, <3>1, <3>2, <3>3, <3>4, <4>1, <4>2
    <3> QED
      BY <1>1, <3>2, <3>5, <3>6 DEF Sent, Verbs
  <2> QED
    BY <2>2, <2>3
<1> QED
  BY <1>2, <1>4, <1>5, <1>7, <1>8, <1>9

-----------------------------------------------------------------------------
(* The callers. *)

CInv ==
  /\ ClientTypeOK
  /\ NoUpdateLost
  /\ \A t \in Tasks : AsStored(t, store[t])
  /\ \A c \in Callers : hand[c] # NoValue => AsStored(hand[c].name, hand[c].object)

\* What held of copies that are kept elsewhere still holds.
KeepsCopies == \A t \in Tasks, o \in Maybe(Objects) : AsStored(t, o) => AsStored(t, o)'

LEMMA CopyInHand ==
  ASSUME NEW c \in Callers, ClientTypeOK, hand[c] # NoValue
  PROVE  /\ hand[c] \in Copies
         /\ hand[c].name \in Tasks
         /\ hand[c].object \in Objects
<1>1. hand[c] \in Copies
  BY DEF ClientTypeOK
<1> QED
  BY <1>1 DEF Copies

LEMMA CopyOfType ==
  ASSUME NEW t \in Tasks, NEW o \in Maybe(Objects)
  PROVE  /\ CopyOf(t, o) \in Maybe(Copies)
         /\ CopyOf(t, o) # NoValue =>
              o \in Objects /\ CopyOf(t, o).name = t /\ CopyOf(t, o).object = o
BY DEF CopyOf, Maybe, Copies

LEMMA CallKeeps ==
  ASSUME CInv, NEW q \in Requests, NEW c \in Callers, NEW marks \in BOOLEAN,
         Call(c, q, marks),
         Accepted(q) => KeepsMarks(q),
         marks => q.verb \in {"create", "update"} /\ c \in q.body.marks
  PROVE  CInv' /\ KeepsCopies
<1>1. q.name \in Tasks /\ q.verb \in Sent
  BY DEF Requests
<1>2. Accepted(q) /\ q.verb = "patch" => store[q.name] # NoValue
  BY DEF Accepted
<1>3. ASSUME NEW d \in Callers, hand[d] # NoValue, KeepsCopies
      PROVE  /\ hand[d].name \in Tasks /\ hand[d].object \in Objects
             /\ hand[d].object.version <= revision'
             /\ store'[hand[d].name] # NoValue
                  /\ store'[hand[d].name].version = hand[d].object.version
                => hand[d].object = store'[hand[d].name]
  <2>1. hand[d].name \in Tasks /\ hand[d].object \in Objects
    BY <1>3, CopyInHand DEF CInv
  <2>2. AsStored(hand[d].name, hand[d].object)
    BY <1>3 DEF CInv
  <2> QED
    BY <1>3, <2>1, <2>2, NoValueAssumption DEF KeepsCopies, AsStored, Maybe
<1>4. CASE Accepted(q) /\ Answered(c, q, marks)
  <2>1. /\ store' \in [Tasks -> Maybe(Objects)]
        /\ revision' \in 0..MaxRevision
        /\ acked' \in [Callers -> SUBSET Tasks]
        /\ NoUpdateLost'
        /\ KeepsCopies
        /\ \A t \in Tasks : AsStored(t, store[t])'
    BY <1>2, <1>4, WriteKeeps DEF Answered, CInv, KeepsCopies
  <2>2. Stored(q) \in Maybe(Objects) /\ store'[q.name] = Stored(q)
    BY <1>1, <1>2, <1>4, StoredType DEF Answered, Serve, CInv, ClientTypeOK
  <2>3. hand' = [hand EXCEPT ![c] = CopyOf(q.name, Stored(q))]
    BY <1>4 DEF Answered
  <2>4. hand' \in [Callers -> Maybe(Copies)]
    BY <1>1, <2>2, <2>3, CopyOfType DEF CInv, ClientTypeOK, Maybe
  <2>5. ASSUME NEW d \in Callers, hand'[d] # NoValue
        PROVE  AsStored(hand[d].name, hand[d].object)'
    <3>1. CASE d = c
      <4>1. hand'[d] = CopyOf(q.name, store'[q.name])
        BY <2>2, <2>3, <3>1 DEF CInv, ClientTypeOK
      <4>2. hand'[d].name = q.name /\ hand'[d].object = store'[q.name]
        BY <1>1, <2>2, <2>5, <4>1, CopyOfType
      <4>3. AsStored(q.name, store[q.name])'
        BY <1>1, <2>1
      <4> QED
        BY <4>2, <4>3 DEF AsStored
    <3>2. CASE d # c
      <4>1. hand'[d] = hand[d]
        BY <2>3, <3>2 DEF CInv, ClientTypeOK
      <4> QED
        BY <1>3, <2>1, <2>5, <4>1 DEF AsStored
    <3> QED
      BY <3>1, <3>2
  <2> QED
    BY <2>1, <2>4, <2>5 DEF CInv, ClientTypeOK, Maybe
<1>5. CASE Accepted(q) /\ Serve(q) /\ acked' = Acked(c, q, FALSE) /\ UNCHANGED hand
  <2>1. /\ store' \in [Tasks -> Maybe(Objects)]
        /\ revision' \in 0..MaxRevision
        /\ acked' \in [Callers -> SUBSET Tasks]
        /\ NoUpdateLost'
        /\ KeepsCopies
        /\ \A t \in Tasks : AsStored(t, store[t])'
    BY <1>2, <1>5, WriteKeeps DEF CInv, KeepsCopies
  <2>2. ASSUME NEW d \in Callers, hand'[d] # NoValue
        PROVE  AsStored(hand[d].name, hand[d].object)'
    BY <1>3, <1>5, <2>1, <2>2 DEF AsStored
  <2> QED
    BY <1>5, <2>1, <2>2 DEF CInv, ClientTypeOK, Maybe
<1>6. CASE hand' = [hand EXCEPT ![c] = NoValue] /\ UNCHANGED <<store, revision, acked>>
  BY <1>6 DEF CInv, ClientTypeOK, NoUpdateLost, KeepsCopies, AsStored
<1> QED
  BY <1>4, <1>5, <1>6 DEF Call

LEMMA BlankType == \A l \in Labels : Blank(l) \in Objects /\ Blank(l).marks = {}
BY RevisionAssumption DEF Blank, Objects

LEMMA CreateKeeps ==
  ASSUME CInv, NEW c \in Callers, NEW t \in Tasks, NEW l \in Labels, Create(c, t, l)
  PROVE  CInv' /\ KeepsCopies
<1> DEFINE body == [Blank(l) EXCEPT !.marks = {c}]
           q    == Request(c, "create", t, body, "")
<1>1. body \in Objects /\ body.marks = {c}
  BY RevisionAssumption DEF Blank, Objects
<1> HIDE DEF body
<1>2. q \in Requests /\ q.name = t /\ q.body = body /\ q.verb = "create"
  <2>1. "create" \in Verbs
    BY DEF Verbs
  <2>2. Sends(q, "create", t, body)
    BY <1>1, <2>1, RequestSends
  <2> QED
    BY <2>2 DEF Sends
<1>3. Call(c, q, TRUE)
  BY DEF Create, body
<1>4. Accepted(q) => KeepsMarks(q)
  BY <1>2 DEF Accepted, KeepsMarks
<1> HIDE DEF q
<1> QED
  BY <1>1, <1>2, <1>3, <1>4, CallKeeps

\* An accepted update brings along the marks of the stored task.
LEMMA UpdateKeeps ==
  ASSUME CInv, NEW c \in Callers, Update(c)
  PROVE  CInv' /\ KeepsCopies
<1> DEFINE q == Request(c, "update", hand[c].name, Marked(c), "")
<1>1. hand[c].name \in Tasks /\ hand[c].object \in Objects
  BY CopyInHand DEF Update, CInv
<1>2. /\ Marked(c) \in Objects
      /\ Marked(c).marks = hand[c].object.marks \cup {c}
      /\ Marked(c).version = hand[c].object.version
  BY <1>1 DEF Marked, Objects
<1>3. /\ q \in Requests /\ q.name = hand[c].name /\ q.body = Marked(c)
      /\ q.verb = "update"
  <2>1. "update" \in Verbs
    BY DEF Verbs
  <2>2. Sends(q, "update", hand[c].name, Marked(c))
    BY <1>1, <1>2, <2>1, RequestSends
  <2> QED
    BY <2>2 DEF Sends
<1>4. Call(c, q, TRUE)
  BY DEF Update
<1>5. Accepted(q) => KeepsMarks(q)
  <2> SUFFICES ASSUME Accepted(q)
               PROVE  store[q.name].marks \subseteq q.body.marks
    BY DEF KeepsMarks
  <2>1. store[q.name] # NoValue /\ store[q.name].version = hand[c].object.version
    BY <1>2, <1>3 DEF Accepted
  <2>2. AsStored(hand[c].name, hand[c].object)
    BY DEF Update, CInv
  <2>3. hand[c].object = store[hand[c].name]
    BY <1>1, <1>3, <2>1, <2>2, NoValueAssumption DEF AsStored
  <2> QED
    BY <1>2, <1>3, <2>3
<1> HIDE DEF q
<1> QED
  BY <1>2, <1>3, <1>4, <1>5, CallKeeps

\* The status of a task is no subresource: the server refuses the request.
LEMMA UpdateStatusKeeps ==
  ASSUME CInv, NEW c \in Callers, UpdateStatus(c)
  PROVE  CInv' /\ KeepsCopies
<1> DEFINE q == Request(c, "updateStatus", hand[c].name, hand[c].object, "")
<1>1. hand[c].name \in Tasks /\ hand[c].object \in Objects
  BY CopyInHand DEF UpdateStatus, CInv
<1>2. q \in Requests /\ q.sub = "status"
  <2>1. "updateStatus" \in Verbs
    BY DEF Verbs
  <2>2. Sends(q, "updateStatus", hand[c].name, hand[c].object)
    BY <1>1, <2>1, RequestSends
  <2> QED
    BY <2>2 DEF Sends
<1>3. Call(c, q, FALSE) /\ ~Accepted(q)
  BY <1>2 DEF UpdateStatus, Accepted
<1> HIDE DEF q
<1> QED
  BY <1>2, <1>3, CallKeeps

LEMMA PatchKeeps ==
  ASSUME CInv, NEW c \in Callers, NEW t \in Tasks, NEW l \in Labels,
         NEW sub \in {"", "status"}, Patch(c, t, l, sub)
  PROVE  CInv' /\ KeepsCopies
<1> DEFINE q == Request(c, "patch", t, Blank(l), sub)
<1>1. q \in Requests /\ q.verb = "patch"
  <2>1. "patch" \in Verbs
    BY DEF Verbs
  <2>2. Sends(q, "patch", t, Blank(l))
    BY <2>1, BlankType, RequestSends
  <2> QED
    BY <2>2 DEF Sends
<1>2. Call(c, q, FALSE) /\ KeepsMarks(q)
  BY <1>1 DEF Patch, KeepsMarks
<1> HIDE DEF q
<1> QED
  BY <1>1, <1>2, CallKeeps

LEMMA DeleteSends ==
  ASSUME NEW c \in Callers, NEW t \in Tasks, NEW l \in Labels
  PROVE  Sends(Request(c, "delete", t, Blank(l), ""), "delete", t, Blank(l))
<1>1. "delete" \in Verbs
  BY DEF Verbs
<1> QED
  BY <1>1, BlankType, RequestSends

LEMMA DeleteKeeps ==
  ASSUME CInv, NEW c \in Callers, NEW t \in Tasks, Delete(c, t)
  PROVE  CInv' /\ KeepsCopies
<1> DEFINE l == CHOOSE l \in Labels : TRUE
           q == Request(c, "delete", t, Blank(l), "")
<1>1. l \in Labels
  BY TaskNamesAssumption
<1>2. q \in Requests /\ q.verb = "delete"
  BY <1>1, DeleteSends DEF Sends
<1>3. Call(c, q, FALSE) /\ KeepsMarks(q)
  BY <1>2 DEF Delete, KeepsMarks
<1> HIDE DEF q
<1> QED
  BY <1>2, <1>3, CallKeeps

\* Each task that a collection loses is lost like one whose answer is.
LEMMA DeleteCollectionKeeps ==
  ASSUME CInv, NEW c \in Callers, NEW l \in Labels, DeleteCollection(c, l)
  PROVE  CInv' /\ KeepsCopies
<1>1. PICK t \in Tasks :
        /\ store[t] # NoValue
        /\ Serve(Request(c, "delete", t, Blank(l), ""))
        /\ acked' = Acked(c, Request(c, "delete", t, Blank(l), ""), FALSE)
        /\ UNCHANGED hand
  BY DEF DeleteCollection
<1> DEFINE q == Request(c, "delete", t, Blank(l), "")
<1>2. q \in Requests /\ q.name = t /\ q.verb = "delete" /\ q.sub = ""
  <2>1. Sends(q, "delete", t, Blank(l))
    BY DeleteSends
  <2> HIDE DEF q
  <2> QED
    BY <2>1 DEF Sends
<1>3. Call(c, q, FALSE) /\ KeepsMarks(q)
  BY <1>1, <1>2 DEF Call, Accepted, KeepsMarks
<1> HIDE DEF q
<1> QED
  BY <1>2, <1>3, CallKeeps

LEMMA ReadKeeps ==
  ASSUME CInv, NEW c \in Callers, NEW t \in Tasks, NEW o \in Maybe(Objects),
         AsStored(t, o), hand' = [hand EXCEPT ![c] = CopyOf(t, o)],
         UNCHANGED <<store, revision, acked>>
  PROVE  CInv' /\ KeepsCopies
<1>1. hand' \in [Callers -> Maybe(Copies)]
  BY CopyOfType DEF CInv, ClientTypeOK, Maybe
<1>2. ASSUME NEW d \in Callers, hand'[d] # NoValue
      PROVE  AsStored(hand[d].name, hand[d].object)'
  <2>1. CASE d = c
    <3>1. hand'[d] = CopyOf(t, o)
      BY <2>1 DEF CInv, ClientTypeOK
    <3>2. hand'[d].name = t /\ hand'[d].object = o
      BY <1>2, <3>1, CopyOfType
    <3> QED
      BY <3>2 DEF AsStored
  <2>2. CASE d # c
    BY <1>2, <2>2 DEF CInv, ClientTypeOK, AsStored
  <2> QED
    BY <2>1, <2>2
<1> QED
  BY <1>1, <1>2 DEF CInv, ClientTypeOK, NoUpdateLost, KeepsCopies, AsStored, Maybe

LEMMA CallsKeep == ASSUME CInv, Calls PROVE CInv' /\ KeepsCopies
<1>1. ASSUME NEW c \in Callers, NEW t \in Tasks, Get(c, t) PROVE CInv' /\ KeepsCopies
  <2>1. store[t] \in Maybe(Objects) /\ AsStored(t, store[t])
    BY DEF CInv, ClientTypeOK, Maybe
  <2> QED
    BY <1>1, <2>1, ReadKeeps DEF Get
<1> QED
  BY <1>1, CreateKeeps, UpdateKeeps, UpdateStatusKeeps, PatchKeeps, DeleteKeeps,
     DeleteCollectionKeeps
  DEF Calls

-----------------------------------------------------------------------------
(***************************************************************************)
(* The factories. Who is inside a method that changes the maps holds the   *)
(* lock, and what it found when it came in is still so.                    *)
(***************************************************************************)
MapTypeOK ==
  /\ lock \in [Factories -> Threads \cup {NoValue}]
  /\ made \in [Factories -> {0, 1}]
  /\ informers \in [Factories -> {0, 1}]
  /\ started \in [Factories -> BOOLEAN]
  /\ runs \in [Factories -> {0, 1}]
  /\ ranOn \in [Factories -> Maybe(Channels)]
  /\ unwritten \in [Factories -> SUBSET Tasks]
  /\ at \in [Threads -> {"idle", "newFunc", "go", "waiting"}]
  /\ stopCh \in [Threads -> Maybe(Channels)]
  /\ handed \in [Threads -> {0, 1}]
  /\ stage \in [Threads -> {"none", "begun", "ready"}]

LockInv ==
  \A th \in Threads :
    LET f == FactoryOf(th) IN
    /\ at[th] \in {"newFunc", "go"} => lock[f] = th
    /\ at[th] = "newFunc" => informers[f] = 0
    /\ at[th] = "go" => informers[f] = 1 /\ ~started[f]

MapInv ==
  /\ MapTypeOK
  /\ LockInv
  /\ \A f \in Factories : made[f] = informers[f] /\ (started[f] <=> runs[f] = 1)
  /\ \A th \in Threads :
       /\ handed[th] = 1 => informers[FactoryOf(th)] = 1
       /\ stage[th] # "none" => handed[th] = 1 /\ started[FactoryOf(th)]

LEMMA MapKeeps == ASSUME MapInv, UsesFactory PROVE MapInv'
<1> SUFFICES ASSUME NEW th \in Threads, Enters(th) \/ Inside(th) PROVE MapInv'
  BY DEF UsesFactory
<1> DEFINE f == FactoryOf(th)
<1>f. f \in Factories /\ \A u \in Threads : FactoryOf(u) \in Factories
  BY FactoriesAssumption
<1> USE DEF MapInv, MapTypeOK, LockInv, Maybe
<1>1. CASE InformerFor(th)
  BY <1>1, <1>f, ValuesAssumption DEF InformerFor, LockFree, Goto, mapVars
<1>2. CASE MakeInformer(th)
  BY <1>2, <1>f, ValuesAssumption DEF MakeInformer, Goto
<1>3. ASSUME NEW ch \in Channels, Start(th, ch) PROVE MapInv'
  BY <1>3, <1>f, ValuesAssumption DEF Start, Begun, LockFree, Goto, mapVars
<1>4. CASE GoRun(th)
  BY <1>4, <1>f, ValuesAssumption DEF GoRun, Begun, Goto
<1>5. ASSUME NEW ch \in Channels, WaitForCacheSync(th, ch) PROVE MapInv'
  BY <1>5, <1>f DEF WaitForCacheSync, Proceeds, LockFree, Goto, mapVars
<1>6. CASE WaitReturns(th)
  BY <1>6, <1>f DEF WaitReturns, Proceeds, Goto, mapVars
<1> QED
  BY <1>1, <1>2, <1>3, <1>4, <1>5, <1>6 DEF Enters, Inside, Informer, ForResource

-----------------------------------------------------------------------------
(***************************************************************************)
(* The caches. What an informer that has listed shows of a task that was   *)
(* not written since the informer was run is what a watch would show now.  *)
(***************************************************************************)
CacheInv ==
  /\ synced \in [Factories -> BOOLEAN]
  /\ cache \in [Factories -> [Tasks -> Maybe(Objects)]]
  /\ closed \subseteq Channels
  /\ listFails \in BOOLEAN
  /\ \A f \in Factories, t \in Tasks : AsStored(t, cache[f][t])
  /\ \A f \in Factories : synced[f] => runs[f] = 1
  /\ \A th \in Threads : stage[th] = "ready" => synced[FactoryOf(th)]
  /\ \A f \in Factories : synced[f] =>
       \A t \in unwritten[f] : cache[f][t] = Watched(f, t)

LInv == CInv /\ MapInv /\ CacheInv

LEMMA InitLInv == Init => LInv
<1> SUFFICES ASSUME Init PROVE LInv
  OBVIOUS
<1>1. CInv
  BY RevisionAssumption
  DEF Init, ClientInit, CInv, ClientTypeOK, NoUpdateLost, AsStored
<1>2. MapInv
  BY ValuesAssumption DEF Init, MapInv, MapTypeOK, LockInv, Maybe
<1>3. CacheInv
  BY FactoriesAssumption DEF Init, CacheInv, AsStored, Maybe
<1> QED
  BY <1>1, <1>2, <1>3 DEF LInv

LEMMA WatchedType ==
  ASSUME CInv, NEW f \in Factories, NEW t \in Tasks
  PROVE  Watched(f, t) \in Maybe(Objects) /\ AsStored(t, Watched(f, t))
<1>1. store[t] \in Maybe(Objects) /\ AsStored(t, store[t])
  BY DEF CInv, ClientTypeOK, Maybe
<1> QED
  BY <1>1 DEF Watched, Maybe, AsStored

LEMMA CallsKeepAll ==
  ASSUME LInv, Calls,
         unwritten' = [f \in Factories |-> {t \in unwritten[f] : store'[t] = store[t]}],
         UNCHANGED <<mapVars, cacheVars, outerVars, threadVars>>
  PROVE  LInv'
<1>1. CInv' /\ KeepsCopies
  BY CallsKeep DEF LInv
<1>2. MapInv'
  BY DEF LInv, MapInv, MapTypeOK, LockInv, mapVars, threadVars
<1>3. ASSUME NEW f \in Factories, NEW t \in Tasks PROVE AsStored(t, cache[f][t])'
  BY <1>1 DEF LInv, CacheInv, KeepsCopies, cacheVars, AsStored
<1>4. ASSUME NEW f \in Factories, synced'[f], NEW t \in unwritten'[f]
      PROVE  cache'[f][t] = Watched(f, t)'
  <2>1. t \in unwritten[f] /\ store'[t] = store[t]
    BY <1>4
  <2> QED
    BY <1>4, <2>1 DEF LInv, CacheInv, cacheVars, Watched
<1>5. CacheInv'
  BY <1>3, <1>4 DEF LInv, CacheInv, mapVars, cacheVars, outerVars, threadVars
<1> QED
  BY <1>1, <1>2, <1>5 DEF LInv

LEMMA ReadKeepsAll == ASSUME LInv, Read, UNCHANGED factoryVars PROVE LInv'
<1>1. CInv'
  <2>1. ASSUME NEW c \in Callers, NEW f \in Factories, NEW t \in Tasks, ReadCached(c, f, t)
        PROVE  CInv'
    <3>1. cache[f][t] \in Maybe(Objects) /\ AsStored(t, cache[f][t])
      BY DEF LInv, CacheInv
    <3> QED
      BY <2>1, <3>1, ReadKeeps DEF LInv, Read, ReadCached
  <2>2. ASSUME NEW c \in Callers, NEW f \in Factories, NEW t \in Tasks, ReadDynamic(c, f, t)
        PROVE  CInv'
    <3>1. store[t] \in Maybe(Objects) /\ AsStored(t, store[t])
      BY DEF LInv, CInv, ClientTypeOK, Maybe
    <3> QED
      BY <2>2, <3>1, ReadKeeps DEF LInv, Read, ReadDynamic
  <2> QED
    BY <2>1, <2>2 DEF Read
<1>2. MapInv' /\ CacheInv'
  BY DEF LInv, Read, MapInv, MapTypeOK, LockInv, CacheInv, AsStored, Watched,
         factoryVars, mapVars, cacheVars, outerVars, threadVars
<1> QED
  BY <1>1, <1>2 DEF LInv

LEMMA ClientRests ==
  ASSUME CInv, UNCHANGED clientVars
  PROVE  /\ CInv'
         /\ \A t \in Tasks, o \in Maybe(Objects) : AsStored(t, o) => AsStored(t, o)'
         /\ \A f \in Factories, t \in Tasks : Watched(f, t)' = Watched(f, t)
BY DEF CInv, ClientTypeOK, NoUpdateLost, AsStored, Watched, clientVars

LEMMA FactoryKeepsAll ==
  ASSUME LInv, UsesFactory, UNCHANGED <<clientVars, cacheVars, outerVars>>
  PROVE  LInv'
<1>1. CInv' /\ MapInv'
  BY ClientRests, MapKeeps DEF LInv
<1>2. PICK th \in Threads : Enters(th) \/ Inside(th)
  BY DEF UsesFactory
<1>f. FactoryOf(th) \in Factories
  BY FactoriesAssumption
<1>3. CASE GoRun(th)
  <2>1. runs[FactoryOf(th)] = 0
    BY <1>3, <1>f DEF GoRun, LInv, MapInv, MapTypeOK, LockInv
  <2> QED
    BY <1>1, <1>3, <1>f, <2>1, ClientRests
    DEF GoRun, Begun, LInv, MapInv, MapTypeOK, CacheInv, cacheVars, outerVars, AsStored,
        Watched, clientVars
<1>4. ASSUME NEW ch \in Channels, WaitForCacheSync(th, ch) PROVE LInv'
  <2>1. stage[th] = "begun" => informers[FactoryOf(th)] # 0 /\ started[FactoryOf(th)]
    BY <1>f DEF LInv, MapInv, MapTypeOK
  <2> QED
    BY <1>1, <1>4, <2>1, ClientRests
    DEF WaitForCacheSync, Proceeds, LInv, MapInv, MapTypeOK, CacheInv, cacheVars, outerVars,
        mapVars, AsStored, Watched, clientVars
<1>5. CASE WaitReturns(th)
  BY <1>1, <1>5, ClientRests
  DEF WaitReturns, Proceeds, LInv, MapInv, MapTypeOK, CacheInv, cacheVars, outerVars,
      mapVars, AsStored, Watched, clientVars
<1>6. CASE InformerFor(th) \/ MakeInformer(th) \/ \E ch \in Channels : Start(th, ch)
  BY <1>1, <1>6, ClientRests
  DEF InformerFor, MakeInformer, Start, Begun, LInv, MapInv, MapTypeOK, CacheInv,
      cacheVars, outerVars, mapVars, AsStored, Watched, clientVars
<1> QED
  BY <1>2, <1>3, <1>4, <1>5, <1>6 DEF Enters, Inside, Informer, ForResource

LEMMA InformsKeepsAll ==
  ASSUME LInv, Informs, UNCHANGED <<clientVars, mapVars, outerVars, threadVars, unwritten>>
  PROVE  LInv'
<1>1. CInv' /\ MapInv'
  BY ClientRests DEF LInv, MapInv, MapTypeOK, LockInv, mapVars, threadVars
<1>2. PICK f \in Factories : ListTasks(f) \/ \E t \in Tasks : WatchTask(f, t)
  BY DEF Informs
<1>3. CASE ListTasks(f)
  BY <1>1, <1>3, ClientRests, WatchedType
  DEF ListTasks, Running, LInv, MapInv, MapTypeOK, CacheInv, mapVars, outerVars, threadVars
<1>4. ASSUME NEW t \in Tasks, WatchTask(f, t) PROVE CacheInv'
  BY <1>4, ClientRests, WatchedType
  DEF WatchTask, LInv, MapInv, MapTypeOK, CacheInv, mapVars, outerVars, threadVars
<1> QED
  BY <1>1, <1>2, <1>3, <1>4 DEF LInv

LEMMA NextLInv == LInv /\ [Next]_vars => LInv'
<1> SUFFICES ASSUME LInv, [Next]_vars PROVE LInv'
  OBVIOUS
<1>1. CASE \/ Outside /\ UNCHANGED <<clientVars, mapVars, cacheVars, threadVars, unwritten>>
           \/ UNCHANGED vars
  <2>1. /\ UNCHANGED <<clientVars, mapVars, cacheVars, threadVars, unwritten>>
        /\ closed' \subseteq Channels /\ listFails' \in BOOLEAN
    BY <1>1 DEF Outside, Stop, ListingChanges, vars, factoryVars, outerVars, LInv, CacheInv
  <2>2. CInv'
    BY <2>1, ClientRests DEF LInv
  <2>3. MapInv'
    BY <2>1 DEF LInv, MapInv, MapTypeOK, LockInv, mapVars, threadVars
  <2>4. ASSUME NEW f \in Factories, NEW t \in Tasks
        PROVE  AsStored(t, cache[f][t])' /\ Watched(f, t)' = Watched(f, t)
    BY <2>1 DEF LInv, CacheInv, AsStored, Watched, clientVars, cacheVars
  <2>5. \A f \in Factories : unwritten[f] \subseteq Tasks
    BY DEF LInv, MapInv, MapTypeOK
  <2>6. CacheInv'
    BY <2>1, <2>4, <2>5 DEF LInv, CacheInv, mapVars, cacheVars, threadVars
  <2> QED
    BY <2>2, <2>3, <2>6 DEF LInv
<1> QED
  BY <1>1, CallsKeepAll, ReadKeepsAll, FactoryKeepsAll, InformsKeepsAll DEF Next

-----------------------------------------------------------------------------
\* The variables keep their types.
THEOREM LibraryTypeCorrect == Spec => []TypeOK
<1>1. LInv => TypeOK
  <2> SUFFICES ASSUME LInv PROVE TypeOK
    OBVIOUS
  <2>1. /\ made \in [Factories -> Nat] /\ informers \in [Factories -> Nat]
        /\ runs \in [Factories -> Nat] /\ handed \in [Threads -> Nat]
    BY DEF LInv, MapInv, MapTypeOK
  <2>2. cache \in [Factories -> [Tasks -> Objects \cup {NoValue}]]
    BY DEF LInv, CacheInv, Maybe
  <2> QED
    BY <2>1, <2>2 DEF LInv, CInv, MapInv, MapTypeOK, CacheInv, TypeOK, Maybe
<1> QED
  BY <1>1, InitLInv, NextLInv, PTL DEF Spec

\* Once a caller was told that its update is stored, its mark stays in the task for as
\* long as it exists (client.go:199-218, typed/codeenginetask.go:126-137).
THEOREM NoUpdateIsEverLost == Spec => []NoUpdateLost
<1>1. LInv => NoUpdateLost
  BY DEF LInv, CInv
<1> QED
  BY <1>1, InitLInv, NextLInv, PTL DEF Spec

\* All users of a factory share one informer, and it is run at most once
\* (factory.go:110-121, 147-166).
THEOREM EveryoneAlwaysSharesOneInformer == Spec => []EveryoneSharesOneInformer
<1>1. LInv => EveryoneSharesOneInformer
  BY FactoriesAssumption DEF LInv, MapInv, MapTypeOK, EveryoneSharesOneInformer
<1> QED
  BY <1>1, InitLInv, NextLInv, PTL DEF Spec

\* Where all filtered factories have the same selector, a thread that is through reads
\* a complete lister; with different selectors the factories list with the last one
\* (factory.go:124-143, filtered_factory.go:55-66, filtered/codeenginetask.go:112-129).
THEOREM ReadyListersAlwaysAgree ==
  ASSUME \A f \in Factories : Selectors[f] \in {Everything, Selectors[Len(Selectors)]}
  PROVE  Spec => []ReadyListersAgree
<1>1. LInv => ReadyListersAgree
  <2> SUFFICES ASSUME LInv, NEW th \in Threads, stage[th] = "ready",
                      NEW t \in unwritten[FactoryOf(th)],
                      NEW selector \in Labels \cup {Everything}
               PROVE  t \in CachedList(FactoryOf(th), selector)
                        <=> t \in DynamicList(FactoryOf(th), selector)
    BY DEF ReadyListersAgree
  <2> DEFINE f == FactoryOf(th)
  <2>1. f \in Factories /\ t \in Tasks /\ cache[f][t] = Watched(f, t)
    BY FactoriesAssumption DEF LInv, MapInv, MapTypeOK, CacheInv
  <2>2. ListSelector(f) = Selectors[f]
    BY <2>1 DEF ListSelector
  <2> HIDE DEF f
  <2>3. t \in CachedList(f, selector) <=> t \in DynamicList(f, selector)
    BY <2>1, <2>2 DEF CachedList, DynamicList, Watched
  <2> QED
    BY <2>3 DEF f
<1> QED
  BY <1>1, InitLInv, NextLInv, PTL DEF Spec
=============================================================================
