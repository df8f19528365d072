----------------------------- MODULE TaskClient -----------------------------
(***************************************************************************)
(* CodeEngineTasks in the Kubernetes API server, and the two clients of    *)
(* pkg/client that reach them: the typed one (clientset/versioned/typed)   *)
(* and the wrapper around a dynamic client (injection/client). Callers     *)
(* read a task, change their copy, and write it back; answers get lost.    *)
(***************************************************************************)
EXTENDS Naturals, Sequences, FiniteSets

CONSTANTS
  Tasks,       \* names of CodeEngineTasks
  Labels,      \* values of the label that selectors ask for
  Callers,     \* goroutines that write tasks
  ClientOf,    \* the client of each caller: "typed" or "wrapped"
  MaxRevision, \* bound: writes that the API server performs
  NoValue      \* no object, no copy, no holder

ASSUME ClientsAssumption   == ClientOf \in [Callers -> {"typed", "wrapped"}]
ASSUME RevisionAssumption  == MaxRevision \in Nat
ASSUME TaskNamesAssumption == Labels # {}

VARIABLES
  store,    \* the task stored under each name, or NoValue
  revision, \* the API server's resourceVersion counter
  hand,     \* the copy each caller has, or NoValue
  acked     \* auxiliary: the stored tasks each caller was told it has marked

clientVars == <<store, revision, hand, acked>>

-----------------------------------------------------------------------------
(***************************************************************************)
(* A task has a label and carries the marks of the callers that updated    *)
(* it. version stands for its resourceVersion.                             *)
(***************************************************************************)
Objects == [label : Labels, marks : SUBSET Callers, version : 0..MaxRevision]
Copies  == [name : Tasks, object : Objects]

ASSUME NoValueAssumption == NoValue \notin Objects

ClientInit ==
  /\ store = [t \in Tasks |-> NoValue]
  /\ revision = 0
  /\ hand = [c \in Callers |-> NoValue]
  /\ acked = [c \in Callers |-> {}]

(***************************************************************************)
(* What the clients send. A request names a verb, a task, a subresource    *)
(* ("" is the task itself), and has an object as its body.                 *)
(***************************************************************************)
TypedRequest(verb, name, body, sub) ==
  [verb |-> IF verb = "updateStatus" THEN "update" ELSE verb,
   name |-> name,
   body |-> body,
   sub  |-> IF verb = "updateStatus" THEN "status"
            ELSE IF verb = "patch" THEN sub ELSE ""]

\* Mutant: an update is sent as a patch of the whole object.
WrappedRequest_updatePatches(verb, name, body, sub) ==
  [verb |-> IF verb = "update" THEN "replace" ELSE verb,
   name |-> name, body |-> body, sub |-> ""]

\* convert goes through JSON and back: it keeps the fields that the Go type has, for
\* which label, marks and version stand, and drops all others, of which the model has
\* none. The subresources of a patch are not passed on.
WrappedRequest(verb, name, body, sub) ==
  [verb |-> IF verb = "updateStatus" THEN "update" ELSE verb,
   name |-> name,
   body |-> body,
   sub  |-> IF verb = "updateStatus" THEN "status" ELSE ""]

Request(c, verb, name, body, sub) ==
  IF ClientOf[c] = "typed" THEN TypedRequest(verb, name, body, sub)
  ELSE WrappedRequest(verb, name, body, sub)

(***************************************************************************)
(* The API server: an update must carry the version that is stored, a      *)
(* patch carries none, and the definition of CodeEngineTask declares no    *)
(* status subresource.                                                     *)
(***************************************************************************)
Accepted(q) ==
  /\ q.sub = ""
  /\ IF q.verb = "create" THEN store[q.name] = NoValue
     ELSE /\ store[q.name] # NoValue
          /\ q.verb = "update" => store[q.name].version = q.body.version

Stored(q) ==
  IF q.verb = "delete" THEN NoValue
  ELSE IF q.verb = "patch"
  THEN [store[q.name] EXCEPT !.version = revision + 1, !.label = q.body.label]
  ELSE [q.body EXCEPT !.version = revision + 1]

Serve(q) ==
  /\ revision < MaxRevision
  /\ revision' = revision + 1
  /\ store' = [store EXCEPT ![q.name] = Stored(q)]

-----------------------------------------------------------------------------
(***************************************************************************)
(* Calls. The answer of a write is the stored object; a refused caller     *)
(* drops its copy; a caller whose answer is lost, or cannot be converted   *)
(* back, keeps the copy it had although the write has been performed.      *)
(***************************************************************************)
\* Mutant: the error of a call is not looked at.
CopyOf_always(t, o) == [name |-> t, object |-> o]

CopyOf(t, o) == IF o = NoValue THEN NoValue ELSE [name |-> t, object |-> o]

Get(c, t) ==
  /\ hand' = [hand EXCEPT ![c] = CopyOf(t, store[t])]
  /\ UNCHANGED <<store, revision, acked>>

\* The marks that are known to be stored: those of the caller c are from now on,
\* and nobody's are when the task is deleted.
Acked(c, q, marks) ==
  [d \in Callers |-> IF q.verb = "delete" THEN acked[d] \ {q.name}
                     ELSE IF d = c /\ marks THEN acked[d] \cup {q.name} ELSE acked[d]]

Answered(c, q, marks) ==
  /\ Serve(q)
  /\ hand' = [hand EXCEPT ![c] = CopyOf(q.name, Stored(q))]
  /\ acked' = Acked(c, q, marks)

Call(c, q, marks) ==
  \/ Accepted(q) /\ Answered(c, q, marks)
  \/ Accepted(q) /\ Serve(q) /\ acked' = Acked(c, q, FALSE) /\ UNCHANGED hand
  \/ /\ ~Accepted(q)
     /\ hand' = [hand EXCEPT ![c] = NoValue]
     /\ UNCHANGED <<store, revision, acked>>

Blank(label) == [label |-> label, marks |-> {}, version |-> 0]
Marked(c)    == [hand[c].object EXCEPT !.marks = @ \cup {c}]

Create(c, t, label) ==
  Call(c, Request(c, "create", t, [Blank(label) EXCEPT !.marks = {c}], ""), TRUE)

Update(c) ==
  /\ hand[c] # NoValue
  /\ Call(c, Request(c, "update", hand[c].name, Marked(c), ""), TRUE)

UpdateStatus(c) ==
  /\ hand[c] # NoValue
  /\ Call(c, Request(c, "updateStatus", hand[c].name, hand[c].object, ""), FALSE)

\* A patch of the label. One of other fields overwrites what is there by intent,
\* without a version, and is not in the model.
Patch(c, t, label, sub) ==
  Call(c, Request(c, "patch", t, Blank(label), sub), FALSE)

Delete(c, t) ==
  Call(c, Request(c, "delete", t, Blank(CHOOSE l \in Labels : TRUE), ""), FALSE)

\* The tasks that match a label are deleted, one object after the other.
DeleteCollection(c, label) ==
  \E t \in Tasks :
    LET q == Request(c, "delete", t, Blank(label), "") IN
    /\ store[t] # NoValue
    /\ store[t].label = label
    /\ Serve(q)
    /\ acked' = Acked(c, q, FALSE)
    /\ UNCHANGED hand

Calls ==
  \E c \in Callers :
    \/ Update(c)
    \/ UpdateStatus(c)
    \/ \E t \in Tasks :
         \/ Get(c, t)
         \/ Delete(c, t)
         \/ \E l \in Labels :
              \/ Create(c, t, l)
              \/ \E sub \in {"", "status"} : Patch(c, t, l, sub)
    \/ \E l \in Labels : DeleteCollection(c, l)

-----------------------------------------------------------------------------
ClientTypeOK ==
  /\ store \in [Tasks -> Objects \cup {NoValue}]
  /\ revision \in 0..MaxRevision
  /\ hand \in [Callers -> Copies \cup {NoValue}]
  /\ acked \in [Callers -> SUBSET Tasks]

\* No update is lost: once a caller was told that its update is stored, its mark
\* stays in the task for as long as it exists, whatever callers with older copies,
\* of either client, write afterwards, and although deleted names are used again. The
\* patches among the writes are those of other fields (client.go:199-218, typed/codeenginetask.go:126-137).
NoUpdateLost ==
  \A c \in Callers : \A t \in acked[c] : store[t] # NoValue /\ c \in store[t].marks
=============================================================================
