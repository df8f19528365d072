------------------------------ MODULE Admission ------------------------------
(***************************************************************************)
(* The webhook process (cmd/webhook) and what stands between a user and    *)
(* the stored CodeEngineTasks: the webhook configurations, which have no   *)
(* rules until the process fills them in, and the defaulting and           *)
(* validation of tasks (pkg/apis/codeenginetask/v1alpha1). The definition  *)
(* of CodeEngineTask has no schema, so nothing else checks a task.         *)
(***************************************************************************)
EXTENDS Naturals

CONSTANTS
  Tasks,           \* names of CodeEngineTasks
  SystemNamespace, \* the namespace the webhook process runs in
  ConfigNamespace, \* the namespace in the names of the webhook configurations
  MaxFaults,       \* bound: crashes and failed calls
  NoTask           \* no task of that name

ASSUME MaxFaultsAssumption == MaxFaults \in Nat

VARIABLES
  hook,   \* the webhook process, "down" or "up"
  rules,  \* for each webhook configuration, whether it has its rules
  stored, \* the task stored under each name, or NoTask
  faults  \* how many faults have happened

admissionVars == <<hook, rules, stored, faults>>

(***************************************************************************)
(* What a user applies: a valid task, one without jobName, one with a      *)
(* field that CodeEngineTask does not have, and one that cannot be decoded *)
(* because a field has another type.                                       *)
(***************************************************************************)
Contents == {"valid", "nameless", "extra", "garbled"}

Webhooks == {"defaulting", "validation", "config"}

\* The name of the configuration that the process asks for, and of the one that is
\* installed.
WebhookName(w)   == <<w, "webhook", SystemNamespace>>
InstalledName(w) == <<w, "webhook", ConfigNamespace>>

AdmissionInit ==
  /\ hook = "down"
  /\ rules = [w \in Webhooks |-> FALSE]
  /\ stored = [t \in Tasks |-> NoTask]
  /\ faults = 0

Fault == faults < MaxFaults /\ faults' = faults + 1

-----------------------------------------------------------------------------
(* The webhook process. *)

HookBoots ==
  /\ hook = "down"
  /\ hook' = "up"
  /\ UNCHANGED <<rules, stored, faults>>

HookCrashes ==
  /\ hook = "up"
  /\ Fault
  /\ hook' = "down"
  /\ UNCHANGED <<rules, stored>>


Reconciles(w) == WebhookName(w) = InstalledName(w)

\* An admission controller fills in the rules of its configuration, if there is one
\* of that name; else it keeps trying.
FillIn(w) ==
  /\ hook = "up"
  /\ Reconciles(w)
  /\ rules' = [rules EXCEPT ![w] = TRUE]
  /\ UNCHANGED <<hook, stored, faults>>

-----------------------------------------------------------------------------
(* Tasks. *)

\* Unknown fields are refused, and a task must decode.
Decodes(content) == content \in {"valid", "nameless"}

SetDefaults(content) == content

Validate(content) == content # "nameless"

\* A configuration that has its rules refuses what its webhook cannot answer.
Defaulting(content) == rules["defaulting"] => hook = "up" /\ Decodes(content)

\* Mutant: unknown fields are allowed and the task is not decoded.
Validation_lenient(content) ==
  rules["validation"] => hook = "up" /\ Validate(content)

Validation(content) ==
  rules["validation"] => hook = "up" /\ Decodes(content) /\ Validate(content)

Apply(t, content) ==
  /\ Defaulting(content)
  /\ Validation(SetDefaults(content))
  /\ stored' = [stored EXCEPT ![t] = SetDefaults(content)]
  /\ UNCHANGED <<hook, rules, faults>>

\* The validation webhook is asked about deletions too, and has no callback for them.
Remove(t) ==
  /\ stored[t] # NoTask
  /\ rules["validation"] => hook = "up"
  /\ stored' = [stored EXCEPT ![t] = NoTask]
  /\ UNCHANGED <<hook, rules, faults>>

\* A list of tasks decodes only if each of them does; unknown fields are skipped.
Poisoned == \E t \in Tasks : stored[t] = "garbled"

-----------------------------------------------------------------------------
HookStep ==
  \/ HookBoots
  \/ HookCrashes
  \/ \E w \in Webhooks : FillIn(w)

UserStep ==
  \E t \in Tasks : Remove(t) \/ \E content \in Contents : Apply(t, content)

AdmissionTypeOK ==
  /\ hook \in {"down", "up"}
  /\ rules \in [Webhooks -> BOOLEAN]
  /\ stored \in [Tasks -> Contents \cup {NoTask}]
  /\ faults \in 0..MaxFaults
=============================================================================
