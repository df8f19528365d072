---------------------------- MODULE StartupProofs ----------------------------
(***************************************************************************)
(* What ControllerStartup does not do, for every number of faults, every   *)
(* set of tasks and all names: it does not construct a controller from an  *)
(* incomplete context, and does not admit what is not a task.              *)
(***************************************************************************)
EXTENDS ControllerStartup, TLAPS

(***************************************************************************)
(* Why nothing is nil: at each place of the chain the settings, the token  *)
(* and the context are what the steps up to there have let through.        *)
(***************************************************************************)
AtEnvironment == {"down", "environment"}
AtToken       == AtEnvironment \cup {"token"}
AtKubeconfig  == AtToken \cup {"kubeconfig"}
AtClient      == AtKubeconfig \cup {"client"}
AtInformers   == AtClient \cup {"informers"}
AtFactory     == AtInformers \cup {"injectClient"}
AtInformer    == AtFactory \cup {"injectFactory"}
AtConstruct   == AtInformer \cup {"injectInformer"}

Chain ==
  /\ pc # "down" => env # "badLevel"
  /\ pc \notin AtEnvironment => env # "incomplete"
  /\ pc \notin AtToken =>
       /\ token \in {"empty", "delegated"}
       /\ env \in {"badKey", "locked"} => token = "empty"
  /\ pc \notin AtKubeconfig => token = "delegated" /\ env # "noProject"
  /\ pc \notin AtClient => "ceClient" \in context
  /\ pc \notin AtInformers => {"ceNamespace", "ceInformers"} \subseteq context /\ env # "forbidden"
  /\ pc \notin AtFactory => "taskClient" \in context
  /\ pc \notin AtInformer => "taskFactory" \in context
  /\ pc \notin AtConstruct => "taskInformer" \in context

SInv == TypeOK /\ Chain

PlaceNames == {"down", "environment", "token", "kubeconfig", "client", "informers",
               "injectClient", "injectFactory", "injectInformer", "construct", "sync",
               "serving"}

LEMMA PlacesAreNames == {Places[i] : i \in DOMAIN Places} = PlaceNames
<1>1. DOMAIN Places = 1..12
  BY DEF Places
<1> QED
  BY <1>1 DEF Places, PlaceNames

LEMMA InitSInv == Init => SInv
BY MaxFaultsAssumption, PlacesAreNames
DEF Init, AdmissionInit, SInv, TypeOK, AdmissionTypeOK, Chain, NothingCached, Settings,
    PlaceNames, AtEnvironment, AtToken, AtKubeconfig, AtClient, AtInformers, AtFactory,
    AtInformer, AtConstruct

LEMMA FaultsBounded == ASSUME AdmissionTypeOK, Fault PROVE faults' \in 0..MaxFaults
BY MaxFaultsAssumption DEF AdmissionTypeOK, Fault

\* What happens to the tasks and the webhooks does not touch the process.
LEMMA AdmissionKeepsType ==
  ASSUME AdmissionTypeOK, HookStep \/ UserStep PROVE AdmissionTypeOK'
<1>1. CASE HookStep
  BY <1>1, FaultsBounded
  DEF HookStep, HookBoots, HookCrashes, FillIn, AdmissionTypeOK
<1>2. CASE UserStep
  BY <1>2 DEF UserStep, Remove, Apply, SetDefaults, AdmissionTypeOK
<1> QED
  BY <1>1, <1>2

LEMMA ExitKeeps ==
  ASSUME SInv, Exit, AdmissionTypeOK', settings' = settings, env' \in Settings
  PROVE  SInv'
<1>1. NothingCached' = NothingCached /\ NothingCached \in [Tasks -> Contents \cup {NoTask}]
  BY DEF NothingCached
<1>2. TypeOK'
  BY <1>1, PlacesAreNames DEF Exit, Goto, SInv, TypeOK, PlaceNames
<1>3. Chain'
  BY DEF Exit, Goto, Chain, AtEnvironment, AtToken, AtKubeconfig, AtClient, AtInformers,
         AtFactory, AtInformer, AtConstruct
<1> QED
  BY <1>2, <1>3 DEF SInv

LEMMA ControllerKeeps == ASSUME SInv, ControllerStep PROVE SInv'
<1> USE PlacesAreNames
    DEF SInv, TypeOK, Chain, PlaceNames, Settings, Goto, Adds, Needed,
        AtEnvironment, AtToken, AtKubeconfig, AtClient, AtInformers, AtFactory, AtInformer,
        AtConstruct
<1>1. AdmissionTypeOK'
  <2>1. faults' \in 0..MaxFaults
    BY FaultsBounded
    DEF ControllerStep, Starts, Boot, ValidateEnvironment, RequestToken, GetKubeconfig,
        NewForConfigOrDie, MakeClient, StartInformers, Injects, InjectClient,
        InjectFactory, InjectInformer, NewController, ListTasks, WatchTasks, Dies,
        AdmissionTypeOK
  <2> QED
    BY <2>1 DEF ControllerStep, AdmissionTypeOK
<1>2. UNCHANGED <<stored, settings>>
  BY DEF ControllerStep
<1>3. CASE Boot
  BY <1>1, <1>2, <1>3 DEF Boot
<1>4. CASE Exit /\ UNCHANGED env
  BY <1>1, <1>2, <1>4, ExitKeeps
<1>5. CASE ValidateEnvironment
  BY <1>1, <1>2, <1>4, <1>5 DEF ValidateEnvironment
<1>6. CASE RequestToken
  BY <1>1, <1>2, <1>4, <1>6 DEF RequestToken, Answers
<1>7. CASE GetKubeconfig
  BY <1>1, <1>2, <1>4, <1>7 DEF GetKubeconfig
<1>8. CASE MakeClient
  BY <1>1, <1>2, <1>4, <1>8 DEF MakeClient, NewForConfigOrDie
<1>9. CASE StartInformers
  BY <1>1, <1>2, <1>9 DEF StartInformers, InformersSynced
<1>10. CASE InjectClient
  BY <1>1, <1>2, <1>4, <1>10 DEF InjectClient, NewForConfigOrDie
<1>11. CASE InjectFactory
  BY <1>1, <1>2, <1>4, <1>11 DEF InjectFactory, Injects
<1>12. CASE InjectInformer
  BY <1>1, <1>2, <1>4, <1>12 DEF InjectInformer, Injects
<1>13. CASE NewController
  BY <1>1, <1>2, <1>4, <1>13 DEF NewController, Injects
<1>14. CASE ListTasks \/ WatchTasks
  BY <1>1, <1>2, <1>14 DEF ListTasks, WatchTasks, AdmissionTypeOK
<1>15. CASE Dies
  BY <1>4, <1>15 DEF Dies
<1> QED
  BY <1>3, <1>5, <1>6, <1>7, <1>8, <1>9, <1>10, <1>11, <1>12, <1>13, <1>14, <1>15
  DEF ControllerStep, Starts

LEMMA NextSInv == SInv /\ [Next]_vars => SInv'
<1> SUFFICES ASSUME SInv, [Next]_vars PROVE SInv'
  OBVIOUS
<1>1. CASE ControllerStep
  BY <1>1, ControllerKeeps
<1>2. CASE Reconfigure
  BY <1>2 DEF Reconfigure, SInv, TypeOK, AdmissionTypeOK, Chain, admissionVars, processVars
<1>3. CASE (HookStep \/ UserStep) /\ UNCHANGED <<settings, processVars>>
  BY <1>3, AdmissionKeepsType DEF SInv, TypeOK, Chain, processVars
<1>4. CASE UNCHANGED vars
  BY <1>4
  DEF vars, SInv, TypeOK, AdmissionTypeOK, Chain, admissionVars, processVars
<1> QED
  BY <1>1, <1>2, <1>3, <1>4 DEF Next

\* The variables keep their types; a process that is down has kept nothing.
THEOREM StartupTypeCorrect == Spec => []TypeOK
<1>1. SInv => TypeOK
  BY DEF SInv
<1> QED
  BY <1>1, InitSInv, NextSInv, PTL DEF Spec

\* NewController finds in its context everything it dereferences
\* (context.go:102-135, 185-195, 215-251, controller.go:56-68).
THEOREM NothingIsEverNil == Spec => []NothingIsNil
<1>1. SInv => NothingIsNil
  BY DEF SInv, TypeOK, Chain, NothingIsNil, Needed, Settings, AtEnvironment, AtToken,
         AtKubeconfig, AtClient, AtInformers, AtFactory, AtInformer, AtConstruct
<1> QED
  BY <1>1, InitSInv, NextSInv, PTL DEF Spec

\* Once the webhook has taken effect no user makes the list of tasks unreadable
\* (code_engine_task_validation.go:26-36, cmd/webhook/main.go:72-97).
THEOREM GuardedAlwaysStaysReadable == Spec => GuardedStaysReadable
<1>1. SInv /\ [Next]_vars =>
        [rules["validation"] =>
           \A t \in Tasks : stored'[t] \in {stored[t], NoTask, "valid"}]_vars
  <2> SUFFICES ASSUME SInv, [Next]_vars, rules["validation"], NEW t \in Tasks
               PROVE  stored'[t] \in {stored[t], NoTask, "valid"}
    OBVIOUS
  <2>1. CASE UNCHANGED stored
    BY <2>1
  <2>2. ASSUME NEW s \in Tasks, Remove(s) PROVE stored'[t] \in {stored[t], NoTask}
    BY <2>2 DEF Remove, SInv, TypeOK, AdmissionTypeOK
  <2>3. ASSUME NEW s \in Tasks, NEW content \in Contents, Apply(s, content)
        PROVE  stored'[t] \in {stored[t], "valid"}
    BY <2>3
    DEF Apply, Validation, Decodes, Validate, SetDefaults, SInv, TypeOK, AdmissionTypeOK
  <2> QED
    BY <2>1, <2>2, <2>3
    DEF Next, ControllerStep, Reconfigure, HookStep, HookBoots, HookCrashes, FillIn,
        UserStep, vars, admissionVars
<1> QED
  BY <1>1, InitSInv, NextSInv, PTL DEF Spec, GuardedStaysReadable
=============================================================================
