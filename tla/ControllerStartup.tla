-------------------------- MODULE ControllerStartup --------------------------
(***************************************************************************)
(* The controller process from main to a controller that serves            *)
(* (cmd/controller, pkg/codeenegine, pkg/client/injection): it reads its   *)
(* settings, gets a token and a kubeconfig for the Code Engine project,    *)
(* waits for the project's informers, has clients and informers injected   *)
(* into its context, constructs the controller and waits for the tasks.    *)
(* Whatever fails ends the process, and the Deployment starts it again.    *)
(***************************************************************************)
EXTENDS Admission

VARIABLES
  settings, \* what the Deployment would start the process with
  env,      \* what the running process was started with
  pc,       \* where the process is
  token,    \* the delegated refresh token: "none", "empty" or "delegated"
  context,  \* the values in the process's context
  tasks     \* the tasks in the cache of the task informer

processVars == <<env, pc, token, context, tasks>>
vars        == <<admissionVars, settings, processVars>>

(***************************************************************************)
(* Settings: good ones, an unknown LOG_LEVEL, a variable that is missing,  *)
(* a key that IAM answers with 400, one that it answers with another       *)
(* status, a project that is not there, and a key that may not list        *)
(* JobDefinitions and JobRuns.                                             *)
(***************************************************************************)
Settings == {"good", "badLevel", "incomplete", "badKey", "locked", "noProject", "forbidden"}

Places == <<"down", "environment", "token", "kubeconfig", "client", "informers",
            "injectClient", "injectFactory", "injectInformer", "construct", "sync",
            "serving">>

\* The values that NewController takes out of its context.
Needed == {"ceClient", "ceInformers", "ceNamespace", "taskClient", "taskInformer"}

NothingCached == [t \in Tasks |-> NoTask]

Init ==
  /\ AdmissionInit
  /\ settings \in Settings
  /\ env = settings
  /\ pc = "down"
  /\ token = "none"
  /\ context = {}
  /\ tasks = NothingCached

Goto(place) == pc' = place

Adds(values) == context' = context \cup values

\* Mutant: the process starts again with what it had in its context.
Exit_keepsContext ==
  /\ Goto("down")
  /\ token' = "none"
  /\ tasks' = NothingCached
  /\ UNCHANGED context

\* Fatalw, a panic, a crash or a signal: nothing is kept.
Exit ==
  /\ Goto("down")
  /\ token' = "none"
  /\ context' = {}
  /\ tasks' = NothingCached

-----------------------------------------------------------------------------
(* main and initLogger. *)

Boot ==
  /\ pc = "down"
  /\ env' = settings
  /\ Goto(IF settings = "badLevel" THEN "down" ELSE "environment")
  /\ UNCHANGED <<faults, token, context, tasks>>

(* getCodeEngineKubeConfig. *)

ValidateEnvironment ==
  /\ pc = "environment"
  /\ IF env = "incomplete" THEN Exit ELSE Goto("token") /\ UNCHANGED <<token, context, tasks>>
  /\ UNCHANGED <<faults, env>>

\* Only a lost connection and a 400 end the process here: with any other answer it
\* goes on with the empty token.
Answers(answer) ==
  /\ token' = answer
  /\ Goto("kubeconfig")
  /\ UNCHANGED <<context, tasks>>

RequestToken ==
  /\ pc = "token"
  /\ \/ Fault /\ (Exit \/ Answers("empty"))
     \/ /\ CASE env = "badKey" -> Exit
             [] env = "locked" -> Answers("empty")
             [] OTHER          -> Answers("delegated")
        /\ UNCHANGED faults
  /\ UNCHANGED env

\* Mutant: an error is logged and the process goes on without a client.
GetKubeconfig_logged ==
  /\ pc = "kubeconfig"
  /\ IF token = "empty" \/ env = "noProject" THEN Goto("informers") ELSE Goto("client")
  /\ UNCHANGED <<faults, env, token, context, tasks>>

\* Mutant: what the service refuses is tried again.
GetKubeconfig_retried ==
  /\ pc = "kubeconfig"
  /\ token # "empty"
  /\ env # "noProject"
  /\ Goto("client")
  /\ UNCHANGED <<faults, env, token, context, tasks>>

\* The service refuses the empty token.
GetKubeconfig ==
  /\ pc = "kubeconfig"
  /\ \/ Fault /\ Exit
     \/ /\ IF token = "empty" \/ env = "noProject" THEN Exit
           ELSE Goto("client") /\ UNCHANGED <<token, context, tasks>>
        /\ UNCHANGED faults
  /\ UNCHANGED env

(* startCodeEngineInformers. *)

\* A client cannot be made of a malformed config, and that ends the process.
NewForConfigOrDie(client, to) ==
  /\ \/ Fault /\ Exit
     \/ Adds({client}) /\ Goto(to) /\ UNCHANGED <<faults, token, tasks>>
  /\ UNCHANGED env

MakeClient == pc = "client" /\ NewForConfigOrDie("ceClient", "informers")

\* There is no timeout: an informer that may not list keeps the process here.
InformersSynced == env # "forbidden"

StartInformers ==
  /\ pc = "informers"
  /\ InformersSynced
  /\ Adds({"ceNamespace", "ceInformers"})
  /\ Goto("injectClient")
  /\ UNCHANGED <<faults, env, token, tasks>>

(* pkg/client/injection: each injector panics if what it needs is not there. *)

Injects(from, needs, adds, to) ==
  /\ pc = from
  /\ IF needs \subseteq context THEN Adds(adds) /\ Goto(to) /\ UNCHANGED <<token, tasks>>
     ELSE Exit
  /\ UNCHANGED <<faults, env>>

InjectClient == pc = "injectClient" /\ NewForConfigOrDie("taskClient", "injectFactory")

InjectFactory  == Injects("injectFactory", {"taskClient"}, {"taskFactory"}, "injectInformer")
InjectInformer == Injects("injectInformer", {"taskFactory"}, {"taskInformer"}, "construct")

NewController == Injects("construct", Needed, {}, "sync")

(* The task informer, which the process runs itself. *)

ListTasks ==
  /\ pc = "sync"
  /\ ~Poisoned
  /\ Goto("serving")
  /\ tasks' = stored
  /\ UNCHANGED <<faults, env, token, context>>

\* Mutant: the informer has the client whose Watch is not implemented.
WatchTasks_notImplemented == FALSE /\ UNCHANGED processVars /\ UNCHANGED faults

WatchTasks ==
  /\ pc = "serving"
  /\ ~Poisoned
  /\ tasks' = stored
  /\ UNCHANGED <<faults, env, pc, token, context>>

Dies == pc # "down" /\ Fault /\ Exit /\ UNCHANGED env

-----------------------------------------------------------------------------
Starts ==
  \/ Boot
  \/ ValidateEnvironment
  \/ RequestToken
  \/ GetKubeconfig
  \/ MakeClient
  \/ StartInformers
  \/ InjectClient
  \/ InjectFactory
  \/ InjectInformer
  \/ NewController
  \/ ListTasks

ControllerStep == (Starts \/ WatchTasks \/ Dies) /\ UNCHANGED <<hook, rules, stored, settings>>

Reconfigure ==
  /\ settings' \in Settings \ {settings}
  /\ UNCHANGED <<admissionVars, processVars>>

Next ==
  \/ ControllerStep
  \/ Reconfigure
  \/ (HookStep \/ UserStep) /\ UNCHANGED <<settings, processVars>>

Spec == Init /\ [][Next]_vars

\* The processes are started again and run, and calls that do not fail are answered.
Fairness ==
  /\ WF_vars(Starts /\ UNCHANGED <<hook, rules, stored, settings>>)
  /\ WF_vars(WatchTasks /\ UNCHANGED <<hook, rules, stored, settings>>)
  /\ WF_vars(HookBoots /\ UNCHANGED <<settings, processVars>>)
  /\ \A w \in Webhooks : WF_vars(FillIn(w) /\ UNCHANGED <<settings, processVars>>)

FairSpec == Spec /\ Fairness

-----------------------------------------------------------------------------
TypeOK ==
  /\ AdmissionTypeOK
  /\ settings \in Settings
  /\ env \in Settings
  /\ pc \in {Places[i] : i \in DOMAIN Places}
  /\ token \in {"none", "empty", "delegated"}
  /\ context \subseteq Needed \cup {"taskFactory"}
  /\ tasks \in [Tasks -> Contents \cup {NoTask}]
  /\ pc = "down" => context = {} /\ token = "none" /\ tasks = NothingCached

\* NewController finds in its context everything it dereferences without a test, from a
\* project that gave the process a token and let it list: no failed call of the chain,
\* and no answer that only looks like success, gets the process this far
\* (context.go:102-135, 185-195, 215-251, controller.go:56-68).
NothingIsNil ==
  pc \in {"construct", "sync", "serving"} =>
    Needed \subseteq context /\ token = "delegated" /\ env = "good"

\* Once the webhook has taken effect no user makes the list of tasks unreadable, and no
\* task without a jobName is stored, whatever is up or down then
\* (code_engine_task_validation.go:26-36, cmd/webhook/main.go:72-97).
GuardedStaysReadable ==
  [][rules["validation"] =>
       \A t \in Tasks : stored'[t] \in {stored[t], NoTask, "valid"}]_vars


\* Once the settings are good and the tasks are readable for good, the process serves,
\* unless it was started with a key that may not list: then it waits for ever, is not
\* restarted and does not read the settings again (context.go:244-246).
ComesUp ==
  <>[](settings = "good" /\ ~Poisoned) =>
    <>[](pc = "serving" \/ (pc = "informers" /\ env = "forbidden"))

\* While all tasks are readable, a controller that serves has them in its cache as they
\* are, again and again, although the cache stood still while one of them was not.
CacheFollows ==
  <>[](~Poisoned) => []<>(pc = "serving" => tasks = stored)
=============================================================================
