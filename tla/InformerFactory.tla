--------------------------- MODULE InformerFactory ---------------------------
(***************************************************************************)
(* The shared informer factories of pkg/client/informers, the plain one    *)
(* and the filtered ones that pkg/client/injection makes, with the listers *)
(* over their informers. Threads ask a factory for the informer of         *)
(* CodeEngineTasks, start it and wait for its cache, in any order and at   *)
(* once, while the callers of TaskClient write tasks.                      *)
(***************************************************************************)
EXTENDS TaskClient

CONSTANTS
  Selectors,  \* the selector of each factory, a sequence; the plain one has Everything
  Everything, \* the selector that every task matches
  Threads,    \* goroutines that use the factories
  Channels,   \* the stop channels that Start and WaitForCacheSync are called with
  SelectorOf  \* the selector with which each thread looks its factory up

Factories == 1..Len(Selectors)

\* A context keeps the factory it was given last for a selector.
FactoryOf(th) ==
  CHOOSE f \in Factories :
    /\ Selectors[f] = SelectorOf[th]
    /\ \A g \in Factories : Selectors[g] = SelectorOf[th] => g <= f

\* Whoever looks up a selector for which there is no factory panics.
ASSUME SelectorsAssumption == Selectors \in Seq(Labels \cup {Everything})
ASSUME FactoriesAssumption == \A th \in Threads : FactoryOf(th) \in Factories
ASSUME ValuesAssumption    ==
  Everything \notin Labels /\ NoValue \notin Threads \cup Channels

VARIABLES
  lock,       \* the holder of each factory's mutex, or NoValue
  made,       \* how many informers each factory has made
  informers,  \* the one in its map, 0 for none
  started,    \* its startedInformers
  runs,       \* how often it called Run on an informer
  ranOn,      \* the channel that it called Run with, or NoValue
  synced,     \* whether that informer has listed the tasks
  cache,      \* the tasks in that informer's store
  closed,     \* the channels that are closed
  listFails,  \* the API server refuses to list tasks, or one of them cannot be decoded
  at,         \* where each thread is
  stopCh,     \* the channel of the call that each thread is in, or NoValue
  handed,     \* the informer each thread was given, 0 for none
  stage,      \* auxiliary: what each thread has done with the one it was given
  unwritten   \* auxiliary: the tasks not written since each factory's informer was run

threadVars  == <<at, stopCh, handed, stage>>
mapVars     == <<lock, made, informers, started, runs, ranOn>>
cacheVars   == <<synced, cache>>
outerVars   == <<closed, listFails>>
factoryVars == <<mapVars, cacheVars, outerVars, threadVars, unwritten>>
vars        == <<clientVars, factoryVars>>

Init ==
  /\ ClientInit
  /\ lock = [f \in Factories |-> NoValue]
  /\ made = [f \in Factories |-> 0]
  /\ informers = [f \in Factories |-> 0]
  /\ started = [f \in Factories |-> FALSE]
  /\ runs = [f \in Factories |-> 0]
  /\ ranOn = [f \in Factories |-> NoValue]
  /\ synced = [f \in Factories |-> FALSE]
  /\ cache = [f \in Factories |-> [t \in Tasks |-> NoValue]]
  /\ unwritten = [f \in Factories |-> {}]
  /\ closed = {}
  /\ listFails = FALSE
  /\ at = [th \in Threads |-> "idle"]
  /\ stopCh = [th \in Threads |-> NoValue]
  /\ handed = [th \in Threads |-> 0]
  /\ stage = [th \in Threads |-> "none"]

-----------------------------------------------------------------------------
(***************************************************************************)
(* The methods of a factory. Each one runs under the factory's lock, but   *)
(* WaitForCacheSync only takes a snapshot under it and waits outside. A    *)
(* method that finds nothing to do is one step; one that changes the maps  *)
(* holds the lock from the check to the change. A thread that waits for    *)
(* the lock is idle until it gets it.                                      *)
(***************************************************************************)
Goto(th, place) == at' = [at EXCEPT ![th] = place]

\* Mutant: the lock is not waited for.
LockFree_never(f) == TRUE

LockFree(f) == lock[f] = NoValue

InformerFor(th) ==
  LET f == FactoryOf(th) IN
  /\ at[th] = "idle"
  /\ LockFree(f)
  /\ IF informers[f] # 0
     THEN /\ handed' = [handed EXCEPT ![th] = informers[f]]
          /\ UNCHANGED <<mapVars, at, stopCh, stage, unwritten>>
     ELSE /\ lock' = [lock EXCEPT ![f] = th]
          /\ Goto(th, "newFunc")
          /\ UNCHANGED <<made, informers, started, runs, ranOn, stopCh, handed, stage,
                         unwritten>>

MakeInformer(th) ==
  LET f == FactoryOf(th) IN
  /\ at[th] = "newFunc"
  /\ made' = [made EXCEPT ![f] = @ + 1]
  /\ informers' = [informers EXCEPT ![f] = made[f] + 1]
  /\ handed' = [handed EXCEPT ![th] = made[f] + 1]
  /\ lock' = [lock EXCEPT ![f] = NoValue]
  /\ Goto(th, "idle")
  /\ UNCHANGED <<started, runs, ranOn, stopCh, stage, unwritten>>

\* A thread that was given an informer and has called Start after that.
Begun(th) == IF handed[th] # 0 /\ stage[th] = "none" THEN "begun" ELSE stage[th]

\* Mutant: types whose informer nobody asked for yet are marked as started too.
Start_marksEvery(th, ch) ==
  LET f == FactoryOf(th) IN
  /\ at[th] = "idle"
  /\ LockFree(f)
  /\ IF informers[f] = 0 \/ started[f]
     THEN /\ stage' = [stage EXCEPT ![th] = Begun(th)]
          /\ started' = [started EXCEPT ![f] = TRUE]
          /\ UNCHANGED <<lock, made, informers, runs, ranOn, at, stopCh, handed, unwritten>>
     ELSE /\ lock' = [lock EXCEPT ![f] = th]
          /\ Goto(th, "go")
          /\ stopCh' = [stopCh EXCEPT ![th] = ch]
          /\ UNCHANGED <<made, informers, started, runs, ranOn, handed, stage, unwritten>>

Start(th, ch) ==
  LET f == FactoryOf(th) IN
  /\ at[th] = "idle"
  /\ LockFree(f)
  /\ IF informers[f] = 0 \/ started[f]
     THEN /\ stage' = [stage EXCEPT ![th] = Begun(th)]
          /\ UNCHANGED <<mapVars, at, stopCh, handed, unwritten>>
     ELSE /\ lock' = [lock EXCEPT ![f] = th]
          /\ Goto(th, "go")
          /\ stopCh' = [stopCh EXCEPT ![th] = ch]
          /\ UNCHANGED <<made, informers, started, runs, ranOn, handed, stage, unwritten>>

GoRun(th) ==
  LET f == FactoryOf(th) IN
  /\ at[th] = "go"
  /\ runs' = [runs EXCEPT ![f] = @ + 1]
  /\ ranOn' = [ranOn EXCEPT ![f] = stopCh[th]]
  /\ stopCh' = [stopCh EXCEPT ![th] = NoValue]
  /\ started' = [started EXCEPT ![f] = TRUE]
  /\ unwritten' = [unwritten EXCEPT ![f] = Tasks]
  /\ lock' = [lock EXCEPT ![f] = NoValue]
  /\ stage' = [stage EXCEPT ![th] = Begun(th)]
  /\ Goto(th, "idle")
  /\ UNCHANGED <<made, informers, handed>>

\* What the caller makes of the answer: it goes on unless some entry is false.
Proceeds(th) == IF stage[th] = "begun" THEN "ready" ELSE stage[th]

\* Mutant: only the informers that have listed already are waited for.
WaitForCacheSync_listed(th, ch) ==
  LET f == FactoryOf(th) IN
  /\ at[th] = "idle"
  /\ LockFree(f)
  /\ IF informers[f] # 0 /\ started[f] /\ synced[f]
     THEN /\ Goto(th, "waiting")
          /\ stopCh' = [stopCh EXCEPT ![th] = ch]
          /\ UNCHANGED stage
     ELSE UNCHANGED <<at, stopCh>> /\ stage' = [stage EXCEPT ![th] = Proceeds(th)]
  /\ UNCHANGED <<mapVars, handed, unwritten>>

\* Without a started informer the answer is empty, and it comes at once.
WaitForCacheSync(th, ch) ==
  LET f == FactoryOf(th) IN
  /\ at[th] = "idle"
  /\ LockFree(f)
  /\ IF informers[f] # 0 /\ started[f]
     THEN /\ Goto(th, "waiting")
          /\ stopCh' = [stopCh EXCEPT ![th] = ch]
          /\ UNCHANGED stage
     ELSE UNCHANGED <<at, stopCh>> /\ stage' = [stage EXCEPT ![th] = Proceeds(th)]
  /\ UNCHANGED <<mapVars, handed, unwritten>>

\* The wait is for the informer, and for the channel of this call only.
WaitReturns(th) ==
  /\ at[th] = "waiting"
  /\ \/ synced[FactoryOf(th)] /\ stage' = [stage EXCEPT ![th] = Proceeds(th)]
     \/ stopCh[th] \in closed /\ UNCHANGED stage
  /\ stopCh' = [stopCh EXCEPT ![th] = NoValue]
  /\ Goto(th, "idle")
  /\ UNCHANGED <<mapVars, handed, unwritten>>

\* The informer is asked for through Custom(), or by the name of a resource; the
\* factory has no informer of any other resource.
Informer(th) == InformerFor(th)

ForResource(th, resource) == resource = "codeenginetasks" /\ InformerFor(th)

Enters(th) ==
  \/ Informer(th)
  \/ \E resource \in {"codeenginetasks", "runs"} : ForResource(th, resource)
  \/ \E ch \in Channels : Start(th, ch) \/ WaitForCacheSync(th, ch)

Inside(th) == MakeInformer(th) \/ GoRun(th) \/ WaitReturns(th)

-----------------------------------------------------------------------------
(***************************************************************************)
(* The informer that a factory runs lists the tasks and then watches them, *)
(* until the channel that its first Start was given is closed. A list that *)
(* fails is repeated; a watch that is open may go on while lists fail.     *)
(* The closures that set the selector of the filtered factories all read   *)
(* one variable, which holds the last selector once the loop is over.      *)
(***************************************************************************)
ListSelector(f) ==
  IF Selectors[f] = Everything THEN Everything ELSE Selectors[Len(Selectors)]

Matches(o, selector) == selector \in {Everything, o.label}

Watched(f, t) ==
  IF store[t] # NoValue /\ Matches(store[t], ListSelector(f)) THEN store[t] ELSE NoValue

Running(f) == runs[f] > 0 /\ ranOn[f] \notin closed

ListTasks(f) ==
  /\ Running(f)
  /\ ~synced[f]
  /\ ~listFails
  /\ cache' = [cache EXCEPT ![f] = [t \in Tasks |-> Watched(f, t)]]
  /\ synced' = [synced EXCEPT ![f] = TRUE]

WatchTask(f, t) ==
  /\ synced[f]
  /\ Running(f)
  /\ cache' = [cache EXCEPT ![f][t] = Watched(f, t)]
  /\ UNCHANGED synced

\* The owner of a channel closes it, whichever calls it was given to.
Stop(ch) ==
  /\ ch \notin closed
  /\ closed' = closed \cup {ch}
  /\ UNCHANGED listFails

\* Lists begin to fail, or succeed again.
ListingChanges == listFails' = ~listFails /\ UNCHANGED closed

(***************************************************************************)
(* The listers: one over the cache, and the wrapper that asks the API      *)
(* server, adding the selector of its factory to that of the caller.       *)
(***************************************************************************)
CachedList(f, selector) ==
  {t \in Tasks : cache[f][t] # NoValue /\ Matches(cache[f][t], selector)}

DynamicList(f, selector) ==
  {t \in Tasks : /\ store[t] # NoValue
                 /\ Matches(store[t], selector)
                 /\ Matches(store[t], Selectors[f])}

\* Callers also take their copies from a lister, a stale one perhaps.
ReadCached(c, f, t) == hand' = [hand EXCEPT ![c] = CopyOf(t, cache[f][t])]

ReadDynamic(c, f, t) ==
  /\ ~listFails
  /\ t \in DynamicList(f, Everything)
  /\ hand' = [hand EXCEPT ![c] = CopyOf(t, store[t])]

Read ==
  /\ \E c \in Callers, f \in Factories, t \in Tasks :
       ReadCached(c, f, t) \/ ReadDynamic(c, f, t)
  /\ UNCHANGED <<store, revision, acked>>

-----------------------------------------------------------------------------
UsesFactory == \E th \in Threads : Enters(th) \/ Inside(th)
Informs     == \E f \in Factories : ListTasks(f) \/ \E t \in Tasks : WatchTask(f, t)
Outside     == ListingChanges \/ \E ch \in Channels : Stop(ch)

Next ==
  \/ /\ Calls
     /\ unwritten' = [f \in Factories |-> {t \in unwritten[f] : store'[t] = store[t]}]
     /\ UNCHANGED <<mapVars, cacheVars, outerVars, threadVars>>
  \/ Read /\ UNCHANGED factoryVars
  \/ UsesFactory /\ UNCHANGED <<clientVars, cacheVars, outerVars>>
  \/ Informs /\ UNCHANGED <<clientVars, mapVars, outerVars, threadVars, unwritten>>
  \/ Outside /\ UNCHANGED <<clientVars, mapVars, cacheVars, threadVars, unwritten>>

Spec == Init /\ [][Next]_vars

\* A thread inside a method goes on, and an informer that runs repeats its list, so
\* that it gets one unless lists fail for ever, or again and again.
Fairness ==
  /\ \A th \in Threads :
       WF_vars(Inside(th) /\ UNCHANGED <<clientVars, cacheVars, outerVars>>)
  /\ \A f \in Factories :
       WF_vars(ListTasks(f) /\ UNCHANGED <<clientVars, mapVars, outerVars, threadVars, unwritten>>)

FairSpec == Spec /\ Fairness

-----------------------------------------------------------------------------
TypeOK ==
  /\ ClientTypeOK
  /\ lock \in [Factories -> Threads \cup {NoValue}]
  /\ made \in [Factories -> Nat]
  /\ informers \in [Factories -> Nat]
  /\ started \in [Factories -> BOOLEAN]
  /\ runs \in [Factories -> Nat]
  /\ ranOn \in [Factories -> Channels \cup {NoValue}]
  /\ synced \in [Factories -> BOOLEAN]
  /\ cache \in [Factories -> [Tasks -> Objects \cup {NoValue}]]
  /\ unwritten \in [Factories -> SUBSET Tasks]
  /\ closed \subseteq Channels
  /\ listFails \in BOOLEAN
  /\ at \in [Threads -> {"idle", "newFunc", "go", "waiting"}]
  /\ stopCh \in [Threads -> Channels \cup {NoValue}]
  /\ handed \in [Threads -> Nat]
  /\ stage \in [Threads -> {"none", "begun", "ready"}]

\* All users of a factory share one informer, and it is run at most once, although
\* they ask for it, start it and wait for it at the same time and however often
\* Start is called (factory.go:110-121, 147-166).
EveryoneSharesOneInformer ==
  /\ \A th \in Threads : handed[th] # 0 => handed[th] = informers[FactoryOf(th)]
  /\ \A f \in Factories : made[f] <= 1 /\ runs[f] <= 1

\* A thread that was given its informer, has then started the factory and has seen
\* no false in the answer of WaitForCacheSync reads a complete lister: for every task
\* that has not changed since the informer was run, and every selector, the cached
\* lister answers what the API server would through the dynamic one
\* (factory.go:124-143, filtered_factory.go:55-66, filtered/codeenginetask.go:112-129).
ReadyListersAgree ==
  \A th \in Threads : stage[th] = "ready" =>
    LET f == FactoryOf(th) IN
    \A t \in unwritten[f] :
      \A selector \in Labels \cup {Everything} :
        t \in CachedList(f, selector) <=> t \in DynamicList(f, selector)

\* The listers of a filtered factory only return tasks that its filter picks.
ListersAreFiltered ==
  \A f \in Factories : \A t \in CachedList(f, Everything) :
    Matches(cache[f][t], Selectors[f])

\* A wait whose informer was stopped before it had listed: nobody runs it again, since
\* startedInformers is never cleared, and the channel of the wait is another one.
Stranded(th) ==
  LET f == FactoryOf(th) IN
  /\ at[th] = "waiting"
  /\ stopCh[th] \notin closed
  /\ ~synced[f]
  /\ ranOn[f] \in closed

\* A call of a factory's method returns, whichever channels are closed meanwhile: the
\* lock is always released, and an informer that is waited for has been run. The only
\* calls that do not are waits for an informer that cannot list, because it was
\* stopped before or because lists fail; once lists succeed, or the channel of the
\* wait is closed, it returns as well (factory.go:110-166).
CallsReturn ==
  \A th \in Threads : at[th] # "idle" ~> at[th] = "idle" \/ Stranded(th) \/ listFails
=============================================================================
