------------------------------ MODULE Container ------------------------------
(***************************************************************************)
(* The service container (crates/luxid-core/src/container.rs) and how an   *)
(* App boots it (app.rs): providers are registered, frozen into a          *)
(* container, perhaps resolved eagerly by the main thread, and then        *)
(* resolved by the threads that serve requests.                            *)
(*                                                                         *)
(* `resolve` calls a factory with no lock held, and the factory resolves   *)
(* its own dependencies: a thread is a stack of running factories.  What   *)
(* threads share are the caches, read once and written once per            *)
(* resolution, each time under its lock; threads interleave there.  The    *)
(* chain that detects cycles is thread-local and is not the stack: it is   *)
(* pushed and popped by hand, so it survives a panic.                      *)
(***************************************************************************)
EXTENDS Naturals, SequencesExt

CONSTANTS Types,    \* the service types, each named by its type_name
          Recipes,  \* the registrations the application may make
          Threads,
          Main,     \* the thread that boots the application
          Scopes,   \* the containers: the application's and one per request
          Root,     \* the application's own container
          None,     \* no type, or no instance
          MaxDepth, \* bound: the factories a thread's call stack has room for
          MaxCalls  \* bound: the resolutions each thread begins

Lifetimes == {"singleton", "scoped", "transient"}

\* One registration.  Only try_singleton has a factory that returns an error.
Registrations ==
    [type : Types, lifetime : Lifetimes, fallible : BOOLEAN, deps : Seq(Types)]

ASSUME ContainerAssumption ==
    /\ Main \in Threads /\ Root \in Scopes /\ None \notin Types
    /\ Recipes \subseteq {g \in Registrations : g.fallible => g.lifetime = "singleton"}
    /\ MaxDepth \in Nat /\ MaxCalls \in [Threads -> Nat]

VARIABLES registrations, \* Root.registrations: a function from the types bound
          order,         \* Root.order, of which eager_init consumes the front
          phase,         \* assembling, booting, booted, lazy or stopped
          singletons,    \* Root.singletons, a function from the types cached
          scoped,        \* scoped[s]: the cache of container s
          scope,         \* scope[t]: the container thread t resolves in
          goal,          \* goal[t]: the type `resolve` is about to look up, or None
          stack,         \* stack[t]: the factories running, innermost last
          chain,         \* chain[t]: RESOLVING on thread t
          failing,       \* failing[t]: an Err is on its way up the stack
          calls,         \* calls[t]: the resolutions t has begun
          built,         \* built[t]: the instances t has built
          handed,        \* every <<container, type, instance>> resolve returned
          panicked       \* the threads on which a factory has panicked

caches == <<singletons, scoped>>
threadVars == <<scope, goal, stack, chain, failing, calls>>
history == <<built, handed, panicked>>
vars == <<registrations, order, phase, caches, threadVars, history>>

\* A factory that has resolved its first `done` dependencies.
Frames == [type : Types, done : Nat]

\* The n-th instance thread t built.
Instances == Threads \X Nat

Cache(f) == DOMAIN f \subseteq Types /\ \A k \in DOMAIN f : f[k] \in Instances

TypeOK ==
    /\ DOMAIN registrations \subseteq Types
    /\ \A k \in DOMAIN registrations :
          registrations[k] \in Recipes /\ registrations[k].type = k
    /\ order \in Seq(DOMAIN registrations) /\ IsInjective(order)
    /\ phase \in {"assembling", "booting", "booted", "lazy", "stopped"}
    /\ Cache(singletons)
    /\ DOMAIN scoped = Scopes /\ \A s \in Scopes : Cache(scoped[s])
    /\ scope \in [Threads -> Scopes]
    /\ goal \in [Threads -> Types \cup {None}]
    /\ stack \in [Threads -> Seq(Frames)]
    /\ chain \in [Threads -> Seq(Types)]
    /\ failing \in [Threads -> BOOLEAN]
    /\ calls \in [Threads -> Nat]
    /\ built \in [Threads -> Nat]
    /\ handed \subseteq Scopes \X Types \X Instances
    /\ panicked \subseteq Threads

Init ==
    /\ registrations = [k \in {} |-> None]
    /\ order = <<>>
    /\ phase = "assembling"
    /\ singletons = [k \in {} |-> None]
    /\ scoped = [s \in Scopes |-> [k \in {} |-> None]]
    /\ scope = [t \in Threads |-> Root]
    /\ goal = [t \in Threads |-> None]
    /\ stack = [t \in Threads |-> <<>>]
    /\ chain = [t \in Threads |-> <<>>]
    /\ failing = [t \in Threads |-> FALSE]
    /\ calls = [t \in Threads |-> 0]
    /\ built = [t \in Threads |-> 0]
    /\ handed = {}
    /\ panicked = {}
-----------------------------------------------------------------------------
With(f, k, v) == [j \in DOMAIN f \cup {k} |-> IF j = k THEN v ELSE f[j]]

\* Mutant: registering a type again gives it a second place.
RegisterAgain(g) ==
    /\ phase = "assembling"
    /\ registrations' = With(registrations, g.type, g)
    /\ order' = Append(order, g.type)
    /\ UNCHANGED <<phase, caches, threadVars, history>>

\* Registering a type again replaces it and keeps its place in the order.
Register(g) ==
    /\ phase = "assembling"
    /\ registrations' = With(registrations, g.type, g)
    /\ order' = IF g.type \in DOMAIN registrations THEN order ELSE Append(order, g.type)
    /\ UNCHANGED <<phase, caches, threadVars, history>>

\* `run` and `try_into_service` resolve eagerly; `into_service` does not, and
\* then nobody reads the order again.
Build ==
    /\ phase = "assembling"
    /\ \/ phase' = "booting" /\ order' = order
       \/ phase' = "lazy" /\ order' = <<>>
    /\ UNCHANGED <<registrations, caches, threadVars, history>>

Idle(t) == goal[t] = None /\ stack[t] = <<>> /\ ~failing[t]

Lifetime(k) == registrations[k].lifetime

\* eager_init: the next type in registration order, if it is a singleton.
BootNext ==
    /\ phase = "booting" /\ Idle(Main) /\ order # <<>>
    /\ order' = Tail(order)
    /\ goal' = IF Lifetime(Head(order)) = "singleton"
               THEN [goal EXCEPT ![Main] = Head(order)] ELSE goal
    /\ UNCHANGED <<registrations, phase, caches, scope, stack, chain, failing,
                   calls, history>>

Booted ==
    /\ phase = "booting" /\ Idle(Main) /\ order = <<>>
    /\ phase' = "booted"
    /\ UNCHANGED <<registrations, order, caches, threadVars, history>>

Serving == phase \in {"booted", "lazy"}

\* An action or a middleware calls get or get_dyn on some container.
Begin(t) ==
    /\ Serving /\ Idle(t) /\ calls[t] < MaxCalls[t]
    /\ \E s \in Scopes, k \in Types :
          /\ scope' = [scope EXCEPT ![t] = s]
          /\ goal' = [goal EXCEPT ![t] = k]
    /\ calls' = [calls EXCEPT ![t] = @ + 1]
    /\ UNCHANGED <<registrations, order, phase, caches, stack, chain, failing,
                   history>>
-----------------------------------------------------------------------------
(***************************************************************************)
(* resolve and invoke                                                      *)
(***************************************************************************)
Resolving(t) == goal[t] # None

CachedBy(t, k) ==
    CASE Lifetime(k) = "singleton" -> singletons
      [] Lifetime(k) = "scoped"    -> scoped[scope[t]]
      [] OTHER                     -> [j \in {} |-> None]

Uncached(t) == goal[t] \in DOMAIN registrations /\ goal[t] \notin DOMAIN CachedBy(t, goal[t])

\* The caller of a resolution that has succeeded goes on.
Resumed(frames) ==
    IF frames = <<>> THEN <<>> ELSE [frames EXCEPT ![Len(frames)].done = @ + 1]

Missing(t) ==
    /\ Resolving(t)
    /\ goal[t] \notin DOMAIN registrations
    /\ goal' = [goal EXCEPT ![t] = None]
    /\ failing' = [failing EXCEPT ![t] = TRUE]
    /\ UNCHANGED <<registrations, order, phase, caches, scope, stack, chain,
                   calls, history>>

Hit(t) ==
    /\ Resolving(t)
    /\ goal[t] \in DOMAIN registrations /\ ~Uncached(t)
    /\ goal' = [goal EXCEPT ![t] = None]
    /\ stack' = [stack EXCEPT ![t] = Resumed(@)]
    /\ handed' = handed \cup {<<scope[t], goal[t], CachedBy(t, goal[t])[goal[t]]>>}
    /\ UNCHANGED <<registrations, order, phase, caches, scope, chain, failing,
                   calls, built, panicked>>

\* Mutant: only the factory that asks is looked for.
Asking(t) == chain[t] # <<>> /\ Last(chain[t]) = goal[t]

InChain(t) == Contains(chain[t], goal[t])

Cycle(t) ==
    /\ Resolving(t) /\ Uncached(t) /\ InChain(t)
    /\ goal' = [goal EXCEPT ![t] = None]
    /\ failing' = [failing EXCEPT ![t] = TRUE]
    /\ UNCHANGED <<registrations, order, phase, caches, scope, stack, chain,
                   calls, history>>

\* The factory is called, if the call stack has room for it.
Invoke(t) ==
    /\ Resolving(t) /\ Uncached(t) /\ ~InChain(t)
    /\ Len(stack[t]) < MaxDepth
    /\ chain' = [chain EXCEPT ![t] = Append(@, goal[t])]
    /\ stack' = [stack EXCEPT ![t] = Append(@, [type |-> goal[t], done |-> 0])]
    /\ goal' = [goal EXCEPT ![t] = None]
    /\ UNCHANGED <<registrations, order, phase, caches, scope, failing, calls,
                   history>>
-----------------------------------------------------------------------------
(***************************************************************************)
(* The factory on top of the stack                                         *)
(***************************************************************************)
Top(t) == Last(stack[t])

Recipe(t) == registrations[Top(t).type]

Working(t) == ~Resolving(t) /\ stack[t] # <<>>

Depend(t) ==
    /\ Working(t) /\ ~failing[t]
    /\ Top(t).done < Len(Recipe(t).deps)
    /\ goal' = [goal EXCEPT ![t] = Recipe(t).deps[Top(t).done + 1]]
    /\ UNCHANGED <<registrations, order, phase, caches, scope, stack, chain,
                   failing, calls, history>>

\* `entry(key).or_insert(instance)`, and its mutant.
Overwritten(f, k, new) == With(f, k, new)

Published(f, k, new) == IF k \in DOMAIN f THEN f ELSE With(f, k, new)

\* The factory has returned an instance: its name leaves the chain, and the
\* cache keeps the instance unless another thread's is there already.
Publish(t) ==
    LET k   == Top(t).type
        new == <<t, built[t]>>
        fs  == Published(CachedBy(t, k), k, new)
    IN  /\ Working(t) /\ ~failing[t]
        /\ Top(t).done = Len(Recipe(t).deps)
        /\ built' = [built EXCEPT ![t] = @ + 1]
        /\ chain' = [chain EXCEPT ![t] = Front(@)]
        /\ stack' = [stack EXCEPT ![t] = Resumed(Front(@))]
        /\ singletons' = IF Lifetime(k) = "singleton" THEN fs ELSE singletons
        /\ scoped' = IF Lifetime(k) = "scoped" THEN [scoped EXCEPT ![scope[t]] = fs]
                     ELSE scoped
        /\ handed' = handed \cup {<<scope[t], k, fs[k]>>}
        /\ UNCHANGED <<registrations, order, phase, scope, goal, failing, calls,
                       panicked>>

\* Mutant: the error leaves before the name is taken off the chain.
UnwindEarly(t) ==
    /\ Working(t) /\ Recipe(t).fallible
    /\ failing' = [failing EXCEPT ![t] = TRUE]
    /\ stack' = [stack EXCEPT ![t] = Front(@)]
    /\ UNCHANGED <<registrations, order, phase, caches, scope, goal, chain, calls,
                   history>>

\* A fallible factory returns an error, its own or that of a dependency.
Unwind(t) ==
    /\ Working(t) /\ Recipe(t).fallible
    /\ failing' = [failing EXCEPT ![t] = TRUE]
    /\ chain' = [chain EXCEPT ![t] = Front(@)]
    /\ stack' = [stack EXCEPT ![t] = Front(@)]
    /\ UNCHANGED <<registrations, order, phase, caches, scope, goal, calls,
                   history>>

\* A factory makes do without the dependency that could not be resolved.
DoWithout(t) ==
    /\ Working(t) /\ failing[t]
    /\ failing' = [failing EXCEPT ![t] = FALSE]
    /\ stack' = [stack EXCEPT ![t] = Resumed(@)]
    /\ UNCHANGED <<registrations, order, phase, caches, scope, goal, chain, calls,
                   history>>

\* Mutant: booting goes on after a provider that failed.
Undeterred == phase

AfterFailure == IF phase = "booting" THEN "stopped" ELSE phase

\* A factory panics, as `expect` does on an error: the stack is unwound, and
\* no name is taken off the chain.  The thread lives on (its task does not).
Panic(t) ==
    /\ Working(t)
    /\ stack' = [stack EXCEPT ![t] = <<>>]
    /\ failing' = [failing EXCEPT ![t] = FALSE]
    /\ panicked' = panicked \cup {t}
    /\ phase' = AfterFailure
    /\ UNCHANGED <<registrations, order, caches, scope, goal, chain, calls, built,
                   handed>>

\* The error reaches the caller of get, or of eager_init.
Report(t) ==
    /\ failing[t] /\ stack[t] = <<>>
    /\ failing' = [failing EXCEPT ![t] = FALSE]
    /\ phase' = AfterFailure
    /\ UNCHANGED <<registrations, order, caches, scope, goal, stack, chain, calls,
                   history>>

Resolve(t) ==
    \/ Missing(t) \/ Hit(t) \/ Cycle(t) \/ Invoke(t) \/ Depend(t) \/ Publish(t)
    \/ Unwind(t) \/ DoWithout(t) \/ Panic(t) \/ Report(t)

Next ==
    \/ \E g \in Recipes : Register(g)
    \/ Build \/ BootNext \/ Booted
    \/ \E t \in Threads : Begin(t) \/ Resolve(t)

Spec == Init /\ [][Next]_vars

\* A thread that is resolving is scheduled again and again; the locks it
\* takes are held for one step only.
FairSpec == Spec /\ \A t \in Threads : WF_vars(Resolve(t))
==============================================================================
