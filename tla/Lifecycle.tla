------------------------------ MODULE Lifecycle ------------------------------
(***************************************************************************)
(* How the bot's processes start, stop and come back: main's signal        *)
(* handling and drain (cmd/bot/main.go, telegram/bot.go), the admin's      *)
(* /shutdown (handlers/admin.go) and the cron watchdog                     *)
(* (scripts/linguine-watchdog.sh).  Updates run in goroutines the bot      *)
(* library starts; each is counted in flight by its first middleware and   *)
(* does its work in a few stored steps under the process's context.        *)
(***************************************************************************)
EXTENDS Integers, FiniteSets

CONSTANTS
    Procs,      \* process ids
    Slots,      \* handler goroutines a process may have at a time
    Steps,      \* stored steps of a handler's work
    MaxTrouble  \* bound: signals, crashes, admin exits and starts by hand

ASSUME LifecycleAssumption ==
    IsFiniteSet(Procs) /\ IsFiniteSet(Slots) /\ Steps \in Nat \ {0} /\ MaxTrouble \in Nat

VARIABLES
    phase,      \* of each process: see Phases
    ctx,        \* its context: "live" or "cancelled"
    handler,    \* what became of the goroutine in each of its slots
    work,       \* steps each that runs has stored
    inflight,   \* the process's WaitGroup
    exit,       \* history: how the process last ended
    latecomers, \* history: slots counted in after Wait had returned
    guard,      \* the watchdog: "asleep", "counted" or "killed"
    seen,       \* instances the watchdog counted
    trouble     \* how many disturbances there were

lifeVars == <<phase, ctx, handler, work, inflight, exit, latecomers, guard, seen, trouble>>
watchdog == <<guard, seen>>

\* A goroutine was started, entered the middlewares, and completed, gave up
\* on its cancelled context or panicked; or the process ended before it did,
\* counted ("cut") or not ("unseen").
Ended == {"completed", "aborted", "panicked", "cut", "unseen"}
HandlerStates == {"none", "launched", "running"} \cup Ended

\* In Start; in Shutdown; past it, with true or with false, on the way to the
\* end of main.
Phases == {"down", "polling", "draining", "drained", "overdue"}

LifeTypeOK ==
    /\ phase \in [Procs -> Phases]
    /\ ctx \in [Procs -> {"live", "cancelled"}]
    /\ handler \in [Procs -> [Slots -> HandlerStates]]
    /\ work \in [Procs -> [Slots -> 0..Steps]]
    /\ inflight \in [Procs -> Nat]
    /\ exit \in [Procs -> {"none", "drained", "timeout", "admin", "killed"}]
    /\ latecomers \in [Procs -> SUBSET Slots]
    /\ guard \in {"asleep", "counted", "killed"}
    /\ seen \in Nat
    /\ trouble \in 0..MaxTrouble

Running(p) == {k \in Slots : handler[p][k] = "running"}
Alive == {p \in Procs : phase[p] # "down"}

NoHandlers == [k \in Slots |-> "none"]
NoWork     == [k \in Slots |-> 0]

AtExit(state) ==
    CASE state = "running" -> "cut"
      [] state = "launched" -> "unseen"
      [] OTHER -> state

CutAll(p) == [k \in Slots |-> AtExit(handler[p][k])]

\* One instance is up.
LifeInit ==
    \E first \in Procs :
        /\ phase = [p \in Procs |-> IF p = first THEN "polling" ELSE "down"]
        /\ ctx = [p \in Procs |-> "live"]
        /\ handler = [p \in Procs |-> NoHandlers]
        /\ work = [p \in Procs |-> NoWork]
        /\ inflight = [p \in Procs |-> 0]
        /\ exit = [p \in Procs |-> "none"]
        /\ latecomers = [p \in Procs |-> {}]
        /\ guard = "asleep" /\ seen = 0 /\ trouble = 0

-----------------------------------------------------------------------------
(* Handlers *)

\* The library hands an update to a goroutine of its own, which has not run
\* yet; a polling worker may pick an update up just after the signal.
Launch(p, k) ==
    /\ phase[p] = "polling"
    /\ handler[p][k] \notin {"launched", "running"}
    /\ handler' = [handler EXCEPT ![p][k] = "launched"]
    /\ UNCHANGED <<phase, ctx, work, inflight, exit, latecomers, watchdog, trouble>>

\* trackInflightMiddleware, the outermost one.
Track(p, k) ==
    /\ phase[p] # "down" /\ handler[p][k] = "launched"
    /\ handler' = [handler EXCEPT ![p][k] = "running"]
    /\ inflight' = [inflight EXCEPT ![p] = @ + 1]
    /\ latecomers' = [latecomers EXCEPT ![p] = IF phase[p] = "drained" THEN @ \cup {k} ELSE @]
    /\ UNCHANGED <<phase, ctx, work, exit, watchdog, trouble>>

\* A statement on the database or a request that succeeds.
Work(p, k) ==
    /\ phase[p] # "down" /\ handler[p][k] = "running"
    /\ ctx[p] = "live" /\ work[p][k] < Steps
    /\ work' = [work EXCEPT ![p][k] = @ + 1]
    /\ UNCHANGED <<phase, ctx, handler, inflight, exit, latecomers, watchdog, trouble>>

\* The handler ends as how says and the deferred Done runs.
Done(p, k, how) ==
    /\ handler' = [handler EXCEPT ![p][k] = how]
    /\ work' = [work EXCEPT ![p][k] = 0]
    /\ inflight' = [inflight EXCEPT ![p] = @ - 1]
    /\ UNCHANGED <<phase, ctx, exit, latecomers, watchdog, trouble>>

Complete(p, k) ==
    /\ phase[p] # "down" /\ handler[p][k] = "running"
    /\ work[p][k] = Steps
    /\ Done(p, k, "completed")

\* Every further call of the handler fails on the cancelled context.
Abort(p, k) ==
    /\ phase[p] # "down" /\ handler[p][k] = "running"
    /\ ctx[p] = "cancelled" /\ work[p][k] < Steps
    /\ Done(p, k, "aborted")

\* recoverMiddleware, inside the tracking one.
Panic(p, k) ==
    /\ phase[p] # "down" /\ handler[p][k] = "running"
    /\ Done(p, k, "panicked")

-----------------------------------------------------------------------------
(* The process *)

Exit(p, how) ==
    /\ phase' = [phase EXCEPT ![p] = "down"]
    /\ exit' = [exit EXCEPT ![p] = how]
    /\ handler' = [handler EXCEPT ![p] = CutAll(p)]
    /\ work' = [work EXCEPT ![p] = NoWork]

Disturb == trouble < MaxTrouble /\ trouble' = trouble + 1

\* signal.NotifyContext; a second signal changes nothing.
Sigterm(p) ==
    /\ Disturb
    /\ phase[p] # "down" /\ ctx[p] = "live"
    /\ ctx' = [ctx EXCEPT ![p] = "cancelled"]
    /\ UNCHANGED <<phase, handler, work, inflight, exit, latecomers, watchdog>>

\* Start returns once the polling workers saw the cancelled context.
StartReturns(p) ==
    /\ phase[p] = "polling" /\ ctx[p] = "cancelled"
    /\ phase' = [phase EXCEPT ![p] = "draining"]
    /\ UNCHANGED <<ctx, handler, work, inflight, exit, latecomers, watchdog, trouble>>

\* Shutdown, in both its outcomes; its caller goes on to return from main.
ShutdownReturns(p, after) ==
    /\ phase[p] = "draining"
    /\ phase' = [phase EXCEPT ![p] = after]
    /\ UNCHANGED <<ctx, handler, work, inflight, exit, latecomers, watchdog, trouble>>

\* Mutant: Shutdown does not wait.
DrainedAtOnce(p) == ShutdownReturns(p, "drained")

\* Wait has found the WaitGroup at zero.
Drained(p) == inflight[p] = 0 /\ ShutdownReturns(p, "drained")

\* Mutant: the drain has no timeout.
DrainNoTimeout(p) == inflight[p] = 0 /\ ShutdownReturns(p, "overdue")

\* The timer fires first.
DrainTimeout(p) == ShutdownReturns(p, "overdue")

\* The last log line, the deferred closing, and the end of the process with
\* every goroutine left: also of those that were launched before the signal
\* and were first scheduled, and counted, after Shutdown had returned.
MainReturns(p) ==
    /\ \/ phase[p] = "drained" /\ Exit(p, "drained")
       \/ phase[p] = "overdue" /\ Exit(p, "timeout")
    /\ UNCHANGED <<ctx, inflight, latecomers, watchdog, trouble>>

\* HandleShutdown: os.Exit from inside the admin's own handler.
AdminShutdown(p, k) ==
    /\ Disturb
    /\ phase[p] # "down" /\ handler[p][k] = "running"
    /\ Exit(p, "admin")
    /\ UNCHANGED <<ctx, inflight, latecomers, watchdog>>

\* SIGKILL, or a panic outside recoverMiddleware: sync's own, when a goroutine
\* counts itself between the WaitGroup's zero and the return of Wait.
Crash(p) ==
    /\ Disturb
    /\ phase[p] # "down"
    /\ Exit(p, "killed")
    /\ UNCHANGED <<ctx, inflight, latecomers, watchdog>>

StartUp(p) ==
    /\ phase[p] = "down"
    /\ phase' = [phase EXCEPT ![p] = "polling"]
    /\ ctx' = [ctx EXCEPT ![p] = "live"]
    /\ handler' = [handler EXCEPT ![p] = NoHandlers]
    /\ work' = [work EXCEPT ![p] = NoWork]
    /\ inflight' = [inflight EXCEPT ![p] = 0]
    /\ exit' = [exit EXCEPT ![p] = "none"]
    /\ latecomers' = [latecomers EXCEPT ![p] = {}]

StartByHand(p) ==
    /\ Disturb
    /\ StartUp(p)
    /\ UNCHANGED watchdog

-----------------------------------------------------------------------------
(* The watchdog, once a minute *)

Count ==
    /\ guard = "asleep"
    /\ guard' = "counted"
    /\ seen' = Cardinality(Alive)
    /\ UNCHANGED <<phase, ctx, handler, work, inflight, exit, latecomers, trouble>>

\* Mutant: -ge 1 in place of -gt 1.
TooManyOne == seen >= 1

TooMany == seen > 1

\* One instance, or so it was when they were counted: nothing to do.
AllIsWell ==
    /\ guard = "counted" /\ seen # 0 /\ ~ TooMany
    /\ guard' = "asleep" /\ seen' = 0
    /\ UNCHANGED <<phase, ctx, handler, work, inflight, exit, latecomers, trouble>>

\* pkill -9 reaches whatever runs by now.
KillAll ==
    /\ guard = "counted" /\ TooMany
    /\ phase' = [p \in Procs |-> "down"]
    /\ exit' = [p \in Procs |-> IF p \in Alive THEN "killed" ELSE exit[p]]
    /\ handler' = [p \in Procs |-> CutAll(p)]
    /\ work' = [p \in Procs |-> NoWork]
    /\ guard' = "killed"
    /\ UNCHANGED <<ctx, inflight, latecomers, seen, trouble>>

StartOne(p) ==
    /\ guard = "killed" \/ (guard = "counted" /\ seen = 0)
    /\ StartUp(p)
    /\ guard' = "asleep" /\ seen' = 0
    /\ UNCHANGED trouble

-----------------------------------------------------------------------------
Handle(p, k) ==
    Launch(p, k) \/ Track(p, k) \/ Work(p, k) \/ Complete(p, k) \/ Abort(p, k) \/ Panic(p, k)

Main(p) == StartReturns(p) \/ Drained(p) \/ DrainTimeout(p) \/ MainReturns(p)

Watchdog == Count \/ AllIsWell \/ KillAll \/ \E p \in Procs : StartOne(p)

LifeNext ==
    \/ \E p \in Procs, k \in Slots : Handle(p, k) \/ AdminShutdown(p, k)
    \/ \E p \in Procs : Main(p) \/ Sigterm(p) \/ Crash(p) \/ StartByHand(p)
    \/ Watchdog

LifeSpec == LifeInit /\ [][LifeNext]_lifeVars

\* main is scheduled and its timer fires; cron runs the watchdog every
\* minute.  A handler may hang for ever: nothing is assumed of it.
LifeFairSpec == LifeSpec /\ WF_lifeVars(Watchdog) /\ \A p \in Procs : WF_lifeVars(Main(p))

-----------------------------------------------------------------------------
(* Properties *)

\* The WaitGroup counts exactly the handlers that run, also after panics.
\* bot.go:278-310.
InflightExact == \A p \in Alive : inflight[p] = Cardinality(Running(p))

\* A drain is as good as its count.  The WaitGroup counts exactly the
\* handlers that run, also after panics; and when the drain reports success,
\* every handler the end of the process cuts short was first counted after
\* Wait had returned: one that was counted when Shutdown was called, or was
\* while it waited, has ended by itself.  (That the others may be cut is what
\* DrainSeesAll and DrainFinishesWork below say.)  bot.go:260-310,
\* main.go:151-157.
CleanDrainCutsNone ==
    /\ InflightExact
    /\ \A p \in Procs : exit[p] = "drained" =>
         \A k \in Slots : handler[p][k] = "cut" => k \in latecomers[p]

\* A process that was told to stop does stop, even with a handler that
\* hangs: "capped so a stuck handler can't pin a SIGTERM exit forever",
\* main.go:148-155.
SignalEnds == \A p \in Procs : ctx[p] = "cancelled" ~> (phase[p] = "down" \/ ctx[p] = "live")

\* Once nobody disturbs them, exactly one instance is left and stays up: a
\* process that ended in any way is replaced, a second one is removed.
\* scripts/linguine-watchdog.sh, admin.go:131-132.
OneInstanceInTheEnd == <>[](Cardinality(Alive) = 1)

\* bot.go:260-261: "Returns true if everything drained cleanly"; bot.go:64:
\* "track-inflight first so Shutdown sees the work".
DrainSeesAll ==
    \A p \in Procs : exit[p] = "drained" => \A k \in Slots : handler[p][k] \notin {"unseen", "cut"}

\* main.go:149: "Drain any handler goroutines still finishing their work".
DrainFinishesWork ==
    \A p \in Procs : exit[p] = "drained" => \A k \in Slots : handler[p][k] # "aborted"
=============================================================================
