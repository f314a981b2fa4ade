------------------------------ MODULE Modules ------------------------------
(***************************************************************************)
(* ModulesHandler: the modules of a process and how they are shut down,    *)
(* one after the other, because a signal has come or because one of them   *)
(* has ended.  A module that is asked to stop ends and is persisted, fails *)
(* or is given up after MODULE_SHUTDOWN_TIMEOUT; the loop waits a second   *)
(* longer than that, so its own timer is only due when no module is being  *)
(* stopped.  Genesis, the one module that is not long running, is left out *)
(* here as it is by the handler.                                           *)
(***************************************************************************)
EXTENDS Naturals, Sequences, FiniteSets, SequencesExt

CONSTANTS
    ModuleOrder,   \* names of the modules, in the order they are started
    MaxTriggers    \* bound on what may end the process: signals and modules that end

ASSUME ModuleNamesAssumption ==
    /\ ModuleOrder \in Seq(ToSet(ModuleOrder))
    /\ \A i, j \in DOMAIN ModuleOrder : ModuleOrder[i] = ModuleOrder[j] => i = j

VARIABLES
    started_modules, shut_modules,
    task,        \* of each module: "running", "stopping" (asked to stop), "done"
    saved,       \* the modules that were persisted at their end
    loop,        \* the handler: "watching", "signalled", "unsubscribed", "closing", "exited"
    completed,   \* ShutdownCompleted messages in the loop's channel
    triggers,
    missed       \* a ShutdownCompleted was read by no loop

moduleVars == <<started_modules, shut_modules, task, saved, loop, completed, triggers, missed>>

Modules == ToSet(ModuleOrder)

(* start_modules, and exit_process in its first shutdown_loop. *)
ModulesInit ==
    /\ started_modules = ModuleOrder
    /\ shut_modules = {}
    /\ task = [m \in Modules |-> "running"]
    /\ saved = {}
    /\ loop = "watching"
    /\ completed = <<>>
    /\ triggers = 0
    /\ missed = FALSE

---------------------------------------------------------------------------
(* The task around a module sends ShutdownCompleted however it ends. *)
Complete(m, persisted) ==
    LET subscribed == loop \in {"watching", "closing"}
    IN  /\ task' = [task EXCEPT ![m] = "done"]
        /\ saved' = IF persisted THEN saved \cup {m} ELSE saved
        /\ completed' = IF subscribed THEN Append(completed, m) ELSE completed
        /\ missed' = (missed \/ ~subscribed)
        /\ UNCHANGED <<started_modules, shut_modules, loop>>

(* run returns, with an error or without, or panics. *)
EndsByItself(m) ==
    /\ task[m] = "running" /\ triggers < MaxTriggers
    /\ triggers' = triggers + 1
    /\ \E persisted \in BOOLEAN : Complete(m, persisted)

(* On ShutdownModule; not persisted when it fails or takes too long. *)
Stops(m) ==
    /\ task[m] = "stopping"
    /\ \E persisted \in BOOLEAN : Complete(m, persisted)
    /\ UNCHANGED triggers

---------------------------------------------------------------------------
(* started_modules.retain: the list without m, which it has at most once. *)
Retained(started, m) ==
    IF \E i \in 1..Len(started) : started[i] = m
    THEN LET at == CHOOSE i \in 1..Len(started) : started[i] = m
         IN  [i \in 1..(Len(started) - 1) |-> IF i < at THEN started[i] ELSE started[i + 1]]
    ELSE started

(* Mutant of shutdown_next_module: the modules are stopped in the order of their start. *)
StopFirstModule(started, shut) ==
    IF started = <<>> THEN started_modules' = started /\ UNCHANGED task
    ELSE LET m == Head(started)
         IN  /\ started_modules' = Tail(started)
             /\ task' = IF m \notin shut /\ task[m] = "running"
                        THEN [task EXCEPT ![m] = "stopping"] ELSE task

shutdown_next_module(started, shut) ==
    IF started = <<>> THEN started_modules' = started /\ UNCHANGED task
    ELSE LET m == started[Len(started)]
         IN  /\ started_modules' = SubSeq(started, 1, Len(started) - 1)
             /\ task' = IF m \notin shut /\ task[m] = "running"
                        THEN [task EXCEPT ![m] = "stopping"] ELSE task

(* A shutdown_loop is left: the first for shutdown_modules, the second for good. *)
LeaveLoop ==
    /\ loop' = IF loop = "watching" THEN "signalled" ELSE "exited"
    /\ completed' = <<>>

(* Mutant of HandleShutdownCompleted: the loop is left with the last module asked to stop. *)
LeaveWithTheLast ==
    LET m == Head(completed)
        started == Retained(started_modules, m)
    IN  /\ loop \in {"watching", "closing"} /\ completed # <<>>
        /\ shut_modules' = shut_modules \cup {m}
        /\ shutdown_next_module(started, shut_modules')
        /\ IF started_modules' = <<>> THEN LeaveLoop
           ELSE completed' = Tail(completed) /\ UNCHANGED loop
        /\ UNCHANGED <<saved, triggers, missed>>

(* The end of a module in a shutdown_loop; each counts once. *)
HandleShutdownCompleted ==
    LET m == Head(completed)
        started == Retained(started_modules, m)
    IN  /\ loop \in {"watching", "closing"} /\ completed # <<>>
        /\ shut_modules' = shut_modules \cup {m}
        /\ \/ /\ m \notin shut_modules /\ started = <<>>
              /\ started_modules' = started
              /\ LeaveLoop
              /\ UNCHANGED task
           \/ /\ m \notin shut_modules /\ started # <<>>
              /\ shutdown_next_module(started, shut_modules')
              /\ completed' = Tail(completed)
              /\ UNCHANGED loop
        /\ UNCHANGED <<saved, triggers, missed>>

(* The timer of a shutdown_loop. *)
LoopTimer ==
    /\ loop \in {"watching", "closing"} /\ completed = <<>>
    /\ \A m \in Modules : task[m] # "stopping"
    /\ shut_modules # {}
    /\ shutdown_next_module(started_modules, shut_modules)
    /\ UNCHANGED <<shut_modules, saved, loop, completed, triggers, missed>>

(* SIGINT or SIGTERM: exit_process drops the first loop and its channel. *)
Signal ==
    /\ loop = "watching" /\ triggers < MaxTriggers
    /\ triggers' = triggers + 1
    /\ LeaveLoop
    /\ missed' = (missed \/ completed # <<>>)
    /\ UNCHANGED <<started_modules, shut_modules, task, saved>>

(* shutdown_modules: the next module is asked to stop before the second loop subscribes. *)
shutdown_modules ==
    /\ loop = "signalled"
    /\ shutdown_next_module(started_modules, shut_modules)
    /\ loop' = IF started_modules' = <<>> THEN "exited" ELSE "unsubscribed"
    /\ UNCHANGED <<shut_modules, saved, completed, triggers, missed>>

shutdown_loop ==
    /\ loop = "unsubscribed"
    /\ loop' = "closing"
    /\ UNCHANGED <<started_modules, shut_modules, task, saved, completed, triggers, missed>>

Handler ==
    \/ HandleShutdownCompleted
    \/ LoopTimer
    \/ shutdown_modules
    \/ shutdown_loop

ModulesNext ==
    /\ loop # "exited"
    /\ \/ \E m \in Modules : EndsByItself(m) \/ Stops(m)
       \/ Handler
       \/ Signal

(* The handler runs, and a module that is asked to stop ends or times out. *)
ModulesFairness ==
    /\ WF_moduleVars(loop # "exited" /\ Handler)
    /\ WF_moduleVars(loop # "exited" /\ \E m \in Modules : Stops(m))

ModulesSpec == ModulesInit /\ [][ModulesNext]_moduleVars /\ ModulesFairness

---------------------------------------------------------------------------
(* Modules are shut down in the reverse of the order they were started in: one is asked to  *)
(* stop only when those after it have been, or have ended (shutdown_next_module).           *)
ReverseShutdown ==
    \A i \in DOMAIN ModuleOrder :
        (task[ModuleOrder[i]] = "running" /\ task'[ModuleOrder[i]] = "stopping") =>
            \A j \in (i + 1)..Len(ModuleOrder) : task[ModuleOrder[j]] # "running"

(* The process exits when all its modules have ended, so none loses what it would have     *)
(* persisted; provided that one thing ends it: a second module that ends or a signal while *)
(* the modules are shut down makes the loop leave one of them behind (shutdown_loop).      *)
ExitsAfterAll ==
    (loop = "exited" /\ triggers = 1) => \A m \in Modules : task[m] = "done"

(* Once anything has ended the process, it does exit, unless the message that a module has  *)
(* ended was lost: dropped with the first loop, or sent before the second had subscribed    *)
(* (exit_process, shutdown_modules).                                                        *)
ShutdownEnds == (triggers > 0) ~> (loop = "exited" \/ missed)

(* Once anything has ended the process its modules are stopped in the reverse of their order, *)
(* and the process exits (shutdown_next_module, shutdown_modules).                             *)
OrderlyShutdown == [][ReverseShutdown]_moduleVars /\ ShutdownEnds
=============================================================================
