------------------------------- MODULE Shell -------------------------------
(***************************************************************************)
(* The shell's two threads over the routing table.  The master reads a     *)
(* line, runs a command itself (route, attach, exit) or hands it to the    *)
(* worker and waits for it.  The hand-over is pending_work and two         *)
(* condition variables whose mutexes nobody locks, so a signal sent        *)
(* between the other thread's test and its wait is lost.  A thread that    *)
(* receives frames looks up routes all the time, the worker while it runs  *)
(* a command.                                                              *)
(***************************************************************************)
EXTENDS Route

CONSTANTS
    Loopback,  \* net and len of the loopback device
    Targets,   \* ip and maskbits that a route command may be given
    Devices    \* ip and maskbits that an attach command may be given

ASSUME ShellAssumption == Readers = {"rx", "worker"}

VARIABLES
    mpc,      \* shell_master()
    wpc,      \* shell_worker()
    pending,  \* pending_work is not NULL
    quit,     \* master_quit and work_quit, set together
    dev,      \* the device whose second route attach is about to add, or none
    job,      \* history: how far the command handed over last has come
    lost      \* history: a signal found the other thread between test and wait

svars == <<mpc, wpc, pending, quit, dev, job, lost>>
vars == <<tvars, svars>>

\* shell_init(), rt_init() and net_stack_run()
Init ==
    /\ rt = [r \in Entries |-> IF r = 1 THEN Loopback ELSE [net |-> 0, len |-> 0]]
    /\ used = 1
    /\ next = [r \in 0..MaxRoutes |-> IF r < 2 THEN 1 - r ELSE NULL]
    /\ prev = [r \in 0..MaxRoutes |-> IF r < 2 THEN 1 - r ELSE NULL]
    /\ gone = NULL
    /\ rd = [t \in Readers |-> Idle]
    /\ crash = FALSE
    /\ mpc = "line" /\ wpc = "top"
    /\ pending = FALSE /\ quit = FALSE
    /\ dev = {}
    /\ job = "none"
    /\ lost = FALSE

\* The mask of maskbits: 1 << 32 is undefined, and 1 or 0 on the machines there are
MaskLen(bits) == IF bits = 0 THEN {0, Width} ELSE {bits}

LocalNet(ip, len) == ip - (ip % 2^(Width - len))

-----------------------------------------------------------------------------
(* shell_master() and the commands it runs itself.                         *)

\* route add: the gateway must be reachable
RouteAdd ==
    /\ mpc = "line"
    /\ \E gw \in Addrs : rt_lookup(gw) # RtHead
    /\ \E g \in Targets : \E len \in MaskLen(g.bits) : rt_add(g.ip, len)
    /\ UNCHANGED svars

RouteDelete ==
    /\ mpc = "line"
    /\ \E g \in Targets : \E len \in MaskLen(g.bits) : rt_delete(g.ip, len)
    /\ mpc' = "delete"
    /\ UNCHANGED <<wpc, pending, quit, dev, job, lost>>

RouteDeleted ==
    /\ mpc = "delete"
    /\ list_del_end
    /\ mpc' = "line"
    /\ UNCHANGED <<wpc, pending, quit, dev, job, lost>>

\* attach_dev() and its kin: the host's own route, then the local network's
Attach ==
    /\ mpc = "line"
    /\ used + 2 <= MaxRoutes
    /\ \E d \in Devices : rt_add(d.ip, Width) /\ dev' = {d}
    /\ mpc' = "attach"
    /\ UNCHANGED <<wpc, pending, quit, job, lost>>

AttachNet ==
    /\ mpc = "attach"
    /\ \E d \in dev : \E len \in MaskLen(d.bits) : rt_add(LocalNet(d.ip, len), len)
    /\ mpc' = "line"
    /\ dev' = {}
    /\ UNCHANGED <<wpc, pending, quit, job, lost>>

\* pthread_cond_signal(&worker_cond): nothing is remembered when nobody waits;
\* a worker past its test of work_quit will wait without another look at it
SignalWorker ==
    /\ wpc' = IF wpc = "wait" THEN "woken" ELSE wpc
    /\ lost' = (lost \/ wpc = "gap" \/ (quit /\ wpc = "test"))

HandOver ==
    /\ mpc = "line"
    /\ pending' = TRUE /\ job' = "issued"
    /\ mpc' = "post"
    /\ UNCHANGED <<tvars, wpc, quit, dev, lost>>

HandOverPost ==
    /\ mpc = "post"
    /\ SignalWorker
    /\ mpc' = "test"
    /\ UNCHANGED <<tvars, pending, quit, dev, job>>

\* while (pending_work), with signal_init() after it
MasterTest ==
    /\ mpc = "test"
    /\ mpc' = IF pending THEN "gap" ELSE "line"
    /\ UNCHANGED <<tvars, wpc, pending, quit, dev, job, lost>>

MasterWait ==
    /\ mpc = "gap"
    /\ mpc' = "wait"
    /\ UNCHANGED <<tvars, wpc, pending, quit, dev, job, lost>>

MasterSpurious ==
    /\ mpc = "wait"
    /\ mpc' = "test"
    /\ UNCHANGED <<tvars, wpc, pending, quit, dev, job, lost>>

\* builtin_exit(), also the end of the input
Exit ==
    /\ mpc = "line"
    /\ quit' = TRUE
    /\ mpc' = "exit"
    /\ UNCHANGED <<tvars, wpc, pending, dev, job, lost>>

\* pthread_cond_destroy() waits for a worker that is in pthread_cond_wait(), as Join does
ExitPost ==
    /\ mpc = "exit"
    /\ SignalWorker
    /\ mpc' = "join"
    /\ UNCHANGED <<tvars, pending, quit, dev, job>>

\* net_stack_exit()
Join ==
    /\ mpc = "join" /\ wpc = "done"
    /\ mpc' = "over"
    /\ UNCHANGED <<tvars, wpc, pending, quit, dev, job, lost>>

\* Between handing a command over and the prompt
Waiting == mpc \in {"post", "test", "gap", "wait"}

Master == \/ RouteAdd \/ RouteDelete \/ RouteDeleted \/ Attach \/ AttachNet
          \/ HandOver \/ HandOverPost \/ MasterTest \/ MasterWait
          \/ Exit \/ ExitPost \/ Join

-----------------------------------------------------------------------------
(* shell_worker().                                                         *)

WorkerTop ==
    /\ wpc = "top"
    /\ wpc' = IF quit THEN "done" ELSE "test"
    /\ UNCHANGED <<tvars, mpc, pending, quit, dev, job, lost>>

WorkerTest_clears ==
    /\ wpc = "test"
    /\ wpc' = IF pending THEN "run" ELSE "gap"
    /\ pending' = FALSE
    /\ job' = IF pending THEN "runs" ELSE job
    /\ UNCHANGED <<tvars, mpc, quit, dev, lost>>
WorkerTest ==
    /\ wpc = "test"
    /\ wpc' = IF pending THEN "run" ELSE "gap"
    /\ job' = IF ~pending THEN job ELSE IF job = "issued" THEN "runs" ELSE "again"
    /\ UNCHANGED <<tvars, mpc, pending, quit, dev, lost>>

WorkerWait ==
    /\ wpc = "gap"
    /\ wpc' = "wait"
    /\ UNCHANGED <<tvars, mpc, pending, quit, dev, job, lost>>

WorkerSpurious ==
    /\ wpc = "wait"
    /\ wpc' = "woken"
    /\ UNCHANGED <<tvars, mpc, pending, quit, dev, job, lost>>

WorkerWoken_no_quit ==
    /\ wpc = "woken"
    /\ wpc' = "test"
    /\ UNCHANGED <<tvars, mpc, pending, quit, dev, job, lost>>
WorkerWoken ==
    /\ wpc = "woken"
    /\ wpc' = IF quit THEN "done" ELSE "test"
    /\ UNCHANGED <<tvars, mpc, pending, quit, dev, job, lost>>

\* cmd_func() returns, pending_work = NULL
WorkerRan ==
    /\ wpc = "run" /\ rd["worker"].pc = "idle"
    /\ pending' = FALSE /\ job' = "ran"
    /\ wpc' = "post"
    /\ UNCHANGED <<tvars, mpc, quit, dev, lost>>

\* pthread_cond_signal(&master_cond)
WorkerPost ==
    /\ wpc = "post"
    /\ mpc' = IF mpc = "wait" THEN "test" ELSE mpc
    /\ lost' = (lost \/ mpc = "gap")
    /\ wpc' = "top"
    /\ UNCHANGED <<tvars, pending, quit, dev, job>>

Worker == \/ WorkerTop \/ WorkerTest \/ WorkerWait \/ WorkerWoken
          \/ WorkerRan \/ WorkerPost

\* Lookups: of the command that runs, and of the thread that receives
WorkerLookup == wpc = "run" /\ Lookup("worker") /\ UNCHANGED svars
RxLookup == Lookup("rx") /\ UNCHANGED svars

Next ==
    /\ ~crash
    /\ Master \/ Worker \/ MasterSpurious \/ WorkerSpurious \/ WorkerLookup \/ RxLookup

Spec == Init /\ [][Next]_vars

(***************************************************************************)
(* Both threads are scheduled, and a command comes to its end however many *)
(* routes it looks up on the way (strong fairness of its return).          *)
(* Nobody has to type a line, and no wait has to end by itself.            *)
(***************************************************************************)
FairSpec ==
    /\ Spec
    /\ WF_vars(~crash /\ mpc # "line" /\ Master)
    /\ WF_vars(~crash /\ Worker)
    /\ SF_vars(~crash /\ WorkerRan)
    /\ WF_vars(~crash /\ rd["worker"].pc # "idle" /\ WorkerLookup)

-----------------------------------------------------------------------------
(* Properties.                                                             *)

\* The two threads are at one of their steps; attach works on a device it was given.
TypeOK ==
    /\ mpc \in {"line", "delete", "attach", "post", "test", "gap", "wait", "exit", "join", "over"}
    /\ wpc \in {"top", "test", "gap", "wait", "woken", "run", "post", "done"}
    /\ dev \subseteq Devices
    /\ job \in {"none", "issued", "runs", "ran", "again"}
    /\ pending \in BOOLEAN /\ quit \in BOOLEAN /\ lost \in BOOLEAN

(***************************************************************************)
(* A command handed to the worker runs exactly once, and while it runs the *)
(* master reads no line: the table does not change under a command, and no *)
(* lookup of a command meets a deleted entry.                              *)
(***************************************************************************)
CommandAlone ==
    /\ TypeOK
    /\ job # "again"
    /\ ~Waiting => job \in {"none", "ran"} /\ wpc # "run"
    /\ wpc = "run" => gone = NULL
    /\ rd["worker"].pc # "idle" => wpc = "run" /\ rd["worker"].ever = rd["worker"].always

(***************************************************************************)
(* The shell never hangs: a command that is handed over brings the prompt  *)
(* back, and exit, or the end of the input, ends the worker and then the   *)
(* program; unless a signal was lost between a test and a wait, or the     *)
(* program crashed.                                                        *)
(***************************************************************************)
ShellGoesOn ==
    /\ (mpc = "post") ~> (mpc = "line" \/ lost \/ crash)
    /\ quit ~> (mpc = "over" \/ lost \/ crash)

-----------------------------------------------------------------------------
(* What comments of the code say and the code does not do.                 *)

(***************************************************************************)
(* main.c:65, "shell work will be killed by shell master": the signal of   *)
(* builtin_exit() is lost on a worker about to wait, and the join waits.   *)
(***************************************************************************)
WorkerKilled == quit ~> (wpc = "done" \/ crash)
=============================================================================
