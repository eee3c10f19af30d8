---------------------------- MODULE ShellProofs ----------------------------
(***************************************************************************)
(* The hand-over between shell master and worker keeps the routing table   *)
(* still while a command runs, for any table, devices and lookups.  The    *)
(* invariant ties pending_work to both program counters; what lookups      *)
(* return is not needed, only the shape of their records.                  *)
(***************************************************************************)
EXTENDS Shell, TLAPS

\* rd is a function on the readers, and a lookup has its six fields
Shape ==
    /\ rd = [t \in Readers |-> rd[t]]
    /\ \A t \in Readers : rd[t] = [pc |-> rd[t].pc, dst |-> rd[t].dst, at |-> rd[t].at,
                                   res |-> rd[t].res, ever |-> rd[t].ever,
                                   always |-> rd[t].always]

\* pending_work says which thread is active, and the worker's lookups live
\* inside a command
Hand ==
    /\ pending => Waiting
    /\ pending <=> job \in {"issued", "runs"}
    /\ job = "runs" <=> wpc = "run"
    /\ job # "again"
    /\ gone # NULL => mpc = "delete"
    /\ rd["worker"].pc # "idle" => wpc = "run" /\ rd["worker"].ever = rd["worker"].always

HandInv == TypeOK /\ Shape /\ Hand

\* The invariant implies the property.
LEMMA HandImpliesAlone == HandInv => CommandAlone
BY DEF HandInv, Hand, CommandAlone, Waiting, TypeOK

\* The initial state satisfies the invariant.
LEMMA HandInit == Init => HandInv
<1> SUFFICES ASSUME Init PROVE HandInv
  OBVIOUS
<1>1. TypeOK
  BY DEF Init, TypeOK
<1>2. \A t \in Readers : rd[t] = Idle
  BY DEF Init
<1>3. Shape
  BY <1>2 DEF Init, Shape, Idle
<1>4. "worker" \in Readers
  BY ShellAssumption
<1>5. Hand
  BY <1>2, <1>4 DEF Init, Hand, Idle
<1> QED
  BY <1>1, <1>3, <1>5 DEF HandInv

\* A change of the table leaves the worker's lookup alone while the worker runs
\* no command.
LEMMA HistoriesKeepShape ==
    ASSUME HandInv, NEW e, Joins(e) \/ Leaves(e), ~pending
    PROVE  Shape' /\ rd'["worker"].pc = "idle"
<1>1. "worker" \in Readers
  BY ShellAssumption
<1>2. rd["worker"].pc = "idle"
  BY DEF HandInv, Hand
<1>3. CASE Joins(e)
  BY <1>1, <1>2, <1>3 DEF HandInv, Shape, Joins
<1>4. CASE Leaves(e)
  <2>1. \A t \in Readers : rd'[t] = [rd[t] EXCEPT !.always = rd[t].always \ {e}]
    BY <1>4 DEF Leaves
  <2>2. \A t \in Readers :
          rd'[t] = [pc |-> rd[t].pc, dst |-> rd[t].dst, at |-> rd[t].at, res |-> rd[t].res,
                    ever |-> rd[t].ever, always |-> rd[t].always \ {e}]
    BY <2>1 DEF HandInv, Shape
  <2>3. rd' = [t \in Readers |-> rd'[t]]
    BY <1>4 DEF Leaves
  <2> QED
    BY <1>1, <1>2, <2>2, <2>3 DEF Shape
<1> QED
  BY <1>3, <1>4

\* A step of a lookup keeps the shape, changes no other lookup, and leaves the
\* two histories equal if they were.
LEMMA LookupKeepsShape ==
    ASSUME HandInv, NEW t \in Readers, Lookup(t)
    PROVE  /\ Shape'
           /\ \A u \in Readers \ {t} : rd'[u] = rd[u]
           /\ rd[t].ever = rd[t].always => rd'[t].ever = rd'[t].always
           /\ rd[t].pc = "idle" => rd'[t].ever = rd'[t].always
           /\ UNCHANGED gone
<1>1. CASE \E dst \in Dests : LookupStart(t, dst)
  BY <1>1 DEF HandInv, Shape, LookupStart
<1>2. CASE LookupStep(t)
  <2> DEFINE r == rd[t]
             at == r.at
  <2>1. r = [pc |-> r.pc, dst |-> r.dst, at |-> at, res |-> r.res,
             ever |-> r.ever, always |-> r.always]
    BY DEF HandInv, Shape
  <2>2. PICK q : /\ rd' = [rd EXCEPT ![t] = q]
                 /\ \/ q = r
                    \/ q = [r EXCEPT !.pc = "found", !.res = at]
                    \/ q = [r EXCEPT !.at = next[at]]
    BY <1>2 DEF LookupStep
  <2>3. /\ q = [pc |-> q.pc, dst |-> q.dst, at |-> q.at, res |-> q.res,
                ever |-> q.ever, always |-> q.always]
        /\ q.ever = r.ever /\ q.always = r.always
    BY <2>1, <2>2
  <2>4. rd'[t] = q /\ rd' = [u \in Readers |-> rd'[u]] /\ \A u \in Readers \ {t} : rd'[u] = rd[u]
    BY <2>2 DEF HandInv, Shape
  <2>5. r.pc # "idle" /\ UNCHANGED gone
    BY <1>2 DEF LookupStep
  <2> QED
    BY <2>3, <2>4, <2>5 DEF HandInv, Shape
<1>3. CASE LookupEnd(t)
  BY <1>3 DEF HandInv, Shape, LookupEnd, Idle
<1> QED
  BY <1>1, <1>2, <1>3 DEF Lookup

\* A step that leaves the table and all lookups alone only has to respect the
\* conjuncts about the two threads.
LEMMA TableStillKeepsShape ==
    ASSUME HandInv, UNCHANGED tvars
    PROVE  Shape' /\ rd' = rd /\ gone' = gone
BY DEF HandInv, Shape, tvars

\* The invariant is inductive: one case per action.
LEMMA HandStep == HandInv /\ [Next]_vars => HandInv'
<1> SUFFICES ASSUME HandInv, [Next]_vars PROVE HandInv'
  OBVIOUS
<1>0. TypeOK /\ Shape /\ Hand
  BY DEF HandInv
<1> DEFINE InTable == rd' = rd /\ gone' = gone /\ Shape'
<1>1. CASE RouteAdd
  <2>1. PICK e : Joins(e)
    BY <1>1 DEF RouteAdd, rt_add
  <2>2. ~pending /\ mpc = "line" /\ UNCHANGED svars /\ gone' = gone
    BY <1>0, <1>1 DEF RouteAdd, rt_add, Hand, Waiting
  <2>3. Shape' /\ rd'["worker"].pc = "idle"
    BY <2>1, <2>2, HistoriesKeepShape
  <2> QED
    BY <1>0, <2>2, <2>3 DEF HandInv, Hand, TypeOK, Waiting, svars
<1>2. CASE RouteDelete
  <2>1. PICK e : Leaves(e)
    BY <1>2 DEF RouteDelete, rt_delete
  <2>2. ~pending /\ mpc' = "delete" /\ UNCHANGED <<wpc, pending, quit, dev, job, lost>>
    BY <1>0, <1>2 DEF RouteDelete, Hand, Waiting
  <2>3. Shape' /\ rd'["worker"].pc = "idle"
    BY <2>1, <2>2, HistoriesKeepShape
  <2> QED
    BY <1>0, <2>2, <2>3 DEF HandInv, Hand, TypeOK, Waiting
<1>3. CASE RouteDeleted
  <2>1. rd' = rd /\ gone' = NULL /\ Shape'
    BY <1>0, <1>3 DEF RouteDeleted, list_del_end, Shape
  <2> QED
    BY <1>0, <1>3, <2>1 DEF RouteDeleted, HandInv, Hand, TypeOK, Waiting
<1>4. CASE Attach
  <2>1. PICK e : Joins(e)
    BY <1>4 DEF Attach, rt_add
  <2>2. /\ ~pending /\ mpc = "line" /\ mpc' = "attach" /\ gone' = gone
        /\ dev' \subseteq Devices /\ UNCHANGED <<wpc, pending, quit, job, lost>>
    BY <1>0, <1>4 DEF Attach, rt_add, Hand, Waiting
  <2>3. Shape' /\ rd'["worker"].pc = "idle"
    BY <2>1, <2>2, HistoriesKeepShape
  <2> QED
    BY <1>0, <2>2, <2>3 DEF HandInv, Hand, TypeOK, Waiting
<1>5. CASE AttachNet
  <2>1. PICK e : Joins(e)
    BY <1>5 DEF AttachNet, rt_add
  <2>2. /\ ~pending /\ mpc = "attach" /\ mpc' = "line" /\ gone' = gone
        /\ dev' = {} /\ UNCHANGED <<wpc, pending, quit, job, lost>>
    BY <1>0, <1>5 DEF AttachNet, rt_add, Hand, Waiting
  <2>3. Shape' /\ rd'["worker"].pc = "idle"
    BY <2>1, <2>2, HistoriesKeepShape
  <2> QED
    BY <1>0, <2>2, <2>3 DEF HandInv, Hand, TypeOK, Waiting
<1>6. CASE HandOver \/ HandOverPost
  <2>1. InTable
    BY <1>6, TableStillKeepsShape DEF HandOver, HandOverPost
  <2>2. lost' \in BOOLEAN
    BY <1>0, <1>6, Zenon DEF HandOver, HandOverPost, SignalWorker, TypeOK
  <2>3. CASE HandOver
    BY <1>0, <2>1, <2>2, <2>3 DEF HandOver, HandInv, Hand, TypeOK, Waiting
  <2>4. CASE HandOverPost
    <3>1. /\ mpc = "post" /\ mpc' = "test" /\ UNCHANGED <<pending, quit, dev, job>>
          /\ wpc' = wpc \/ (wpc = "wait" /\ wpc' = "woken")
      BY <2>4 DEF HandOverPost, SignalWorker
    <3> QED
      BY <1>0, <2>1, <2>2, <3>1 DEF HandInv, Hand, TypeOK, Waiting
  <2> QED
    BY <1>6, <2>3, <2>4
<1>7. CASE MasterTest \/ MasterWait \/ MasterSpurious
  <2>1. InTable
    BY <1>7, TableStillKeepsShape DEF MasterTest, MasterWait, MasterSpurious
  <2> QED
    BY <1>0, <1>7, <2>1 DEF MasterTest, MasterWait, MasterSpurious, HandInv, Hand, TypeOK, Waiting
<1>8. CASE Exit \/ ExitPost \/ Join
  <2>1. InTable
    BY <1>8, TableStillKeepsShape DEF Exit, ExitPost, Join
  <2>2. lost' \in BOOLEAN
    BY <1>0, <1>8, Zenon DEF Exit, ExitPost, Join, SignalWorker, TypeOK
  <2>3. /\ mpc \in {"line", "exit", "join"} /\ mpc' \in {"exit", "join", "over"}
        /\ quit' \in BOOLEAN /\ UNCHANGED <<pending, dev, job>>
        /\ wpc' = wpc \/ (wpc = "wait" /\ wpc' = "woken")
    BY <1>0, <1>8 DEF Exit, ExitPost, Join, SignalWorker, TypeOK
  <2>4. gone = NULL
    BY <1>0, <2>3 DEF Hand
  <2> QED
    BY <1>0, <2>1, <2>2, <2>3, <2>4 DEF HandInv, Hand, TypeOK, Waiting
<1>9. CASE WorkerTop \/ WorkerTest \/ WorkerWait \/ WorkerSpurious \/ WorkerWoken
  <2>1. InTable
    BY <1>9, TableStillKeepsShape DEF WorkerTop, WorkerTest, WorkerWait, WorkerSpurious, WorkerWoken
  <2> QED
    BY <1>0, <1>9, <2>1 DEF WorkerTop, WorkerTest, WorkerWait, WorkerSpurious, WorkerWoken,
                            HandInv, Hand, TypeOK, Waiting
<1>10. CASE WorkerRan \/ WorkerPost
  <2>1. InTable
    BY <1>10, TableStillKeepsShape DEF WorkerRan, WorkerPost
  <2>2. lost' \in BOOLEAN
    BY <1>0, <1>10, Zenon DEF WorkerRan, WorkerPost, TypeOK
  <2>3. CASE WorkerRan
    BY <1>0, <2>1, <2>2, <2>3 DEF WorkerRan, HandInv, Hand, TypeOK, Waiting
  <2>4. CASE WorkerPost
    <3>1. /\ wpc = "post" /\ wpc' = "top" /\ UNCHANGED <<pending, quit, dev, job>>
          /\ mpc' = mpc \/ (mpc = "wait" /\ mpc' = "test")
      BY <2>4 DEF WorkerPost
    <3> QED
      BY <1>0, <2>1, <2>2, <3>1 DEF HandInv, Hand, TypeOK, Waiting
  <2> QED
    BY <1>10, <2>3, <2>4
<1>11. CASE WorkerLookup
  <2>1. "worker" \in Readers /\ wpc = "run" /\ Lookup("worker") /\ UNCHANGED svars
    BY <1>11, ShellAssumption DEF WorkerLookup
  <2>2. Shape' /\ gone' = gone /\ rd'["worker"].ever = rd'["worker"].always
    BY <1>0, <2>1, LookupKeepsShape DEF Hand
  <2> QED
    BY <1>0, <2>1, <2>2 DEF HandInv, Hand, TypeOK, Waiting, svars
<1>12. CASE RxLookup
  <2>1. /\ "rx" \in Readers /\ "worker" \in Readers \ {"rx"}
        /\ Lookup("rx") /\ UNCHANGED svars
    BY <1>12, ShellAssumption DEF RxLookup
  <2>2. Shape' /\ gone' = gone /\ rd'["worker"] = rd["worker"]
    BY <2>1, LookupKeepsShape
  <2> QED
    BY <1>0, <2>1, <2>2 DEF HandInv, Hand, TypeOK, Waiting, svars
<1>13. CASE UNCHANGED vars
  <2>1. InTable /\ UNCHANGED svars
    BY <1>13, TableStillKeepsShape DEF vars
  <2> QED
    BY <1>0, <2>1 DEF HandInv, Hand, TypeOK, Waiting, svars
<1> QED
  BY <1>1, <1>2, <1>3, <1>4, <1>5, <1>6, <1>7, <1>8, <1>9, <1>10, <1>11, <1>12, <1>13
     DEF Next, Master, Worker

\* A command handed to the worker runs once and alone: shell_master() reads no
\* line before shell_worker() is done, however signals are lost or wakeups are
\* spurious, so rt_lookup() of a command never meets a change of the table.
THEOREM CommandIsAlone == Spec => []CommandAlone
<1>1. Init => HandInv
  BY HandInit
<1>2. HandInv /\ [Next]_vars => HandInv'
  BY HandStep
<1>3. HandInv => CommandAlone
  BY HandImpliesAlone
<1> QED
  BY <1>1, <1>2, <1>3, PTL DEF Spec
=============================================================================
