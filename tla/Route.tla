------------------------------- MODULE Route -------------------------------
(***************************************************************************)
(* The routing table: a doubly linked list of entries that one thread, the *)
(* shell master, changes and that other threads walk at the same time,     *)
(* with no lock.  Actions of the threads that use it; Shell composes them. *)
(*                                                                         *)
(* An address has Width bits; a mask is its prefix length, which orders    *)
(* masks as the unsigned comparison of the code does, in either byte       *)
(* order.  Gateway and device of an entry are copied and never looked at.  *)
(* Entry 0 is rt_head.  An entry is never freed, so its number is used     *)
(* once and a higher number is a newer entry.                              *)
(***************************************************************************)
EXTENDS Integers, FiniteSets, FiniteSetsExt

CONSTANTS
    Width,      \* bits of an address
    MaxRoutes,  \* bound on the entries ever allocated
    Dests,      \* the addresses looked up
    Readers     \* the threads that look up routes while the master may change them

RtHead == 0
NULL == -1
Entries == 1..MaxRoutes
Addrs == 0..(2^Width - 1)

ASSUME RouteAssumption == Width \in Nat /\ MaxRoutes \in Nat \ {0} /\ Dests \subseteq Addrs

VARIABLES
    rt,      \* rt_net and rt_netmask of each entry
    used,    \* entries allocated so far
    next,    \* the next pointers
    prev,    \* the prev pointers
    gone,    \* the entry rt_delete() has unlinked and not yet cleared, or NULL
    rd,      \* rt_lookup() of each reader
    crash    \* a thread followed a NULL pointer

tvars == <<rt, used, next, prev, gone, rd, crash>>

(***************************************************************************)
(* A lookup: the entry it stands on, what it returned, and two histories,  *)
(* the entries that were in the table ever and always since it began.      *)
(***************************************************************************)
Idle == [pc |-> "idle", dst |-> 0, at |-> RtHead, res |-> NULL, ever |-> {}, always |-> {}]

-----------------------------------------------------------------------------
\* (rt_netmask & a) == (rt_netmask & b)
SameNet(len, a, b) == a \div 2^(Width - len) = b \div 2^(Width - len)
Matches(r, dst) == SameNet(rt[r].len, dst, rt[r].net)

\* list_for_each_entry(): the i-th entry from the head, as the pointers are now
Nth[i \in 0..(MaxRoutes + 1)] == IF i = 0 THEN RtHead ELSE next[Nth[i - 1]]
Table == {Nth[i] : i \in 1..MaxRoutes} \ {RtHead}

\* The first entry in a set, or the head
FirstIn(S) == Nth[Min({i \in 1..(MaxRoutes + 1) : Nth[i] \in S \cup {RtHead}})]

\* rt_lookup() by the only thread that changes the table: no step in between
rt_lookup(dst) == FirstIn({r \in Table : Matches(r, dst)})

-----------------------------------------------------------------------------
(* The thread that changes the table.                                      *)

\* __list_add(): the last store, of prev->next, is what readers see
list_add(e, p, n) ==
    /\ next' = [next EXCEPT ![e] = n, ![p] = e]
    /\ prev' = [prev EXCEPT ![e] = p, ![n] = e]

Joins(e) == rd' = [t \in Readers |-> IF rd[t].pc = "idle" THEN rd[t]
                                     ELSE [rd[t] EXCEPT !.ever = @ \cup {e}]]
Leaves(e) == rd' = [t \in Readers |-> [rd[t] EXCEPT !.always = @ \ {e}]]

\* Where rt_add() inserts: before the first entry whose mask is not longer
InsertAt_longer(len) == FirstIn({r \in Table : len > rt[r].len})
InsertAt(len) == FirstIn({r \in Table : len >= rt[r].len})

rt_add(net, len) ==
    /\ used < MaxRoutes
    /\ used' = used + 1
    /\ rt' = [rt EXCEPT ![used + 1] = [net |-> net, len |-> len]]
    /\ list_add(used + 1, prev[InsertAt(len)], InsertAt(len))
    /\ Joins(used + 1)
    /\ UNCHANGED <<gone, crash>>

Named(net, len) == FirstIn({r \in Table : rt[r] = [net |-> net, len |-> len]})

\* rt_delete() with __list_del(); nothing happens when there is no such entry
rt_delete(net, len) ==
    /\ Named(net, len) # RtHead
    /\ \E r \in {Named(net, len)} :
       /\ next' = [next EXCEPT ![prev[r]] = next[r]]
       /\ prev' = [prev EXCEPT ![next[r]] = prev[r]]
       /\ gone' = r
       /\ Leaves(r)
    /\ UNCHANGED <<rt, used, crash>>

\* The end of list_del()
list_del_end ==
    /\ gone # NULL
    /\ next' = [next EXCEPT ![gone] = NULL]
    /\ prev' = [prev EXCEPT ![gone] = NULL]
    /\ gone' = NULL
    /\ UNCHANGED <<rt, used, rd, crash>>

-----------------------------------------------------------------------------
(* rt_lookup() by a reader: one entry at a time.                           *)

LookupStart(t, dst) ==
    /\ rd[t].pc = "idle"
    /\ rd' = [rd EXCEPT ![t] = [pc |-> "walk", dst |-> dst, at |-> next[RtHead], res |-> NULL,
                                ever |-> Table, always |-> Table]]
    /\ UNCHANGED <<rt, used, next, prev, gone, crash>>

\* The end of the list, a match, or on to the next; NULL is followed as it is
LookupStep(t) ==
    /\ rd[t].pc = "walk"
    /\ LET at == rd[t].at IN
       /\ crash' = (at = NULL)
       /\ rd' = [rd EXCEPT ![t] =
                   IF at = NULL THEN @
                   ELSE IF at = RtHead \/ Matches(at, @.dst) THEN [@ EXCEPT !.pc = "found", !.res = at]
                   ELSE [@ EXCEPT !.at = next[at]]]
    /\ UNCHANGED <<rt, used, next, prev, gone>>

LookupEnd(t) ==
    /\ rd[t].pc = "found"
    /\ rd' = [rd EXCEPT ![t] = Idle]
    /\ UNCHANGED <<rt, used, next, prev, gone, crash>>

Lookup(t) == (\E dst \in Dests : LookupStart(t, dst)) \/ LookupStep(t) \/ LookupEnd(t)

-----------------------------------------------------------------------------
(* Properties.                                                             *)

\* Entry r is looked at before entry s: a longer mask, or as long and newer
Before(r, s) == rt[r].len > rt[s].len \/ (rt[r].len = rt[s].len /\ r > s)

\* Pointers point to entries, and a lookup stands on one.
RouteTypeOK ==
    /\ rt \in [Entries -> [net : Addrs, len : 0..Width]]
    /\ used \in Entries
    /\ next \in [0..MaxRoutes -> NULL..MaxRoutes]
    /\ prev \in [0..MaxRoutes -> NULL..MaxRoutes]
    /\ gone \in Entries \cup {NULL}
    /\ rd \in [Readers -> [pc : {"idle", "walk", "found"}, dst : Dests \cup {0},
                           at : NULL..MaxRoutes, res : NULL..MaxRoutes,
                           ever : SUBSET Entries, always : SUBSET Entries]]
    /\ crash \in BOOLEAN

(***************************************************************************)
(* "insert according to netmask descend-order": whatever was added and     *)
(* deleted, the pointers of the table form one ring in both directions,    *)
(* longer masks before shorter ones and newer entries before older ones.   *)
(***************************************************************************)
TableSorted ==
    /\ \A r \in Table \cup {RtHead} : next[r] \in Table \cup {RtHead} /\ prev[next[r]] = r
    /\ \A r \in Table : next[r] # RtHead => Before(r, next[r])

(***************************************************************************)
(* The table is well typed and sorted, and a lookup that runs while routes *)
(* are added and deleted returns an entry that was in the table during it  *)
(* and covers the address, and never one that comes after an entry that    *)
(* covers it and was there all the time; it finds nothing only when no     *)
(* such entry was there.                                                   *)
(***************************************************************************)
LookupBest ==
    /\ RouteTypeOK /\ TableSorted
    /\ \A t \in Readers : rd[t].pc = "found" =>
          /\ rd[t].res # RtHead => rd[t].res \in rd[t].ever /\ Matches(rd[t].res, rd[t].dst)
          /\ \A r \in rd[t].always : Matches(r, rd[t].dst) =>
                rd[t].res # RtHead /\ ~Before(r, rd[t].res)
=============================================================================
