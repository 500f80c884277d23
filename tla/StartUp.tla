------------------------------ MODULE StartUp ------------------------------
(***************************************************************************)
(* Processes started on one data directory (cmd/hopreact/main.go, lock.go, *)
(* internal/store/store.go Open and migrate): each opens the database and  *)
(* migrates it, then takes the lock of the directory, then starts its      *)
(* loops and serves until it is told to stop.  A process is killed at any  *)
(* point, and its supervisor starts it again.                              *)
(***************************************************************************)
EXTENDS Naturals, FiniteSets

CONSTANTS Processes,
          Schema,     \* how many migrations there are
          Knows,      \* how many of them the binary of a process has
          Repeatable  \* those whose statements succeed a second time

ASSUME Binaries ==
    /\ Schema \in Nat
    /\ Knows \in [Processes -> 0..Schema]
    /\ Repeatable \subseteq 1..Schema

VARIABLES
    version, \* PRAGMA user_version
    applied, \* the migrations whose effect is in the database
    holder,  \* of the lock
    pc, at,  \* where a process is; the last migration it counts as applied
    calm     \* nothing goes wrong any more, and nobody stops a process

database == <<version, applied>>
vars     == <<database, holder, pc, at, calm>>

Nobody == "nobody"
ASSUME NobodyIsNoProcess == Nobody \notin Processes

Places == {"off", "open", "migrate", "lock", "build", "serve", "stop", "close"}

\* A database as some version of the program left it.
Init ==
    /\ version \in 0..Schema /\ applied = 1..version
    /\ holder = Nobody
    /\ pc = [p \in Processes |-> "off"]
    /\ at = [p \in Processes |-> 0]
    /\ calm = FALSE

Goes(p, from, to) == pc[p] = from /\ pc' = [pc EXCEPT ![p] = to]

Freed(p) == IF holder = p THEN Nobody ELSE holder

-------------------------------------------------------------------------------
\* Configuration read; one that is not valid ends the process here.
Launch(p) ==
    /\ Goes(p, "off", "open")
    /\ UNCHANGED <<database, holder, at>>

SkipsOne(p) ==
    /\ Goes(p, "open", "migrate")
    /\ at' = [at EXCEPT ![p] = version + 1]
    /\ UNCHANGED <<database, holder>>

\* The version is read once, in no transaction.
ReadVersion(p) ==
    /\ Goes(p, "open", "migrate")
    /\ at' = [at EXCEPT ![p] = version]
    /\ UNCHANGED <<database, holder>>

Next1(p) == at[p] + 1

Works(n) == n \in applied => n \in Repeatable

ApplyTorn(p) ==
    /\ at[p] < Knows[p] /\ Works(Next1(p))
    /\ applied' = applied \union {Next1(p)}
    /\ at' = [at EXCEPT ![p] = Next1(p)]
    /\ \/ pc[p] = "migrate" /\ version' = Next1(p) /\ UNCHANGED pc
       \/ Goes(p, "migrate", "off") /\ UNCHANGED version
    /\ UNCHANGED holder

\* One transaction: the statements of the next file and its number.
Apply(p) ==
    /\ pc[p] = "migrate"
    /\ at[p] < Knows[p] /\ Works(Next1(p))
    /\ applied' = applied \union {Next1(p)}
    /\ version' = Next1(p)
    /\ at' = [at EXCEPT ![p] = Next1(p)]
    /\ UNCHANGED <<holder, pc>>

\* A table or a column that is there already: rolled back, and main exits.
ApplyFails(p) ==
    /\ at[p] < Knows[p] /\ ~Works(Next1(p))
    /\ Goes(p, "migrate", "off")
    /\ UNCHANGED <<database, holder, at>>

\* The database cannot be opened, or is locked for too long.
OpenFails(p) ==
    /\ Goes(p, "open", "off") \/ Goes(p, "migrate", "off")
    /\ UNCHANGED <<database, holder, at>>

Migrated(p) ==
    /\ at[p] >= Knows[p]
    /\ Goes(p, "migrate", "lock")
    /\ UNCHANGED <<database, holder, at>>

TakeLockShared(p) ==
    /\ Goes(p, "lock", "build")
    /\ holder' = p
    /\ UNCHANGED <<database, at>>

TakeLock(p) ==
    /\ holder = Nobody
    /\ Goes(p, "lock", "build")
    /\ holder' = p
    /\ UNCHANGED <<database, at>>

\* LOCK_NB: refused at once.
Refused(p) ==
    /\ holder # Nobody
    /\ Goes(p, "lock", "off")
    /\ UNCHANGED <<database, holder, at>>

\* The status region or the templates cannot be loaded.
BuildFails(p) ==
    /\ Goes(p, "build", "off")
    /\ holder' = Freed(p)
    /\ UNCHANGED <<database, at>>

StartLoops(p) ==
    /\ Goes(p, "build", "serve")
    /\ UNCHANGED <<database, holder, at>>

\* A signal, or the web server cannot listen: the context of every loop ends.
Stop(p) ==
    /\ Goes(p, "serve", "stop")
    /\ UNCHANGED <<database, holder, at>>

\* httpSrv.Shutdown has returned, after 10 seconds at most.  The deferred
\* calls free the lock before they close the database.
Unlock(p) ==
    /\ Goes(p, "stop", "close")
    /\ holder' = Freed(p)
    /\ UNCHANGED <<database, at>>

CloseStore(p) ==
    /\ Goes(p, "close", "off")
    /\ UNCHANGED <<database, holder, at>>

\* The kernel frees the lock; a transaction in progress never happened.
Kill(p) ==
    /\ pc[p] # "off"
    /\ pc' = [pc EXCEPT ![p] = "off"]
    /\ holder' = Freed(p)
    /\ UNCHANGED <<database, at>>

-------------------------------------------------------------------------------
Proceed(p) ==
    \/ Launch(p) \/ ReadVersion(p) \/ Apply(p) \/ ApplyFails(p) \/ Migrated(p)
    \/ TakeLock(p) \/ Refused(p) \/ StartLoops(p) \/ Unlock(p) \/ CloseStore(p)

Mishap(p) == ~calm /\ (OpenFails(p) \/ BuildFails(p) \/ Stop(p) \/ Kill(p))

CalmSetsIn == ~calm /\ calm' = TRUE /\ UNCHANGED <<database, holder, pc, at>>

Next == CalmSetsIn \/ \E p \in Processes : (Proceed(p) \/ Mishap(p)) /\ UNCHANGED calm

\* A process goes on, and its supervisor starts it again.
Fairness == \A p \in Processes : WF_vars(Proceed(p) /\ UNCHANGED calm)

Spec == Init /\ [][Next]_vars /\ Fairness

-------------------------------------------------------------------------------
TypeOK ==
    /\ version \in 0..Schema /\ applied \subseteq 1..Schema
    /\ holder \in Processes \union {Nobody}
    /\ pc \in [Processes -> Places]
    /\ at \in [Processes -> 0..Schema]
    /\ calm \in BOOLEAN

(***************************************************************************)
(* Exactly one instance: no two processes have their loops running, or     *)
(* told to end with the lock not yet freed, however they are started,      *)
(* stopped and killed - two would double every alert.                      *)
(***************************************************************************)
InCharge(p) == pc[p] \in {"build", "serve", "stop"}

OneSetOfLoops == \A p, q \in Processes : InCharge(p) /\ InCharge(q) => p = q

(***************************************************************************)
(* A process serves a database that has every migration it knows, even one *)
(* that others migrate at the same moment or whose version number they set *)
(* back.                                                                   *)
(***************************************************************************)
ServesItsSchema ==
    \A p \in Processes :
        pc[p] \in {"lock", "build", "serve", "stop"} => 1..Knows[p] \subseteq applied

(***************************************************************************)
(* The service comes back: killed in the middle of a migration or of       *)
(* anything else, started by its supervisor, upgraded, refused because     *)
(* another instance serves - as long as no two processes are migrating at  *)
(* once, when there are no more mishaps somebody serves in the end.       *)
(***************************************************************************)
OneMigrates == Cardinality({p \in Processes : pc[p] = "migrate"}) <= 1

SomebodyServes == \E p \in Processes : pc[p] = "serve"

ServesAgain == []OneMigrates => (calm ~> SomebodyServes)

===============================================================================
