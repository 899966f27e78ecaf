----------------------------- MODULE ClockStore ------------------------------
(***************************************************************************)
(* The clocks of the server: the sqlite table "ports" with the cache that  *)
(* db/db.c keeps in front of it, the HTTP tasks that create and list       *)
(* clocks, and service/cleanup.py, a process of its own that deletes old   *)
(* rows of the same database file.                                         *)
(*                                                                         *)
(* The server is one thread, so a db_* call is one action; the cleanup     *)
(* task, the passing of time and restarts of the container come between    *)
(* any two.  Of a row, its policy, its visibility and whether its secret   *)
(* takes the whole of its buffer are kept apart; its offset, description   *)
(* and secret are one "value".                                             *)
(***************************************************************************)
EXTENDS Integers, Sequences, FiniteSets

CONSTANTS Port,        \* port ids, records [clock_id, port] of naturals
          TopClockId,  \* the largest clock id, 0xffffffffffffffff
          TopPort,     \* the largest port number, 0xffff
          CacheSize,   \* DB_CACHE_SIZE
          PageSize,    \* HTTP_MAX_PAGE_SIZE
          Value,       \* offset, description and secret of a clock
          Policy,      \* enum ptp_authentication_policy
          Unsecured,   \* PTP_AUTHENTICATION_POLICY_NONE, which is 0
          NewClock,    \* the clocks that are asked for
          Lifetime,    \* how long the cleanup task keeps a row
          MaxTime,     \* bound: the last instant considered
          None         \* "no value"

ASSUME PortAssumption == /\ Port \subseteq [clock_id : Nat, port : Nat]
                         /\ IsFiniteSet(Port)
ASSUME SizeAssumption == /\ CacheSize \in Nat \ {0}
                         /\ PageSize \in Nat \ {0}
                         /\ Lifetime \in Nat
                         /\ MaxTime \in Nat

ASSUME PolicyAssumption == Unsecured \in Policy

\* "full": the secret has DB_SECRET_SIZE characters, so that strcpy writes the
\* zero that ends it behind the slot.
Clock == [value : Value, policy : Policy, full : BOOLEAN, visible : BOOLEAN]

ASSUME NewClockAssumption == NewClock \subseteq Clock

\* A clock that anyone may read.
Opened(clock) == [clock EXCEPT !.policy = Unsecured]

Row == [clock : Clock, created : 0..MaxTime]

ASSUME NoneAssumption == None \notin Clock \cup Row

Slot == 0..(CacheSize - 1)

\* db_hash
Hash(p) == (p.clock_id + p.port) % CacheSize

\* db_valid: no special clock ids, no special ports.
Valid(p) == /\ p.clock_id \notin {0, TopClockId}
            /\ p.port \notin {0, TopPort}

\* A slot of the cache; calloc fills it with zeroes.
ZeroPort == [clock_id |-> 0, port |-> 0]
Entry == [port_id : Port \cup {ZeroPort}, valid : BOOLEAN,
          clock : Clock \cup {None}]
EmptyEntry == [port_id |-> ZeroPort, valid |-> FALSE, clock |-> None]
EmptyCache == [s \in Slot |-> EmptyEntry]

VARIABLES now,      \* the time of day
          table,    \* the rows of "ports"
          schema,   \* whether the table was ever created
          owner,    \* whose the database file is, None if there is none
          up,       \* whether the server is past db_setup
          cache,    \* db_state.cache
          cleaner,  \* the cleanup task: starting, running or ended by an error
          page,     \* the last list of recent clocks: rows found, clocks shown
          promised, \* history: the rows whose creation was acknowledged
          filled    \* history: the ports that had a clock with a full secret

vars == <<now, table, schema, owner, up, cache, cleaner, page, promised, filled>>

TypeOK == /\ now \in 0..MaxTime
          /\ table \in [Port -> Row \cup {None}]
          /\ schema \in BOOLEAN
          /\ owner \in {None, "root", "service"}
          /\ up \in BOOLEAN
          /\ cache \in [Slot -> Entry]
          /\ cleaner \in {"starting", "running", "ended"}
          /\ page \in [rows : Seq(Port), shown : Seq(Port)]
          /\ promised \in [Port -> Row \cup {None}]
          /\ filled \subseteq Port

NoPage == [rows |-> <<>>, shown |-> <<>>]

Init == /\ now = 0
        /\ table = [p \in Port |-> None]
        /\ schema = FALSE
        /\ owner = None
        /\ up = FALSE
        /\ cache = EmptyCache
        /\ cleaner = "starting"
        /\ page = NoPage
        /\ promised = [p \in Port |-> None]
        /\ filled = {}

-----------------------------------------------------------------------------
(* db.c *)

\* db_setup: the table is created unless it exists, the cache is empty.  The
\* server runs as user "service" and cannot write a file of root's.
DbSetup == /\ ~up
           /\ owner # "root"
           /\ up' = TRUE
           /\ schema' = TRUE
           /\ owner' = "service"
           /\ cache' = EmptyCache
           /\ UNCHANGED <<now, table, cleaner, page, promised, filled>>

\* Mutant: the port in the slot is not compared.
HitAnyPort(p) == cache[Hash(p)].valid

\* The slot holds the port asked for.
Hit(p) == cache[Hash(p)].port_id = p /\ cache[Hash(p)].valid

Cached(p) == [port_id |-> p, valid |-> TRUE, clock |-> table[p].clock]

\* The slot, when a zero is written behind the slot in front: the policy comes
\* first in struct db_entry, the secret last.
Overrun(entry) == IF entry.clock = None THEN entry
                  ELSE [entry EXCEPT !.clock = Opened(entry.clock)]

\* Mutant: a slot in use is left alone.
CacheAfterKept(rows) ==
  [s \in Slot |-> IF cache[s].valid \/ \A i \in 1..Len(rows) : Hash(rows[i]) # s
                 THEN cache[s]
                 ELSE Cached(rows[CHOOSE i \in 1..Len(rows) :
                                    Hash(rows[i]) = s])]

\* Rows are copied into their slots, one by one.  A slot holds the last of its
\* rows, and is overrun if a full secret was copied into the slot in front of
\* it after that.  (Behind the last slot the cache ends.)
CacheAfter(rows) ==
  LET at(s) == {i \in 1..Len(rows) : Hash(rows[i]) = s}
      last(s) == CHOOSE i \in at(s) : \A j \in at(s) : j <= i
      written(s) == IF at(s) = {} THEN cache[s] ELSE Cached(rows[last(s)])
      overrun(s) == \E j \in 1..Len(rows) : /\ Hash(rows[j]) + 1 = s
                                            /\ table[rows[j]].clock.full
                                            /\ \A i \in at(s) : i < j
  IN [s \in Slot |-> IF overrun(s) THEN Overrun(written(s)) ELSE written(s)]

\* db_get for a port whose slot holds something else, or nothing valid: a row
\* is copied into the slot.  (A hit, a missing row and a failing SELECT change
\* nothing; db_valid refuses special ports before it looks.)
DbGet(p) == /\ up
            /\ Valid(p)
            /\ ~Hit(p)
            /\ table[p] # None
            /\ cache' = CacheAfter(<<p>>)
            /\ UNCHANGED <<now, table, schema, owner, up, cleaner, page, promised, filled>>

\* Mutant: the slot stays valid.
InvalidatedNot(p) == cache

\* db_set up to the INSERT: the slot is invalidated, whoever it belongs to.
Invalidated(p) == [cache EXCEPT ![Hash(p)].valid = FALSE]

\* The ports that had a full secret, with one more clock.
FilledBy(p, clock) == IF clock.full THEN filled \cup {p} ELSE filled

\* create_clock, the row is inserted and the client told so.
CreateClock(p, clock) ==
  LET row == [clock |-> clock, created |-> now]
  IN /\ up
     /\ Valid(p)
     /\ table[p] = None
     /\ cache' = Invalidated(p)
     /\ table' = [table EXCEPT ![p] = row]
     /\ promised' = [promised EXCEPT ![p] = row]
     /\ filled' = FilledBy(p, clock)
     /\ UNCHANGED <<now, schema, owner, up, cleaner, page>>

\* create_clock, the INSERT fails: the row exists (UNIQUE), or the database is
\* busy or broken.  The client gets an error.
CreateClockFails(p) ==
  /\ up
  /\ Valid(p)
  /\ cache' = Invalidated(p)
  /\ UNCHANGED <<now, table, schema, owner, up, cleaner, page, promised, filled>>

\* SELECT ... WHERE visible ORDER BY creation_time DESC LIMIT n: the sequences
\* it may return (rows of the same second come in any order).
Listed == {p \in Port : table[p] # None /\ table[p].clock.visible}

RecentRows(n) ==
  LET size == IF Cardinality(Listed) < n THEN Cardinality(Listed) ELSE n
  IN {rows \in [1..size -> Listed] :
        /\ \A i, j \in 1..size : i < j =>
             /\ rows[i] # rows[j]
             /\ table[rows[i]].created >= table[rows[j]].created
        /\ \A i \in 1..size, p \in Listed :
             (\A j \in 1..size : rows[j] # p) =>
               table[rows[i]].created >= table[p].created}

\* get_clocks: the answer lists the ports found in the slots once all rows are
\* read, since db_get_recent returns pointers to them.
GetClocks(n) ==
  /\ up
  /\ \E rows \in RecentRows(n) :
       /\ cache' = CacheAfter(rows)
       /\ page' = [rows |-> rows,
                   shown |-> [i \in 1..Len(rows) |->
                                cache'[Hash(rows[i])].port_id]]
  /\ UNCHANGED <<now, table, schema, owner, up, cleaner, promised, filled>>

\* get_clocks, one of the n steps of the SELECT fails, be it the one that would
\* have found no more rows: those before it are cached, the client gets an
\* error.
GetClocksFails(n) ==
  /\ up
  /\ \E rows \in RecentRows(n) : \E k \in 0..Len(rows) :
       k < n /\ cache' = CacheAfter(SubSeq(rows, 1, k))
  /\ UNCHANGED <<now, table, schema, owner, up, cleaner, page, promised, filled>>

-----------------------------------------------------------------------------
(* cleanup.py *)

Expired(p) == table[p] # None /\ table[p].created + Lifetime < now

\* Mutants: rows are deleted a moment early; invisible rows are kept.
AfterCleanupEarly ==
  [p \in Port |-> IF table[p] # None /\ table[p].created + Lifetime <= now
                 THEN None ELSE table[p]]

AfterCleanupVisible ==
  [p \in Port |-> IF Expired(p) /\ table[p].clock.visible
                 THEN None ELSE table[p]]

AfterCleanup == [p \in Port |-> IF Expired(p) THEN None ELSE table[p]]

\* The first round makes an index on the table, and ends the task with an
\* error when there is no table yet; connecting creates a missing file.
CleanupStarts ==
  /\ cleaner = "starting"
  /\ cleaner' = IF schema THEN "running" ELSE "ended"
  /\ table' = IF schema THEN AfterCleanup ELSE table
  /\ owner' = IF owner = None THEN "root" ELSE owner
  /\ UNCHANGED <<now, schema, up, cache, page, promised, filled>>

\* Every further round deletes the rows that are too old.
Cleanup ==
  /\ cleaner = "running"
  /\ table' = AfterCleanup
  /\ UNCHANGED <<now, schema, owner, up, cache, cleaner, page, promised, filled>>

-----------------------------------------------------------------------------
(* The container. *)

\* Mutant: the database file stays root's.
ContainerStartsUnowned ==
  /\ up' = FALSE
  /\ cache' = EmptyCache
  /\ cleaner' = "starting"
  /\ page' = NoPage
  /\ UNCHANGED <<now, schema, owner>>

\* The container starts again (restart: unless-stopped): entrypoint.sh gives
\* the database file to "service" and starts both processes.
ContainerStarts ==
  /\ up' = FALSE
  /\ owner' = IF owner = None THEN None ELSE "service"
  /\ cache' = EmptyCache
  /\ cleaner' = "starting"
  /\ page' = NoPage
  /\ UNCHANGED <<now, schema>>

\* The server ends, by a signal or a crash, and the container with it.
Restart == ContainerStarts /\ UNCHANGED <<table, promised, filled>>

\* db_setup fails for want of permission: main returns.
DbSetupFails == /\ ~up
                /\ owner = "root"
                /\ ContainerStarts
                /\ UNCHANGED <<table, promised, filled>>

\* A row is inserted and the server dies before it can say so.
CrashAfterInsert(p, clock) ==
  /\ up
  /\ Valid(p)
  /\ table[p] = None
  /\ table' = [table EXCEPT ![p] = [clock |-> clock, created |-> now]]
  /\ filled' = FilledBy(p, clock)
  /\ ContainerStarts
  /\ UNCHANGED promised

Tick == /\ now < MaxTime
        /\ now' = now + 1
        /\ UNCHANGED <<table, schema, owner, up, cache, cleaner, page, promised, filled>>

-----------------------------------------------------------------------------
Server == \/ DbSetup
          \/ \E p \in Port : \/ DbGet(p)
                             \/ \E clock \in NewClock : \/ CreateClock(p, clock)
                                                      \/ CrashAfterInsert(p, clock)
                             \/ CreateClockFails(p)
          \/ \E n \in 1..PageSize : GetClocks(n) \/ GetClocksFails(n)

Next == Server \/ CleanupStarts \/ Cleanup \/ DbSetupFails \/ Restart \/ Tick

Spec == Init /\ [][Next]_vars

\* The cleanup task's endless loop runs a round every 50 seconds; a server that
\* was started gets through db_setup, or fails in it.
FairSpec == Spec /\ WF_vars(Cleanup) /\ WF_vars(DbSetup) /\ WF_vars(DbSetupFails)

-----------------------------------------------------------------------------
(* Properties. *)

\* What a db_get of p returns: the slot if it is a hit, else the row.
View(p) == IF Hit(p) THEN cache[Hash(p)].clock
           ELSE IF table[p] = None THEN None ELSE table[p].clock

\* Some clock ever had a full secret and the slot in front of that of p.
Exposed(p) == \E q \in filled : Hash(q) + 1 = Hash(p)

\* What may be read of p instead of a clock: the clock, or, if p is exposed, the
\* clock without its policy.
Agrees(p, read, clock) == \/ read = clock
                          \/ Exposed(p) /\ read = Opened(clock)

\* A valid slot is the right one for its port, and agrees with the row if the
\* row is still there.  Deletions by the cleanup task do not reach the cache;
\* what keeps a row created afterwards from being hidden by the old one is the
\* invalidation in db_set.  The zero behind a full secret (db.c:127, 189) takes
\* no more than the policy, and only from the slot behind.
CacheCoherent ==
  \A s \in Slot : cache[s].valid =>
    LET p == cache[s].port_id
    IN /\ p \in Port
       /\ Valid(p)
       /\ Hash(p) = s
       /\ cache[s].clock \in Clock
       /\ table[p] # None => Agrees(p, cache[s].clock, table[p].clock)

\* A clock whose creation was acknowledged is stored, and is what every reader
\* gets, until it is older than the lifetime: across cache fills and evictions,
\* rounds of the cleanup task and restarts (service/docker-compose.yml:5:
\* "information can be persisted across restarts").  Only the policy may be
\* lost to readers, by the clocks that are exposed.
PromiseKept ==
  \A p \in Port :
    (promised[p] # None /\ now <= promised[p].created + Lifetime) =>
      table[p] = promised[p] /\ Agrees(p, View(p), promised[p].clock)

\* A row is never altered, and never removed before it has expired.
RowsOnlyExpire ==
  [][\A p \in Port : table[p] # None =>
       table'[p] = table[p] \/ (table'[p] = None /\ Expired(p))]_vars

\* The clocks shown are the rows found, as long as no two rows share a slot;
\* in any case each place shows a row found that shares the slot of its own.
RecentExceptCollisions ==
  LET places == 1..Len(page.rows)
  IN /\ Len(page.shown) = Len(page.rows)
     /\ \A i \in places : \E j \in places :
          /\ page.shown[i] = page.rows[j]
          /\ Hash(page.rows[i]) = Hash(page.rows[j])
     /\ (\A i, j \in places : Hash(page.rows[i]) = Hash(page.rows[j]) => i = j)
          => page.shown = page.rows

\* "the most recently created clocks will be displayed on the 'Recent Clocks'
\* panel" (documentation/README.md:85): the clocks shown are the rows found.
RecentClocksShown == page.shown = page.rows

\* "Start cleanup task" (service/entrypoint.sh:8): the task is started and does
\* not end while the server runs.
CleanupTaskRuns == up => cleaner # "ended"

\* The store and its cache are the ClockTable: what a query does to the slots
\* of other clocks shows to no reader, but for the policy of exposed ones.
StoredClocks == [p \in Port |-> IF table[p] = None THEN None
                                ELSE table[p].clock]

Readers == INSTANCE ClockTable WITH stored <- StoredClocks,
                                    view <- [p \in Port |-> View(p)],
                                    exposed <- {p \in Port : Exposed(p)}

IsClockTable == Readers!Spec

\* Whatever the order in which the two processes first touch the volume, the
\* server comes up: in the worst case at the second start of the container.
ServerComesUp == []<>up

\* While the cleanup task keeps running, every expired row is deleted.
ExpiredDeleted ==
  <>[](cleaner = "running") =>
    \A p \in Port : Expired(p) ~> table[p] = None
=============================================================================
