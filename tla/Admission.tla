----------------------------- MODULE Admission -----------------------------
(***************************************************************************)
(* What the server lets in at once: connections in total and per peer      *)
(* address, administrators, TLS handshakes, DATA transactions, password    *)
(* verifications, authentication attempts per window; and how it shuts     *)
(* down (server/src/lib.rs, serve_until; server/src/auth.rs, AuthService;  *)
(* server/src/worker.rs, StoreWorker).                                     *)
(*                                                                         *)
(* A semaphore is the number of its free permits.  The code gives permits  *)
(* back by dropping their owners: a session's task drops what is in scope  *)
(* when it returns, when a timeout cancels what it awaits and when it is   *)
(* aborted.  The exception is a password verification: it runs on a        *)
(* blocking thread that cannot be cancelled and owns its two permits, so a *)
(* session that is gone leaves a detached job behind.                      *)
(*                                                                         *)
(* Which commands a session may issue when is the subject of Session; here *)
(* an open session may ask for any of the shared resources.                *)
(***************************************************************************)
EXTENDS Rates

CONSTANTS Tasks,         \* session tasks that may exist at a time
          Ips, Admin,    \* where a session comes from: a peer or the local socket
          Accounts,
          Connections, PerIp, Management, Handshakes, Slots,
          Concurrency, Waiting,
          IpLimit, AccountLimit,
          SweepEvery     \* ticks between two sweeps (1 s)

ASSUME AdmissionAssumption ==
    /\ Admin \notin Ips /\ Ips \intersect Accounts = {}
    /\ IsFiniteSet(Tasks)
    /\ {Connections, PerIp, Management, Handshakes, Slots, Concurrency, Waiting,
        SweepEvery} \subseteq Nat
    /\ {IpLimit, AccountLimit} \subseteq Nat \ {0}

VARIABLES session,     \* per task: where it comes from, what it is doing
          free,        \* free permits of each semaphore
          counts,      \* the per-address connection counts
          detached,    \* verifications whose session is gone
          ips, accounts, sinceSweep,   \* Rates
          passed,      \* history: attempts let through in the last Window ticks
          phase,       \* of serve_until
          relay        \* whether the relay task and its attempts run

permits == <<session, free, counts, detached>>
rates == <<ips, accounts, sinceSweep, passed>>
service == <<phase, relay>>
vars == <<permits, rates, service>>

Origins == Ips \union {Admin}
Doing == {"nothing", "open", "handshake", "waiting", "lookup", "verifying", "data"}
Semaphores == {"connections", "management", "handshakes", "ingest", "admission", "active"}

Size == [k \in Semaphores |->
            CASE k = "connections" -> Connections
              [] k = "management"  -> Management
              [] k = "handshakes"  -> Handshakes
              [] k = "ingest"      -> Slots
              [] k = "active"      -> Concurrency
              [] k = "admission"   -> Concurrency + Waiting]

Session == [origin : Origins, doing : Doing]
Nobody == [origin |-> Admin, doing |-> "nothing"]
Keys == Ips \union Accounts

TypeOK ==
    /\ session \in [Tasks -> Session]
    /\ free \in [Semaphores -> Nat]
    /\ \A k \in Semaphores : free[k] <= Size[k]
    /\ counts \in [Ips -> Nat]
    /\ detached \in Nat
    /\ ips \in [Ips -> Entry(IpLimit)]
    /\ accounts \in [Accounts -> Entry(AccountLimit)]
    /\ sinceSweep \in 0 .. SweepEvery
    /\ passed \in [Keys -> [0 .. Window - 1 -> Nat]]
    /\ phase \in {"running", "draining", "aborting", "joined", "closing", "stopped"}
    /\ relay \in BOOLEAN

Init ==
    /\ session = [t \in Tasks |-> Nobody]
    /\ free = Size
    /\ counts = [i \in Ips |-> 0]
    /\ detached = 0
    /\ ips = [i \in Ips |-> Unknown]
    /\ accounts = [a \in Accounts |-> Unknown]
    /\ sinceSweep = 0
    /\ passed = [k \in Keys |-> [n \in 0 .. Window - 1 |-> 0]]
    /\ phase = "running"
    /\ relay = TRUE

Take(held) == [k \in Semaphores |-> IF k \in held THEN free[k] - 1 ELSE free[k]]
Give(held) == [k \in Semaphores |-> IF k \in held THEN free[k] + 1 ELSE free[k]]

Becomes(t, doing) == session' = [session EXCEPT ![t].doing = doing]

\* The connection's lease or the administrator's permit.
Lease(origin) == IF origin = Admin THEN {"management"} ELSE {"connections"}

\* permits(): one to be admitted, one to run.
Verification == {"admission", "active"}

\* A mistake the model must notice: the permits stay with the session's future
\* and are dropped with it while the job runs on.
NoJobPermits == {}

\* What the job of a verification owns, moved into its closure.
JobPermits == Verification

\* The permits in scope of what a session is doing, dropped with it; those of
\* a verification belong to its job.
Scope(doing) ==
    CASE doing = "handshake" -> {"handshakes"}
      [] doing = "waiting"   -> {"admission"}
      [] doing = "lookup"    -> Verification
      [] doing = "verifying" -> Verification \ JobPermits
      [] doing = "data"      -> {"ingest"}
      [] OTHER               -> {}

----------------------------------------------------------------------------
(* serve_until: a connection is accepted or turned away at once; one that is
   turned away for its address drops the permit it was given. *)

\* A mistake the model must notice: the count is compared as if already made.
ConnectOverIp(t, ip) ==
    /\ phase = "running" /\ session[t].doing = "nothing"
    /\ free["connections"] > 0
    /\ counts[ip] <= PerIp
    /\ session' = [session EXCEPT ![t] = [origin |-> ip, doing |-> "open"]]
    /\ counts' = [counts EXCEPT ![ip] = @ + 1]
    /\ free' = Take({"connections"})
    /\ UNCHANGED <<detached, rates, service>>

Connect(t, ip) ==
    /\ phase = "running" /\ session[t].doing = "nothing"
    /\ free["connections"] > 0
    /\ counts[ip] < PerIp
    /\ session' = [session EXCEPT ![t] = [origin |-> ip, doing |-> "open"]]
    /\ counts' = [counts EXCEPT ![ip] = @ + 1]
    /\ free' = Take({"connections"})
    /\ UNCHANGED <<detached, rates, service>>

Manage(t) ==
    /\ phase = "running" /\ session[t].doing = "nothing"
    /\ free["management"] > 0
    /\ session' = [session EXCEPT ![t] = [origin |-> Admin, doing |-> "open"]]
    /\ free' = Take({"management"})
    /\ UNCHANGED <<counts, detached, rates, service>>

\* A mistake the model must notice: the count outlives the connection.
CloseKeepsCount(t) ==
    /\ session[t].doing # "nothing"
    /\ session' = [session EXCEPT ![t] = Nobody]
    /\ free' = Give(Lease(session[t].origin) \union Scope(session[t].doing))
    /\ detached' = IF session[t].doing = "verifying" THEN detached + 1 ELSE detached
    /\ UNCHANGED <<counts, rates, service>>

\* A session ends wherever it is: it returns, fails, runs into a deadline, or is
\* aborted once the shutdown's grace is over.
Close(t) ==
    LET origin == session[t].origin
    IN  /\ session[t].doing # "nothing"
        /\ session' = [session EXCEPT ![t] = Nobody]
        /\ free' = Give(Lease(origin) \union Scope(session[t].doing))
        /\ counts' = IF origin = Admin THEN counts
                     ELSE [counts EXCEPT ![origin] = @ - 1]
        /\ detached' = IF session[t].doing = "verifying" THEN detached + 1 ELSE detached
        /\ UNCHANGED <<rates, service>>

----------------------------------------------------------------------------
(* TLS handshakes and DATA: refused at once when no permit is free. *)

Handshake(t) ==
    /\ session[t].doing = "open" /\ session[t].origin # Admin
    /\ free["handshakes"] > 0
    /\ free' = Take({"handshakes"})
    /\ Becomes(t, "handshake")
    /\ UNCHANGED <<counts, detached, rates, service>>

BeginData(t) ==
    /\ session[t].doing = "open" /\ session[t].origin # Admin
    /\ free["ingest"] > 0
    /\ free' = Take({"ingest"})
    /\ Becomes(t, "data")
    /\ UNCHANGED <<counts, detached, rates, service>>

\* The handshake is over, or the message is committed or given up, and the
\* session goes on.
Proceed(t) ==
    /\ session[t].doing \in {"handshake", "data"}
    /\ free' = Give(Scope(session[t].doing))
    /\ Becomes(t, "open")
    /\ UNCHANGED <<counts, detached, rates, service>>

----------------------------------------------------------------------------
(* AuthService. *)

NoRoom(i, a, ip, account) == Full(i, ip) \/ Full(a, account)

\* A mistake the model must notice: a full table makes room by forgetting a key.
CheckEvicts(ip, account) ==
    LET Evict(table, k) ==
            IF Full(table, k)
            THEN [table EXCEPT ![CHOOSE j \in Known(table) : TRUE] = Unknown]
            ELSE table
        due == sinceSweep >= SweepEvery
        i   == Evict(IF due THEN Sweep(ips) ELSE ips, ip)
        a   == Evict(IF due THEN Sweep(accounts) ELSE accounts, account)
        i1  == Attempt(i, ip, IpLimit)
        a1  == Attempt(a, account, AccountLimit)
    IN  [ips |-> i1, accounts |-> a1,
         sinceSweep |-> IF due THEN 0 ELSE sinceSweep,
         pass |-> i1[ip].attempts <= IpLimit /\ a1[account].attempts <= AccountLimit]

\* Rates::check: what an attempt leaves of the tables, and whether it passes.
Check(ip, account) ==
    LET due  == sinceSweep >= SweepEvery
        i    == IF due THEN Sweep(ips) ELSE ips
        a    == IF due THEN Sweep(accounts) ELSE accounts
        i1   == Attempt(i, ip, IpLimit)
        a1   == Attempt(a, account, AccountLimit)
        room == ~NoRoom(i, a, ip, account)
    IN  [ips |-> IF room THEN i1 ELSE i,
         accounts |-> IF room THEN a1 ELSE a,
         sinceSweep |-> IF due THEN 0 ELSE sinceSweep,
         pass |-> /\ room
                  /\ i1[ip].attempts <= IpLimit
                  /\ a1[account].attempts <= AccountLimit]

\* permits(): a place in the queue, or the attempt fails at once.
Queue(t) ==
    IF free["admission"] > 0
    THEN Becomes(t, "waiting") /\ free' = Take({"admission"})
    ELSE UNCHANGED <<session, free>>

\* An AUTH attempt passes the counters and queues for a verification.
Authenticate(t, account) ==
    LET ip == session[t].origin
        c  == Check(ip, account)
    IN  /\ session[t].doing = "open" /\ ip # Admin
        /\ ips' = c.ips /\ accounts' = c.accounts /\ sinceSweep' = c.sinceSweep
        /\ passed' = IF c.pass
                     THEN [k \in Keys |-> IF k \in {ip, account}
                                          THEN [passed[k] EXCEPT ![0] = @ + 1]
                                          ELSE passed[k]]
                     ELSE passed
        /\ IF c.pass THEN Queue(t) ELSE UNCHANGED <<session, free>>
        /\ UNCHANGED <<counts, detached, service>>

\* An administrator asks for a new credential: queued like an attempt.
Generate(t) ==
    /\ session[t].doing = "open" /\ session[t].origin = Admin
    /\ Queue(t)
    /\ UNCHANGED <<counts, detached, rates, service>>

\* The second permit.  An attempt looks its credential up, a new credential is
\* made at once.
Activate(t) ==
    /\ session[t].doing = "waiting"
    /\ free["active"] > 0
    /\ free' = Take({"active"})
    /\ Becomes(t, IF session[t].origin = Admin THEN "verifying" ELSE "lookup")
    /\ UNCHANGED <<counts, detached, rates, service>>

\* The record is there, or the dummy takes its place: the job gets the permits.
Verify(t) ==
    /\ session[t].doing = "lookup"
    /\ Becomes(t, "verifying")
    /\ UNCHANGED <<free, counts, detached, rates, service>>

\* The job ends while its session waits for it.
Verified(t) ==
    /\ session[t].doing = "verifying"
    /\ free' = Give(Verification)
    /\ Becomes(t, "open")
    /\ UNCHANGED <<counts, detached, rates, service>>

\* A mistake the model must notice: a queued attempt gives back two permits.
AbandonGivesBoth(t) ==
    /\ session[t].doing \in {"waiting", "lookup", "verifying"}
    /\ session[t].origin # Admin \/ session[t].doing = "waiting"
    /\ free' = Give(Verification)
    /\ detached' = IF session[t].doing = "verifying" THEN detached + 1 ELSE detached
    /\ Becomes(t, "open")
    /\ UNCHANGED <<counts, rates, service>>

\* The attempt is given up and its session answered 454: the queue's timeout
\* passed, the lookup failed, or the session's deadline cancelled it.
Abandon(t) ==
    /\ session[t].doing \in {"waiting", "lookup", "verifying"}
    /\ session[t].origin # Admin \/ session[t].doing = "waiting"
    /\ free' = Give(Scope(session[t].doing))
    /\ detached' = IF session[t].doing = "verifying" THEN detached + 1 ELSE detached
    /\ Becomes(t, "open")
    /\ UNCHANGED <<counts, rates, service>>

\* A job whose session is gone ends.
DetachedEnds ==
    /\ detached > 0
    /\ detached' = detached - 1
    /\ free' = Give(JobPermits)
    /\ UNCHANGED <<session, counts, rates, service>>

Tick ==
    /\ ips' = Older(ips) /\ accounts' = Older(accounts)
    /\ sinceSweep' = IF sinceSweep < SweepEvery THEN sinceSweep + 1 ELSE sinceSweep
    /\ passed' = [k \in Keys |-> [n \in 0 .. Window - 1 |->
                                    IF n = 0 THEN 0 ELSE passed[k][n - 1]]]
    /\ UNCHANGED <<permits, service>>

----------------------------------------------------------------------------
(* Shutdown: requested, or a listener failed. *)

\* The listeners go and the relay task is told.
Stop ==
    /\ phase = "running" /\ phase' = "draining"
    /\ UNCHANGED <<permits, rates, relay>>

\* A mistake the model must notice: the sessions that are left are not aborted.
GraceEndsQuietly ==
    /\ phase = "draining"
    /\ UNCHANGED vars

\* The grace is over: the sessions that are left are aborted, which is Close.
GraceEnds ==
    /\ phase = "draining" /\ phase' = "aborting"
    /\ UNCHANGED <<permits, rates, relay>>

Joined ==
    /\ phase \in {"draining", "aborting"} /\ phase' = "joined"
    /\ \A t \in Tasks : session[t].doing = "nothing"
    /\ UNCHANGED <<permits, rates, relay>>

\* A mistake the model must notice: the relay task is told once it has ended.
RelayEndsUntold ==
    /\ phase = "closing" /\ relay /\ relay' = FALSE
    /\ UNCHANGED <<permits, rates, phase>>

\* The relay task leaves its loop and waits for its attempts, and aborts those
\* that outlast a grace of their own.
RelayEnds ==
    /\ phase # "running" /\ relay /\ relay' = FALSE
    /\ UNCHANGED <<permits, rates, phase>>

\* The relay task is awaited, serve_until's own StoreClient dropped and the
\* worker's thread joined.
ShutWorker ==
    /\ phase = "joined" /\ ~relay /\ phase' = "closing"
    /\ UNCHANGED <<permits, rates, relay>>

\* Sessions and the relay task have clones of the StoreClient.
Clients == relay \/ \E t \in Tasks : session[t].doing # "nothing"

\* The thread ends when the last StoreClient is gone.
WorkerEnds ==
    /\ phase = "closing" /\ ~Clients /\ phase' = "stopped"
    /\ UNCHANGED <<permits, rates, relay>>

Next ==
    \/ \E t \in Tasks :
        \/ \E ip \in Ips : Connect(t, ip)
        \/ Manage(t) \/ Close(t)
        \/ Handshake(t) \/ BeginData(t) \/ Proceed(t)
        \/ \E account \in Accounts : Authenticate(t, account)
        \/ Generate(t) \/ Activate(t) \/ Verify(t) \/ Verified(t) \/ Abandon(t)
    \/ DetachedEnds \/ Tick
    \/ Stop \/ GraceEnds \/ Joined \/ RelayEnds \/ ShutWorker \/ WorkerEnds

Spec == Init /\ [][Next]_vars

\* The grace passes, an aborted task is dropped at its next await, and what is
\* awaited is noticed.  Nothing is assumed of a session that is not aborted,
\* whose client may keep it busy, nor of a verification's job.
Fairness ==
    /\ \A t \in Tasks : WF_vars(phase = "aborting" /\ Close(t))
    /\ WF_vars(GraceEnds) /\ WF_vars(Joined) /\ WF_vars(RelayEnds)
    /\ WF_vars(ShutWorker) /\ WF_vars(WorkerEnds)

FairSpec == Spec /\ Fairness

----------------------------------------------------------------------------
Doers(activities) == {t \in Tasks : session[t].doing \in activities}
From(origin) == {t \in Doers(Doing \ {"nothing"}) : session[t].origin = origin}

\* No limit is ever exceeded, whatever is cancelled when: connections in total
\* and per address, administrators, handshakes, DATA transactions, attempts in
\* the queue, and above all password verifications, of which a session that
\* gave up leaves one running on (serve_until, AuthService::permits).
Bounded ==
    /\ Cardinality(UNION {From(i) : i \in Ips}) <= Connections
    /\ \A i \in Ips : Cardinality(From(i)) <= PerIp
    /\ Cardinality(From(Admin)) <= Management
    /\ Cardinality(Doers({"handshake"})) <= Handshakes
    /\ Cardinality(Doers({"data"})) <= Slots
    /\ Cardinality(Doers({"lookup", "verifying"})) + detached <= Concurrency
    /\ Cardinality(Doers({"waiting", "lookup", "verifying"})) + detached
           <= Concurrency + Waiting

\* Nothing leaks: when the last session and the last job are gone every permit
\* is free and no address is counted, after any history of timeouts,
\* cancellations and aborts (ConnectionLease::drop, AuthService::permits).
AllReturned ==
    detached = 0 /\ Doers({"nothing"}) = Tasks =>
        free = Size /\ \A i \in Ips : counts[i] = 0

\* The tables of attempts never outgrow their capacity: Rates::check refuses a
\* new key when either is full.
TablesBounded ==
    Cardinality(Known(ips)) <= Capacity /\ Cardinality(Known(accounts)) <= Capacity

\* Attempts let through in the last window.
PassedWithin(k) == PassedIn(passed[k], Window)

\* A stretch of a window's length meets two fixed windows at most, and not the
\* attempt that began the first of them: fewer than twice the limit are let
\* through, though entries are swept, expire between sweeps and compete for
\* room in a full table (Rates::check).
RateBound ==
    /\ \A i \in Ips : PassedWithin(i) < 2 * IpLimit
    /\ \A a \in Accounts : PassedWithin(a) < 2 * AccountLimit

\* A shutdown comes to its end.  It waits for the store's thread, which waits
\* for every holder of a StoreClient: neither a client that keeps its session
\* busy nor a verification that never ends may hold it up (the end of
\* serve_until, StoreWorker::shutdown).
ShutdownEnds == phase = "draining" ~> phase = "stopped"

----------------------------------------------------------------------------
(* The inductive invariant of the proofs *)

\* What a session holds, its running job's permits included.
Held(r) ==
    IF r.doing = "nothing" THEN {}
    ELSE Lease(r.origin) \union
         (IF r.doing = "verifying" THEN Verification ELSE Scope(r.doing))

Holders(k) == {t \in Tasks : k \in Held(session[t])}

Jobs(k) == IF k \in Verification THEN detached ELSE 0

\* Permits free, held by sessions and held by detached jobs make up the whole.
Tally == \A k \in Semaphores : free[k] + Cardinality(Holders(k)) + Jobs(k) = Size[k]

CountsMatch == \A i \in Ips : counts[i] = Cardinality(From(i)) /\ counts[i] <= PerIp

TablesFinite == IsFiniteSet(Known(ips)) /\ IsFiniteSet(Known(accounts))

\* Everything the limits rest on: every permit and every count has its holder,
\* over timeouts, cancellations and aborts.
Inv ==
    /\ TypeOK
    /\ Tally /\ CountsMatch
    /\ TablesFinite /\ TablesBounded

\* RateBound rests on this: the counters know of every attempt they let through.
RatesPaced ==
    /\ \A i \in Ips : Paced(passed[i], ips[i], IpLimit)
    /\ \A a \in Accounts : Paced(passed[a], accounts[a], AccountLimit)
=============================================================================
