----------------------------- MODULE Acceptance -----------------------------
(***************************************************************************)
(* The transaction that makes this server responsible for a message: the   *)
(* mailbox rows, UIDs, events and quotas of the local recipients, the      *)
(* relay rows of the remote ones and the operation key under which a       *)
(* caller whose answer was lost may ask again.  Accounts are created, get  *)
(* another quota and are disabled between the transactions.                *)
(*                                                                         *)
(* All operations run on the thread that owns the store, so each is one    *)
(* action.  A message is its content, and a content is named by its size.  *)
(* Every error before the commit, a denied sender and a failing disk       *)
(* included, rolls back and is a refusal.                                  *)
(***************************************************************************)
EXTENDS Integers, FiniteSets

CONSTANTS
    Accounts,
    NumAddresses,   \* local receiving addresses, numbered as BTreeSet orders them
    AccountOf,      \* the account of each address
    RelayAddresses, \* addresses elsewhere, that of a failure report among them
    Operations,     \* ingest keys chosen by callers
    Reports,        \* ingest keys of failure reports, "dsn:" and a delivery id
    Plans,          \* what callers ask to accept
    Quotas,
    MaxUid,         \* u32::MAX
    MaxEvent        \* i64::MAX

VARIABLES
    account,     \* account and its INBOX: status, quota, used, uidnext, event
    inbox,       \* mailbox_message joined with its delivery, and blob size
    events,      \* mailbox_event
    message,     \* the accepted plan under each ingest key
    relayed,     \* relay rows
    confirmed,   \* plans that were answered with an acceptance, by key
    unknown      \* keys answered with an unknown outcome, or not at all

tables == <<account, inbox, events, message, relayed>>
vars   == <<tables, confirmed, unknown>>

Keys == Operations \cup Reports

Addresses == 1..NumAddresses

Nobody == "nobody"

Plan == [source : {"smtp", "submission", "import", "dsn"}, owner : Accounts \cup {Nobody},
         local : SUBSET Addresses, remote : SUBSET RelayAddresses, size : Nat]

NoPlan == [source |-> "none", owner |-> Nobody, local |-> {}, remote |-> {}, size |-> 0]

\* A failure report, to a local mailbox or back out.
ReportPlans ==
    {[source |-> "dsn", owner |-> Nobody, local |-> {a}, remote |-> {}, size |-> 1] :
        a \in Addresses}
    \cup {[source |-> "dsn", owner |-> Nobody, local |-> {}, remote |-> {"away"}, size |-> 1]}

AllPlans == Plans \cup ReportPlans

ASSUME AcceptanceAssumption ==
    /\ NumAddresses \in Nat /\ MaxUid \in Nat /\ MaxEvent \in Nat /\ Quotas \subseteq Nat
    /\ AccountOf \in [Addresses -> Accounts]
    /\ Nobody \notin Accounts /\ "away" \in RelayAddresses
    /\ Operations \cap Reports = {}
    /\ \A p \in Plans : /\ p \in Plan /\ p.source # "dsn"
                        /\ p.local # {} \/ p.remote # {}
                        /\ p.source = "smtp" => p.remote = {}
                        /\ p.source = "import" => p.local = {}
                        /\ IF p.source = "submission" THEN p.owner \in Accounts
                                                      ELSE p.owner = Nobody

Account == [status : {"absent", "active", "disabled"}, quota : Quotas \cup {0}, used : Nat,
            uidnext : 1..(MaxUid + 1), event : 0..MaxEvent]
Copy == [account : Accounts, uid : 1..MaxUid, key : Keys, address : Addresses, size : Nat]
Event == [account : Accounts, seq : 1..MaxEvent, uid : 1..MaxUid]

TypeOK ==
    /\ account \in [Accounts -> Account]
    /\ inbox \in SUBSET Copy
    /\ events \in SUBSET Event
    /\ message \in [Keys -> AllPlans \cup {NoPlan}]
    /\ relayed \in SUBSET [key : Keys, recipient : RelayAddresses]
    /\ confirmed \in [Keys -> SUBSET AllPlans]
    /\ unknown \subseteq Keys

Init ==
    /\ account = [a \in Accounts |-> [status |-> "absent", quota |-> 0, used |-> 0,
                                      uidnext |-> 1, event |-> 0]]
    /\ inbox = {}
    /\ events = {}
    /\ message = [k \in Keys |-> NoPlan]
    /\ relayed = {}
    /\ confirmed = [k \in Keys |-> {}]
    /\ unknown = {}

-----------------------------------------------------------------------------
(* Accounts                                                                *)

\* create_account: the login is unique, INBOX starts at UID 1.
CreateAccount(a, quota) ==
    /\ account[a].status = "absent"
    /\ account' = [account EXCEPT ![a] = [status |-> "active", quota |-> quota, used |-> 0,
                                          uidnext |-> 1, event |-> 0]]
    /\ UNCHANGED <<inbox, events, message, relayed, confirmed, unknown>>

\* Mutant: the quota may be set below what the mailbox holds.
SetQuotaFreely(a, quota) ==
    /\ account[a].status # "absent"
    /\ account' = [account EXCEPT ![a].quota = quota]
    /\ UNCHANGED <<inbox, events, message, relayed, confirmed, unknown>>

\* set_account_quota.
SetQuota(a, quota) ==
    /\ account[a].status # "absent"
    /\ quota >= account[a].used
    /\ account' = [account EXCEPT ![a].quota = quota]
    /\ UNCHANGED <<inbox, events, message, relayed, confirmed, unknown>>

\* disable_account: the mail stays.
DisableAccount(a) ==
    /\ account[a].status # "absent"
    /\ account' = [account EXCEPT ![a].status = "disabled"]
    /\ UNCHANGED <<inbox, events, message, relayed, confirmed, unknown>>

-----------------------------------------------------------------------------
(* Local delivery, inside the caller's transaction t                       *)

\* Mutant: the UID after the last one is handed out as well.
TargetPastLast(t, a, size) ==
    /\ t.account[a].status = "active"
    /\ t.account[a].uidnext <= MaxUid + 1
    /\ t.account[a].event # MaxEvent
    /\ t.account[a].used + size <= t.account[a].quota

\* target: the account receives, has a UID left and room for the message.
Target(t, a, size) ==
    /\ t.account[a].status = "active"
    /\ t.account[a].uidnext <= MaxUid
    /\ t.account[a].event # MaxEvent
    /\ t.account[a].used + size <= t.account[a].quota

\* An account's counters after one more message.
Charge(c, size) ==
    [status |-> c.status, quota |-> c.quota, used |-> c.used + size,
     uidnext |-> c.uidnext + 1, event |-> c.event + 1]

\* The rows of one delivery under UID uid.
AddRow(t, key, address, size, uid) ==
    LET a == AccountOf[address]
    IN  [account |-> [t.account EXCEPT ![a] = Charge(@, size)],
         inbox |-> t.inbox \cup {[account |-> a, uid |-> uid, key |-> key,
                                  address |-> address, size |-> size]},
         events |-> t.events \cup {[account |-> a, seq |-> t.account[a].event + 1, uid |-> uid]},
         fits |-> t.fits]

\* Mutant: the UID comes from before the transaction, as if read only once.
DeliverStaleUid(t, key, address, size) ==
    IF t.fits /\ Target(t, AccountOf[address], size)
    THEN AddRow(t, key, address, size, account[AccountOf[address]].uidnext)
    ELSE [t EXCEPT !.fits = FALSE]

\* Mutant: two addresses of one account are charged once.
DeliverChargedOnce(t, key, address, size) ==
    LET a == AccountOf[address]
        again == \E r \in t.inbox : r.key = key /\ r.account = a
        done == AddRow(t, key, address, size, t.account[a].uidnext)
    IN  IF ~(t.fits /\ Target(t, a, size)) THEN [t EXCEPT !.fits = FALSE]
        ELSE IF again THEN [done EXCEPT !.account[a].used = t.account[a].used]
        ELSE done

\* Mutant: a recipient that cannot take the message is passed over.
DeliverSkips(t, key, address, size) ==
    IF Target(t, AccountOf[address], size)
    THEN AddRow(t, key, address, size, t.account[AccountOf[address]].uidnext)
    ELSE t

\* deliver: one recipient, on the counters the recipients before it left.
Deliver(t, key, address, size) ==
    IF t.fits /\ Target(t, AccountOf[address], size)
    THEN AddRow(t, key, address, size, t.account[AccountOf[address]].uidnext)
    ELSE [t EXCEPT !.fits = FALSE]

\* The mailbox changes of plan p, recipient after recipient, in the order of
\* their addresses.
Progress(key, p) ==
    LET begun == [account |-> account, inbox |-> inbox, events |-> events, fits |-> TRUE]
        t[n \in 0..NumAddresses] ==
            IF n = 0 THEN begun
            ELSE IF n \in p.local THEN Deliver(t[n - 1], key, n, p.size)
            ELSE t[n - 1]
    IN  t

Delivered(key, p) == Progress(key, p)[NumAddresses]

-----------------------------------------------------------------------------
(* One acceptance                                                          *)

\* The caller learns that its plan is accepted.
Accepts(key, p) ==
    /\ confirmed' = [confirmed EXCEPT ![key] = @ \cup {p}]
    /\ unknown' = unknown

\* The caller learns that the outcome is open, or its connection just ends.
LeavesOpen(key) ==
    /\ unknown' = unknown \cup {key}
    /\ confirmed' = confirmed

\* A definite error: nothing is recorded, and nothing was changed.
Refuses == UNCHANGED <<confirmed, unknown>>

\* Everything the transaction wrote becomes visible at once.
Commit(key, p) ==
    LET t == Delivered(key, p)
    IN  /\ t.fits
        /\ account' = t.account
        /\ inbox' = t.inbox
        /\ events' = t.events
        /\ message' = [message EXCEPT ![key] = p]
        /\ relayed' = relayed \cup {[key |-> key, recipient |-> r] : r \in p.remote}

\* Mutant: an error of the commit is reported like any other error.
WritesUnknownRefused(key, p) ==
    \/ Commit(key, p) /\ (Accepts(key, p) \/ Refuses)
    \/ UNCHANGED tables /\ Refuses

\* A new key: committed and confirmed; an error while the commit is reported,
\* whichever way it went; or an error before it.
Writes(key, p) ==
    \/ Commit(key, p) /\ (Accepts(key, p) \/ LeavesOpen(key))
    \/ Delivered(key, p).fits /\ UNCHANGED tables /\ LeavesOpen(key)
    \/ UNCHANGED tables /\ Refuses

\* A known key: confirmed again if the request is the stored one.
Replays(key, p, same) ==
    /\ UNCHANGED tables
    /\ (same /\ Accepts(key, p)) \/ Refuses

\* may_send, as far as the account is concerned; it precedes the lookup.
MaySend(p) == p.owner = Nobody \/ account[p.owner].status = "active"

\* Mutant: the replay comparison leaves the local recipients out.
SameAcceptanceLoose(old, p) ==
    old.remote = p.remote /\ old.owner = p.owner /\ old.size = p.size

SameAcceptance(old, p) ==
    old.local = p.local /\ old.remote = p.remote /\ old.owner = p.owner /\ old.size = p.size

SameImport(old, p) ==
    old.source = "import" /\ old.remote = p.remote /\ old.size = p.size

\* accept, accept_submission and accept_relay_submission.
Accept(key, p) ==
    /\ p.source \in {"smtp", "submission"}
    /\ IF ~MaySend(p) THEN UNCHANGED tables /\ Refuses
       ELSE IF message[key] # NoPlan THEN Replays(key, p, SameAcceptance(message[key], p))
       ELSE Writes(key, p)

\* enqueue: the import of mail that is only relayed.
Enqueue(key, p) ==
    /\ p.source = "import"
    /\ IF message[key] # NoPlan THEN Replays(key, p, SameImport(message[key], p))
       ELSE Writes(key, p)

\* notification_commit: a report that exists is the report.
Report(key, p) ==
    IF message[key] # NoPlan THEN UNCHANGED tables /\ Accepts(key, message[key])
    ELSE Writes(key, p)

Next ==
    \/ \E a \in Accounts, q \in Quotas : CreateAccount(a, q) \/ SetQuota(a, q)
    \/ \E a \in Accounts : DisableAccount(a)
    \/ \E k \in Operations, p \in Plans : Accept(k, p) \/ Enqueue(k, p)
    \/ \E k \in Reports, p \in ReportPlans : Report(k, p)

Spec == Init /\ [][Next]_vars

-----------------------------------------------------------------------------
(* Properties                                                              *)

Inbox(a) == {r \in inbox : r.account = a}

\* The stored bytes of a mailbox's copies.
BytesOf(r) == {<<r, i>> : i \in 1..r.size}
Bytes(copies) == UNION {BytesOf(r) : r \in copies}

\* deliver, target and set_account_quota: the counters that check_integrity
\* compares agree with the rows (used bytes with the stored copies and within the
\* quota, event_seq with the events), and a UID names one message of a mailbox
\* for ever and is announced by exactly one event: after any mix of deliveries,
\* reports, quota changes, refusals and unknown commits, also when one message
\* reaches a mailbox under two addresses.
MailboxesSound ==
    /\ TypeOK
    /\ \A a \in Accounts :
           /\ account[a].used = Cardinality(Bytes(Inbox(a)))
           /\ account[a].used <= account[a].quota
           /\ {e.seq : e \in {e \in events : e.account = a}} = 1..account[a].event
           /\ \A r \in Inbox(a) : r.uid < account[a].uidnext
    /\ \A r, s \in inbox : (r.account = s.account /\ r.uid = s.uid) => r = s
    /\ \A r \in inbox :
           Cardinality({e \in events : e.account = r.account /\ e.uid = r.uid}) = 1

\* accept_inner: a key stands for its whole plan.  One copy for every local
\* recipient and one row for every remote one, or no trace at all: one
\* recipient over quota takes the message from all of them.
AllOrNothing ==
    \A k \in Keys :
        /\ {r.address : r \in {r \in inbox : r.key = k}} = message[k].local
        /\ \A r, s \in inbox : (r.key = k /\ s.key = k /\ r.address = s.address) => r = s
        /\ {r.recipient : r \in {r \in relayed : r.key = k}} = message[k].remote

\* accept_inner and enqueue: a caller that was told its plan is accepted finds
\* that very plan stored under its key, at every later time: two different
\* requests under one key are never both confirmed, nor is an import confirmed
\* by a submission that relays to the same recipients.  And no acceptance is
\* visible whose caller was only ever told a definite failure ("Never map this to
\* a definite SMTP 4xx while an accepted message might be visible").
AnswersTrue ==
    \A k \in Keys : /\ confirmed[k] \subseteq {message[k]}
                    /\ message[k] # NoPlan => confirmed[k] # {} \/ k \in unknown

-----------------------------------------------------------------------------
(* The inductive invariant of the proofs                                   *)

\* A mailbox that never held a message.
Fresh(c) == c.used = 0 /\ c.uidnext = 1 /\ c.event = 0

\* What MailboxesSound says of the counters acc, the copies and the events evs,
\* and what it rests on: no event is ahead of its mailbox's UIDs, and an account
\* that does not exist yet holds nothing.
Books(acc, copies, evs) ==
    /\ \A a \in Accounts :
           /\ IsFiniteSet(Bytes({r \in copies : r.account = a}))
           /\ acc[a].used = Cardinality(Bytes({r \in copies : r.account = a}))
           /\ acc[a].used <= acc[a].quota
           /\ acc[a].status = "absent" => Fresh(acc[a])
           /\ {e.seq : e \in {e \in evs : e.account = a}} = 1..acc[a].event
    /\ \A r \in copies : r.uid < acc[r.account].uidnext
    /\ \A e \in evs : e.uid < acc[e.account].uidnext
    /\ \A r, s \in copies : (r.account = s.account /\ r.uid = s.uid) => r = s
    /\ \A r \in copies : \E e \in evs :
           {f \in evs : f.account = r.account /\ f.uid = r.uid} = {e}

\* Callers and reports do not share keys, so an operation's plan is a caller's.
CallersKeys == \A k \in Operations : message[k] \in Plans \cup {NoPlan}

Inv == TypeOK /\ Books(account, inbox, events) /\ AllOrNothing /\ AnswersTrue /\ CallersKeys
=============================================================================
