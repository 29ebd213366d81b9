----------------------------- MODULE Revocation -----------------------------
(***************************************************************************)
(* Changes of authority against sessions that were granted it before.      *)
(* The store thread changes the tables and then bumps a watch channel; a   *)
(* session compares the channel with what it has seen, asks the store      *)
(* whether its principal still holds, and drops that question whenever a   *)
(* command arrives first.  Password verification runs between two store    *)
(* calls, and an acceptance may be dispatched by a session that is gone    *)
(* when it runs.                                                           *)
(***************************************************************************)
EXTENDS Naturals

CONSTANTS
    Accounts,
    Credentials,
    AccountOf,   \* credential.account_id
    ScopeOf,     \* credential.scope
    Sessions,
    MaxEpoch     \* bound on auth_epoch

ASSUME RevocationAssumption ==
    /\ AccountOf \in [Credentials -> Accounts]
    /\ ScopeOf \in [Credentials -> {"mail", "read_only"}]
    /\ MaxEpoch \in Nat \ {0}

VARIABLES
    active,      \* accounts with status 'active'
    epoch,       \* account.auth_epoch
    sendAs,      \* accounts whose sender address has send_enabled = 1
    issued,      \* rows of credential
    revoked,     \* those with revoked_at_ms
    version,     \* the watch channel's version
    publishing,  \* accounts changed by the running call, not yet published
    sess,        \* the sessions
    lost,        \* history: sessions whose account changed after their lookup
    unreported   \* history: accounts whose change was committed with an error

tables == <<active, epoch, sendAs, issued, revoked>>
vars   == <<tables, version, publishing, sess, lost, unreported>>

-----------------------------------------------------------------------------
\* "granted": finish_authentication has passed, the reply is being written.
\* "orphan": the session is gone, its acceptance is still in the channel.
Step == {"closed", "open", "verifying", "granted", "ready", "mail", "data",
         "accepting", "orphan"}

Principal == [credential : Credentials, epoch : 1..MaxEpoch]

NoPrincipal == [credential |-> "none"]

\* check: the question to the store, and its answer until the session reads it.
Session == [step : Step,
            principal : Principal \cup {NoPrincipal},
            seen : Nat,
            pending : BOOLEAN,
            check : {"none", "sent", "valid", "stale"},
            result : {"none", "accepted", "refused"}]

Closed == [step |-> "closed", principal |-> NoPrincipal, seen |-> 0, pending |-> FALSE,
           check |-> "none", result |-> "none"]

TypeOK ==
    /\ active \subseteq Accounts /\ sendAs \subseteq Accounts
    /\ epoch \in [Accounts -> 1..MaxEpoch]
    /\ issued \subseteq Credentials /\ revoked \subseteq issued
    /\ version \in Nat
    /\ publishing \subseteq Accounts
    /\ sess \in [Sessions -> Session]
    /\ lost \subseteq Sessions
    /\ unreported \subseteq Accounts

Init ==
    /\ active = Accounts
    /\ epoch = [a \in Accounts |-> 1]
    /\ sendAs = {}
    /\ issued = {} /\ revoked = {}
    /\ version = 0
    /\ publishing = {}
    /\ sess = [s \in Sessions |-> Closed]
    /\ lost = {}
    /\ unreported = {}

\* The store's thread is between two calls.
StoreFree == publishing = {}

-----------------------------------------------------------------------------
(* What the tables say of a principal                                      *)

Current(p) ==
    /\ p.credential \in issued \ revoked
    /\ AccountOf[p.credential] \in active
    /\ p.epoch = epoch[AccountOf[p.credential]]

\* Mutant: the epoch is left to the session's own checks.
MaySendByFlags(p) ==
    /\ ScopeOf[p.credential] = "mail"
    /\ p.credential \in issued \ revoked
    /\ AccountOf[p.credential] \in active \cap sendAs

MaySend(p) ==
    /\ ScopeOf[p.credential] = "mail"
    /\ Current(p)
    /\ AccountOf[p.credential] \in sendAs

Holds(s, a) ==
    /\ sess[s].principal # NoPrincipal
    /\ AccountOf[sess[s].principal.credential] = a

-----------------------------------------------------------------------------
(* Administration, one store call each                                     *)

\* change_authority: the call goes on to publish, unless the commit returned an
\* error after all.
Changed(a) ==
    \/ publishing' = {a} /\ unreported' = unreported
    \/ publishing' = {} /\ unreported' = unreported \cup {a}

Raises(a) ==
    /\ StoreFree
    /\ epoch[a] < MaxEpoch
    /\ epoch' = [epoch EXCEPT ![a] = @ + 1]
    /\ lost' = lost \cup {s \in Sessions : Holds(s, a)}
    /\ Changed(a)
    /\ UNCHANGED <<version, sess>>

CreateCredential(c) ==
    /\ StoreFree
    /\ c \notin issued
    /\ AccountOf[c] \in active
    /\ issued' = issued \cup {c}
    /\ UNCHANGED <<active, epoch, sendAs, revoked, version, publishing, sess, lost, unreported>>

RevokeCredential(c) ==
    /\ c \in issued
    /\ revoked' = revoked \cup {c}
    /\ Raises(AccountOf[c])
    /\ UNCHANGED <<active, sendAs, issued>>

DisableAccount(a) ==
    /\ active' = active \ {a}
    /\ revoked' = revoked \cup {c \in issued : AccountOf[c] = a}
    /\ Raises(a)
    /\ UNCHANGED <<sendAs, issued>>

SetSendAs(a, enabled) ==
    /\ a \in active
    /\ sendAs' = IF enabled THEN sendAs \cup {a} ELSE sendAs \ {a}
    /\ Raises(a)
    /\ UNCHANGED <<active, issued, revoked>>

Publish ==
    /\ publishing # {}
    /\ version' = version + 1
    /\ publishing' = {}
    /\ UNCHANGED <<tables, sess, lost, unreported>>

-----------------------------------------------------------------------------
(* A session                                                               *)

Becomes(s, r) ==
    /\ sess' = [sess EXCEPT ![s] = r]
    /\ UNCHANGED <<tables, version, publishing, lost, unreported>>

\* The session subscribes before it reads a command.
Connect(s) ==
    /\ sess[s].step = "closed"
    /\ sess' = [sess EXCEPT ![s] = [Closed EXCEPT !.step = "open", !.seen = version]]
    /\ lost' = lost \ {s}
    /\ UNCHANGED <<tables, version, publishing, unreported>>

\* credential_lookup: what the tables grant now is carried along.
Lookup(s, c) ==
    /\ StoreFree
    /\ sess[s].step = "open"
    /\ c \in issued \ revoked
    /\ AccountOf[c] \in active
    /\ Becomes(s, [sess[s] EXCEPT !.step = "verifying",
                                  !.principal = [credential |-> c,
                                                 epoch |-> epoch[AccountOf[c]]]])

\* A wrong password, a timeout, or an error of the store.
Denied(s) ==
    /\ sess[s].step = "verifying"
    /\ sess' = [sess EXCEPT ![s].step = "open", ![s].principal = NoPrincipal]
    /\ lost' = lost \ {s}
    /\ UNCHANGED <<tables, version, publishing, unreported>>

\* Mutant: the credential was found valid before the password was verified.
FinishAuthenticationUnchecked(s) ==
    /\ StoreFree
    /\ sess[s].step = "verifying"
    /\ Becomes(s, [sess[s] EXCEPT !.step = "granted"])

FinishAuthentication(s) ==
    /\ StoreFree
    /\ sess[s].step = "verifying"
    /\ Current(sess[s].principal)
    /\ Becomes(s, [sess[s] EXCEPT !.step = "granted"])

Granted(s) ==
    /\ sess[s].step = "granted"
    /\ Becomes(s, [sess[s] EXCEPT !.step = "ready"])

-----------------------------------------------------------------------------
(* Revocations::wait, one branch of the session's select                   *)

Waits(s) == sess[s].step \in {"ready", "mail", "data"}

\* Mutant: only an unread version is asked about, not one acknowledged before.
AskUnread(s) ==
    /\ Waits(s)
    /\ sess[s].check = "none"
    /\ sess[s].seen # version
    /\ Becomes(s, [sess[s] EXCEPT !.seen = version, !.pending = TRUE, !.check = "sent"])

Ask(s) ==
    /\ Waits(s)
    /\ sess[s].check = "none"
    /\ sess[s].pending \/ sess[s].seen # version
    /\ Becomes(s, [sess[s] EXCEPT !.seen = IF sess[s].pending THEN @ ELSE version,
                                  !.pending = TRUE,
                                  !.check = "sent"])

\* principal_current; an error of the store counts as no.
PrincipalCurrent(s) ==
    /\ StoreFree
    /\ Waits(s)
    /\ sess[s].check = "sent"
    /\ \E answer \in {"valid", "stale"} :
          /\ answer = "valid" => Current(sess[s].principal)
          /\ Becomes(s, [sess[s] EXCEPT !.check = answer])

\* 421 and the end of the session, or the change is acknowledged.
Answered(s) ==
    /\ Waits(s)
    /\ \/ sess[s].check = "valid"
          /\ Becomes(s, [sess[s] EXCEPT !.check = "none", !.pending = FALSE])
       \/ sess[s].check = "stale" /\ Becomes(s, Closed)

\* Mutant: the acknowledgement goes with the cancelled branch.
InterruptedForgets(s, step) == [sess[s] EXCEPT !.step = step, !.check = "none",
                                               !.pending = FALSE]

\* The other branch of the select is taken; the question is dropped.
Interrupted(s, step) == [sess[s] EXCEPT !.step = step, !.check = "none"]

-----------------------------------------------------------------------------
(* Commands                                                                *)

\* A command that does not look at the principal.
Command(s) ==
    /\ Waits(s)
    /\ sess[s].step # "data"
    /\ \E step \in {"ready", sess[s].step} : Becomes(s, Interrupted(s, step))

\* MAIL resets the transaction and then asks authorize_sender.
Mail(s) ==
    /\ StoreFree
    /\ sess[s].step \in {"ready", "mail"}
    /\ Becomes(s, Interrupted(s, IF MaySend(sess[s].principal) THEN "mail" ELSE "ready"))

Data(s) ==
    /\ sess[s].step = "mail"
    /\ Becomes(s, [Interrupted(s, "data") EXCEPT !.result = "none"])

\* The end of DATA: the acceptance goes into the store's channel.
Dispatch(s) ==
    /\ sess[s].step = "data"
    /\ Becomes(s, Interrupted(s, "accepting"))

\* accept_inner looks at the principal again, in its transaction.
Accept(s) ==
    /\ StoreFree
    /\ sess[s].step \in {"accepting", "orphan"}
    /\ \E result \in {"accepted", "refused"} :
          /\ result = "accepted" => MaySend(sess[s].principal)
          /\ Becomes(s, [sess[s] EXCEPT !.result = result,
                                        !.step = IF @ = "orphan" THEN "closed" ELSE "ready"])

\* The connection ends or times out; a dispatched acceptance is not recalled.
Leave(s) ==
    /\ sess[s].step \notin {"closed", "orphan"}
    /\ Becomes(s, IF sess[s].step = "accepting"
                  THEN [sess[s] EXCEPT !.step = "orphan"]
                  ELSE Closed)

-----------------------------------------------------------------------------
\* The process dies: the tables stay, everything else starts anew.
Crash ==
    /\ version' = 0
    /\ publishing' = {}
    /\ sess' = [s \in Sessions |-> Closed]
    /\ lost' = {}
    /\ UNCHANGED <<tables, unreported>>

Administration ==
    \/ \E c \in Credentials : CreateCredential(c) \/ RevokeCredential(c)
    \/ \E a \in Accounts : DisableAccount(a) \/ (\E e \in BOOLEAN : SetSendAs(a, e))

Authentication(s) ==
    \/ \E c \in Credentials : Lookup(s, c)
    \/ Denied(s) \/ FinishAuthentication(s) \/ Granted(s)

Wait(s) == Ask(s) \/ PrincipalCurrent(s) \/ Answered(s)

Input(s) == Command(s) \/ Mail(s) \/ Data(s) \/ Dispatch(s)

Next ==
    \/ Administration
    \/ Publish
    \/ \E s \in Sessions :
          Connect(s) \/ Authentication(s) \/ Wait(s) \/ Input(s) \/ Accept(s) \/ Leave(s)
    \/ Crash

Spec == Init /\ [][Next]_vars

\* Store calls return, authenticated sessions are polled, and every client
\* falls silent at last: while commands keep arriving faster than the store
\* answers, the select may take the other branch each time.
Fairness ==
    /\ WF_vars(Publish)
    /\ \A s \in Sessions : WF_vars(Granted(s)) /\ WF_vars(Wait(s)) /\ WF_vars(Accept(s))
    /\ <>[][\A s \in Sessions : ~Input(s) /\ ~Connect(s)]_vars

LiveSpec == Spec /\ Fairness

-----------------------------------------------------------------------------
(* Properties                                                              *)

\* Revocations: a session whose principal no longer holds has a question
\* outstanding or a notice unread, however commands and changes interleave.
\* Excepted is an account whose change was committed under an error.
NoticeKept ==
    \A s \in Sessions : \A a \in Accounts \ (publishing \cup unreported) :
        Waits(s) /\ Holds(s, a) /\ ~Current(sess[s].principal) =>
            sess[s].pending \/ sess[s].seen # version

\* docs/12-m2-identity.md: a change of authority ends all old sessions of the
\* account, so each has a notice of it.
OldSessionsNotified ==
    \A s \in Sessions : \A a \in Accounts \ publishing :
        Waits(s) /\ Holds(s, a) /\ ~Current(sess[s].principal) =>
            sess[s].pending \/ sess[s].seen # version

\* finish_authentication: a change of authority committed while the password
\* is being verified denies the login.
NoLateGrant ==
    [][\A s \in Sessions :
          s \in lost /\ sess[s].step = "verifying" => sess'[s].step # "granted"]_vars

\* accept_inner: no message is accepted for a session after a change of its
\* account, not even if a later change restores what the first one took.
NoLateAcceptance ==
    [][\A s \in Sessions :
          s \in lost /\ sess'[s].result = "accepted" => sess[s].result = "accepted"]_vars

\* Revocations::wait: the session of an account that changed ends once its
\* client pauses.
LostSessionsEnd ==
    \A s \in Sessions :
        s \in lost /\ Waits(s) ~> sess[s].step = "closed" \/ unreported # {}
=============================================================================
