------------------------------ MODULE Session ------------------------------
(***************************************************************************)
(* One SMTP connection: the command loop of smtp_session around the        *)
(* protocol crate's Session, on a receiver or a submission listener.       *)
(*                                                                         *)
(* A client may pipeline: commands are read from a buffer that may hold    *)
(* more of them than have been executed.  What a command says is open; of  *)
(* plaintext input only the amount in the buffer and in the kernel is      *)
(* kept, since STARTTLS must discard it.                                   *)
(***************************************************************************)
EXTENDS Naturals, FiniteSets

CONSTANTS
    Locals,          \* recipients in local_domains
    Remotes,         \* all others
    MaxRecipients,   \* limits.recipients_per_message
    Principals,      \* accounts that may authenticate
    Senders,
    SenderRights,    \* pairs <<account, sender>> that authorize_sender allows
    MaxAttempts,     \* failed AUTH commands that end the session
    MaxPipeline,     \* bound on unread plaintext commands
    MaxMail          \* bound on MAIL commands

ASSUME SessionAssumption ==
    /\ MaxRecipients \in Nat \ {0}
    /\ SenderRights \subseteq Principals \X Senders
    /\ MaxAttempts \in Nat \ {0}
    /\ MaxPipeline \in Nat /\ MaxMail \in Nat

VARIABLES
    conn,       \* what the listener and the configuration fix
    phase,      \* "command", "data" or "closed"
    buffer,     \* plaintext commands in the BufReader
    kernel,     \* plaintext commands not read yet
    encrypted,
    greeting,   \* Session.greeting and extended
    tx,         \* Session.transaction
    principal,
    attempts,   \* auth_attempts
    envelope,   \* the envelope whose DATA is being received
    mails,      \* history: MAIL commands read
    accepted    \* history: which of them led to an accepted message

sessionVars == <<conn, phase, buffer, kernel, encrypted, greeting, tx, principal, attempts,
                 envelope, mails, accepted>>

-----------------------------------------------------------------------------
Conn == [role : {"receiver", "starttls", "implicit"}, tls : BOOLEAN, relay : BOOLEAN]

\* A listener for submission exists only with TLS and authentication, a relay
\* only beside such listeners.
Configured(c) == (c.role # "receiver" \/ c.relay) => c.tls

\* "clear" tells that the command came in plaintext.
Greeting == [kind : {"none", "helo", "ehlo"}, clear : BOOLEAN]
NoGreeting == [kind |-> "none", clear |-> FALSE]

\* "mail" and the numbers in rcpts tell which MAIL command each part followed.
Tx == [mail : 1..MaxMail, sender : Senders \cup {"null"}, clear : BOOLEAN,
       rcpts : [Locals \cup Remotes -> 0..MaxMail]]
NoTx == [mail |-> 0]

Rcpts(t) == {r \in Locals \cup Remotes : t.rcpts[r] # 0}

SessionTypeOK ==
    /\ conn \in Conn
    /\ phase \in {"command", "data", "closed"}
    /\ buffer \in 0..MaxPipeline /\ kernel \in 0..MaxPipeline
    /\ encrypted \in BOOLEAN
    /\ greeting \in Greeting
    /\ tx \in Tx \cup {NoTx}
    /\ tx # NoTx => Cardinality(Rcpts(tx)) <= MaxRecipients
    /\ principal \in Principals \cup {"none"}
    /\ attempts \in 0..MaxAttempts
    /\ attempts = MaxAttempts => phase = "closed"
    /\ envelope \in Tx \cup {NoTx}
    /\ mails \in 0..MaxMail
    /\ accepted \subseteq 1..MaxMail

SessionInit ==
    /\ conn \in {c \in Conn : Configured(c)}
    /\ phase = "command"
    /\ buffer = 0 /\ kernel = 0
    /\ encrypted = (conn.role = "implicit")
    /\ greeting = NoGreeting
    /\ tx = NoTx
    /\ principal = "none"
    /\ attempts = 0
    /\ envelope = NoTx
    /\ mails = 0
    /\ accepted = {}

Submission == conn.role # "receiver"

\* Commands that only STARTTLS, or only AUTH, makes available.
MustUpgrade == Submission /\ ~encrypted
MustAuthenticate == Submission /\ principal = "none"

-----------------------------------------------------------------------------
(* Input                                                                   *)

\* The client sends another plaintext command.
Send ==
    /\ phase = "command"
    /\ ~encrypted
    /\ buffer + kernel < MaxPipeline
    /\ kernel' = kernel + 1
    /\ UNCHANGED <<conn, phase, buffer, encrypted, greeting, tx, principal, attempts, envelope,
                   mails, accepted>>

\* fill_buf on an empty buffer: any amount of what has arrived.
Fill ==
    /\ phase = "command"
    /\ ~encrypted
    /\ buffer = 0
    /\ \E n \in 1..kernel : buffer' = n /\ kernel' = kernel - n
    /\ UNCHANGED <<conn, phase, encrypted, greeting, tx, principal, attempts, envelope, mails,
                   accepted>>

\* A complete line: the next plaintext one, or any that TLS delivers.
Ready == phase = "command" /\ (encrypted \/ buffer > 0)

\* What the buffer holds behind that line.
Rest == IF buffer > 0 THEN buffer - 1 ELSE 0

Read == Ready /\ buffer' = Rest /\ UNCHANGED <<conn, kernel>>

-----------------------------------------------------------------------------
(* Commands                                                                *)

Hello(kind) ==
    /\ Read
    /\ greeting' = [kind |-> kind, clear |-> ~encrypted]
    /\ tx' = NoTx
    /\ UNCHANGED <<phase, encrypted, principal, attempts, envelope, mails, accepted>>

Reset ==
    /\ Read
    /\ tx' = NoTx
    /\ UNCHANGED <<phase, encrypted, greeting, principal, attempts, envelope, mails, accepted>>

\* NOOP, HELP, VRFY, what is not supported, and lines that do not parse.
Other ==
    /\ Read
    /\ UNCHANGED <<phase, encrypted, greeting, tx, principal, attempts, envelope, mails, accepted>>

\* QUIT, or a line that is too long.
Quit ==
    /\ Read
    /\ phase' = "closed"
    /\ UNCHANGED <<encrypted, greeting, tx, principal, attempts, envelope, mails, accepted>>

\* Mutant: a MAIL command that does not parse is like any other such line.
MailMalformedIgnored ==
    /\ Read
    /\ mails < MaxMail
    /\ mails' = mails + 1
    /\ UNCHANGED <<phase, encrypted, greeting, tx, principal, attempts, envelope, accepted>>

\* A MAIL command that does not parse ends the transaction before it.
MailMalformed ==
    /\ Read
    /\ mails < MaxMail
    /\ mails' = mails + 1
    /\ tx' = NoTx
    /\ UNCHANGED <<phase, encrypted, greeting, principal, attempts, envelope, accepted>>

\* authorize_sender, on a submission listener.
SenderAllowed(sender) == Submission => <<principal, sender>> \in SenderRights

\* MAIL is refused before or by Session::apply, or opens a transaction.  "plain"
\* without parameters, "fits" within max_message_bytes.
MailCommand(sender, plain, fits) ==
    /\ Read
    /\ mails < MaxMail
    /\ mails' = mails + 1
    /\ tx' = IF MustUpgrade THEN tx
             ELSE IF /\ ~MustAuthenticate
                     /\ SenderAllowed(sender)
                     /\ greeting.kind # "none"
                     /\ greeting.kind = "ehlo" \/ plain
                     /\ fits
             THEN [mail |-> mails + 1, sender |-> sender, clear |-> ~encrypted,
                   rcpts |-> [r \in Locals \cup Remotes |-> 0]]
             ELSE NoTx
    /\ UNCHANGED <<phase, encrypted, greeting, principal, attempts, envelope, accepted>>

\* Mutant: a relay accepts what a receiver is given for other domains.
RoutedAnywhere(r) == r \in Remotes => conn.relay

\* What RCPT may name: any existing local mailbox, and a remote one only from
\* an authenticated client of a relay.
Routed(r) == r \in Remotes => conn.relay /\ principal # "none" /\ Submission /\ encrypted

\* RCPT adds the recipient, unless it is unknown, there already, or too many.
Rcpt(r) ==
    /\ Read
    /\ ~MustUpgrade /\ ~MustAuthenticate
    /\ tx # NoTx
    /\ Routed(r)
    /\ r \notin Rcpts(tx)
    /\ Cardinality(Rcpts(tx)) < MaxRecipients
    /\ tx' = [tx EXCEPT !.rcpts[r] = mails]
    /\ UNCHANGED <<phase, encrypted, greeting, principal, attempts, envelope, mails, accepted>>

\* DATA takes the envelope, also when there is no permit or no stage for it.
DataCommand ==
    /\ Read
    /\ ~MustUpgrade /\ ~MustAuthenticate
    /\ tx # NoTx
    /\ Rcpts(tx) # {}
    /\ tx' = NoTx
    /\ \/ phase' = "data" /\ envelope' = tx
       \/ phase' = phase /\ envelope' = envelope
    /\ UNCHANGED <<encrypted, greeting, principal, attempts, mails, accepted>>

\* The message is accepted, or refused with the connection kept.
EndOfData ==
    /\ phase = "data"
    /\ phase' = "command"
    /\ envelope' = NoTx
    /\ accepted' \in {accepted, accepted \cup {envelope.mail}}
    /\ UNCHANGED <<conn, buffer, kernel, encrypted, greeting, tx, principal, attempts, mails>>

Exhausted(n) == n >= MaxAttempts

\* AUTH, where it is not refused at once: granted, failed, or given up.
Auth ==
    /\ Read
    /\ Submission /\ encrypted
    /\ principal = "none"
    /\ greeting.kind = "ehlo"
    /\ tx = NoTx
    /\ \/ principal' \in Principals /\ attempts' = attempts /\ phase' = phase
       \/ /\ principal' = principal
          /\ attempts' = attempts + 1
          /\ phase' = IF Exhausted(attempts + 1) THEN "closed" ELSE phase
    /\ UNCHANGED <<encrypted, greeting, tx, envelope, mails, accepted>>

\* Mutant: the session goes on from where it was before the handshake.
UpgradedKeeps == UNCHANGED <<greeting, tx, principal>>

\* A new Session, and no principal.
Upgraded == greeting' = NoGreeting /\ tx' = NoTx /\ principal' = "none"

DiscardReadBuffer == buffer' = 0

\* STARTTLS, where it is not refused.  Plaintext that comes after the buffer is
\* no handshake.
StartTls ==
    /\ Ready
    /\ DiscardReadBuffer
    /\ greeting.kind = "ehlo"
    /\ conn.tls /\ ~encrypted
    /\ IF kernel = 0
       THEN encrypted' = TRUE /\ Upgraded /\ phase' = phase
       ELSE phase' = "closed" /\ UNCHANGED <<encrypted, greeting, tx, principal>>
    /\ UNCHANGED <<conn, kernel, attempts, envelope, mails, accepted>>

\* End of input, a deadline, a failed write, a revoked principal, or a DATA
\* error after which the connection is not kept.
EndSession ==
    /\ phase # "closed"
    /\ phase' = "closed"
    /\ UNCHANGED <<conn, buffer, kernel, encrypted, greeting, tx, principal, attempts, envelope,
                   mails, accepted>>

-----------------------------------------------------------------------------
SessionNext ==
    \/ Send \/ Fill
    \/ Hello("ehlo") \/ Hello("helo")
    \/ Reset \/ Other \/ Quit
    \/ MailMalformed
    \/ \E s \in Senders \cup {"null"}, plain, fits \in BOOLEAN : MailCommand(s, plain, fits)
    \/ \E r \in Locals \cup Remotes : Rcpt(r)
    \/ DataCommand \/ EndOfData
    \/ Auth \/ StartTls
    \/ EndSession

SessionSpec == SessionInit /\ [][SessionNext]_sessionVars

-----------------------------------------------------------------------------
(* Properties                                                              *)

Envelopes == {tx, envelope} \ {NoTx}

\* StartTls in smtp_session: no greeting, transaction or buffered command of
\* the plaintext phase has an effect in the encrypted one.
NothingCarried ==
    encrypted => buffer = 0 /\ ~greeting.clear /\ \A e \in Envelopes : ~e.clear

\* Session::apply and the resets in smtp_session: a pipelining client that did
\* not wait for the reply to MAIL never has recipients attached to an earlier
\* sender; an envelope is that of the last MAIL read, whatever became of it.
EnvelopeFresh ==
    \A e \in Envelopes : /\ e.mail = mails
                         /\ \A r \in Rcpts(e) : e.rcpts[r] = e.mail

\* smtp_session: whatever the order of EHLO, STARTTLS, AUTH and MAIL, an
\* envelope on a submission listener is an authenticated client's own, sent
\* encrypted, and one that leaves this server is of that kind.
EnvelopeAuthorised ==
    \A e \in Envelopes :
        Submission \/ Rcpts(e) \cap Remotes # {} =>
            encrypted /\ <<principal, e.sender>> \in SenderRights

\* transaction.take in Session::apply: one MAIL leads to one message at most,
\* also when DATA is repeated.
AcceptedOnce == \A e \in Envelopes : e.mail \notin accepted
=============================================================================
