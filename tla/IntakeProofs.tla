--------------------------- MODULE IntakeProofs ----------------------------
(***************************************************************************)
(* Proofs about a message on its way in: the commands of the session that  *)
(* brings it (Session) and the files that carry it until the store refers  *)
(* to it (MessageStore).                                                   *)
(***************************************************************************)
EXTENDS Session, MessageStore, FiniteSetTheorems, TLAPS

----------------------------------------------------------------------------
(***************************************************************************)
(* Session: what NothingCarried, EnvelopeFresh, EnvelopeAuthorised and     *)
(* AcceptedOnce say of an envelope is inductive together with the fact     *)
(* that there is one envelope at a time, which is a transaction while      *)
(* commands are read and DATA's otherwise.                                 *)
(***************************************************************************)

\* What an envelope may rely on.
Sound(e) ==
    /\ e.mail = mails /\ \A r \in Rcpts(e) : e.rcpts[r] = e.mail
    /\ encrypted => ~e.clear
    /\ Submission \/ Rcpts(e) \cap Remotes # {} =>
           encrypted /\ <<principal, e.sender>> \in SenderRights
    /\ e.mail \notin accepted

OneEnvelope ==
    /\ envelope # NoTx => tx = NoTx /\ phase # "command"
    /\ phase = "data" => envelope # NoTx

SessionInv ==
    /\ SessionTypeOK
    /\ encrypted => buffer = 0 /\ ~greeting.clear
    /\ OneEnvelope
    /\ tx # NoTx => Sound(tx) /\ IsFiniteSet(Rcpts(tx))
    /\ envelope # NoTx => Sound(envelope)
    /\ accepted \subseteq 1..mails

\* The invariant gives the properties.
LEMMA InvEnough == SessionInv => NothingCarried /\ EnvelopeFresh /\ EnvelopeAuthorised /\ AcceptedOnce
BY DEF SessionInv, Sound, Envelopes, NothingCarried, EnvelopeFresh, EnvelopeAuthorised, AcceptedOnce

\* A transaction is told from none.
LEMMA TxIsSome == NoTx \notin Tx
<1>1. \A t \in Tx : t.mail # 0
  BY DEF Tx
<1>2. NoTx.mail = 0
  BY DEF NoTx
<1>3. QED
  BY <1>1, <1>2

\* A connection starts with no envelope.
LEMMA SessionInitInv == SessionInit => SessionInv
<1> SUFFICES ASSUME SessionInit
             PROVE  SessionInv
  OBVIOUS
<1>1. SessionTypeOK
  BY SessionAssumption DEF SessionInit, SessionTypeOK, NoGreeting, Greeting, Conn
<1>2. QED
  BY <1>1 DEF SessionInit, SessionInv, OneEnvelope, NoGreeting

\* While commands are read DATA has no envelope.
LEMMA CommandRead ==
    ASSUME SessionInv, Ready
    PROVE  /\ phase = "command" /\ envelope = NoTx
           /\ attempts \in 0..MaxAttempts /\ attempts # MaxAttempts
           /\ Rest \in 0..MaxPipeline /\ (encrypted => Rest = 0)
<1>1. phase = "command" /\ buffer \in 0..MaxPipeline
  BY DEF SessionInv, SessionTypeOK, Ready
<1>2. Rest \in 0..MaxPipeline /\ (encrypted => Rest = 0)
  BY <1>1, SessionAssumption DEF Rest, SessionInv
<1>3. QED
  BY <1>1, <1>2 DEF SessionInv, SessionTypeOK, OneEnvelope

\* A step that keeps or drops the transaction and touches nothing that Sound
\* looks at.
LEMMA Quiet ==
    ASSUME SessionInv, UNCHANGED <<conn, encrypted, principal, envelope, mails, accepted>>,
           tx' \in {tx, NoTx}, envelope # NoTx => phase' # "command",
           phase' = "data" => phase = "data",
           buffer' \in 0..MaxPipeline, kernel' \in 0..MaxPipeline,
           encrypted => buffer' = 0 /\ ~greeting'.clear,
           greeting' \in Greeting, phase' \in {"command", "data", "closed"},
           attempts' \in 0..MaxAttempts, attempts' = MaxAttempts => phase' = "closed"
    PROVE  SessionInv'
<1>1. SessionTypeOK'
  BY DEF SessionInv, SessionTypeOK
<1>2. OneEnvelope'
  BY DEF SessionInv, OneEnvelope
<1>3. (tx # NoTx => Sound(tx) /\ IsFiniteSet(Rcpts(tx)))'
  BY DEF SessionInv, Sound, Submission
<1>4. (envelope # NoTx => Sound(envelope))'
  BY DEF SessionInv, Sound, Submission
<1>5. QED
  BY <1>1, <1>2, <1>3, <1>4, ZenonT(40) DEF SessionInv

----------------------------------------------------------------------------
(* One lemma per kind of step *)

\* Plaintext arrives and is read.
LEMMA ReadingPreserves ==
    ASSUME SessionInv, Send \/ Fill
    PROVE  SessionInv'
<1>1. /\ buffer \in 0..MaxPipeline /\ kernel \in 0..MaxPipeline /\ phase = "command" /\ ~encrypted
      /\ attempts \in 0..MaxAttempts /\ attempts # MaxAttempts /\ greeting \in Greeting
      /\ envelope = NoTx
  BY DEF SessionInv, SessionTypeOK, OneEnvelope, Send, Fill
<1>2. buffer' \in 0..MaxPipeline /\ kernel' \in 0..MaxPipeline
  BY <1>1, SessionAssumption DEF Send, Fill
<1>3. UNCHANGED <<conn, phase, encrypted, greeting, tx, principal, attempts, envelope, mails, accepted>>
  BY DEF Send, Fill
<1>4. QED
  BY <1>1, <1>2, <1>3, Quiet, ZenonT(40)

\* EHLO, HELO, RSET, QUIT and the commands without effect.
LEMMA CommandPreserves ==
    ASSUME SessionInv, Hello("ehlo") \/ Hello("helo") \/ Reset \/ Other \/ Quit
    PROVE  SessionInv'
<1>1. Ready /\ buffer' = Rest /\ UNCHANGED <<conn, kernel>>
  BY ZenonT(40) DEF Hello, Reset, Other, Quit, Read
<1>2. /\ phase = "command" /\ envelope = NoTx
      /\ attempts \in 0..MaxAttempts /\ attempts # MaxAttempts
      /\ buffer' \in 0..MaxPipeline /\ (encrypted => buffer' = 0)
      /\ kernel' \in 0..MaxPipeline
  BY <1>1, CommandRead DEF SessionInv, SessionTypeOK
<1>3. greeting \in Greeting /\ encrypted \in BOOLEAN /\ (encrypted => ~greeting.clear)
  BY DEF SessionInv, SessionTypeOK
<1>4. greeting' \in Greeting /\ (encrypted => ~greeting'.clear)
  <2>1. greeting' = greeting \/ \E kind \in {"helo", "ehlo"} :
                                    greeting' = [kind |-> kind, clear |-> ~encrypted]
    BY DEF Hello, Reset, Other, Quit
  <2>2. CASE greeting' = greeting
    BY <1>3, <2>2
  <2>3. ASSUME NEW kind \in {"helo", "ehlo"}, greeting' = [kind |-> kind, clear |-> ~encrypted]
        PROVE  greeting' \in Greeting /\ (encrypted => ~greeting'.clear)
    <3>1. (~encrypted) \in BOOLEAN
      BY <1>3
    <3>2. greeting' \in Greeting
      BY <2>3, <3>1 DEF Greeting
    <3>3. greeting'.clear = ~encrypted
      BY <2>3
    <3>4. QED
      BY <3>2, <3>3, ZenonT(40)
  <2>4. QED
    BY <2>1, <2>2, <2>3, ZenonT(40)
<1>5. /\ UNCHANGED <<encrypted, principal, attempts, envelope, mails, accepted>>
      /\ tx' \in {tx, NoTx} /\ phase' \in {phase, "closed"}
  BY ZenonT(40) DEF Hello, Reset, Other, Quit
<1>6. QED
  BY <1>1, <1>2, <1>4, <1>5, Quiet, ZenonT(40)

\* The connection ends.
LEMMA EndSessionPreserves ==
    ASSUME SessionInv, EndSession
    PROVE  SessionInv'
<1>1. /\ UNCHANGED <<conn, buffer, kernel, encrypted, greeting, tx, principal, attempts, envelope,
                     mails, accepted>>
      /\ phase' = "closed"
  BY DEF EndSession
<1>2. QED
  BY <1>1, Quiet DEF SessionInv, SessionTypeOK

\* What a MAIL that opens no transaction leaves.
LEMMA NoMail ==
    ASSUME SessionInv, Read, tx' = NoTx, mails < MaxMail, mails' = mails + 1,
           UNCHANGED <<phase, encrypted, greeting, principal, attempts, envelope, accepted>>
    PROVE  SessionInv'
<1>1. /\ phase = "command" /\ envelope = NoTx
      /\ buffer' \in 0..MaxPipeline /\ (encrypted => buffer' = 0)
      /\ UNCHANGED <<conn, kernel>>
  BY CommandRead DEF Read
<1>2. mails' \in 0..MaxMail /\ accepted \subseteq 1..mails'
  BY SessionAssumption DEF SessionInv, SessionTypeOK
<1>3. SessionTypeOK'
  BY <1>1, <1>2 DEF SessionInv, SessionTypeOK
<1>4. OneEnvelope'
  BY <1>1 DEF OneEnvelope
<1>5. QED
  BY <1>1, <1>2, <1>3, <1>4, ZenonT(40) DEF SessionInv

\* MAIL, well formed or not.  A client that must upgrade first has no
\* transaction to lose.
LEMMA MailPreserves ==
    ASSUME SessionInv, NEW s \in Senders \cup {"null"}, NEW plain \in BOOLEAN, NEW fits \in BOOLEAN,
           MailCommand(s, plain, fits) \/ MailMalformed
    PROVE  SessionInv'
<1> DEFINE new == [mail |-> mails + 1, sender |-> s, clear |-> ~encrypted,
                   rcpts |-> [r \in Locals \cup Remotes |-> 0]]
<1>1. /\ Read /\ mails < MaxMail /\ mails' = mails + 1
      /\ UNCHANGED <<phase, encrypted, greeting, principal, attempts, envelope, accepted>>
  BY ZenonT(40) DEF MailCommand, MailMalformed
<1>2. MustUpgrade => tx = NoTx
  BY DEF SessionInv, Sound, MustUpgrade
<1>3. CASE tx' = NoTx
  BY <1>1, <1>3, NoMail, ZenonT(40)
<1>4. CASE tx' # NoTx
  <2>1. tx' = new /\ ~MustUpgrade /\ SenderAllowed(s)
    BY <1>2, <1>4, ZenonT(40) DEF MailCommand, MailMalformed
  <2>2. mails \in 0..MaxMail /\ encrypted \in BOOLEAN /\ MaxMail \in Nat
    BY SessionAssumption, ZenonT(40) DEF SessionInv, SessionTypeOK
  <2>3. new \in Tx
    BY <1>1, <2>2 DEF Tx
  <2>4. Rcpts(new) = {}
    BY ZenonT(40) DEF Rcpts
  <2>5. IsFiniteSet(Rcpts(new)) /\ Cardinality(Rcpts(new)) <= MaxRecipients
    BY <2>4, FS_EmptySet, SessionAssumption
  <2>6. /\ phase = "command" /\ envelope = NoTx
        /\ buffer' \in 0..MaxPipeline /\ (encrypted => buffer' = 0)
        /\ UNCHANGED <<conn, kernel>>
    BY <1>1, CommandRead DEF Read
  <2>7. mails' \in 0..MaxMail /\ accepted' \subseteq 1..mails' /\ mails + 1 \notin accepted
    BY <1>1, <2>2 DEF SessionInv
  <2>8. SessionTypeOK'
    BY <1>1, <2>1, <2>3, <2>5, <2>6, <2>7, ZenonT(40) DEF SessionInv, SessionTypeOK
  <2>9. new.mail = mails + 1 /\ new.sender = s /\ new.clear = ~encrypted
    OBVIOUS
  <2> HIDE DEF new
  <2>10. Submission => encrypted /\ <<principal, s>> \in SenderRights
    BY <2>1 DEF MustUpgrade, SenderAllowed
  <2>11. Sound(tx)'
    BY <1>1, <2>1, <2>4, <2>6, <2>7, <2>9, <2>10, ZenonT(40) DEF Sound, Submission
  <2>12. OneEnvelope'
    BY <1>1, <2>6 DEF OneEnvelope
  <2>13. QED
    BY <1>1, <2>1, <2>5, <2>6, <2>7, <2>8, <2>11, <2>12, ZenonT(40) DEF SessionInv
<1>5. QED
  BY <1>3, <1>4, ZenonT(40)

\* RCPT.
LEMMA RcptPreserves ==
    ASSUME SessionInv, NEW r \in Locals \cup Remotes, Rcpt(r)
    PROVE  SessionInv'
<1>1. /\ Read /\ tx # NoTx /\ Routed(r) /\ r \notin Rcpts(tx)
      /\ Cardinality(Rcpts(tx)) < MaxRecipients
      /\ tx' = [tx EXCEPT !.rcpts[r] = mails]
      /\ UNCHANGED <<phase, encrypted, greeting, principal, attempts, envelope, mails, accepted>>
  BY DEF Rcpt
<1>2. /\ phase = "command" /\ envelope = NoTx
      /\ buffer' \in 0..MaxPipeline /\ (encrypted => buffer' = 0)
      /\ UNCHANGED <<conn, kernel>>
  BY <1>1, CommandRead, ZenonT(40) DEF Read
<1>3. tx \in Tx /\ Sound(tx) /\ IsFiniteSet(Rcpts(tx))
  BY <1>1, ZenonT(40) DEF SessionInv, SessionTypeOK
<1>4. mails \in 1..MaxMail /\ tx.mail = mails
  BY <1>3 DEF Sound, Tx
<1>5. /\ tx' \in Tx /\ tx'.mail = tx.mail /\ tx'.sender = tx.sender /\ tx'.clear = tx.clear
      /\ tx'.rcpts = [tx.rcpts EXCEPT ![r] = mails]
  BY <1>1, <1>3, <1>4 DEF Tx
<1>6. tx.rcpts \in [Locals \cup Remotes -> 0..MaxMail]
  BY <1>3 DEF Tx
<1>7. Rcpts(tx') = Rcpts(tx) \cup {r}
  BY <1>4, <1>5, <1>6 DEF Rcpts
<1>8. IsFiniteSet(Rcpts(tx')) /\ Cardinality(Rcpts(tx')) = Cardinality(Rcpts(tx)) + 1
  BY <1>1, <1>3, <1>7, FS_AddElement
<1>9. Cardinality(Rcpts(tx')) <= MaxRecipients
  BY <1>1, <1>3, <1>8, FS_CardinalityType, SessionAssumption
<1>10. SessionTypeOK'
  BY <1>1, <1>2, <1>5, <1>9, ZenonT(40) DEF SessionInv, SessionTypeOK
<1>11. \A x \in Rcpts(tx') : tx'.rcpts[x] = tx'.mail
  BY <1>3, <1>4, <1>5, <1>6, <1>7, ZenonT(40) DEF Sound, Rcpts
<1>12. Submission \/ Rcpts(tx') \cap Remotes # {} =>
           encrypted /\ <<principal, tx.sender>> \in SenderRights
  BY <1>1, <1>3, <1>7, ZenonT(40) DEF Sound, Routed
<1>13. Sound(tx)'
  BY <1>1, <1>2, <1>3, <1>5, <1>11, <1>12 DEF Sound, Submission
<1>14. tx' # NoTx /\ OneEnvelope'
  BY <1>1, <1>2, <1>5, TxIsSome DEF OneEnvelope
<1>15. QED
  BY <1>1, <1>2, <1>8, <1>10, <1>13, <1>14, ZenonT(40) DEF SessionInv

\* DATA: the envelope is taken.
LEMMA DataPreserves ==
    ASSUME SessionInv, DataCommand
    PROVE  SessionInv'
<1>1. /\ Read /\ tx # NoTx /\ tx' = NoTx
      /\ \/ phase' = "data" /\ envelope' = tx
         \/ phase' = phase /\ envelope' = envelope
      /\ UNCHANGED <<encrypted, greeting, principal, attempts, mails, accepted>>
  BY DEF DataCommand
<1>2. /\ phase = "command" /\ envelope = NoTx /\ attempts # MaxAttempts
      /\ buffer' \in 0..MaxPipeline /\ (encrypted => buffer' = 0)
      /\ UNCHANGED <<conn, kernel>>
  BY <1>1, CommandRead DEF Read
<1>3. SessionTypeOK'
  BY <1>1, <1>2, ZenonT(40) DEF SessionInv, SessionTypeOK
<1>4. (envelope # NoTx => Sound(envelope))'
  BY <1>1, <1>2, ZenonT(40) DEF SessionInv, Sound, Submission
<1>5. OneEnvelope'
  BY <1>1, <1>2, ZenonT(40) DEF OneEnvelope
<1>6. QED
  BY <1>1, <1>2, <1>3, <1>4, <1>5, ZenonT(40) DEF SessionInv

\* The end of DATA: the envelope is gone, its MAIL perhaps accepted.
LEMMA EndOfDataPreserves ==
    ASSUME SessionInv, EndOfData
    PROVE  SessionInv'
<1>1. /\ phase = "data" /\ phase' = "command" /\ envelope' = NoTx
      /\ accepted' \in {accepted, accepted \cup {envelope.mail}}
      /\ UNCHANGED <<conn, buffer, kernel, encrypted, greeting, tx, principal, attempts, mails>>
  BY ZenonT(40) DEF EndOfData
<1>2. envelope \in Tx /\ envelope.mail = mails /\ tx = NoTx
  BY <1>1, ZenonT(40) DEF SessionInv, SessionTypeOK, OneEnvelope, Sound
<1>3. mails \in 1..MaxMail
  BY <1>2, ZenonT(40) DEF Tx
<1>4. accepted' \subseteq 1..mails' /\ accepted' \subseteq 1..MaxMail
  BY <1>1, <1>2, <1>3, SessionAssumption DEF SessionInv, SessionTypeOK
<1>5. SessionTypeOK'
  BY <1>1, <1>2, <1>4, ZenonT(40) DEF SessionInv, SessionTypeOK
<1>6. OneEnvelope'
  BY <1>1, ZenonT(40) DEF OneEnvelope
<1>7. QED
  BY <1>1, <1>2, <1>4, <1>5, <1>6, ZenonT(40) DEF SessionInv

\* AUTH happens outside a transaction.
LEMMA AuthPreserves ==
    ASSUME SessionInv, Auth
    PROVE  SessionInv'
<1>1. /\ Read /\ tx = NoTx
      /\ \/ principal' \in Principals /\ attempts' = attempts /\ phase' = phase
         \/ /\ principal' = principal /\ attempts' = attempts + 1
            /\ phase' = IF Exhausted(attempts + 1) THEN "closed" ELSE phase
      /\ UNCHANGED <<encrypted, greeting, tx, envelope, mails, accepted>>
  BY DEF Auth
<1>2. /\ phase = "command" /\ envelope = NoTx
      /\ attempts \in 0..MaxAttempts /\ attempts # MaxAttempts
      /\ buffer' \in 0..MaxPipeline /\ (encrypted => buffer' = 0)
      /\ UNCHANGED <<conn, kernel>>
  BY <1>1, CommandRead, ZenonT(40) DEF Read
<1>3. /\ attempts' \in 0..MaxAttempts /\ (attempts' = MaxAttempts => phase' = "closed")
      /\ phase' \in {"command", "closed"}
  BY <1>1, <1>2, SessionAssumption DEF Exhausted
<1>4. principal' \in Principals \cup {"none"}
  BY <1>1, ZenonT(40) DEF SessionInv, SessionTypeOK
<1>5. SessionTypeOK'
  BY <1>1, <1>2, <1>3, <1>4, ZenonT(40) DEF SessionInv, SessionTypeOK
<1>6. OneEnvelope'
  BY <1>1, <1>2, <1>3, ZenonT(40) DEF OneEnvelope
<1>7. QED
  BY <1>1, <1>2, <1>5, <1>6, ZenonT(40) DEF SessionInv

\* STARTTLS: nothing of the plaintext phase is left, or the session is.
LEMMA StartTlsPreserves ==
    ASSUME SessionInv, StartTls
    PROVE  SessionInv'
<1>1. /\ Ready /\ buffer' = 0 /\ UNCHANGED <<conn, kernel, attempts, envelope, mails, accepted>>
  BY DEF StartTls, DiscardReadBuffer
<1>2. /\ phase = "command" /\ envelope = NoTx
      /\ attempts \in 0..MaxAttempts /\ attempts # MaxAttempts
      /\ 0 \in 0..MaxPipeline
  BY <1>1, CommandRead, SessionAssumption
<1>3. CASE kernel = 0
  <2>1. /\ encrypted' = TRUE /\ phase' = phase
        /\ greeting' = NoGreeting /\ tx' = NoTx /\ principal' = "none"
    BY <1>3 DEF StartTls, Upgraded
  <2>2. NoGreeting \in Greeting /\ ~NoGreeting.clear
    BY ZenonT(40) DEF NoGreeting, Greeting
  <2>3. SessionTypeOK'
    BY <1>1, <1>2, <2>1, <2>2, ZenonT(40) DEF SessionInv, SessionTypeOK
  <2>4. OneEnvelope'
    BY <1>1, <1>2, <2>1, ZenonT(40) DEF OneEnvelope
  <2>5. QED
    BY <1>1, <1>2, <2>1, <2>2, <2>3, <2>4, ZenonT(40) DEF SessionInv
<1>4. CASE kernel # 0
  <2>1. phase' = "closed" /\ UNCHANGED <<encrypted, greeting, tx, principal>>
    BY <1>4, ZenonT(40) DEF StartTls
  <2>2. greeting \in Greeting /\ kernel \in 0..MaxPipeline /\ (encrypted => ~greeting.clear)
    BY DEF SessionInv, SessionTypeOK
  <2>3. QED
    BY <1>1, <1>2, <2>1, <2>2, Quiet, ZenonT(40)
<1>5. QED
  BY <1>3, <1>4

----------------------------------------------------------------------------
(* The theorems *)

\* Every command, in any order and however far pipelined, keeps the invariant.
LEMMA SessionNextInv == SessionInv /\ [SessionNext]_sessionVars => SessionInv'
<1> SUFFICES ASSUME SessionInv, [SessionNext]_sessionVars
             PROVE  SessionInv'
  OBVIOUS
<1>1. CASE Send \/ Fill
  BY <1>1, ReadingPreserves
<1>2. CASE Hello("ehlo") \/ Hello("helo") \/ Reset \/ Other \/ Quit
  BY <1>2, CommandPreserves
<1>3. CASE MailMalformed
  BY <1>3, MailPreserves, ZenonT(40)
<1>4. ASSUME NEW s \in Senders \cup {"null"}, NEW plain \in BOOLEAN, NEW fits \in BOOLEAN,
             MailCommand(s, plain, fits)
      PROVE  SessionInv'
  BY <1>4, MailPreserves
<1>5. ASSUME NEW r \in Locals \cup Remotes, Rcpt(r)
      PROVE  SessionInv'
  BY <1>5, RcptPreserves
<1>6. CASE DataCommand \/ EndOfData
  BY <1>6, DataPreserves, EndOfDataPreserves, ZenonT(40)
<1>7. CASE Auth \/ StartTls
  BY <1>7, AuthPreserves, StartTlsPreserves
<1>8. CASE EndSession
  BY <1>8, EndSessionPreserves, ZenonT(40)
<1>9. CASE UNCHANGED sessionVars
  <2>1. UNCHANGED <<conn, phase, buffer, kernel, encrypted, greeting, tx, principal, attempts,
                    envelope, mails, accepted>>
    BY <1>9 DEF sessionVars
  <2>2. QED
    BY <2>1, ZenonT(40) DEF SessionInv, SessionTypeOK, OneEnvelope, Sound, Submission
<1>10. QED
  BY <1>1, <1>2, <1>3, <1>4, <1>5, <1>6, <1>7, <1>8, <1>9, ZenonT(40) DEF SessionNext

\* The invariant holds throughout a session.
LEMMA SessionInvariance == SessionSpec => []SessionInv
BY SessionInitInv, SessionNextInv, PTL DEF SessionSpec

\* STARTTLS: nothing said in plaintext, executed or pipelined, has an effect
\* after the handshake, for any amount of pipelining.
THEOREM NothingCarriedOver == SessionSpec => []NothingCarried
BY SessionInvariance, InvEnough, PTL

\* Session::apply: recipients are never attached to an earlier sender.
THEOREM EnvelopesFresh == SessionSpec => []EnvelopeFresh
BY SessionInvariance, InvEnough, PTL

\* smtp_session: whatever the order of EHLO, STARTTLS, AUTH, MAIL and RCPT, a
\* submission, and all mail that leaves this server, is an authenticated
\* client's own and came encrypted.
THEOREM EnvelopesAuthorised == SessionSpec => []EnvelopeAuthorised
BY SessionInvariance, InvEnough, PTL

\* transaction.take: a MAIL is accepted at most once.
THEOREM MailAcceptedOnce == SessionSpec => []AcceptedOnce
BY SessionInvariance, InvEnough, PTL

\* The state keeps its types: no more recipients than the limit, and a session
\* that used up its attempts is closed.
THEOREM SessionTyped == SessionSpec => []SessionTypeOK
<1>1. SessionInv => SessionTypeOK
  BY DEF SessionInv
<1>2. QED
  BY <1>1, SessionInvariance, PTL

-----------------------------------------------------------------------------
(***************************************************************************)
(* MessageStore: Inv is inductive, and the safety properties that the runs *)
(* check follow from it, for any finite set of stages and any budget.      *)
(***************************************************************************)

(* The reservation counts the active stages                                *)

\* The active stages are finitely many, so they can be counted.
LEMMA ActiveFinite ==
    IsFiniteSet(Active) /\ Cardinality(Active) \in Nat
<1>1. Active \subseteq Ids
  BY DEF Active
<1>2. IsFiniteSet(Active)
  BY <1>1, FS_Subset, MessageStoreAssumption, ZenonT(40)
<1>3. QED
  BY <1>2, FS_CardinalityType

\* A step inside the life of a stage leaves the set of active ones alone.
LEMMA ActiveSame ==
    ASSUME TypeOK, NEW i \in Active, NEW s \in Step \ {"unused", "gone"}, Becomes(i, s)
    PROVE  Active' = Active
BY DEF Active, TypeOK, Becomes, Step

\* A stage that ends leaves the set, which was not empty.
LEMMA ActiveLess ==
    ASSUME TypeOK, NEW i \in Active, Becomes(i, "gone")
    PROVE  /\ Active' = Active \ {i}
           /\ Cardinality(Active') = Cardinality(Active) - 1
           /\ Cardinality(Active) >= 1
<1>1. Active' = Active \ {i}
  BY DEF Active, TypeOK, Becomes
<1>2. /\ Cardinality(Active \ {i}) = Cardinality(Active) - 1
      /\ Active # {}
  BY ActiveFinite, FS_RemoveElement, ZenonT(40)
<1>3. Cardinality(Active) # 0
  BY <1>2, ActiveFinite, FS_EmptySet, ZenonT(40)
<1>4. QED
  BY <1>1, <1>2, <1>3, ActiveFinite

\* A stage that is created joins it.
LEMMA ActiveMore ==
    ASSUME TypeOK, NEW i \in Ids, step[i] = "unused", Becomes(i, "open")
    PROVE  Cardinality(Active') = Cardinality(Active) + 1
<1>1. Active' = Active \cup {i} /\ i \notin Active
  BY DEF Active, TypeOK, Becomes
<1>2. QED
  BY <1>1, ActiveFinite, FS_AddElement, ZenonT(40)

\* Without a reservation no stage is active.
LEMMA IdleMeansNone ==
    ASSUME Inv, reserved = 0
    PROVE  Active = {}
BY ActiveFinite, FS_EmptySet, ZenonT(40) DEF Inv

\* StageResources::drop: dropping an active stage keeps the tally.
LEMMA DropTally ==
    ASSUME Inv, NEW i \in Active, NEW staged \in BOOLEAN, Drop(i, staged)
    PROVE  /\ reserved' = Cardinality(Active') /\ reserved' \in 0..Slots
           /\ step' \in [Ids -> Step] /\ waiting' \subseteq Ids
           /\ reserved = 0 => reserved' = 0
           /\ \E s \in {"cleaning", "gone"} : Becomes(i, s)
<1>1. TypeOK /\ reserved = Cardinality(Active) /\ i \in Ids
  BY ZenonT(40) DEF Inv, Active
<1>2. waiting' \subseteq Ids
  BY <1>1, ZenonT(40) DEF Drop, TypeOK
<1>3. CASE staged
  <2>1. Becomes(i, "cleaning") /\ reserved' = reserved
    BY <1>3 DEF Drop
  <2>2. Active' = Active
    BY <2>1, <1>1, ActiveSame, ZenonT(40) DEF Step
  <2>3. step' \in [Ids -> Step]
    BY <2>1, <1>1, ZenonT(40) DEF TypeOK, Becomes, Step
  <2>4. QED
    BY <2>1, <2>2, <2>3, <1>1, <1>2, ZenonT(40) DEF TypeOK
<1>4. CASE ~staged
  <2>1. Becomes(i, "gone") /\ reserved' = reserved - 1
    BY <1>4, ZenonT(40) DEF Drop
  <2>2. Cardinality(Active') = Cardinality(Active) - 1 /\ Cardinality(Active) >= 1
    BY <2>1, <1>1, ActiveLess, ZenonT(40)
  <2>3. step' \in [Ids -> Step]
    BY <2>1, <1>1, ZenonT(40) DEF TypeOK, Becomes, Step
  <2>4. reserved \in 0..Slots /\ Slots \in Nat
    BY <1>1, MessageStoreAssumption, ZenonT(40) DEF TypeOK
  <2>5. QED
    BY <2>1, <2>2, <2>3, <2>4, <1>1, <1>2
<1>5. QED
  BY <1>3, <1>4, ZenonT(40)

\* The same for a job that hands its stage on or finds nobody waiting.
LEMMA ProceedTally ==
    ASSUME Inv, NEW i \in Active, NEW staged \in BOOLEAN,
           NEW s \in Step \ {"unused", "gone"}, Proceed(i, s, staged)
    PROVE  /\ reserved' = Cardinality(Active') /\ reserved' \in 0..Slots
           /\ step' \in [Ids -> Step] /\ waiting' \subseteq Ids
           /\ reserved = 0 => reserved' = 0
           /\ \E t \in {s, "cleaning", "gone"} : Becomes(i, t)
<1>1. TypeOK /\ reserved = Cardinality(Active) /\ i \in Ids
  BY ZenonT(40) DEF Inv, Active
<1>2. CASE i \in waiting
  <2>1. Becomes(i, s) /\ UNCHANGED <<waiting, reserved>>
    BY <1>2 DEF Proceed
  <2>2. Active' = Active
    BY <2>1, <1>1, ActiveSame, ZenonT(40)
  <2>3. step' \in [Ids -> Step]
    BY <2>1, <1>1, ZenonT(40) DEF TypeOK, Becomes, Step
  <2>4. QED
    BY <2>1, <2>2, <2>3, <1>1, ZenonT(40) DEF TypeOK
<1>3. CASE i \notin waiting
  <2>1. Drop(i, staged)
    BY <1>3 DEF Proceed
  <2>2. QED
    BY <2>1, DropTally
<1>4. QED
  BY <1>2, <1>3, ZenonT(40)

-----------------------------------------------------------------------------
(* Steps of stages and their jobs                                          *)

\* Between two store calls neither the collector nor a recovery is at work.
LEMMA NoGcIdle ==
    NoGc \notin Collecting /\ NoGc \notin Recovering
BY ZenonT(40) DEF NoGc, Collecting, Recovering

\* Neither ever runs beside a stage.
LEMMA ActiveMeansNoGc ==
    ASSUME Inv, NEW i \in Active
    PROVE  gc = NoGc
<1>1. reserved # 0
  BY IdleMeansNone, ZenonT(40)
<1>2. gc \in {NoGc} \cup Collecting \cup Recovering
  BY ZenonT(40) DEF Inv, TypeOK
<1>3. QED
  BY <1>1, <1>2 DEF Inv, CollectorAlone, RecoveryAlone

\* What Inv says of an active stage.
LEMMA ActiveIsFresh ==
    ASSUME Inv, NEW i \in Active
    PROVE  /\ i \in Ids /\ i \notin rows /\ reply[i] = "none" /\ step[i] # "gone"
           /\ \A k \in Kind : audit[k][i] # "deleted"
BY DEF Inv, Active, StageOrder

\* A step that touches no file, row, reply or audit record keeps Inv if what it
\* claims about the stage is true.
LEMMA QuietStep ==
    ASSUME Inv, NEW i \in Active, NEW t \in Step, t # "unused", Becomes(i, t),
           UNCHANGED <<files, synced, rows, audit, gc, lost, reply>>,
           reserved' = Cardinality(Active'), reserved' \in 0..Slots, waiting' \subseteq Ids,
           t \in {"flushed", "renamed", "blobSynced", "prepared", "accepting"} => i \in synced,
           t \in {"renamed", "blobSynced", "prepared", "accepting"} => i \in blobsNow,
           t \in {"blobSynced", "prepared", "accepting"} => i \in blobsDisk
    PROVE  Inv'
<1>1. gc = NoGc /\ gc' = NoGc
  BY ActiveMeansNoGc, ZenonT(40) DEF NoGc
<1>2. /\ i \in Ids /\ i \notin rows /\ reply[i] = "none" /\ step[i] # "gone"
      /\ \A k \in Kind : audit[k][i] # "deleted"
  BY ActiveIsFresh
<1>3. TypeOK /\ UNCHANGED <<stagingNow, stagingDisk, blobsNow, blobsDisk, synced, rows, audit,
                           gc, lost, reply>>
  BY ZenonT(40) DEF Inv, files
<1>4. \A j \in Ids : step'[j] = IF j = i THEN t ELSE step[j]
  BY <1>2, <1>3, ZenonT(40) DEF Becomes, TypeOK
<1>5. TypeOK'
  BY <1>3, <1>2, ZenonT(40) DEF TypeOK, Becomes
<1>6. JobOrder'
  BY <1>3, <1>4, ZenonT(40) DEF Inv, JobOrder
<1>7. StageOrder'
  BY <1>2, <1>3, <1>4, ZenonT(40) DEF Inv, StageOrder
<1>8. Erased' /\ Committed' /\ CommittedDurable' /\ ReplyHonest'
  BY <1>3, ZenonT(40) DEF Inv, Erased, Committed, CommittedDurable, ReplyHonest, Previous
<1>9. CollectorAlone' /\ RecoveryAlone'
  BY <1>1, NoGcIdle, ZenonT(40) DEF CollectorAlone, RecoveryAlone
<1>10. QED
  BY <1>5, <1>6, <1>7, <1>8, <1>9, ZenonT(40) DEF Inv

\* The same, for a step inside the life of the stage that leaves the tally.
LEMMA QuietMove ==
    ASSUME Inv, NEW i \in Active, NEW t \in Step \ {"unused", "gone"}, Becomes(i, t),
           UNCHANGED <<files, synced, rows, audit, reserved, gc, lost, reply>>, waiting' \subseteq Ids,
           t \in {"flushed", "renamed", "blobSynced", "prepared", "accepting"} => i \in synced,
           t \in {"renamed", "blobSynced", "prepared", "accepting"} => i \in blobsNow,
           t \in {"blobSynced", "prepared", "accepting"} => i \in blobsDisk
    PROVE  Inv'
<1>1. TypeOK /\ reserved = Cardinality(Active) /\ reserved \in 0..Slots
  BY ZenonT(40) DEF Inv, TypeOK
<1>2. Active' = Active
  BY <1>1, ActiveSame, ZenonT(40)
<1>3. QED
  BY <1>1, <1>2, QuietStep, ZenonT(40)

\* Append, Prepare, Dispatch: the stage moves on.
LEMMA MovePreserves ==
    ASSUME Inv, NEW i \in Ids, Append(i) \/ Prepare(i) \/ Dispatch(i)
    PROVE  Inv'
<1>1. i \in Active /\ waiting \subseteq Ids
  BY ZenonT(40) DEF Inv, TypeOK, Active, Append, Prepare, Dispatch
<1>2. CASE Append(i)
  BY <1>1, <1>2, QuietMove, ZenonT(40) DEF Append, Step
<1>3. CASE Prepare(i)
  BY <1>1, <1>3, QuietMove, ZenonT(40) DEF Prepare, Step
<1>4. CASE Dispatch(i)
  <2>1. i \in synced /\ i \in blobsNow /\ i \in blobsDisk
    BY <1>4, ZenonT(40) DEF Dispatch, Inv, JobOrder
  <2>2. QED
    BY <1>1, <1>4, <2>1, QuietMove, ZenonT(40) DEF Dispatch, Step
<1>5. QED
  BY <1>2, <1>3, <1>4, ZenonT(40)

\* A drop that changes nothing else keeps Inv.
LEMMA DropPreserves ==
    ASSUME Inv, NEW i \in Active, NEW staged \in BOOLEAN, Drop(i, staged),
           UNCHANGED <<files, synced, rows, audit, gc, lost, reply>>
    PROVE  Inv'
<1>1. /\ reserved' = Cardinality(Active') /\ reserved' \in 0..Slots
      /\ waiting' \subseteq Ids
      /\ \E s \in {"cleaning", "gone"} : Becomes(i, s)
  BY DropTally, ZenonT(40)
<1>2. PICK s \in {"cleaning", "gone"} : Becomes(i, s)
  BY <1>1, ZenonT(40)
<1>3. QED
  BY <1>1, <1>2, QuietStep, ZenonT(40) DEF Step

\* Written, PrepareFails, GiveUp: the stage is dropped, or its owner leaves it.
LEMMA EndPreserves ==
    ASSUME Inv, NEW i \in Ids, Written(i) \/ PrepareFails(i) \/ GiveUp(i)
    PROVE  Inv'
<1>1. i \in Active
  BY ZenonT(40) DEF Active, Written, PrepareFails, GiveUp, Inv, TypeOK
<1>2. CASE Written(i)
  <2>1. CASE Drop(i, TRUE)
    BY <1>1, <1>2, <2>1, DropPreserves, ZenonT(40) DEF Written
  <2>2. CASE Proceed(i, "open", TRUE)
    <3>1. CASE i \in waiting
      <4>1. Becomes(i, "open") /\ UNCHANGED <<waiting, reserved>> /\ waiting \subseteq Ids
        BY <2>2, <3>1, ZenonT(40) DEF Proceed, Inv, TypeOK
      <4>2. QED
        BY <1>1, <1>2, <4>1, QuietMove, ZenonT(40) DEF Written, Step
    <3>2. CASE i \notin waiting
      BY <1>1, <1>2, <2>2, <3>2, DropPreserves, ZenonT(40) DEF Written, Proceed
    <3>3. QED
      BY <3>1, <3>2, ZenonT(40)
  <2>3. QED
    BY <1>2, <2>1, <2>2, ZenonT(40) DEF Written
<1>3. CASE PrepareFails(i)
  BY <1>1, <1>3, DropPreserves, ZenonT(40) DEF PrepareFails
<1>4. CASE GiveUp(i)
  <2>1. CASE Drop(i, TRUE) \/ Drop(i, FALSE)
    BY <1>1, <1>4, <2>1, DropPreserves, ZenonT(40) DEF GiveUp
  <2>2. CASE UNCHANGED <<step, reserved>> /\ waiting' = waiting \ {i}
    <3>1. Becomes(i, step[i]) /\ step[i] \in Step \ {"unused", "gone"} /\ waiting' \subseteq Ids
      BY <1>1, <2>2, ZenonT(40) DEF Becomes, Active, Inv, TypeOK
    <3>2. /\ step[i] \in {"flushed", "renamed", "blobSynced", "prepared", "accepting"} =>
                 i \in synced
          /\ step[i] \in {"renamed", "blobSynced", "prepared", "accepting"} => i \in blobsNow
          /\ step[i] \in {"blobSynced", "prepared", "accepting"} => i \in blobsDisk
      BY ZenonT(40) DEF Inv, JobOrder
    <3>3. QED
      BY <1>1, <1>4, <2>2, <3>1, <3>2, QuietMove, ZenonT(40) DEF GiveUp
  <2>3. QED
    BY <1>4, <2>1, <2>2, ZenonT(40) DEF GiveUp
<1>5. QED
  BY <1>2, <1>3, <1>4, ZenonT(40)

\* create: a new stage owns a new name.
LEMMA CreatePreserves ==
    ASSUME Inv, NEW i \in Ids, Create(i)
    PROVE  Inv'
<1>1. TypeOK /\ step[i] = "unused" /\ Becomes(i, "open") /\ reserved = Cardinality(Active)
  BY ZenonT(40) DEF Inv, Create
<1>2. /\ reserved' = reserved + 1 /\ stagingNow' = stagingNow \cup {i}
      /\ waiting' = waiting \cup {i} /\ gc = NoGc /\ reserved + 1 <= Slots
      /\ UNCHANGED <<stagingDisk, blobsNow, blobsDisk, synced, rows, audit, gc, lost, reply>>
  BY ZenonT(40) DEF Create, StoreFree, WithinBudget
<1>3. \A j \in Ids : step'[j] = IF j = i THEN "open" ELSE step[j]
  BY <1>1 DEF Becomes, TypeOK
<1>4. reserved' = Cardinality(Active')
  BY <1>1, <1>2, ActiveMore, ZenonT(40)
<1>5. reserved' \in 0..Slots
  BY <1>1, <1>2, MessageStoreAssumption DEF TypeOK
<1>6. TypeOK'
  BY <1>1, <1>2, <1>5, ZenonT(40) DEF TypeOK, Becomes, Step
<1>7. i \notin rows /\ reply[i] = "none" /\ \A k \in Kind : audit[k][i] # "deleted"
  BY <1>1, ZenonT(40) DEF Inv, StageOrder
<1>8. JobOrder'
  BY <1>2, <1>3, ZenonT(40) DEF Inv, JobOrder
<1>9. StageOrder'
  BY <1>2, <1>3, <1>7, ZenonT(40) DEF Inv, StageOrder
<1>10. Erased'
  BY <1>2, <1>7, ZenonT(40) DEF Inv, Erased, Kind
<1>11. Committed' /\ CommittedDurable' /\ ReplyHonest'
  BY <1>2, ZenonT(40) DEF Inv, Committed, CommittedDurable, ReplyHonest, Previous
<1>12. CollectorAlone' /\ RecoveryAlone'
  BY <1>2, NoGcIdle, ZenonT(40) DEF CollectorAlone, RecoveryAlone
<1>13. QED
  BY <1>4, <1>6, <1>8, <1>9, <1>10, <1>11, <1>12, ZenonT(40) DEF Inv

\* The cleanup job: the name goes, then the reservation.
LEMMA CleanPreserves ==
    ASSUME Inv, NEW i \in Ids, Clean(i)
    PROVE  Inv'
<1>1. TypeOK /\ Becomes(i, "gone") /\ reserved = Cardinality(Active) /\ i \in Active
  BY ZenonT(40) DEF Inv, Clean, Active
<1>2. /\ reserved' = reserved - 1 /\ stagingNow' \subseteq stagingNow
      /\ UNCHANGED <<stagingDisk, blobsNow, blobsDisk, synced, rows, audit, waiting, gc, lost, reply>>
  BY DEF Clean
<1>3. gc = NoGc
  BY <1>1, ActiveMeansNoGc, ZenonT(40)
<1>4. \A j \in Ids : step'[j] = IF j = i THEN "gone" ELSE step[j]
  BY <1>1, ZenonT(40) DEF Becomes, TypeOK
<1>5. reserved' = Cardinality(Active') /\ Cardinality(Active) >= 1
  BY <1>1, <1>2, ActiveLess, ZenonT(40)
<1>6. reserved' \in 0..Slots
  BY <1>1, <1>2, <1>5, MessageStoreAssumption DEF TypeOK
<1>7. TypeOK'
  BY <1>1, <1>2, <1>6, ZenonT(40) DEF TypeOK, Becomes, Step
<1>8. JobOrder'
  BY <1>2, <1>4, ZenonT(40) DEF Inv, JobOrder
<1>9. StageOrder'
  BY <1>2, <1>4, ZenonT(40) DEF Inv, StageOrder
<1>10. Erased'
  BY <1>2, ZenonT(40) DEF Inv, Erased
<1>11. Committed' /\ CommittedDurable' /\ ReplyHonest'
  BY <1>2, ZenonT(40) DEF Inv, Committed, CommittedDurable, ReplyHonest, Previous
<1>12. CollectorAlone' /\ RecoveryAlone'
  BY <1>2, <1>3, NoGcIdle, ZenonT(40) DEF CollectorAlone, RecoveryAlone
<1>13. QED
  BY <1>5, <1>7, <1>8, <1>9, <1>10, <1>11, <1>12, ZenonT(40) DEF Inv

\* Flush, Rename, SyncBlobs: each secures what the next step relies on.
LEMMA JobPreserves ==
    ASSUME Inv, NEW i \in Ids, Flush(i) \/ Rename(i) \/ SyncBlobs(i)
    PROVE  Inv'
<1>1. TypeOK /\ reserved = Cardinality(Active) /\ i \in Active
  BY DEF Inv, Flush, Rename, SyncBlobs, Active
<1>2. gc = NoGc
  BY <1>1, ActiveMeansNoGc, ZenonT(40)
<1>3. UNCHANGED <<rows, audit, waiting, reserved, gc, lost, reply>>
  BY ZenonT(40) DEF Flush, Rename, SyncBlobs
<1>4. /\ i \notin rows /\ reply[i] = "none" /\ step[i] # "gone"
      /\ \A k \in Kind : audit[k][i] # "deleted"
  BY <1>1, ActiveIsFresh, ZenonT(40)
<1>5. PICK t \in {"flushed", "renamed", "blobSynced"} : Becomes(i, t)
  BY ZenonT(40) DEF Flush, Rename, SyncBlobs
<1>6. \A j \in Ids : step'[j] = IF j = i THEN t ELSE step[j]
  BY <1>1, <1>5, ZenonT(40) DEF Becomes, TypeOK
<1>7. Active' = Active
  BY <1>1, <1>5, ActiveSame, ZenonT(40) DEF Step
<1>8. TypeOK'
  BY <1>1, <1>3, <1>5, ZenonT(40) DEF TypeOK, Becomes, Step, Flush, Rename, SyncBlobs, files
<1>9. JobOrder'
  <2>1. CASE Flush(i)
    BY <1>1, <2>1, ZenonT(40) DEF Flush, Inv, JobOrder, TypeOK, Becomes, files
  <2>2. CASE Rename(i)
    BY <1>1, <2>2, ZenonT(40) DEF Rename, Inv, JobOrder, TypeOK, Becomes
  <2>3. CASE SyncBlobs(i)
    BY <1>1, <2>3, ZenonT(40) DEF SyncBlobs, Inv, JobOrder, TypeOK, Becomes
  <2>4. QED
    BY <2>1, <2>2, <2>3, ZenonT(40)
<1>10. /\ stagingNow' \subseteq stagingNow /\ stagingDisk' = stagingDisk
       /\ blobsNow' \subseteq blobsNow \cup {i}
       /\ blobsDisk' \subseteq blobsDisk \cup blobsNow
  BY DEF Flush, Rename, SyncBlobs, files
<1>11. StageOrder'
  BY <1>3, <1>4, <1>6, <1>10, ZenonT(40) DEF Inv, StageOrder
<1>12. Erased'
  BY <1>3, <1>4, <1>10, ZenonT(40) DEF Inv, Erased, Kind
<1>13. Committed' /\ CommittedDurable'
  BY <1>3 DEF Inv, Committed, CommittedDurable, Flush, Rename, SyncBlobs, files
<1>14. ReplyHonest'
  BY <1>3, ZenonT(40) DEF Inv, ReplyHonest, Previous
<1>15. CollectorAlone' /\ RecoveryAlone'
  BY <1>2, <1>3, NoGcIdle, ZenonT(40) DEF CollectorAlone, RecoveryAlone
<1>16. QED
  BY <1>1, <1>3, <1>7, <1>8, <1>9, <1>11, <1>12, <1>13, <1>14, <1>15, ZenonT(40) DEF Inv

\* SyncStaging: the message is prepared, or nobody waits for it.
LEMMA SyncStagingPreserves ==
    ASSUME Inv, NEW i \in Ids, SyncStaging(i)
    PROVE  Inv'
<1>1. /\ TypeOK /\ i \in Active
      /\ i \in synced /\ i \in blobsNow /\ i \in blobsDisk
  BY DEF Inv, SyncStaging, Active, JobOrder
<1>2. gc = NoGc
  BY <1>1, ActiveMeansNoGc, ZenonT(40)
<1>3. /\ stagingDisk' = stagingNow
      /\ UNCHANGED <<stagingNow, blobsNow, blobsDisk, synced, rows, audit, gc, lost, reply>>
      /\ Proceed(i, "prepared", FALSE)
  BY ZenonT(40) DEF SyncStaging
<1>4. /\ i \notin rows /\ reply[i] = "none" /\ step[i] # "gone"
      /\ \A k \in Kind : audit[k][i] # "deleted"
  BY <1>1, ActiveIsFresh
<1>5. /\ reserved' = Cardinality(Active') /\ reserved' \in 0..Slots
      /\ step' \in [Ids -> Step] /\ waiting' \subseteq Ids
      /\ \E t \in {"prepared", "cleaning", "gone"} : Becomes(i, t)
  BY <1>1, <1>3, ProceedTally, ZenonT(40) DEF Step
<1>6. PICK t \in {"prepared", "cleaning", "gone"} : Becomes(i, t)
  BY <1>5, ZenonT(40)
<1>7. \A j \in Ids : step'[j] = IF j = i THEN t ELSE step[j]
  BY <1>1, <1>6, ZenonT(40) DEF Becomes, TypeOK
<1>8. TypeOK'
  BY <1>1, <1>3, <1>5, ZenonT(40) DEF TypeOK
<1>9. JobOrder'
  BY <1>1, <1>3, <1>7, ZenonT(40) DEF Inv, JobOrder
<1>10. StageOrder'
  BY <1>3, <1>4, <1>7, ZenonT(40) DEF Inv, StageOrder
<1>11. Erased' /\ Committed' /\ CommittedDurable' /\ ReplyHonest'
  BY <1>3, ZenonT(40) DEF Inv, Erased, Committed, CommittedDurable, ReplyHonest, Previous
<1>12. CollectorAlone' /\ RecoveryAlone'
  BY <1>2, <1>3, NoGcIdle, ZenonT(40) DEF CollectorAlone, RecoveryAlone
<1>13. QED
  BY <1>5, <1>8, <1>9, <1>10, <1>11, <1>12, ZenonT(40) DEF Inv

\* accept_inner: the row refers to what prepare has made durable, and the reply
\* says no more than the rows do.
LEMMA AcceptPreserves ==
    ASSUME Inv, NEW i \in Ids, Accept(i)
    PROVE  Inv'
<1>1. /\ TypeOK /\ i \in Active /\ step[i] = "accepting"
      /\ i \in synced /\ i \in blobsNow /\ i \in blobsDisk
  BY DEF Inv, Accept, Active, JobOrder
<1>2. gc = NoGc
  BY <1>1, ActiveMeansNoGc
<1>3. /\ UNCHANGED <<stagingNow, stagingDisk, blobsNow, blobsDisk, synced, audit, gc, lost>>
      /\ Drop(i, FALSE) /\ rows \subseteq rows' /\ rows' \subseteq rows \cup {i}
  BY ZenonT(40) DEF Accept, files
<1>4. /\ i \notin rows /\ reply[i] = "none"
      /\ \A k \in Kind : audit[k][i] # "deleted"
  BY <1>1, ActiveIsFresh
<1>5. /\ reserved' = Cardinality(Active') /\ reserved' \in 0..Slots
      /\ step' \in [Ids -> Step] /\ waiting' \subseteq Ids
  BY <1>1, <1>3, DropTally, ZenonT(40)
<1>6. \A j \in Ids : step'[j] = IF j = i THEN "gone" ELSE step[j]
  BY <1>1, <1>3, ZenonT(40) DEF Drop, Becomes, TypeOK
<1>7. /\ reply' \in [Ids -> {"none", "accepted", "refused"}]
      /\ \A j \in Ids : j # i => reply'[j] = reply[j]
      /\ reply'[i] = "accepted" => Previous(i)' # {}
      /\ reply'[i] = "refused" => rows' = rows
  BY <1>1, <1>4, ZenonT(40) DEF Accept, Answers, TypeOK, Previous
<1>8. TypeOK'
  BY <1>1, <1>3, <1>5, <1>7, ZenonT(40) DEF TypeOK
<1>9. JobOrder'
  <2>1. JobOrder /\ \A j \in Ids : step'[j] = "gone" \/ step'[j] = step[j]
    BY <1>6, Zenon DEF Inv
  <2>2. UNCHANGED <<synced, blobsNow, blobsDisk>>
    BY <1>3, ZenonT(40)
  <2>3. QED
    BY <2>1, <2>2, ZenonT(40) DEF JobOrder
<1>10. StageOrder'
  BY <1>3, <1>6, <1>7, ZenonT(40) DEF Inv, StageOrder
<1>11. Erased'
  BY <1>3, <1>4, ZenonT(40) DEF Inv, Erased, Kind
<1>15. Committed' /\ CommittedDurable'
  BY <1>1, <1>3 DEF Inv, Committed, CommittedDurable
<1>12. ReplyHonest'
  <2>1. \A j \in Ids : Previous(j) \subseteq Previous(j)'
    BY <1>3 DEF Previous
  <2>2. ReplyHonest /\ rows' \subseteq rows \cup {i}
    BY <1>3, Zenon DEF Inv
  <2>3. ASSUME NEW j \in Ids
        PROVE  /\ reply'[j] = "accepted" => Previous(j)' # {}
               /\ reply'[j] = "refused" => j \notin rows'
    <3>1. CASE j = i
      BY <1>4, <1>7, <3>1, ZenonT(40)
    <3>2. CASE j # i
      BY <1>7, <2>1, <2>2, <3>2, ZenonT(40) DEF ReplyHonest
    <3>3. QED
      BY <3>1, <3>2, Zenon
  <2>4. QED
    BY <2>3, ZenonT(40) DEF ReplyHonest
<1>13. CollectorAlone' /\ RecoveryAlone'
  BY <1>2, <1>3, NoGcIdle, ZenonT(40) DEF CollectorAlone, RecoveryAlone
<1>16. QED
  BY <1>5, <1>8, <1>9, <1>10, <1>11, <1>12, <1>13, <1>15, ZenonT(40) DEF Inv

-----------------------------------------------------------------------------
(* The collector and the crash                                             *)

\* The audit row of a plan: the collector begins only when no stage is active.
LEMMA GcPlanPreserves ==
    ASSUME Inv, NEW k \in Kind, NEW i \in Ids, GcPlan(k, i)
    PROVE  Inv'
<1>1. TypeOK /\ reserved = 0 /\ Active = {}
  BY IdleMeansNone, ZenonT(40) DEF Inv, GcPlan, RequireIdle
<1>2. /\ gc' = [step |-> "planned", kind |-> k, id |-> i]
      /\ audit' = [audit EXCEPT ![k][i] = "planned"]
      /\ UNCHANGED <<stagingNow, stagingDisk, blobsNow, blobsDisk, synced, rows, step,
                     waiting, reserved, lost, reply>>
  BY DEF GcPlan, files
<1>3. step[i] = "gone"
  <2>1. i \in stagingNow \cup blobsNow
    BY ZenonT(40) DEF GcPlan, Collectable
  <2>2. step[i] # "unused"
    BY <2>1, ZenonT(40) DEF Inv, StageOrder
  <2>3. QED
    BY <1>1, <2>2, ZenonT(40) DEF Active
<1>4. /\ audit' \in [Kind -> [Ids -> {"none", "planned", "deleted"}]]
      /\ \A h \in Kind, j \in Ids : audit'[h][j] = "deleted" => audit[h][j] = "deleted"
  BY <1>1, <1>2, ZenonT(40) DEF TypeOK
<1>5. TypeOK'
  BY <1>1, <1>2, <1>4, ZenonT(40) DEF TypeOK, Collecting
<1>6. CollectorAlone' /\ RecoveryAlone'
  <2>1. gc' \in Collecting /\ gc' \notin Recovering
    BY <1>2, ZenonT(40) DEF Collecting, Recovering
  <2>2. k = "orphan" => i \notin rows
    BY ZenonT(40) DEF GcPlan, Collectable
  <2>3. QED
    BY <1>1, <1>2, <1>3, <2>1, <2>2, ZenonT(40) DEF CollectorAlone, RecoveryAlone
<1>7. JobOrder' /\ Committed' /\ CommittedDurable' /\ ReplyHonest'
  BY <1>2 DEF Inv, JobOrder, Committed, CommittedDurable, ReplyHonest, Previous
<1>8. StageOrder'
  BY <1>2, <1>4, ZenonT(40) DEF Inv, StageOrder
<1>9. Erased'
  BY <1>2, <1>4, ZenonT(40) DEF Inv, Erased, Kind
<1>10. (reserved = Cardinality(Active))'
  BY <1>2 DEF Inv, Active
<1>11. QED
  BY <1>5, <1>6, <1>7, <1>8, <1>9, <1>10, ZenonT(40) DEF Inv

\* What is known of a collector at work.
LEMMA CollectorKnown ==
    ASSUME Inv, gc \in Collecting
    PROVE  /\ gc \in [step : {"planned", "unlinked", "synced"}, kind : Kind, id : Ids]
           /\ reserved = 0 /\ Active = {} /\ step[gc.id] = "gone"
<1>1. TypeOK /\ reserved = 0 /\ step[gc.id] = "gone"
  BY ZenonT(40) DEF Inv, CollectorAlone
<1>2. Active = {}
  BY <1>1, IdleMeansNone, ZenonT(40) DEF Inv
<1>3. QED
  BY <1>1, <1>2, ZenonT(40) DEF Collecting

\* What a call is doing tells which of the two it is.
LEMMA CallKnown ==
    ASSUME TypeOK
    PROVE  /\ gc.step \in {"planned", "unlinked", "synced"} => gc \in Collecting
           /\ gc.step \in {"copied", "linked", "secured", "cleaned"} => gc \in Recovering
           /\ gc \in Collecting => gc \notin Recovering
BY DEF TypeOK, Collecting, Recovering, NoGc

\* unlink and sync: neither a file with a row nor one of an active stage goes.
LEMMA GcFilesPreserve ==
    ASSUME Inv, GcUnlink \/ GcSync
    PROVE  Inv'
<1>1. gc \in Collecting
  BY CallKnown, ZenonT(40) DEF GcUnlink, GcSync, Inv
<1>2. /\ gc \in [step : {"planned", "unlinked", "synced"}, kind : Kind, id : Ids]
      /\ reserved = 0 /\ Active = {} /\ step[gc.id] = "gone" /\ TypeOK
  BY <1>1, CollectorKnown, ZenonT(40) DEF Inv
<1>3. UNCHANGED <<synced, rows, audit, step, waiting, reserved, lost, reply>>
  BY DEF GcUnlink, GcSync
<1>4. /\ stagingNow' \subseteq stagingNow /\ blobsNow' \subseteq blobsNow
      /\ stagingDisk' \in {stagingDisk, stagingNow}
      /\ blobsDisk' \in {blobsDisk, blobsNow}
  BY DEF GcUnlink, GcSync
<1>5. gc' \in [step : {"planned", "unlinked", "synced"}, kind : Kind, id : Ids]
  BY <1>2, ZenonT(40) DEF GcUnlink, GcSync
<1>6. TypeOK'
  BY <1>2, <1>3, <1>4, <1>5, ZenonT(40) DEF TypeOK, Collecting
<1>7. JobOrder'
  BY <1>2, <1>3, ZenonT(40) DEF JobOrder, Active
<1>8. StageOrder'
  BY <1>3, <1>4, ZenonT(40) DEF Inv, StageOrder
<1>9. Erased'
  BY <1>3, <1>4, ZenonT(40) DEF Inv, Erased
<1>10. Committed' /\ CommittedDurable'
  <2>1. rows \ lost \subseteq blobsNow'
    BY <1>2, ZenonT(40) DEF GcUnlink, GcSync, Collectable, Inv, CommittedDurable, Kind
  <2>2. QED
    BY <1>3, <1>4, <2>1, ZenonT(40) DEF Inv, Committed, CommittedDurable
<1>11. ReplyHonest'
  BY <1>3, ZenonT(40) DEF Inv, ReplyHonest, Previous
<1>12. CollectorAlone' /\ RecoveryAlone'
  <2>1. gc' \notin Recovering
    BY <1>5, ZenonT(40) DEF Recovering
  <2>2. gc.kind = "orphan" => gc.id \notin rows
    BY <1>1 DEF CollectorAlone, Inv
  <2>3. CASE GcUnlink
    BY <1>2, <1>3, <2>1, <2>2, <2>3, ZenonT(40) DEF GcUnlink, CollectorAlone, RecoveryAlone
  <2>4. CASE GcSync
    BY <1>1, <1>2, <1>3, <2>1, <2>2, <2>4, ZenonT(40) DEF GcSync, CollectorAlone, RecoveryAlone, Inv
  <2>5. QED
    BY <2>3, <2>4, ZenonT(40)
<1>13. (reserved = Cardinality(Active))'
  BY <1>3, ZenonT(40) DEF Inv, Active
<1>14. QED
  BY <1>6, <1>7, <1>8, <1>9, <1>10, <1>11, <1>12, <1>13, ZenonT(40) DEF Inv

\* mark: the name recorded as deleted is gone from the directory on disk.
LEMMA GcEndPreserves ==
    ASSUME Inv, GcMark \/ GcFails
    PROVE  Inv'
<1>1. gc \in Collecting /\ gc' = NoGc
  BY CallKnown, ZenonT(40) DEF GcMark, GcFails, Inv
<1>2. /\ gc \in [step : {"planned", "unlinked", "synced"}, kind : Kind, id : Ids]
      /\ step[gc.id] = "gone" /\ TypeOK
  BY <1>1, CollectorKnown, ZenonT(40) DEF Inv
<1>3. UNCHANGED <<stagingNow, stagingDisk, blobsNow, blobsDisk, synced, rows, step, waiting,
                  reserved, lost, reply>>
  BY ZenonT(40) DEF GcMark, GcFails, files
<1>4. /\ audit' \in [Kind -> [Ids -> {"none", "planned", "deleted"}]]
      /\ \A h \in Kind, j \in Ids :
             audit'[h][j] = "deleted" =>
                 \/ audit[h][j] = "deleted"
                 \/ gc.step = "synced" /\ h = gc.kind /\ j = gc.id
  <2>1. audit \in [Kind -> [Ids -> {"none", "planned", "deleted"}]] /\ gc.kind \in Kind /\ gc.id \in Ids
    BY <1>2, ZenonT(40) DEF TypeOK
  <2>2. CASE GcMark
    BY <2>1, <2>2 DEF GcMark
  <2>3. CASE GcFails
    BY <2>1, <2>3, ZenonT(40) DEF GcFails
  <2>4. QED
    BY <2>2, <2>3, ZenonT(40)
<1>5. TypeOK'
  BY <1>1, <1>2, <1>3, <1>4, ZenonT(40) DEF TypeOK
<1>6. StageOrder'
  BY <1>2, <1>3, <1>4, ZenonT(40) DEF Inv, StageOrder
<1>7. Erased'
  BY <1>1, <1>2, <1>3, <1>4 DEF Inv, Erased, CollectorAlone, Kind
<1>8. JobOrder' /\ Committed' /\ CommittedDurable' /\ ReplyHonest'
  BY <1>3 DEF Inv, JobOrder, Committed, CommittedDurable, ReplyHonest, Previous
<1>9. CollectorAlone' /\ RecoveryAlone'
  BY <1>1, NoGcIdle, ZenonT(40) DEF CollectorAlone, RecoveryAlone
<1>10. (reserved = Cardinality(Active))'
  BY <1>3, ZenonT(40) DEF Inv, Active
<1>11. QED
  BY <1>5, <1>6, <1>7, <1>8, <1>9, <1>10, ZenonT(40) DEF Inv

\* The disk loses the file of a committed message, of no stage and of no plan.
LEMMA LosePreserves ==
    ASSUME Inv, NEW i \in Ids, LoseBlob(i)
    PROVE  Inv'
<1>1. /\ TypeOK /\ i \in rows /\ step[i] = "gone"
      /\ blobsNow' = blobsNow \ {i} /\ blobsDisk' = blobsDisk \ {i} /\ lost' = lost \cup {i}
      /\ UNCHANGED <<stagingNow, stagingDisk, synced, rows, audit, step, waiting, reserved,
                     gc, reply>>
  BY ZenonT(40) DEF LoseBlob, Inv, StageOrder
<1>2. TypeOK'
  BY <1>1, ZenonT(40) DEF TypeOK
<1>3. JobOrder'
  BY <1>1, ZenonT(40) DEF Inv, JobOrder
<1>4. StageOrder' /\ Erased'
  BY <1>1, ZenonT(40) DEF Inv, StageOrder, Erased
<1>5. Committed' /\ CommittedDurable'
  BY <1>1, ZenonT(40) DEF Inv, Committed, CommittedDurable
<1>6. ReplyHonest'
  BY <1>1, ZenonT(40) DEF Inv, ReplyHonest, Previous
<1>7. CollectorAlone'
  BY <1>1, ZenonT(40) DEF Inv, CollectorAlone
<1>8. RecoveryAlone'
  BY <1>1, ZenonT(40) DEF Inv, RecoveryAlone
<1>9. (reserved = Cardinality(Active))'
  BY <1>1, ZenonT(40) DEF Inv, Active
<1>10. QED
  BY <1>2, <1>3, <1>4, <1>5, <1>6, <1>7, <1>8, <1>9, ZenonT(40) DEF Inv

\* recover_blob begins: a name that nothing else uses, for a blob that is lost.
LEMMA RecoverCopyPreserves ==
    ASSUME Inv, NEW i \in Ids, NEW t \in Ids, RecoverCopy(i, t)
    PROVE  Inv'
<1>1. /\ TypeOK /\ reserved = 0 /\ step[t] = "unused" /\ i \in rows /\ i \notin blobsNow
      /\ stagingNow' = stagingNow \cup {t} /\ Becomes(t, "gone")
      /\ gc' = [step |-> "copied", id |-> i, temporary |-> t]
      /\ UNCHANGED <<stagingDisk, blobsNow, blobsDisk, synced, rows, audit, waiting, reserved,
                     lost, reply>>
  BY ZenonT(40) DEF RecoverCopy, RequireIdle, MissingBlobs, Inv
<1>2. \A j \in Ids : step'[j] = IF j = t THEN "gone" ELSE step[j]
  BY <1>1 DEF Becomes, TypeOK
<1>3. gc' \in Recovering /\ gc' \notin Collecting
  BY <1>1, ZenonT(40) DEF Recovering, Collecting
<1>4. i \in lost
  BY <1>1, ZenonT(40) DEF Inv, CommittedDurable
<1>5. t \notin rows /\ \A k \in Kind : audit[k][t] # "deleted"
  BY <1>1, ZenonT(40) DEF Inv, StageOrder
<1>6. TypeOK'
  BY <1>1, <1>3 DEF TypeOK, Becomes, Step
<1>7. JobOrder'
  BY <1>1, <1>2, ZenonT(40) DEF Inv, JobOrder
<1>8. StageOrder'
  BY <1>1, <1>2, ZenonT(40) DEF Inv, StageOrder
<1>9. Erased'
  BY <1>1, <1>5, ZenonT(40) DEF Inv, Erased, Kind
<1>10. Committed' /\ CommittedDurable' /\ ReplyHonest'
  BY <1>1, ZenonT(40) DEF Inv, Committed, CommittedDurable, ReplyHonest, Previous
<1>11. CollectorAlone' /\ RecoveryAlone'
  BY <1>1, <1>3, <1>4, ZenonT(40) DEF CollectorAlone, RecoveryAlone
<1>12. (reserved = Cardinality(Active))'
  <2>1. Active' = Active
    BY <1>1, <1>2, ZenonT(40) DEF Active
  <2>2. QED
    BY <1>1, <2>1, ZenonT(40) DEF Inv
<1>13. QED
  BY <1>6, <1>7, <1>8, <1>9, <1>10, <1>11, <1>12, ZenonT(40) DEF Inv

\* recover_blob goes on or fails: link before sync, sync before it counts.
LEMMA RecoverPreserves ==
    ASSUME Inv, RecoverLink \/ RecoverSecure \/ RecoverClean \/ RecoverDone \/ RecoverFails
    PROVE  Inv'
<1>1. TypeOK /\ gc \in Recovering /\ gc \notin Collecting
  BY CallKnown, ZenonT(40) DEF RecoverLink, RecoverSecure, RecoverClean, RecoverDone, RecoverFails, Inv
<1>2. /\ reserved = 0 /\ gc.id \in rows
      /\ gc.step \in {"copied", "linked"} => gc.id \in lost
      /\ gc.id \in Ids /\ gc.temporary \in Ids
  BY <1>1, ZenonT(40) DEF Inv, RecoveryAlone, Recovering
<1>3. UNCHANGED <<synced, rows, audit, step, waiting, reserved, reply>>
  BY DEF RecoverLink, RecoverSecure, RecoverClean, RecoverDone, RecoverFails
<1>4. /\ stagingNow' \subseteq stagingNow /\ stagingDisk' \subseteq stagingDisk \cup stagingNow
      /\ blobsNow \subseteq blobsNow' /\ blobsNow' \subseteq blobsNow \cup {gc.id}
      /\ blobsDisk' \in {blobsDisk, blobsNow}
      /\ lost' \subseteq lost
  BY DEF RecoverLink, RecoverSecure, RecoverClean, RecoverDone, RecoverFails
<1>5. /\ gc' = NoGc \/ gc' \in Recovering
      /\ gc' \notin Collecting
      /\ gc' \in Recovering =>
             /\ gc'.id = gc.id
             /\ gc'.step \in {"copied", "linked"} => gc.step = "copied" /\ lost' = lost
  BY <1>1, NoGcIdle
     DEF Recovering, Collecting, RecoverLink, RecoverSecure, RecoverClean, RecoverDone, RecoverFails
<1>6. TypeOK'
  BY <1>1, <1>2, <1>3, <1>4, <1>5, ZenonT(40) DEF TypeOK
<1>7. JobOrder'
  <2>1. \A j \in Ids : step[j] \in {"unused", "gone"}
    BY <1>2, IdleMeansNone, ZenonT(40) DEF Active
  <2>2. QED
    BY <1>3, <2>1, ZenonT(40) DEF JobOrder
<1>8. StageOrder'
  BY <1>2, <1>3, <1>4, ZenonT(40) DEF Inv, StageOrder
<1>9. Erased'
  BY <1>2, <1>3, <1>4, ZenonT(40) DEF Inv, Erased
<1>10. Committed'
  BY <1>3, <1>4, ZenonT(40) DEF Inv, Committed
<1>11. CommittedDurable'
  <2>1. CASE RecoverSecure
    BY <1>2, <1>3, <2>1, ZenonT(40) DEF RecoverSecure, Inv, Committed, CommittedDurable
  <2>2. CASE ~RecoverSecure
    <3>1. lost' = lost /\ blobsDisk' = blobsDisk
      BY <2>2, ZenonT(40) DEF RecoverLink, RecoverClean, RecoverDone, RecoverFails
    <3>2. QED
      BY <1>3, <1>4, <3>1, ZenonT(40) DEF Inv, CommittedDurable
  <2>3. QED
    BY <2>1, <2>2
<1>12. ReplyHonest'
  BY <1>3, ZenonT(40) DEF Inv, ReplyHonest, Previous
<1>13. CollectorAlone' /\ RecoveryAlone'
  BY <1>2, <1>3, <1>5, NoGcIdle, ZenonT(40) DEF CollectorAlone, RecoveryAlone
<1>14. (reserved = Cardinality(Active))'
  BY <1>3, ZenonT(40) DEF Inv, Active
<1>15. QED
  BY <1>6, <1>7, <1>8, <1>9, <1>10, <1>11, <1>12, <1>13, <1>14, ZenonT(40) DEF Inv

\* A loss of power keeps what was both shown and synced, and nothing that was
\* neither.
LEMMA CrashPreserves ==
    ASSUME Inv, Crash
    PROVE  Inv'
<1>1. /\ TypeOK /\ UNCHANGED <<synced, rows, audit, lost, reply>>
      /\ reserved' = 0 /\ gc' = NoGc /\ waiting' = {}
      /\ step' = [i \in Ids |-> IF step[i] = "unused" THEN "unused" ELSE "gone"]
  BY ZenonT(40) DEF Inv, Crash
<1>2. /\ stagingNow \cap stagingDisk \subseteq stagingNow'
      /\ stagingNow' \subseteq stagingNow \cup stagingDisk /\ stagingDisk' = stagingNow'
      /\ blobsNow \cap blobsDisk \subseteq blobsNow'
      /\ blobsNow' \subseteq blobsNow \cup blobsDisk /\ blobsDisk' = blobsNow'
  BY ZenonT(40) DEF Crash, Survivors
<1>3. TypeOK'
  <2>1. step' \in [Ids -> Step]
    BY <1>1, ZenonT(40) DEF TypeOK, Step
  <2>2. reserved' \in 0..Slots
    BY <1>1, MessageStoreAssumption
  <2>3. /\ stagingNow' \subseteq Ids /\ stagingDisk' \subseteq Ids
        /\ blobsNow' \subseteq Ids /\ blobsDisk' \subseteq Ids /\ waiting' \subseteq Ids
    BY <1>1, <1>2, ZenonT(40) DEF TypeOK
  <2>4. QED
    BY <1>1, <2>1, <2>2, <2>3, ZenonT(40) DEF TypeOK
<1>4. (reserved = Cardinality(Active))'
  <2>1. Active' = {}
    BY <1>1, ZenonT(40) DEF Active
  <2>2. QED
    BY <1>1, <2>1, FS_EmptySet, ZenonT(40)
<1>5. JobOrder'
  BY <1>1 DEF JobOrder
<1>6. StageOrder'
  BY <1>1, <1>2, ZenonT(40) DEF Inv, StageOrder
<1>7. Erased' /\ Committed' /\ CommittedDurable'
  BY <1>1, <1>2, ZenonT(40) DEF Inv, Erased, Committed, CommittedDurable
<1>8. ReplyHonest' /\ CollectorAlone' /\ RecoveryAlone'
  BY <1>1, NoGcIdle, ZenonT(40) DEF Inv, ReplyHonest, Previous, CollectorAlone, RecoveryAlone
<1>9. QED
  BY <1>3, <1>4, <1>5, <1>6, <1>7, <1>8, ZenonT(40) DEF Inv

-----------------------------------------------------------------------------
(* The theorems                                                            *)

\* An empty store satisfies Inv.
LEMMA InitInv ==
    Init => Inv
<1>1. SUFFICES ASSUME Init PROVE Inv
  OBVIOUS
<1>2. TypeOK
  BY <1>1, MessageStoreAssumption DEF Init, TypeOK, Step, Kind, NoGc
<1>3. reserved = Cardinality(Active)
  <2>1. Active = {}
    BY <1>1, ZenonT(40) DEF Init, Active
  <2>2. QED
    BY <1>1, <2>1, FS_EmptySet, ZenonT(40) DEF Init
<1>4. JobOrder /\ StageOrder /\ Erased /\ Committed /\ CommittedDurable /\ ReplyHonest
  BY <1>1, ZenonT(40) DEF Init, JobOrder, StageOrder, Erased, Committed, CommittedDurable, ReplyHonest, Kind
<1>6. CollectorAlone /\ RecoveryAlone
  BY <1>1, NoGcIdle, ZenonT(40) DEF Init, CollectorAlone, RecoveryAlone
<1>7. QED
  BY <1>2, <1>3, <1>4, <1>6, ZenonT(40) DEF Inv

\* Every step preserves Inv.
LEMMA NextInv ==
    Inv /\ [Next]_vars => Inv'
<1>1. SUFFICES ASSUME Inv, [Next]_vars PROVE Inv'
  OBVIOUS
<1>2. ASSUME NEW i \in Ids, Create(i) \/ Append(i) \/ Prepare(i) \/ Dispatch(i) \/ GiveUp(i)
      PROVE  Inv'
  BY <1>1, <1>2, CreatePreserves, MovePreserves, EndPreserves, ZenonT(40)
<1>3. ASSUME NEW i \in Ids, Job(i) PROVE Inv'
  BY <1>1, <1>3, EndPreserves, CleanPreserves, JobPreserves, SyncStagingPreserves,
     AcceptPreserves, ZenonT(40) DEF Job
<1>4. CASE Collector
  BY <1>1, <1>4, GcPlanPreserves, GcFilesPreserve, GcEndPreserves, ZenonT(40) DEF Collector
<1>5. CASE Crash
  BY <1>1, <1>5, CrashPreserves, ZenonT(40)
<1>6. CASE UNCHANGED vars
  BY <1>1, <1>6, ZenonT(40) DEF vars, files, Inv, TypeOK, Active, JobOrder, StageOrder, Erased,
     CollectorAlone, RecoveryAlone, Committed, CommittedDurable, ReplyHonest, Previous
<1>7. ASSUME NEW i \in Ids, LoseBlob(i) PROVE Inv'
  BY <1>1, <1>7, LosePreserves
<1>8. CASE Recovery
  BY <1>1, <1>8, RecoverCopyPreserves, RecoverPreserves, ZenonT(40) DEF Recovery
<1>9. QED
  BY <1>1, <1>2, <1>3, <1>4, <1>5, <1>6, <1>7, <1>8, ZenonT(40) DEF Next

\* The order of create, prepare, accept, drop and gc maintains Inv for any
\* number of stages and any budget, over crashes and losses of power.
THEOREM Invariance == Spec => []Inv
BY InitInv, NextInv, PTL DEF Spec

\* TypeOK: stages, files, the calls of the collector and of a recovery, and a
\* reservation that never exceeds the budget nor falls below zero.
THEOREM Typed == Spec => []TypeOK
<1>1. Inv => TypeOK
  BY DEF Inv
<1>2. QED
  BY <1>1, Invariance, PTL

\* accept_inner: a committed row refers to a file whose bytes and whose name
\* are on disk.
THEOREM Durability == Spec => []CommittedDurable
<1>1. Inv => CommittedDurable
  BY ZenonT(40) DEF Inv
<1>2. QED
  BY <1>1, Invariance, PTL

\* smtp_session's replies: a definite answer is true of the store for ever.
THEOREM Honesty == Spec => []ReplyHonest
<1>1. Inv => ReplyHonest
  BY ZenonT(40) DEF Inv
<1>2. QED
  BY <1>1, Invariance, PTL

\* gc: a file recorded as deleted never comes back, not even by a loss of power.
THEOREM Audited == Spec => []AuditHonest
<1>1. Inv => AuditHonest
  BY DEF Inv, Erased, AuditHonest
<1>2. QED
  BY <1>1, Invariance, PTL

\* DiskReservation: the reservation covers every staging file of a live stage.
THEOREM Covered == Spec => []ReservationCovers
<1>1. ASSUME Inv PROVE ReservationCovers
  <2>1. {i \in stagingNow : step[i] # "gone"} \subseteq Active
    BY <1>1 DEF Inv, TypeOK, StageOrder, Active
  <2>2. QED
    BY <1>1, <2>1, ActiveFinite, FS_Subset, ZenonT(40) DEF Inv, ReservationCovers
<1>2. QED
  BY <1>1, Invariance, PTL
============================================================================
