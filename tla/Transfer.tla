------------------------------ MODULE Transfer ------------------------------
(***************************************************************************)
(* One attempt of the SMTP client, from the connection to the final reply, *)
(* and the server that takes the message.  The client's dialogue runs      *)
(* against a peer that answers as it likes; the peer's reception of DATA   *)
(* is the one of this repository.  Both sides read in chunks of any size,  *)
(* and the connection may break between any two steps.                     *)
(*                                                                         *)
(* Every wait of the client has a deadline whose expiry is the failure     *)
(* that a broken connection is, so both are the action Lose.               *)
(***************************************************************************)
EXTENDS Framing

CONSTANTS
    Inputs,   \* what a user gives to the send command
    Queued,   \* queued messages: file, prefix, body mode, whether unchanged
    Raws      \* what other clients send as DATA: bytes and body mode

VARIABLES
    pc,        \* the client's place in try_attempt
    tls,       \* the wire is encrypted
    caps,      \* what the last EHLO offered
    ahead,     \* replies received and not yet read
    letter,    \* the message: its file, where it is from, its body mode
    pos,       \* bytes of the file that were read
    sender,    \* send_body
    marked,    \* before_body has succeeded
    result,    \* AttemptResult, or "interrupted"
    open,      \* the client holds the connection
    sent,      \* bytes of DATA written to the connection
    got,       \* how many of them the peer has read
    accepted,  \* what of the envelope the peer accepted
    peer,      \* "command", "data", "committed" or "closed"
    receiver   \* receive_message

dialogue == <<tls, caps, ahead, accepted>>
transmission == <<pos, sender, sent>>
reception == <<got, peer, receiver>>
vars == <<pc, dialogue, letter, transmission, marked, result, open, reception>>

Codes == {220, 235, 250, 334, 354, 421, 450, 550}

Capability == {"pipelining", "starttls", "8bitmime", "plain", "size"}

Positive(code) == code \in 200..299

\* The prefix of a stored submission, which the client leaves out.
ReturnPath == <<"R", COLON>> \o CRLF

Letter == [from : {"queue", "send"}, file : Seq(STRING), body : {"7bit", "8bit"},
           intact : BOOLEAN, prefix : {<<>>, ReturnPath}]

ASSUME TransferAssumption == Queued \subseteq Letter

NoLetter(body) == [from |-> "unread", file |-> <<>>, body |-> body, intact |-> TRUE, prefix |-> <<>>]

TypeOK ==
    /\ pc \in {"connect", "banner", "ehlo", "starttls", "auth", "challenge", "mail", "rcpt", "data",
               "pipeline", "mark", "body", "dot", "final", "done", "foreign"}
    /\ tls \in BOOLEAN
    /\ caps \subseteq Capability
    /\ ahead \in Seq([code : Codes, tls : BOOLEAN])
    /\ pos \in 0..Len(letter.file)
    /\ marked \in BOOLEAN
    /\ result \in {"none", "Delivered", "Temporary", "Permanent", "ConnectionLost", "Hold",
                   "Deferred", "interrupted"}
    /\ result # "none" <=> pc = "done"
    /\ open \in BOOLEAN
    /\ got \in 0..Len(sent)
    /\ accepted \subseteq {"mail", "rcpt"}
    /\ peer \in {"command", "data", "committed", "closed"}
    /\ Len(sender.decoder.line) <= Limit
    /\ Len(receiver.decoder.line) <= Limit + 1

Init ==
    /\ pc = "connect"
    /\ tls = FALSE
    /\ caps = {}
    /\ ahead = <<>>
    /\ \E body \in {"7bit", "8bit"} : /\ letter = NoLetter(body)
                                      /\ sender = NewSender(body, <<>>)
                                      /\ receiver = NewReceiver(FALSE, body)
    /\ pos = 0
    /\ marked = FALSE
    /\ result = "none"
    /\ open = FALSE
    /\ sent = <<>>
    /\ got = 0
    /\ accepted = {}
    /\ peer = "command"

-----------------------------------------------------------------------------
(* The dialogue                                                            *)

Goes(next) == pc' = next /\ UNCHANGED <<result, open>>

\* The attempt returns, and its socket is dropped.
Ends(r) == pc' = "done" /\ result' = r /\ open' = FALSE

\* rejected.
Rejection(code) ==
    CASE code \in 400..499 -> "Temporary"
      [] code \in 500..599 -> "Permanent"
      [] OTHER -> "ConnectionLost"

\* response: the next reply, which is an older one if the peer said too much.
Reply(code) == LET said == Append(ahead, [code |-> code, tls |-> tls])
               IN  [code |-> said[1].code, rest |-> Tail(said)]

\* Mutant: replies that came before the handshake are read after it.
UpgradeKeeps ==
    /\ tls' = TRUE
    /\ ahead' = ahead

\* upgrade: the handshake, which drops all that was read ahead.
Upgrade ==
    /\ tls' = TRUE
    /\ ahead' = <<>>

\* The configuration asks for TLS from the first byte, or for STARTTLS.
Connect(starttls) ==
    /\ pc = "connect"
    /\ \/ /\ pc' = "banner"
          /\ open' = TRUE
          /\ result' = result
          /\ IF starttls THEN UNCHANGED <<tls, ahead>> ELSE Upgrade
       \/ ~starttls /\ Ends("Deferred") /\ UNCHANGED <<tls, ahead>>
    /\ UNCHANGED <<caps, accepted, letter, transmission, marked, reception>>

\* A peer that speaks before it is asked, while nothing is encrypted.
Chatter(code) ==
    /\ pc \in {"ehlo", "starttls"}
    /\ ~tls
    /\ ahead = <<>>
    /\ ahead' = <<[code |-> code, tls |-> FALSE]>>
    /\ UNCHANGED <<pc, tls, caps, accepted, letter, transmission, marked, result, open, reception>>

Banner(code) ==
    /\ pc = "banner"
    /\ IF Reply(code).code = 220 THEN Goes("ehlo") ELSE Ends("Deferred")
    /\ ahead' = Reply(code).rest
    /\ UNCHANGED <<tls, caps, accepted, letter, transmission, marked, reception>>

\* EHLO: STARTTLS first, then credentials if the configuration has any.
Ehlo(code, offered, authorization) ==
    /\ pc = "ehlo"
    /\ caps' = offered
    /\ \/ Reply(code).code # 250 /\ Ends("Deferred")
       \/ /\ Reply(code).code = 250
          /\ IF ~tls THEN IF "starttls" \in offered THEN Goes("starttls") ELSE Ends("Deferred")
             ELSE IF authorization
                  THEN IF "plain" \in offered THEN Goes("auth") ELSE Ends("Deferred")
             ELSE Goes("mail")
    /\ ahead' = Reply(code).rest
    /\ UNCHANGED <<tls, accepted, letter, transmission, marked, reception>>

StartTls(code) ==
    /\ pc = "starttls"
    /\ \/ Reply(code).code = 220 /\ Goes("ehlo") /\ Upgrade
       \/ Ends("Deferred") /\ UNCHANGED <<tls, ahead>>
    /\ UNCHANGED <<caps, accepted, letter, transmission, marked, reception>>

\* AUTH PLAIN, and once more when the peer asks for the response by itself.
Auth(code) ==
    /\ pc \in {"auth", "challenge"}
    /\ CASE Reply(code).code = 235 -> Goes("mail")
         [] Reply(code).code = 334 /\ pc = "auth" -> Goes("challenge")
         [] OTHER -> Ends("Deferred")
    /\ ahead' = Reply(code).rest
    /\ UNCHANGED <<tls, caps, accepted, letter, transmission, marked, reception>>

\* What the peer offers cannot carry this message.
Unfit == (letter.body = "8bit" /\ "8bitmime" \notin caps) \/ "size" \in caps

\* MAIL, by itself; with PIPELINING the group of three is sent instead.
Mail(code) ==
    /\ pc = "mail"
    /\ IF Unfit THEN Ends("Hold") /\ UNCHANGED <<ahead, accepted>>
       ELSE IF "pipelining" \in caps THEN Goes("pipeline") /\ UNCHANGED <<ahead, accepted>>
       ELSE /\ IF Positive(Reply(code).code) THEN Goes("rcpt") ELSE Ends(Rejection(Reply(code).code))
            /\ ahead' = Reply(code).rest
            /\ accepted' = IF Positive(code) THEN {"mail"} ELSE {}
    /\ UNCHANGED <<tls, caps, letter, transmission, marked, reception>>

Rcpt(code) ==
    /\ pc = "rcpt"
    /\ IF Positive(Reply(code).code) THEN Goes("data") ELSE Ends(Rejection(Reply(code).code))
    /\ ahead' = Reply(code).rest
    /\ accepted' = IF Positive(code) THEN accepted \cup {"rcpt"} ELSE accepted
    /\ UNCHANGED <<tls, caps, letter, transmission, marked, reception>>

\* The peer that answers 354 waits for the message from then on.
Awaits(code) == peer' = IF code = 354 THEN "data" ELSE peer

Data(code) ==
    /\ pc = "data"
    /\ IF Reply(code).code = 354 THEN Goes("mark") ELSE Ends(Rejection(Reply(code).code))
    /\ ahead' = Reply(code).rest
    /\ Awaits(code)
    /\ UNCHANGED <<tls, caps, accepted, letter, transmission, marked, got, receiver>>

\* Mutant: only the reply to DATA decides.
PipelineOutcomeOfData(codes) ==
    IF codes[3] = 354 THEN Goes("mark") ELSE Ends(Rejection(codes[3]))

\* The first refusal counts, by the position of its command.
PipelineOutcome(codes) ==
    IF ~Positive(codes[1]) THEN Ends(Rejection(codes[1]))
    ELSE IF ~Positive(codes[2]) THEN Ends(Rejection(codes[2]))
    ELSE IF codes[3] = 354 THEN Goes("mark")
    ELSE Ends(Rejection(codes[3]))

\* envelope_pipeline: MAIL, RCPT and DATA at once, one reply each.  A 421 ends
\* the reading; any reply too many ends the attempt.
Pipeline(codes) ==
    /\ pc = "pipeline"
    /\ PipelineOutcome(codes) \/ Ends("ConnectionLost") \/ Ends("Deferred")
    /\ accepted' = {c \in {"mail", "rcpt"} : Positive(codes[IF c = "mail" THEN 1 ELSE 2])}
    /\ IF 421 \in {codes[1], codes[2]} THEN peer' = "closed" ELSE Awaits(codes[3])
    /\ UNCHANGED <<tls, caps, ahead, letter, transmission, marked, got, receiver>>

-----------------------------------------------------------------------------
(* The message                                                             *)

\* A message is a file of the queue, which the disk may have changed, or the
\* private copy that the send command has prepared.
Letters(body) ==
    {q \in Queued : q.body = body}
    \cup {[from |-> "send", file |-> s.out, body |-> body, intact |-> TRUE, prefix |-> <<>>] :
             s \in {s \in {PrepareInput(i) : i \in Inputs} : Prepared(s) /\ s.body = body}}

\* before_body: the caller records that the body begins, or stops the attempt.
BeforeBody(l, submission) ==
    /\ pc = "mark"
    /\ \/ /\ Goes("body")
          /\ marked' = TRUE
          /\ letter' = l
          /\ sender' = NewSender(l.body, l.prefix)
          /\ receiver' = NewReceiver(submission, l.body)
          /\ caps' = {}
       \/ /\ Ends("ConnectionLost")
          /\ marked' \in BOOLEAN
          /\ UNCHANGED <<letter, sender, receiver, caps>>
    /\ UNCHANGED <<tls, ahead, accepted, pos, sent, got, peer>>

\* A write that fails may have put any part of its bytes on the wire.
Written(bytes) == {sent \o SubSeq(bytes, 1, n) : n \in 0..Len(bytes)}

\* One chunk of the file through the decoder and onto the wire.  The reader
\* notices a changed file when it is too long, or else at its end.
SendBody(n) ==
    LET s == SendChunk(sender, SubSeq(letter.file, pos + 1, pos + n))
    IN  /\ pc = "body"
        /\ pos + n <= Len(letter.file)
        /\ sender' = [s EXCEPT !.out = <<>>]
        /\ pos' = pos + n
        /\ \/ (s.failed \/ ~letter.intact) /\ Ends("Hold") /\ sent' = sent
           \/ ~s.failed /\ Goes("body") /\ sent' = sent \o s.out
           \/ ~s.failed /\ Ends("ConnectionLost") /\ sent' \in Written(s.out)
        /\ UNCHANGED <<dialogue, letter, marked, reception>>

\* VerifiedReader at the end of the file, and the checks of send_body.
SendBodyEnds ==
    /\ pc = "body"
    /\ pos = Len(letter.file)
    /\ IF letter.intact /\ Sendable(sender) THEN Goes("dot") ELSE Ends("Hold")
    /\ UNCHANGED <<dialogue, letter, transmission, marked, reception>>

FinalDot ==
    /\ pc = "dot"
    /\ \/ Goes("final") /\ sent' = sent \o <<DOT, CR, LF>>
       \/ Ends("ConnectionLost") /\ sent' \in Written(<<DOT, CR, LF>>)
    /\ UNCHANGED <<dialogue, letter, pos, sender, marked, reception>>

\* The answer to the message; a peer that refused it may have said so earlier.
FinalReply(code) ==
    /\ pc = "final"
    /\ \/ peer = "committed" /\ code = 250 /\ Ends("Delivered")
       \/ peer = "closed" /\ code \in {421, 450, 550} /\ Ends(Rejection(code))
    /\ UNCHANGED <<dialogue, letter, transmission, marked, reception>>

\* Mutant: a missing reply is a temporary failure.
LoseTemporarily ==
    /\ pc \notin {"done", "foreign"}
    /\ Ends("Temporary")
    /\ UNCHANGED <<dialogue, letter, transmission, marked, reception>>

\* The connection breaks or a deadline passes; a relay task that cannot renew
\* its lease drops the attempt likewise.
Lose ==
    /\ pc \notin {"done", "foreign"}
    /\ Ends("ConnectionLost")
    /\ UNCHANGED <<dialogue, letter, transmission, marked, reception>>

\* The user of the send command stops it.
Interrupt ==
    /\ pc \notin {"done", "foreign"}
    /\ letter.from # "queue"
    /\ Ends("interrupted")
    /\ UNCHANGED <<dialogue, letter, transmission, marked, reception>>

\* What the send command prints for an attempt.
Status ==
    CASE result = "Delivered" -> "accepted"
      [] result = "Temporary" -> "temporary_failure"
      [] result = "Permanent" -> "permanent_failure"
      [] result \in {"ConnectionLost", "interrupted"} /\ marked -> "uncertain"
      [] result = "interrupted" /\ ~marked -> "cancelled"
      [] OTHER -> "not_submitted"

-----------------------------------------------------------------------------
(* The receiving server                                                    *)

\* Another client has sent these bytes as DATA and gone.
Foreign(raw, submission) ==
    /\ pc = "connect"
    /\ pc' = "foreign"
    /\ sent' = raw.bytes
    /\ letter' = [NoLetter(raw.body) EXCEPT !.from = "foreign"]
    /\ peer' = "data"
    /\ receiver' = NewReceiver(submission, raw.body)
    /\ UNCHANGED <<dialogue, pos, sender, marked, result, open, got>>

\* receive_message takes n more bytes, or the rest of a line of them.
Receive(n) ==
    LET chunk == SubSeq(sent, got + 1, got + n)
        r == ReceiveChunk(receiver, chunk)
    IN  /\ peer = "data"
        /\ ~receiver.ended
        /\ got + n <= Len(sent)
        /\ receiver' = r
        /\ got' = got + Taken(receiver, chunk)
        /\ peer' = IF r.failed = "" THEN "data" ELSE "closed"
        /\ UNCHANGED <<pc, dialogue, letter, transmission, marked, result, open>>

\* The end of the connection, a deadline, or a revoked submitter: the stage is
\* dropped, and what is still on the wire is nobody's.
ReceiveFails ==
    /\ peer = "data"
    /\ ~receiver.ended
    /\ peer' = "closed"
    /\ receiver' = NewReceiver(receiver.submission, receiver.body)
    /\ got' = Len(sent)
    /\ UNCHANGED <<pc, dialogue, letter, transmission, marked, result, open>>

\* The store accepts the message or refuses it.
Accept ==
    /\ peer = "data"
    /\ receiver.ended
    /\ peer' \in {"committed", "closed"}
    /\ UNCHANGED <<pc, dialogue, letter, transmission, marked, result, open, got, receiver>>

Dialogue(code) ==
    \/ Chatter(code)
    \/ Banner(code)
    \/ \E offered \in SUBSET Capability, a \in BOOLEAN : Ehlo(code, offered, a)
    \/ StartTls(code)
    \/ Auth(code)
    \/ Mail(code)
    \/ Rcpt(code)
    \/ Data(code)
    \/ FinalReply(code)

Next ==
    \/ \E starttls \in BOOLEAN : Connect(starttls)
    \/ \E code \in Codes : Dialogue(code)
    \/ \E codes \in [1..3 -> Codes] : Pipeline(codes)
    \/ pc = "mark" /\ \E l \in Letters(letter.body), s \in BOOLEAN : BeforeBody(l, s)
    \/ \E n \in 1..(Len(letter.file) - pos) : SendBody(n)
    \/ SendBodyEnds
    \/ FinalDot
    \/ Lose
    \/ Interrupt
    \/ \E raw \in Raws, s \in BOOLEAN : Foreign(raw, s)
    \/ \E n \in 1..(Len(sent) - got) : Receive(n)
    \/ ReceiveFails
    \/ Accept

Spec == Init /\ [][Next]_vars

-----------------------------------------------------------------------------
(* What a whole message means, stated without its transfer                 *)

\* The lines of a message, each with its ending.
Lines(bytes) ==
    LET cut(ls, b) == IF ls # <<>> /\ ~EndsWith(ls[Len(ls)], LF)
                      THEN [ls EXCEPT ![Len(ls)] = Append(@, b)]
                      ELSE Append(ls, <<b>>)
    IN  FoldLeft(cut, <<>>, bytes)

HeaderLines(lines) == {i \in 1..Len(lines) : \A j \in 1..i : lines[j] # CRLF}

\* The line that begins the field that line i belongs to.
FieldOf(lines, i) == lines[Max({j \in 1..i : j = 1 \/ lines[j][1] # SP})]

\* The message without the fields that final delivery and submission remove.
Kept(lines, submission) ==
    LET gone == {i \in HeaderLines(lines) :
                    Removed(FieldName(FieldOf(lines, i)), submission)}
        kept == SetToSortSeq((1..Len(lines)) \ gone, <)
        bodiless == HeaderLines(lines) = 1..Len(lines)
    IN  FlattenSeq([i \in 1..Len(kept) |-> lines[kept[i]]]) \o (IF bodiless THEN CRLF ELSE <<>>)

\* The lines of DATA that was received whole: no terminator, no transparency.
DataLines(bytes) ==
    LET lines == Lines(bytes)
    IN  [i \in 1..(Len(lines) - 1) |-> IF lines[i][1] = DOT THEN Tail(lines[i]) ELSE lines[i]]

-----------------------------------------------------------------------------
(* Properties                                                              *)

Ours == letter.from \in {"queue", "send"}

Submission == receiver.submission

\* send_body and receive_message: "Verified EOF and valid framing precede the
\* final dot".  The peer sees the end of a message only where the client put it,
\* after the whole of an unchanged file, and what it commits is the stored
\* message without its prefix and its removed fields, however both sides were
\* cut into reads and whichever lines begin with dots.
ContentIntact ==
    /\ receiver.ended /\ Ours => got = Len(sent) /\ pos = Len(letter.file) /\ letter.intact
    /\ peer = "committed" /\ Ours =>
           receiver.stage = Kept(Lines(SubSeq(letter.file, Len(letter.prefix) + 1,
                                               Len(letter.file))), Submission)

\* receive_message: of anything any client sends, what is stored is what the
\* lines up to the first lone dot mean, and nothing after that dot is taken.
ReceivedAsSent ==
    peer = "committed" =>
        /\ receiver.stage = Kept(DataLines(SubSeq(sent, 1, got)), Submission)
        /\ \A i \in 1..Len(Lines(SubSeq(sent, 1, got))) :
               IsEnd(Lines(SubSeq(sent, 1, got))[i]) <=> i = Len(Lines(SubSeq(sent, 1, got)))

\* What one check has let pass the next one does not refuse.  Every line that
\* send_body may send, dots included, is one that receive_message may take (1000
\* and 1001 bytes); what the server has accepted from anyone it can relay later
\* with the prefix it stored; and a copy that message::prepare has passed is not
\* found unfit in the midst of its transmission.
ChecksAgree ==
    /\ Ours => receiver.failed # "framing"
    /\ peer = "committed" =>
           Sendable(SendChunk(NewSender(receiver.body, ReturnPath), ReturnPath \o receiver.stage))
    /\ letter.from = "send" => result # "Hold"

\* SubmissionHeaders: an accepted submission names its author in exactly one
\* unfolded From field, and has no field that names another sender.
OneAuthor ==
    peer = "committed" /\ Submission =>
        LET lines == DataLines(SubSeq(sent, 1, got))
            header == HeaderLines(lines)
        IN  /\ Cardinality({i \in header : FieldOf(lines, i)[1] = "F"}) = 1
            /\ \A i \in header : FieldName(FieldOf(lines, i)) # <<"S">>

\* try_attempt and upgrade: no reply that came in the clear is read once TLS is
\* on, credentials and envelope go out under TLS only, and no byte of the message
\* leaves before the peer has accepted sender and recipient, whatever it
\* answered to DATA, and before the caller has recorded that the body begins.
InOrder ==
    /\ TypeOK
    /\ tls => \A i \in 1..Len(ahead) : ahead[i].tls
    /\ pc \in {"auth", "challenge", "mail", "rcpt", "data", "pipeline", "mark"} => tls
    /\ sent # <<>> /\ Ours => tls /\ marked /\ accepted = {"mail", "rcpt"}

\* attempt and the send command: "accepted" means that the peer has the
\* message; every other definite status, that it has not and never will.
StatusTrue ==
    pc = "done" =>
        /\ Status = "accepted" => peer = "committed"
        /\ Status \notin {"accepted", "uncertain"} => peer # "committed"
=============================================================================
