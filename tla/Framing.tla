------------------------------- MODULE Framing -------------------------------
(***************************************************************************)
(* Lines, headers and transparency: the byte-level work that the sender    *)
(* and the receiver of a message share.  A byte is one of the few symbols  *)
(* that this code tells apart; a header field name is one such symbol.     *)
(* Every loop over a chunk of input is a fold over its bytes, since the    *)
(* decoder keeps all it needs between two calls.                           *)
(***************************************************************************)
EXTENDS Integers, SequencesExt

CONSTANTS
    Limit,       \* 1000: the longest line of a message, CRLF included
    MaxHeader,   \* header_bytes
    MaxMessage   \* message_bytes

ASSUME FramingAssumption == {Limit, MaxHeader, MaxMessage} \subseteq Nat /\ Limit > 2

CR    == "CR"
LF    == "LF"
NUL   == "NUL"
DOT   == "."
SP    == " "
COLON == ":"
HIGH  == "high"    \* a byte outside ASCII

CRLF == <<CR, LF>>

Ascii(bytes) == HIGH \notin Range(bytes)

EndsWith(bytes, b) == bytes # <<>> /\ bytes[Len(bytes)] = b

StartsWith(bytes, b) == bytes # <<>> /\ bytes[1] = b

-----------------------------------------------------------------------------
(* LineDecoder                                                             *)

NewDecoder(limit) == [line |-> <<>>, limit |-> limit, complete |-> FALSE, bad |-> FALSE]

\* Mutant: the limit is noticed one byte late.
RefusesLate(d, b) ==
    \/ Len(d.line) > d.limit
    \/ b = NUL
    \/ b = LF /\ ~EndsWith(d.line, CR)
    \/ EndsWith(d.line, CR) /\ b # LF

\* The line would be too long, or is not ended by CRLF alone.
Refuses(d, b) ==
    \/ Len(d.line) = d.limit
    \/ b = NUL
    \/ b = LF /\ ~EndsWith(d.line, CR)
    \/ EndsWith(d.line, CR) /\ b # LF

\* feed_buffered, one byte; the rest of a chunk stays with the caller.
FeedByte(d, b) ==
    IF d.complete \/ d.bad THEN d
    ELSE IF Refuses(d, b) THEN [d EXCEPT !.bad = TRUE]
    ELSE [d EXCEPT !.line = Append(@, b), !.complete = (b = LF)]

FeedBuffered(d, bytes) == FoldLeft(FeedByte, d, bytes)

Clear(d) == [d EXCEPT !.line = <<>>, !.complete = FALSE]

\* A reader's loop over one chunk: s.decoder is fed, and OnFrame takes every
\* completed line; the first error ends it.
EachFrame(OnFrame(_, _), s, bytes) ==
    LET byte(t, b) ==
            LET d == FeedByte(t.decoder, b)
            IN  IF t.failed THEN t
                ELSE IF d.bad THEN [t EXCEPT !.failed = TRUE]
                ELSE IF d.complete
                     THEN [OnFrame(t, d.line) EXCEPT !.decoder = Clear(d)]
                ELSE [t EXCEPT !.decoder = d]
    IN  FoldLeft(byte, s, bytes)

-----------------------------------------------------------------------------
(* decode_data_frame and HeaderFilter                                      *)

IsEnd(frame) == frame = <<DOT, CR, LF>>

Transparent(frame) == IF StartsWith(frame, DOT) THEN Tail(frame) ELSE frame

NewFilter(submission) == [seen |-> FALSE, removing |-> FALSE, submission |-> submission]

Removed(name, submission) == name = <<"R">> \/ (submission /\ name = <<"B">>)

\* The field name of a header line, empty if it has none.
FieldName(line) ==
    LET colons == {i \in 1..Len(line) : line[i] = COLON}
    IN  IF colons = {} THEN <<>> ELSE SubSeq(line, 1, Min(colons) - 1)

\* Mutant: a continuation line is kept, whatever it continues.
RetainContinued(f, line) ==
    IF ~Ascii(line) THEN [ok |-> FALSE, keep |-> FALSE, filter |-> f]
    ELSE IF line[1] = SP THEN [ok |-> f.seen, keep |-> TRUE, filter |-> f]
    ELSE LET name == FieldName(line)
             removing == Removed(name, f.submission)
         IN  [ok |-> name # <<>> /\ SP \notin Range(name), keep |-> ~removing,
              filter |-> [f EXCEPT !.seen = TRUE, !.removing = removing]]

\* retain: whether a header line is well formed and stays in the message.
Retain(f, line) ==
    IF ~Ascii(line) THEN [ok |-> FALSE, keep |-> FALSE, filter |-> f]
    ELSE IF line[1] = SP THEN [ok |-> f.seen, keep |-> ~f.removing, filter |-> f]
    ELSE LET name == FieldName(line)
             removing == Removed(name, f.submission)
         IN  [ok |-> name # <<>> /\ SP \notin Range(name), keep |-> ~removing,
              filter |-> [f EXCEPT !.seen = TRUE, !.removing = removing]]

-----------------------------------------------------------------------------
(* message::prepare: the private copy a sender makes of its input          *)

PrepareFrame(s, frame) ==
    LET size == s.size + Len(frame)
        r == Retain(s.filter, frame)
    IN  IF ~s.headers
        THEN [s EXCEPT !.out = @ \o frame, !.body = IF Ascii(frame) THEN @ ELSE "8bit"]
        ELSE IF size > MaxHeader THEN [s EXCEPT !.failed = TRUE]
        ELSE IF frame = CRLF THEN [s EXCEPT !.headers = FALSE, !.out = @ \o frame]
        ELSE [s EXCEPT !.failed = ~r.ok, !.filter = r.filter, !.size = size,
                       !.out = IF r.keep THEN @ \o frame ELSE @]

PrepareInput(input) ==
    EachFrame(PrepareFrame,
              [decoder |-> NewDecoder(Limit), failed |-> Len(input) > MaxMessage,
               filter |-> NewFilter(TRUE), headers |-> TRUE, size |-> 0, body |-> "7bit",
               out |-> <<>>],
              input)

\* Mutant: a header without a body is a message.
PreparedLoose(p) == ~p.failed /\ p.decoder.line = <<>>

\* Complete CRLF lines and a separator between header and body.
Prepared(p) == ~p.failed /\ ~p.headers /\ p.decoder.line = <<>>

-----------------------------------------------------------------------------
(* send_body                                                               *)

NewSender(body, prefix) ==
    [decoder |-> NewDecoder(Limit), failed |-> FALSE, body |-> body, prefix |-> prefix,
     first |-> TRUE, headers |-> TRUE, out |-> <<>>]

\* Mutant: only a line that is a lone dot gets another one.
StuffLoneDot(frame) == IF IsEnd(frame) THEN <<DOT>> \o frame ELSE frame

\* Mutant: the body is sent as it is stored.
StuffNothing(frame) == frame

Stuff(frame) == IF StartsWith(frame, DOT) THEN <<DOT>> \o frame ELSE frame

\* One line of the stored message: the prefix is verified and left out.
SendFrame(s, frame) ==
    LET omitted == s.first /\ s.prefix # <<>>
    IN  [s EXCEPT !.failed = \/ (s.headers \/ s.body = "7bit") /\ ~Ascii(frame)
                             \/ omitted /\ frame # s.prefix,
                  !.out = IF omitted THEN @ ELSE @ \o Stuff(frame),
                  !.first = FALSE,
                  !.headers = @ /\ frame # CRLF]

\* One chunk: what it completes is in out.
SendChunk(s, bytes) == EachFrame(SendFrame, [s EXCEPT !.out = <<>>], bytes)

\* What must hold at the end of the file before the final dot is sent.
Sendable(s) == ~s.failed /\ s.decoder.line = <<>> /\ ~s.headers

-----------------------------------------------------------------------------
(* receive_message and SubmissionHeaders                                   *)

StartReceiver(submission, body, limit) ==
    [decoder |-> NewDecoder(limit), failed |-> "", body |-> body, submission |-> submission,
     filter |-> NewFilter(submission), headers |-> TRUE, headerSize |-> 0, size |-> 0,
     author |-> FALSE, identity |-> FALSE, stage |-> <<>>, ended |-> FALSE]

\* Mutant: the transparency dot is not allowed for.
NewReceiverTight(submission, body) == StartReceiver(submission, body, Limit)

\* One byte more than a line, for the transparency dot.
NewReceiver(submission, body) == StartReceiver(submission, body, Limit + 1)

\* Mutant: a folded From field is not looked at.
IdentityDeniedUnfolded(r, line) ==
    LET name == FieldName(line)
    IN  IF line[1] = SP THEN FALSE
        ELSE \/ name = <<>> \/ Range(name) \cap {DOT, SP} # {}
             \/ name = <<"S">>
             \/ name = <<"F">> /\ r.author

\* SubmissionHeaders::line: one plain From field and no other identity.
IdentityDenied(r, line) ==
    LET name == FieldName(line)
    IN  IF line[1] = SP THEN r.identity
        ELSE \/ name = <<>> \/ Range(name) \cap {DOT, SP} # {}
             \/ name = <<"S">>
             \/ name = <<"F">> /\ r.author

\* A header line: the structure first, then the identity of a submission.
ReceiveHeader(r, data) ==
    LET h == Retain(r.filter, data)
        from == FieldName(data) = <<"F">>
    IN  IF ~h.ok THEN [r EXCEPT !.failed = "headers"]
        ELSE IF r.submission /\ IdentityDenied(r, data) THEN [r EXCEPT !.failed = "identity"]
        ELSE [r EXCEPT !.filter = h.filter,
                       !.stage = IF h.keep THEN @ \o data ELSE @,
                       !.identity = IF data[1] = SP THEN @ ELSE from,
                       !.author = @ \/ (from /\ data[1] # SP)]

\* Mutant: the bytes are not compared with the announced body.
ReceiveDataAnyByte(r, data) ==
    LET s == [r EXCEPT !.size = @ + Len(data),
                       !.headerSize = IF r.headers THEN @ + Len(data) ELSE @]
    IN  IF Len(data) > Limit THEN [r EXCEPT !.failed = "framing"]
        ELSE IF s.size > MaxMessage \/ s.headerSize > MaxHeader THEN [r EXCEPT !.failed = "size"]
        ELSE IF r.headers /\ data # CRLF THEN ReceiveHeader(s, data)
        ELSE [s EXCEPT !.headers = FALSE, !.stage = @ \o data]

\* One line of DATA, the transparency dot taken off.
ReceiveData(r, data) ==
    LET s == [r EXCEPT !.size = @ + Len(data),
                       !.headerSize = IF r.headers THEN @ + Len(data) ELSE @]
    IN  IF Len(data) > Limit \/ (r.body = "7bit" /\ ~Ascii(data))
        THEN [r EXCEPT !.failed = "framing"]
        ELSE IF s.size > MaxMessage \/ s.headerSize > MaxHeader THEN [r EXCEPT !.failed = "size"]
        ELSE IF r.headers /\ data # CRLF THEN ReceiveHeader(s, data)
        ELSE [s EXCEPT !.headers = FALSE, !.stage = @ \o data]

\* The end of DATA: a message without a body gets its separator.
ReceiveEnd(r) ==
    IF r.submission /\ ~r.author THEN [r EXCEPT !.failed = "identity"]
    ELSE [r EXCEPT !.ended = TRUE, !.stage = IF r.headers THEN @ \o CRLF ELSE @]

ReceiveFrame(r, frame) ==
    IF IsEnd(frame) THEN ReceiveEnd(r) ELSE ReceiveData(r, Transparent(frame))

\* fill_line on what one read made available: at most one line is taken.
ReceiveChunk(r, bytes) ==
    LET d == FeedBuffered(r.decoder, bytes)
    IN  IF d.bad THEN [r EXCEPT !.failed = "framing"]
        ELSE IF d.complete THEN [ReceiveFrame(r, d.line) EXCEPT !.decoder = Clear(d)]
        ELSE [r EXCEPT !.decoder = d]

\* How much of the chunk it takes.
Taken(r, bytes) == Len(FeedBuffered(r.decoder, bytes).line) - Len(r.decoder.line)
=============================================================================
