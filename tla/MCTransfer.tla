----------------------------- MODULE MCTransfer -----------------------------
(* Lines of at most four bytes, so that "..CRLF" is the longest that grows. *)
EXTENDS Transfer

X == "x"

Field(name) == <<name, COLON>> \o CRLF
Folded == <<SP, X>> \o CRLF

\* All bodies of up to n of the bytes that framing tells apart.
Bodies(n) == UNION {[1..k -> {CR, LF, DOT, X}] : k \in 0..n}

Headers == {Field("F"), Field("F") \o Field("R") \o Folded, Field("F") \o Folded,
            Field("F") \o Field("F"), Field("B") \o Field("F"), Field("S") \o Field("F"),
            Folded, Field(DOT), <<COLON>> \o CRLF, Field(HIGH), <<X>> \o CRLF, Field(X), <<>>}

Plain == {<<>>, <<DOT>> \o CRLF, <<DOT, HIGH>> \o CRLF, <<NUL>>}

\* Headers of every kind with a few bodies, and every body with a plain header.
Mixed == {h \o CRLF \o b : h \in Headers, b \in Plain}
Mails(n) == {Field("F") \o CRLF \o b : b \in Bodies(n)}

OfQueue(file, body, intact, prefix) ==
    [from |-> "queue", file |-> file, body |-> body, intact |-> intact, prefix |-> prefix]

InputSet == Mixed \cup Headers \cup Mails(2)
QueueSet ==
    {OfQueue(m, "7bit", TRUE, <<>>) : m \in Mails(4)}
    \cup {OfQueue(p \o m, b, i, ReturnPath) : p \in {<<>>, ReturnPath}, m \in {CRLF \o b : b \in Plain},
                                              b \in {"7bit", "8bit"}, i \in BOOLEAN}
RawSet ==
    {[bytes |-> m \o <<DOT>> \o CRLF, body |-> "7bit"] : m \in Mails(4)}
    \cup {[bytes |-> m \o <<DOT>> \o CRLF, body |-> b] : m \in Mixed \cup Headers, b \in {"7bit", "8bit"}}
    \cup {[bytes |-> b \o <<DOT, CR, LF, X>>, body |-> "7bit"] : b \in Bodies(2)}
=============================================================================
