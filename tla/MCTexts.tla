------------------------------- MODULE MCTexts -------------------------------
(* Short texts for the redaction of transcripts, and for titles. *)
EXTENDS Redaction, Titles, TLC

MCChars == {"a", "b", "p", " ", "newline", "<", ">"}

\* A label spells a secret that another one may have.
MCMarks == [l \in {"GROQ_API_KEY", "JWT_SECRET"} |->
               IF l = "JWT_SECRET" THEN <<"<", "b", "a", ">">> ELSE <<"<", "p", ">">>]

\* One pattern is of characters of the text, one runs on into a placeholder.
MCPatterns == << [words |-> {<<" ", "b">>, <<" ", "b", "b">>}, mark |-> <<"<", "p", ">">>],
                 [words |-> {<<"newline", "a">>, <<"newline", "a", "<">>}, mark |-> <<"<", "b", ">">>] >>

MCValues == {<<"a">>, <<"b", "a">>, <<"a", "a">>, <<"a", "b", "a">>, <<"a", "b", "a", "b">>}
Line(key, value) == [key |-> key, value |-> value]

\* No secret, one, two in either order, and one that is set again after a line that
\* is no secret's.
MCEnvs ==
    {<<>>}
    \cup {<<Line(l, v)>> : l \in {"GROQ_API_KEY", "JWT_SECRET"}, v \in MCValues}
    \cup {<<Line("GROQ_API_KEY", v), Line("JWT_SECRET", w)>> : v, w \in MCValues}
    \cup {<<Line("JWT_SECRET", v), Line("GROQ_API_KEY", w)>> : v, w \in MCValues}
    \cup {<<Line("JWT_SECRET", <<"a", "b">>), Line(None, <<"b", "b">>), Line("JWT_SECRET", v)>> :
              v \in MCValues}

MCSources ==
    {<<>>}
    \cup {<<t>> : t \in BoundedSeq({"a", "b", " ", "newline"}, 4) \cup BoundedSeq({"a", "b"}, 6)}
    \cup {<<t, <<"a", "b", "a">>>> : t \in BoundedSeq({"a", "b", " ", "newline"}, 2)}

\* Every accepted message gets a title it can be told by, however its length and its
\* blanks fall about the limit, and a given title is kept or is none (_derive_title,
\* create_session).  The texts of this run serve as messages and as given titles.
TitlesArePresentable ==
    at = "done" => \A f \in DOMAIN sources :
        LET content == sources[f]
        IN  /\ Accepted(content) => TitledBy(derive_title(content), content)
            /\ GivenBy(given_title(content), content)
==============================================================================
