------------------------------- MODULE Titles --------------------------------
(***************************************************************************)
(* The title of a chat session: the one given when it is created, or one   *)
(* derived from its first message (application/chat_service.py).           *)
(***************************************************************************)
EXTENDS Integers, Sequences, SequencesExt

CONSTANTS
    Blanks,             \* whitespace
    Space,              \* the blank that joins words
    Ellipsis,
    MAX_TITLE_LENGTH,
    Untitled            \* NULL

ASSUME BlankAssumption == Space \in Blanks /\ Ellipsis \notin Blanks
ASSUME LengthAssumption == MAX_TITLE_LENGTH \in Nat \ {0, 1}

InkOf(text) == {i \in DOMAIN text : text[i] \notin Blanks}
rstrip(text) ==
    SubSeq(text, 1, CHOOSE n \in InkOf(text) \cup {0} : \A i \in InkOf(text) : i <= n)
strip(text) == Reverse(rstrip(Reverse(rstrip(text))))

\* create_session: a title of blanks is none.
given_title(title) == LET t == strip(title) IN IF t = <<>> THEN Untitled ELSE t

\* open_stream: content that is refused never names a session.
Accepted(content) == strip(content) # <<>>

\* " ".join(content.split())
Squeezed(content) ==
    FoldLeft(LAMBDA line, c :
                 IF c \notin Blanks THEN Append(line, c)
                 ELSE IF line = <<>> \/ Last(line) = Space THEN line
                 ELSE Append(line, Space),
             <<>>, content)
SingleLine(content) == rstrip(Squeezed(content))

\* Mutant: no room is left for the ellipsis.
DeriveTooLong(content) ==
    LET line == SingleLine(content)
    IN  IF Len(line) <= MAX_TITLE_LENGTH THEN line
        ELSE Append(rstrip(SubSeq(line, 1, MAX_TITLE_LENGTH)), Ellipsis)

derive_title(content) ==
    LET line == SingleLine(content)
    IN  IF Len(line) <= MAX_TITLE_LENGTH THEN line
        ELSE Append(rstrip(SubSeq(line, 1, MAX_TITLE_LENGTH - 1)), Ellipsis)

-----------------------------------------------------------------------------
Ink(text) == FoldLeft(LAMBDA ink, c : IF c \in Blanks THEN ink ELSE Append(ink, c), <<>>, text)

\* One line that begins and ends with ink and has single spaces between its words.
Presentable(title) ==
    /\ title # <<>>
    /\ \A i \in DOMAIN title : title[i] \in Blanks =>
          title[i] = Space /\ 1 < i /\ i < Len(title) /\ title[i + 1] \notin Blanks

\* What a title derived from an accepted message is, said without deriving it: one
\* line within the limit, the whole of the message or, if that does not fit in any
\* spacing, as much of its beginning as fits, an ellipsis next to its last word.
TitledBy(title, content) ==
    /\ Presentable(title)
    /\ Len(title) <= MAX_TITLE_LENGTH
    /\ \/ Ink(title) = Ink(content)
       \/ /\ Last(title) = Ellipsis
          /\ Last(Front(title)) \notin Blanks
          /\ IsStrictPrefix(Ink(Front(title)), Ink(content))
          /\ Len(title) >= MAX_TITLE_LENGTH - 1

\* What a given title becomes: all of it but the blanks around it, or none.
GivenBy(title, given) ==
    \/ title = Untitled /\ Ink(given) = <<>>
    \/ \E i, j \in InkOf(given) : title = SubSeq(given, i, j) /\ InkOf(given) \subseteq i..j
==============================================================================
