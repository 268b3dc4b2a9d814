----------------------------- MODULE Redaction -------------------------------
(***************************************************************************)
(* scripts/redact_transcripts.py: the secrets of .env, and whatever has    *)
(* the shape of one, are replaced by placeholders in copies of the         *)
(* transcripts; --check looks for what is left (without it, the script     *)
(* ends in 0 where it would have failed over a leak).                      *)
(*                                                                         *)
(* A character of a text being redacted knows its place in the original,   *)
(* and a placeholder's has none, so that it shows what is left of what.    *)
(***************************************************************************)
EXTENDS Integers, Sequences, SequencesExt, FiniteSetsExt

CONSTANTS
    Labels,         \* the labels of SECRET_ENV_KEYS
    Chars,
    Marks,          \* the placeholder of each label, spelled out
    PATTERNS,       \* the patterns, in order: the words each matches and its replacement
    MIN_SECRET_LEN,
    Envs,           \* what .env may hold: lines [key, value], unquoted
    Sources,        \* what the directory of transcripts may hold: texts, by name
    None

ASSUME TextAssumption ==
    /\ \A lines \in Envs : lines \in Seq([key : Labels \cup {None}, value : Seq(Chars)])
    /\ \A texts \in Sources : texts \in Seq(Seq(Chars))
    /\ PATTERNS \in Seq([words : SUBSET (Seq(Chars) \ {<<>>}), mark : Seq(Chars) \ {<<>>}])
    /\ MIN_SECRET_LEN \in Nat \ {0}
    /\ None \notin Labels

\* Placeholders are bracketed by characters that no secret has; a key is a label or
\* one whose value is no secret.
ASSUME MarkAssumption ==
    /\ Marks \in [Labels -> Seq(Chars) \ {<<>>}]
    /\ \A lines \in Envs : \A n \in DOMAIN lines :
          /\ lines[n].key \in Labels \cup {None}
          /\ \A l \in Labels : {Head(Marks[l]), Last(Marks[l])} \cap Range(lines[n].value) = {}

VARIABLES
    env, sources,   \* what the script is given: .env and transcripts
    secrets,    \* load_env_secrets' dict, in the order its keys were inserted
    at,         \* how far the script has come
    line,       \* the next line of .env
    text,       \* the transcript being redacted
    todo,       \* the secrets it is still to be searched for
    out,        \* the redacted copies written
    leaks,      \* what --check has counted
    exit        \* the exit status

vars == <<env, sources, secrets, at, line, text, todo, out, leaks, exit>>

Stages == {"loading", "listing", "reading", "scrubbing", "matching", "writing", "done"}

TypeOK ==
    /\ env \in Envs /\ sources \in Sources
    /\ \A n \in DOMAIN secrets :
          secrets[n].label \in Labels /\ Len(secrets[n].value) >= MIN_SECRET_LEN
    /\ at \in Stages
    /\ line \in 1..Len(env) + 1
    /\ \A i \in DOMAIN text : text[i].ch \in Chars /\ text[i].place \in Nat
    /\ todo \subseteq DOMAIN secrets
    /\ Len(out) <= Len(sources)
    /\ leaks \in Nat
    /\ exit \in {0, 1, None}

-----------------------------------------------------------------------------
(* Searching and replacing *)

Spelled(chars, word, i) ==
    /\ i + Len(word) - 1 <= Len(chars)
    /\ \A k \in DOMAIN word : chars[i + k - 1] = word[k]
Spelling(t) == [i \in DOMAIN t |-> t[i].ch]
Placed(original) == [i \in DOMAIN original |-> [ch |-> original[i], place |-> i]]
Unplaced(mark) == [i \in DOMAIN mark |-> [ch |-> mark[i], place |-> 0]]
Longest(words) == CHOOSE n \in {Len(w) : w \in words} : \A w \in words : Len(w) <= n

\* Mutant: what is found is cut out.
CutOut(t, words, mark) ==
    LET chars == Spelling(t)
        rest[i \in 1..Len(t) + 1] ==
            LET found == {w \in words : Spelled(chars, w, i)}
            IN  IF i > Len(t) THEN <<>>
                ELSE IF found = {} THEN <<t[i]>> \o rest[i + 1]
                ELSE rest[i + Longest(found)]
    IN  rest[1]

\* str.replace for one word, pattern.subn for many: from left to right, the longest
\* match at each place, and nothing is searched twice.
Replace(t, words, mark) ==
    LET chars == Spelling(t)
        rest[i \in 1..Len(t) + 1] ==
            LET found == {w \in words : Spelled(chars, w, i)}
            IN  IF i > Len(t) THEN <<>>
                ELSE IF found = {} THEN <<t[i]>> \o rest[i + 1]
                ELSE Unplaced(mark) \o rest[i + Longest(found)]
    IN  rest[1]

\* Mutant: in the order of .env.
FirstOf(ns) == CHOOSE n \in ns : \A m \in ns : n <= m

\* sorted by length, longest first; the sort is stable.
LongestOf(ns) ==
    CHOOSE n \in ns : \A m \in ns :
        \/ Len(secrets[m].value) < Len(secrets[n].value)
        \/ Len(secrets[m].value) = Len(secrets[n].value) /\ n <= m

-----------------------------------------------------------------------------
Init ==
    /\ env \in Envs /\ sources \in Sources
    /\ secrets = <<>>
    /\ at = "loading"
    /\ line = 1
    /\ text = <<>>
    /\ todo = {}
    /\ out = <<>>
    /\ leaks = 0
    /\ exit = None

\* Mutant: whatever a key of a secret is set to is one.
LoadAnyLine ==
    /\ at = "loading"
    /\ line <= Len(env)
    /\ secrets' = IF env[line].key = None THEN secrets
                  ELSE Append(secrets, [label |-> env[line].key, value |-> env[line].value])
    /\ line' = line + 1
    /\ UNCHANGED <<env, sources, at, text, todo, out, leaks, exit>>

\* A line of .env: a secret that is too short is passed over, even if it was set
\* above; a key set again keeps its place in the dict.
LoadLine ==
    /\ at = "loading"
    /\ line <= Len(env)
    /\ LET new == [label |-> env[line].key, value |-> env[line].value]
           known == {n \in DOMAIN secrets : secrets[n].label = new.label}
       IN  secrets' = IF new.label = None \/ Len(new.value) < MIN_SECRET_LEN THEN secrets
                      ELSE IF known = {} THEN Append(secrets, new)
                      ELSE [n \in DOMAIN secrets |-> IF n \in known THEN new ELSE secrets[n]]
    /\ line' = line + 1
    /\ UNCHANGED <<env, sources, at, text, todo, out, leaks, exit>>

\* The end of .env, or there is none; without transcripts the script gives up.
ListFiles ==
    /\ at = "loading"
    /\ line = Len(env) + 1
    /\ \/ sources = <<>> /\ at' = "done" /\ exit' = 1
       \/ sources # <<>> /\ at' = "reading" /\ UNCHANGED exit
    /\ UNCHANGED <<env, sources, secrets, line, text, todo, out, leaks>>

ReadFile ==
    /\ at = "reading"
    /\ Len(out) < Len(sources)
    /\ text' = Placed(sources[Len(out) + 1])
    /\ todo' = DOMAIN secrets
    /\ at' = "scrubbing"
    /\ UNCHANGED <<env, sources, secrets, line, out, leaks, exit>>

\* One round of redact_text's first loop.
Scrub ==
    /\ at = "scrubbing"
    /\ todo # {}
    /\ LET n == LongestOf(todo)
       IN  /\ text' = Replace(text, {secrets[n].value}, Marks[secrets[n].label])
           /\ todo' = todo \ {n}
    /\ UNCHANGED <<env, sources, secrets, at, line, out, leaks, exit>>

\* Its second loop.
Matched(t, patterns) == FoldLeft(LAMBDA u, p : Replace(u, p.words, p.mark), t, patterns)

MatchPatterns ==
    /\ at = "scrubbing"
    /\ todo = {}
    /\ text' = Matched(text, PATTERNS)
    /\ at' = "writing"
    /\ UNCHANGED <<env, sources, secrets, line, todo, out, leaks, exit>>

Leaking(t) == {n \in DOMAIN secrets :
                  LET chars == Spelling(t)
                  IN  \E i \in DOMAIN t : Spelled(chars, secrets[n].value, i)}

\* The copy is written, and searched for what --check calls a leak.
WriteFile ==
    /\ at = "writing"
    /\ out' = Append(out, text)
    /\ leaks' = leaks + Cardinality(Leaking(text))
    /\ at' = "reading"
    /\ UNCHANGED <<env, sources, secrets, line, text, todo, exit>>

Finish ==
    /\ at = "reading"
    /\ Len(out) = Len(sources)
    /\ at' = "done"
    /\ exit' = IF leaks > 0 THEN 1 ELSE 0
    /\ UNCHANGED <<env, sources, secrets, line, text, todo, out, leaks>>

Done == at = "done" /\ UNCHANGED vars

Next == LoadLine \/ ListFiles \/ ReadFile \/ Scrub \/ MatchPatterns \/ WriteFile \/ Finish \/ Done

Spec == Init /\ [][Next]_vars

-----------------------------------------------------------------------------
(* Safety *)

\* Where the secrets of .env stand in a text: the places of each occurrence.
Occurrences(chars) ==
    UNION {{i .. i + Len(secrets[n].value) - 1 :
               i \in {j \in DOMAIN chars : Spelled(chars, secrets[n].value, j)}} :
           n \in DOMAIN secrets}

\* Occurrences that overlap no other one except those within them.
Isolated(chars) ==
    {o \in Occurrences(chars) : \A p \in Occurrences(chars) : p \cap o = {} \/ p \subseteq o}

Kept(t) == {t[i].place : i \in DOMAIN t} \ {0}

\* Once the secrets have been looked for, of an isolated secret not a character is
\* left, though it contain others (redact_text: "longest first so substrings don't
\* shadow"); and nothing but secrets has gone, and what is left is in its order.
ExactlySecretsGo ==
    /\ at = "scrubbing" /\ todo = {} =>
          LET original == sources[Len(out) + 1]
          IN  DOMAIN original \ UNION Occurrences(original) \subseteq Kept(text)
    /\ at \in {"scrubbing", "writing"} /\ todo = {} =>
          LET original == sources[Len(out) + 1]
          IN  /\ Kept(text) \cap UNION Isolated(original) = {}
              /\ \A i, j \in DOMAIN text :
                    i < j /\ text[i].place # 0 /\ text[j].place # 0 => text[i].place < text[j].place

\* --check fails only over what a placeholder spells: no secret is left in a copy, nor
\* made by removing what stood within it, and every copy counts.
LeaksAreSpelledByMarks ==
    /\ \A f \in DOMAIN out : \A o \in Occurrences(Spelling(out[f])) : \E i \in o : out[f][i].place = 0
    /\ exit # None =>
          (exit = 1 <=> sources = <<>> \/ \E f \in DOMAIN out : Leaking(out[f]) # {})
==============================================================================
