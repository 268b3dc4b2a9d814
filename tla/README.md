# A verification development of the multi-user LLM chat API

TLA+ models of the back end under `src/backend/`, checked with TLC and, for the
properties that matter most, proved with TLAPS. Every action is translated from
the code; `PROJECT.json` maps each definition to the lines it stands for.

## 1. The system

A Flask (apiflask) application behind gunicorn's gevent workers: many greenlets
in several processes, one request each, one SQLAlchemy session per request, one
PostgreSQL database at READ COMMITTED. Nothing is shared but the database:
there is no application-level lock, no queue, no cache of rows between requests.

| component | state | operations | hard part |
|---|---|---|---|
| chat turns (`application/chat_service.py`, `interface/api/chat.py`) | tables `chat_sessions`, `messages`; per request: loaded session, history, stamp | create, get, delete a session; send (one transaction around the provider call); stream (user turn committed, then a generator, then the reply) | two requests on one session, disconnects, dying workers, failing provider, a session deleted under a stream, a clock that cannot be trusted |
| accounts (`auth_service.py`, `user_admin_service.py`, `deps.py`, `permissions.py`) | table `users`; per request: the acting user and the target as loaded | login (with rehash), change password, create user, set active, promote, list | decisions on stale copies, check-then-insert, tokens that outlive the account |
| seed (`infrastructure/seed.py`, `entrypoint.sh`) | table `users` | run before each container serves | containers racing one another and the API; restarts |
| SSE framing (`chat.py`, `generate`) | frames sent | meta, token*, done or error | a client that reads only part; a commit that fails at the end |
| export (`export_service.py`) | what its SELECTs have returned | check the role; list accounts; list sessions; load messages, a batch of sessions at a time | every SELECT sees a later database than the one before it |
| pool and probes (`db/session.py`, `health.py`, `gunicorn.conf.py`) | 15 connections per process | check out, check in, time out | sends hold a connection through the provider call; readiness needs one, too |
| LLM providers (`infrastructure/llm/`) | none | complete, stream, health_check | failures half-way; deltas must concatenate to the reply |
| text (`_derive_title`, `create_session`, `scripts/redact_transcripts.py`) | the script's copies, counts and exit status | derive or accept a title; load `.env`, redact, check | lengths around the limit; secrets inside secrets; replacements that spell one |
| schema, configuration, logging, CORS | | | keys and cascades appear in the models, the rest decides nothing |

What makes each part correct:

* chat turns: the stored conversation of a session is in an order that respects
  the order of the requests, is whole, has no dangling or orphaned turn, stays
  with its owner, and is what the provider is shown; requests end and turns get
  answered. Section 4 says exactly how far each promise holds under overlap.
* accounts: there is always an active super_admin (invariants I-1 and I-2 of
  `PLAN.md`), privilege comes only from a super_admin, who is deactivated is not
  served, and check-then-write races do no more damage than stated.
* seed: a container that starts has the configured administrator.
* SSE: a client can parse what it is sent, and what it has been shown as stored is
  stored, whole and once.
* pool: no connection is lost, a dead one reaches nobody, and slow replies keep
  others waiting only where the code keeps a connection through them.
* export: what had been stored when it began is in it, under its owner, and what is in
  it is whole turns; only requests beside it can tear it.
* text: a title is one presentable line; of a secret that overlaps no other nothing is
  left, what is no secret stays, and `--check` fails only over a placeholder.

## 2. The modules

**`ChatTurns`** — the chat service over its two tables. A step of a request is
what it does between two points at which another request can be seen to
interfere: a SELECT, a flush that takes a lock, a COMMIT. `pc[r]` says how far a
request has come:

    idle -Begin-> begun -LoadSession-> owned -LoadHistory-> stamped
      stream:  stamped -CommitUserTurn-> streaming -FinishStream-> replied
                                                   -FailStream->   partial
                                                   (session gone)  aborted
                                                   -Disconnect->   disconnected
      send:    stamped -FlushUserTurn-> completing -CompleteSend-> replied
                                                   -FailSend->     error
      get:     owned -ReturnHistory-> replied
      delete:  owned -Delete-> replied
      any:     -Die-> died;  404 not_found;  422 invalid;  foreign key: error

`handle[r]` is what the request holds in memory (the loaded title and
`updated_at`, the prompt, `base`), so a decision taken on a stale copy stays
taken. A message is known by the request that wrote it and its role; its text is
abstracted away. Three points where the code leans on its libraries are modelled
by what they do:

* the session has `autoflush=False` and `expire_on_commit=False`: the UPDATE of a
  user turn carries only attributes that differ from the loaded copy, and
  `onupdate=now()` fills `updated_at` if only the title differs (`BumpedTo`): with
  whatever the database's clock reads, be it before the time the session has;
* a flushed INSERT into `messages` holds `FOR KEY SHARE` on the session's row
  until its transaction ends: a DELETE waits for it (`KeyShareHolders`);
* a dropped connection makes the WSGI server close the generator, which raises
  `GeneratorExit` at a `yield`; `except Exception` does not see it (`Disconnect`).

**`Accounts`** — login, password change, user administration and the seed over
the table `users`. A request or a container start asks one thing (`ask[r]`),
loads (`actor[r]`, `target[r]`), decides, and writes at its COMMIT; the UPDATE is
by primary key and of the changed columns only, so it lands on whatever the row
has become. Names have a lower-case form (the lookup folds case, the unique
constraint does not); passwords are values and a hash is the password behind it
plus whether its parameters are outdated. `trail` and `before` are history
variables for the properties; no action reads them.

**`Conversation`** — what a session promises its owner, without tables, clocks,
histories or other people: a turn is said, then answered or abandoned, or it is
exchanged with its reply in one step, always by the owner of a live session;
sessions are opened once and forgotten whole. **`ConversationOfTurns`** gives the
mapping: a session's status and owner are its row's; a turn is `waiting` while its
row is there without a reply and its stream is under way, `answered` with its
reply, `abandoned` without. `ImplementsConversation` says that `ChatTurns` does
nothing else.

**`SseStream`** — one streamed reply at the grain of its frames: the provider hands
over a delta (`Pull`), ends (`Exhaust`) or raises (`Fail`); `stream_reply` collects
it, the view frames it, the worker writes it (`Write`) and resumes the generators.
At the end the reply is committed and only then its terminal frame yielded
(`Persist`), or the INSERT or the commit raises (`PersistFails`). The client may
leave, its session be deleted and the worker die at any point; a client that has
left is noticed at a write (`Close`), or never. Characters are numbered by their
position, so a lost, doubled or swapped delta shows in what is stored. `ChatTurns`
has the same endings in one step each.

**`ConnectionPool`** — the connections of one worker process. A request is `short`
(one transaction), a `send` (one transaction around the provider call), a `stream`
(commit, provider, commit) or the readiness probe (`ready`, a connection of its
own); it takes a connection (`Checkout`, with the ping), works, and gives it back
(`Release`). A connection is known by the incarnation of the server it was made to
and is dead when that one is; idle ones are counted as `fresh` or `stale`. In
`ChatTurns` a request that loses its connection, or waits for one until the pool's
timeout, is among those that `Die`.

**`ChatExport`** — extends `ChatTurns` by the accounts and one export of the
super_admin's. After its permission check the export reads the accounts
(`ListAccounts`), the live sessions (`ListSessions`) and then the messages, those of
at most `Batch` sessions at a time (`LoadMessages`; SQLAlchemy's `selectinload`
issues one SELECT per batch), each seeing what is committed by then, while accounts
are created (`CreateAccount`) and the chat goes on (`Chat`, any step of `ChatTurns`
for users that have an account). `Dumped` and `DumpedRows` are what comes out: the
code looks sessions up for the users of the roster only. `past` and `known` are
history variables. The chat is followed until the export is over, as nothing after
that is in it. **`ExportSnapshot`** adds a history variable `views` of all that was
there to export at each moment, and asks whether the result is one of them.

**`Redaction`** — `scripts/redact_transcripts.py` from the lines of `.env`
(`LoadLine`: a label keeps its place in the dict, a short value does not replace a
long one) over each transcript (`Scrub`: the longest secret first; `MatchPatterns`)
to the copies, the leaks counted by `--check` and the exit status. A character knows
its place in the original and a placeholder's has none, so that what is left can be
told from what was put in. A regular expression is the set of words it matches, none of
them empty.
**`Titles`** — `strip`, the title given at creation and the one derived from the
first message, as operators beside a definition of what a title should be
(`TitledBy`, `GivenBy`).

**`MCChatTurns`, `MCAccounts`, `MCConnectionPool`, `MCChatExport`, `MCTexts`** —
instances for TLC.

**`ChatTurnsProofs`, `ChatExportProofs`, `ConversationProofs`, `AccountsProofs`,
`SseStreamProofs`, `ConnectionPoolProofs`, `TextProofs`** — theorems, checked by
TLAPS; **`SequenceFacts`** — the lemmas for those of them that need an induction.

Mutants (definitions whose comment begins with `Mutant:`) stand before the
definition they would replace. They are plausible bugs; each property is broken
by at least one of them, which shows that the property depends on the code.

## 3. The runs

| run | instance | what it shows |
|---|---|---|
| `overlap` | 1 user, 1 session, 3 requests of any kind, clock {0, 1} | all that overlapping turns keep and what they cannot break |
| `conversation` | 2 users, 2 sessions, 2 requests, clock {0}, fairness | nothing crosses users; every step is the conversation's; requests end, turns are answered |
| `strict_order` | 1 session, 2 requests | violated: overlapping turns tie (clock {0, 1}) |
| `dangling` | 1 session, 2 requests | violated: a disconnect leaves a turn without a reply |
| `accounts` | 5 ids, 3 requests from 20 questions of two kinds, empty or established table | privilege, the last super_admin, clashing names, the seed; deactivation and passwords |
| `toggle` | as `accounts`, 2 requests of administration | violated: an admin toggles an admin |
| `sse` | replies of 0 to 5 characters, mock deltas of 2, any Groq deltas, fairness | frames, storage, and the end of every stream |
| `terminal` | replies of 0 to 2 characters | violated: a stream ends without a terminal frame |
| `pool` | 3 requests, 2 connections of which 1 is kept, 1 outage, fairness | leaks, stale connections, who can keep whom waiting |
| `export` | 2 users, 2 sessions, 2 requests that write, 1 session per batch, clock {0, 1} | what an export must contain, and how it can be torn |
| `snapshot` | 1 user, 1 session, 1 request | violated: a session without the title its exported turn gave it |
| `texts` | texts of up to 6 letters or 4 characters with blanks, 66 files `.env` | redaction, `--check`, titles |

Bounds. Each request is made once, so the number of requests bounds a behaviour; three
are enough for a third request that follows, or overlaps, two that overlap each other,
which is what the exceptions in the properties speak of. Two clock readings make the
clock stand still, advance and step back; stamps are pushed past them without a bound
of their own; where a run's properties do not depend on time, one reading is enough.
Requests are interchangeable, so the safety runs use symmetry. `conversation` checks
liveness, where TLC's symmetry is unsound, and takes representatives instead: some
request is the first user's and for the first session (`RepresentativeInit`). The two
sets of questions in `MCAccounts` hold, for every guard, a question that passes it and
one that does not. Three passwords allow two changes that replace the same one, and one
that follows another. The questions of one behaviour are all of one kind (`OneKind`):
administration and the seed, or what touches one user's credentials and account. A
login beside a creation or a seed is therefore not in the run; those touch different
rows. An empty and an established table are the two kinds a container can start on:
`RosterAssumption` says a table with accounts has an active super_admin, because a
seed ran before anything else (`entrypoint.sh`) and `AlwaysASuperAdmin` then preserves
it.

Five characters in deltas of two are cut into whole deltas and a rest, or none, and
by Groq in every way. Two connections for three requests let two requests hold all
and a third wait, time out or be served by a release; one kept connection makes a
connection given back idle or dropped. The run looks at requests in the order of
what they are (`InOrder`), since they differ in nothing else: this is symmetry by
choice of representatives, which unlike TLC's is sound for liveness.

One session per batch and two sessions give the export two SELECTs of messages with
room between them; two requests can both be turns that overlap it and one another, or
a turn and a deletion. That run has a clock that moves and steps back, and is kept
small by what cannot matter to an export: `get` writes nothing and is left out
(`WritersInit`); a request that ends without having written is, to the export, one that
was never made, and a worker that dies under a stream leaves what a client that goes
away leaves (`OnlyWriters`); and sessions are opened without a title (`NoTitleGiven`),
since a given one cannot be torn off. The proofs need none of this. The texts are long enough for a secret of four letters
with one of two inside it, for two that overlap, and for one that would appear if
another between its halves were cut out; of the placeholders, one spells a secret and
one is run into by a pattern. Titles are cut at three characters, with texts on both
sides.

Fairness (`FairSpec` of `ChatTurns`, which `RepresentativeSpec` restricts to
representatives) is weak fairness of each request's own steps: gevent schedules
runnable greenlets, and a provider's call returns or raises (the client library has a
timeout). It asks nothing of clients, clocks or crashes. In `SseStream` it is weak
fairness of the worker and its generators (`Serve`), for the same reasons. In
`ConnectionPool` it is weak fairness of a request's steps on the database alone: the
provider may take for ever, and neither the pool's timeout nor PostgreSQL's return is
assumed, so that `ServedUnlessSendsHoldAll` owes nothing to them. One thing the finite
number of requests hides: an endless supply of overlapping sends on a session could
keep a DELETE waiting for its row lock for ever.

## 4. What holds, and what does not

Of the conversation (`ChatTurns`):

* `RealTimeOrder`, `PromptCoversThePast`: once a request has ended, everything it
  stored sorts strictly before, and is in the prompt of, any turn of a request
  that begins later, even if the clock steps back.
* `TurnsAreWhole`, `DanglingOnlyIfAbandoned`, `NoOrphans`, `OwnerOnly`,
  `HistoryIsAppendOnly`: the stored history is whole, owned and append-only.
* `TitleOverwrittenOnlyByOverlap`, `ListLagsOnlyUnderOverlap`: the two lost
  updates that overlapping turns can cause, and their limits. The README's claim
  that a title is not overwritten once the first message has set it is true only
  for requests that do not overlap. The list has one more way to lag, without any
  overlap: a first turn stamped with the very time its session has (created in the
  same microsecond, or the clock stood still or stepped back) is an assignment that
  changes nothing, so `onupdate` puts the database's `now()` there, and that may be
  before the turn (`TimedByDatabase`). Its reply, or the next turn, mends it. The
  comment "bump updated_at so the list resorts now" (`chat_service.py:119`) is not
  quite so in that case.
* `EveryRequestEnds`, `TurnEventuallyAnswered`: liveness.
* `ImplementsConversation`: the refinement of `Conversation`.

Of a stream (`SseStream`): `FramesInOrder`, `TerminalFrameIsStored`,
`StoredIsShown`, `DoneIsWhole`, `StoredOnce` and `StreamEnds`. A client that sees
`done` or `error` can rely on it; one that sees neither knows nothing.

Of the pool: `ConnectionsAccounted`, `FailsOnlyInAnOutage` and
`ServedUnlessSendsHoldAll`. The exception in the last is the limit of the design: a
non-streaming send keeps its connection through the provider call, and fifteen of
them keep everybody else, the readiness probe included, waiting for as long as
the provider takes or until the pool's timeout. Streams do not.

Of an export: `ExportReflectsThePast` (whatever was stored when it began and has not
been deleted is in it, under its owner), `ExportedTurnsAreWhole`, and
`TornOnlyByOverlap`: a session's row is read before its messages, so a turn that
commits in between appears under the title and time from before it; only turns that
overlap the export, or for the time one another, do that. The turn whose time the
database's clock gave, if its reply never came, is above its session's time in an export
as it is in the list, as long as it is the last.

Of texts: `ExactlySecretsGo` (nothing is left of a secret that overlaps no other but
those inside it; nothing else goes; order stays), `LeaksAreSpelledByMarks` (what
`--check` still finds runs through a placeholder, and decides the exit status) and
`TitlesArePresentable`.

Of accounts: `AlwaysASuperAdmin` (I-1 and I-2), `PrivilegeNeedsSuperAdmin`,
`DeactivatedStayOut` and `ConfiguredAdminSeeded` hold; check-then-write leaves
`NamesClashOnlyByOverlap`, `AdminToggledBySuperAdminOrOverlap` and
`PasswordRevertedOnlyByOverlap`. The last says of each step that changes the password
behind a hash whose it is, and to what: it ends either the account's own password change,
which knew the password it replaces unless another change or a login ran beside it, or
the rehash of a login to the account, which puts an old password back only if a change
of the account's password ran beside that login. `DeactivatedStayOut` speaks of
deactivations the model has seen; an account that a found table has inactive is one
whose deactivation no request of the model can answer for.

Two of these exceptions are cases in which something else is written. `PLAN.md:172` has
`username (unique, citext/lower)`: the schema's constraint is on the exact spelling, so
overlapping creations can leave `bob` and `Bob`. `seed.py:35` ("Ensure exactly the
configured super_admin exists") and the comment at `seed.py:69` ("Concurrent seed won
the race") take whoever holds the name for a seed: if a request of the API inserted it
in between, the container starts with an ordinary account under the configured name,
and refuses at its next start. The exceptions in `NamesClashOnlyByOverlap` and
`ConfiguredAdminSeeded` are those cases, and no others; neither has a run of its own.

The documents promise more in five places, and the code does not keep it (see
"findings" in `PROJECT.json`):

* `StrictOrder` — every turn is stamped strictly after the one before it. Two
  overlapping requests read the same history and may stamp alike.
* `NoDanglingTurn` — a dropped stream never leaves a user turn dangling. It does
  when the client goes away.
* `AdminsDoNotToggleAdmins` — an admin may not toggle an admin. It can, if the
  target is promoted between the check and the commit.
* `EndsInTerminalFrame` — a stream ends in `done` or `error`. It does not if its
  session is deleted under it, or its last commit fails.
* `IsSnapshot` — the export is a complete snapshot. It need not be the state of any
  moment: READ COMMITTED gives each of its SELECTs a database of its own.

## 5. The proofs

The proofs hold for every value of the constants that the named assumptions allow.

`ChatTurnsProofs` proves, for any sets of users, sessions and requests and any
clock (`ClockAssumption`: readings are naturals; `TitleAssumption`: the special
values differ from users and requests), type correctness, six safety invariants
and two action properties. None of the invariants is inductive alone. `IInv` adds:

* `PastIsOver` — what is in `before[r]` has ended, so it writes no more;
* `RowsHaveWriters` — a stored row is the user or assistant row of a send or
  stream that is far enough to have written it;
* `PromptsPrecede` — a prompt's turns sort before the stamp made from it
  (`BaseFollowsHistory`: the maximum rule of `open_stream`);
* `CoversThePast` — a stamped request's prompt has every stored turn of the
  requests that had ended before it began;
* `OwnerStays` — a session that passed the ownership check stays its owner's.

Real-time order then follows: an earlier request's turn is in the later prompt,
so before the later stamp. The step lemmas (`StepFrame`, `StepInsert`,
`StepSession`, `StepRemove`, `StepKeeps`, `StepStage`, `StepBegin`, `StepTitle`, `StepLoad`) say
once for all actions what can happen to each variable; each conjunct is then
preserved by a short argument over those. `HistoryIsAppendOnly` needs no more than
`IInv`. `TitleOverwrittenOnlyByOverlap` needs one more invariant, `NamedBeside`: a
request that holds a copy of a session without a title ran beside whichever
request has named it since. `TurnsAreWhole` (theorem `NoHalfTurns`) is inductive
beside `IInv` with `WholeTurns`: not only the table but every prompt read from it is
of whole turns (`Whole`), the requests those are from are past restamping them
(`Written`), and the user turn of a stream under way is there (`UnderWay`).

`ChatTurnsProofs` goes on to `ListLagsOnlyUnderOverlap`. In each session that has turns
there is one, the last to have moved the time (`LastBump`), before whose end every other
stored turn had begun (`UpToDate`), and which the time has reached unless it left the
time to the database (`TimedByDatabase`); so whatever sorts after the time overlaps that
one, or is it or its own reply. One hard case is a turn that leaves the time alone,
because its copy of the session already has it: a request that began after the last
mover holds a copy no newer than the time. The other is a turn that leaves it to the
database: what it may set back is the time of a session that was without a title when it
was loaded. A session with turns has a title (`Titled`), and so has the copy of any
request that began after one of them had ended (`TitledPast`), so every turn there is
overlaps this one. That a turn once timed by the database stays so is `TimedStays`.

`ChatExportProofs` proves type correctness and all three properties of the export,
for any batch size. Each step of `ExportNext` is a step of the chat or leaves it
alone (`ChatStep`), so that the chat's invariants lift without being proved again
(`Chatting`, which has `Titled`, `TitledPast` and `UpToDate` beside `IInv`).
`ReadsAreWhole`: what has been read is whole turns of sessions that
keep their owners. `Housed` and `Followed`: the owners of sessions have accounts, and
what was there when the export began has been read, is still to be read, or has been
deleted. `ReadInOrder`: a session's row, as read, agrees (`Agree`), but for
overlaps and for the last turn if the database gave its time, with the turns that were
old when the export began, those in the table, which the next batch may read
(`Consistent`), as well as those already read; and nothing is read of a session whose
turn has not come.

`ConversationProofs` proves the refinement, `Spec => ImplementsConversation`. The
initial states map, and each step maps to one step of `Conversation` or to a
stutter: a commit of a user turn is `Say`, a persisted reply `Answer`, a
disconnect or a death during a stream `Abandon`, a completed send `Exchange`, a
deletion `Forget`, a creation `Open`. Beside `IInv` it takes `UnderWay`: the turn of
a stream under way is there without a reply.

`AccountsProofs` proves all eight properties of the `accounts` run for any ids, names,
requests, questions and starting tables that the assumptions allow. `IInv` adds that a
request's loaded copies agree with the table on who is a super_admin (`ActorLoaded`),
that a checked toggle or promotion never lands on a super_admin's row (`TargetLoaded`)
and a checked creation is one its actor may make (`CreationAllowed`), and that the
trail is left only by requests that ended well (`TrailEnded`, `SeededStay`). The
argument: nobody ever stops being a super_admin or becomes one in place. The five
properties that speak of what ran beside what, or of the seed, take `BesideInv`:
`PastIsOver` again; whoever acts on an account that is inactive by now began before
its last toggle had ended (`ServedActive`); whoever is about to toggle an admin is a
super_admin or began before the promotion had ended (`ToggleJudged`); whoever is about
to take a name that is there in another spelling ran beside its creation
(`NamesBeside`); whoever is about to write a password has verified the one behind the
hash, unless a change of that account or a login to it ran beside (`PasswordsKnown`);
and logins about to rehash one account hold the hash's password unless a password change
ran beside them (`RehashesAgree`). `PasswordStep` says which step changes a hash, and
`BesideStays` that what ran beside a request goes on having done so.
`NamesClashBeside` assumes that no two names of the found table differ only in case:
for what was there before the model begins, no request of it can answer.

`SseStreamProofs` proves type correctness, `FramesInOrder`, `TerminalFrameIsStored`,
`StoredIsShown`, `DoneIsWhole` and `StoredOnce` for replies of any length and any chunk
size. `IInv`
adds that what is collected is the beginning of the reply, and at the end all of it
(`Said`; `DeltasProperty`: a delta goes on where the collected text ends, and there
is none left only when it is whole), that no terminal frame has been written
before the end (`Position`) and nothing stored (`StoredLate`). Two lemmas say what
one more frame (`OneMore`) and a dropped or written one (`NoMore`) do to the promise.
For `StoredIsShown`, `ShownSoFar` says that until the generators are closed or the
worker dies, what is collected is what the frames yielded so far show (`ShownAppends`,
by `FoldAppends`: one token more shows its delta more).

`ConnectionPoolProofs` proves type correctness, `ConnectionsAccounted` and
`FailsOnlyInAnOutage` for any finite set of requests, any limits and any number of
outages. `IInv` adds that a request holds a connection exactly while it works, that
no connection is to a server that is not up yet (`Incarnated`), and that it is no
older than its request (`SinceBegun`): so a dead one means an outage since.

`SequenceFacts` is how these proofs do an induction over data, for which the library's
theorems take an operator as parameter that no installed prover can instantiate: a
predicate becomes a set of numbers, and `WFMin` gives a non-empty set of them its least
element (`Least`, `Greatest`, `Upward`, `UpTo`, `Downward`). With them it is proved that
`FoldLeft` over any sequence is what it is over the rest, and then its last element
(`FoldExists`, `FoldAppends`), and that a function defined from the end of a sequence
exists (`DownExists`).

`TextProofs` proves the four properties of the `texts` run for every text, `.env`, list
of patterns and limit that `TextAssumption`, `MarkAssumption` (placeholders are
bracketed by characters that no secret has), `BlankAssumption` and `LengthAssumption`
allow.

* `TitlesArePresented`: `rstrip` cuts after the last ink and `strip` leaves what lies
  between the first and the last (`RStripped`, `Stripped`); a squeezed text has no two
  blanks in a row and none at its head (`SqueezedIsSpaced`); a longer part of a text has
  more ink exactly if there is ink in the rest (`InkGrows`). `DerivedTitle` puts them
  together on both sides of the limit.
* `Replace` is a recursion from the end of a text. `ReplaceTraced` says of its result,
  whatever the words, where every cell comes from (`Traces`): cells stay in order and
  next to one another as they were, all that goes belongs to a match, no match is left
  whole, and where a mark meets what is left there is its first or its last
  character.
* `IInv` follows one transcript through the script. While secrets are looked for
  (`Scrubbed`), what is left is the original's, in its order and with the same
  neighbours (`Genuine`, `Ordered`, `Together`), with marks fencing it in (`Fenced`); a
  character is gone only with an occurrence of a secret that is gone entirely
  (`OnlySecretsLost`), and of those done nothing stands as it stood (`Broken`,
  `AloneGone`). The step (`RedactsOneMore`) needs the order of the secrets: what broke
  an occurrence of the secret now looked for was no shorter than it, so if the
  occurrence contains it, it is the occurrence. A mark cannot begin or end a match, so
  a match without a character of a mark is an occurrence in the original
  (`MatchIsGenuine`); hence, when all are done, no secret is spelled but with a
  character of a mark (`Unspelled`). The patterns may break neighbourhood, and keep
  that all the same (`UnspelledStays`): where they take something out they put a mark
  in. `SecretsGo` and `LeaksAreOfMarks` follow.

Model-checked only: liveness (`EveryRequestEnds`, `TurnEventuallyAnswered`,
`StreamEnds`, `ServedUnlessSendsHoldAll`), which is out of the prover's reach, as is
anything with ENABLED. Every other property of a passing run is a theorem. That the five
properties of the violated runs fail is TLC's to show.

## 6. Not modelled

The plan of the inventory is done: chat turns and their abstract specification, the
accounts, streams, the pool, the export and the texts are modelled, and every safety
and action property of the passing runs is proved. What is left out:

* Configuration, logging and request ids, CORS, the liveness probe and the OpenAPI
  schemas: no state that outlives a request, no decision another part depends on.
* The session list is one SELECT of the owner's rows; the time it sorts by, and how
  far that can lag, is in `ChatTurns`. Migrations are a straight line of DDL; the keys,
  the unique constraint and the cascade they create are in the models.
* The contents of Groq's HTTP exchange: the provider answers, fails or never answers.
  A completion without choices raises an `IndexError`, which is no `LLMError`, so a
  500 takes the place of a 502; both roll the send back, which is `FailSend`, and no
  property tells them apart.
* Argon2 and JWT themselves: a password matches or not, a token is accepted or not.
* The redaction script without `--check`: the same steps, ending in 0. Regular
  expressions are taken for the finite sets of words a run gives them, and reading
  and writing files is assumed to succeed.
* An outage of PostgreSQL as a whole in `ChatTurns` and `Accounts`: to a request it is
  a `Die`, and `ConnectionPool` has the outage itself.
