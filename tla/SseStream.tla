------------------------------ MODULE SseStream ------------------------------
(***************************************************************************)
(* One streamed reply, from the open response to its last frame: the       *)
(* provider's deltas (infrastructure/llm), the generator that collects,    *)
(* persists and yields them (ChatService.stream_reply), the view that      *)
(* frames them (generate in interface/api/chat.py), the worker that writes *)
(* the frames, and a client that may leave.                                *)
(*                                                                         *)
(* A reply is the sequence <<1, ..., n>> of its characters' positions, so  *)
(* that a lost, doubled or swapped delta shows.                            *)
(***************************************************************************)
EXTENDS Integers, Sequences, SequencesExt

CONSTANTS
    MaxReply,   \* the longest reply, in characters
    Chunk,      \* the mock's delta (_CHUNK), in characters
    None        \* no row, no frame

ASSUME SizeAssumption == MaxReply \in Nat /\ Chunk \in Nat \ {0}

VARIABLES
    provider,   \* the adapter get_llm_provider chose
    reply,      \* what the provider is going to say
    collected,  \* the deltas stream_reply has had so far, joined
    at,         \* where the generators stand
    frame,      \* the frame they have yielded, until the worker resumes them
    sent,       \* the frames the worker has written to the connection
    stored,     \* the content of the assistant row, once committed
    session,    \* whether the session's row is still there
    client      \* whether the client is still there

vars == <<provider, reply, collected, at, frame, sent, stored, session, client>>

-----------------------------------------------------------------------------
(* Types *)

Text(a, b) == [i \in 1..b + 1 - a |-> a + i - 1]     \* characters a to b of a reply
Texts == {Text(a, b) : a \in 1..MaxReply + 1, b \in 0..MaxReply}
Frames == [event : {"meta"}] \cup [event : {"token"}, value : Texts]
          \cup [event : {"done", "error"}, content : Texts]
ASSUME NoneAssumption == None \notin Frames \cup Texts

UnderWay == {"opening", "pulling", "finished", "failed", "writing"}
Over == {"complete", "raised", "closed", "died"}

TypeOK ==
    /\ provider \in {"mock", "groq"}
    /\ reply \in Texts /\ collected \in Texts
    /\ at \in UnderWay \cup Over
    /\ frame \in Frames \cup {None} /\ (frame # None <=> at = "writing")
    /\ sent \in Seq(Frames)
    /\ stored \in Texts \cup {None}
    /\ session \in {"live", "deleted"}
    /\ client \in {"there", "gone"}

-----------------------------------------------------------------------------
(* What is yielded *)

Terminal(f) == f.event \in {"done", "error"}
Yielded == IF frame = None THEN sent ELSE Append(sent, frame)

\* The text a reader of these frames has been shown.
Shown(frames) ==
    FoldLeft(LAMBDA shown, f : IF f.event = "token" THEN shown \o f.value ELSE shown,
             <<>>, frames)

\* Mutant: the mock's last slice, shorter than the others, is lost.
EndsWithoutRest ==
    LET from == Len(collected)
    IN  IF provider = "groq" THEN from + 1 .. Len(reply)
        ELSE {from + Chunk} \cap 1..Len(reply)

\* Where a delta that starts after the collected text may end: the mock cuts at
\* every Chunk characters, Groq anywhere (its empty deltas are passed over).
Ends == LET from == Len(collected)
        IN  IF provider = "groq" THEN from + 1 .. Len(reply)
            ELSE {Min({from + Chunk, Len(reply)})} \ {from}

Deltas == {SubSeq(reply, Len(collected) + 1, end) : end \in Ends}

Yield(f) == frame' = f /\ at' = "writing"

-----------------------------------------------------------------------------
Init ==
    /\ provider \in {"mock", "groq"}
    /\ \E n \in 0..MaxReply : reply = Text(1, n) /\ (provider = "mock" => n > 0)
    /\ collected = <<>>
    /\ at = "opening"
    /\ frame = None
    /\ sent = <<>>
    /\ stored = None
    /\ session = "live"
    /\ client = "there"

\* The response is opened; the user turn has been committed before.
Open ==
    /\ at = "opening"
    /\ Yield([event |-> "meta"])
    /\ UNCHANGED <<provider, reply, collected, sent, stored, session, client>>

\* The provider hands over a delta; it is collected and yielded.
Pull ==
    /\ at = "pulling"
    /\ \E delta \in Deltas :
          /\ collected' = collected \o delta
          /\ Yield([event |-> "token", value |-> delta])
    /\ UNCHANGED <<provider, reply, sent, stored, session, client>>

\* The provider has said it all.
Exhaust ==
    /\ at = "pulling"
    /\ Deltas = {}
    /\ at' = "finished"
    /\ UNCHANGED <<provider, reply, collected, frame, sent, stored, session, client>>

\* Groq raises, before its first delta or after any: LLMError or another Exception.
Fail ==
    /\ at = "pulling"
    /\ provider = "groq"
    /\ at' = "failed"
    /\ UNCHANGED <<provider, reply, collected, frame, sent, stored, session, client>>

\* Mutant: the terminal frame is yielded first, the row committed on resumption.
PersistAfterYield ==
    /\ at \in {"finished", "failed"}
    /\ Yield([event |-> IF at = "failed" THEN "error" ELSE "done", content |-> collected])
    /\ UNCHANGED <<provider, reply, collected, sent, stored, session, client>>

\* Mutant: the reply is asked for once more, as a whole, to be stored.
PersistCompletion ==
    /\ at \in {"finished", "failed"}
    /\ session = "live"
    /\ stored' = reply
    /\ Yield([event |-> IF at = "failed" THEN "error" ELSE "done", content |-> reply])
    /\ UNCHANGED <<provider, reply, collected, sent, session, client>>

\* Mutant: no foreign key keeps a reply out of a deleted session.
PersistAnyway ==
    /\ at \in {"finished", "failed"}
    /\ stored' = collected
    /\ Yield([event |-> IF at = "failed" THEN "error" ELSE "done", content |-> collected])
    /\ UNCHANGED <<provider, reply, collected, sent, session, client>>

\* What was collected becomes the assistant turn, and only then the terminal frame.
Persist ==
    /\ at \in {"finished", "failed"}
    /\ session = "live"
    /\ stored' = collected
    /\ Yield([event |-> IF at = "failed" THEN "error" ELSE "done", content |-> collected])
    /\ UNCHANGED <<provider, reply, collected, sent, session, client>>

\* Mutant: an INSERT or commit that failed is tried again.
PersistAgain ==
    /\ at \in {"finished", "failed"}
    /\ \/ UNCHANGED stored
       \/ session = "live" /\ stored' = collected
    /\ UNCHANGED <<at, provider, reply, collected, frame, sent, session, client>>

\* The INSERT or its commit raises, outside every handler: the session is gone, or
\* the database does not answer, although it may have committed.
PersistFails ==
    /\ at \in {"finished", "failed"}
    /\ at' = "raised"
    /\ \/ UNCHANGED stored
       \/ session = "live" /\ stored' = collected
    /\ UNCHANGED <<provider, reply, collected, frame, sent, session, client>>

\* Mutant: the except clause does not return.
WriteAndFallThrough ==
    /\ at = "writing"
    /\ sent' = Append(sent, frame)
    /\ frame' = None
    /\ at' = CASE frame.event = "done" -> "complete"
               [] frame.event = "error" -> "finished"
               [] OTHER -> "pulling"
    /\ UNCHANGED <<provider, reply, collected, stored, session, client>>

\* Mutant: the generators are resumed before their frame is written.
WriteBehind ==
    /\ at = "writing"
    /\ sent' = Append(sent, frame)
    /\ at' = IF Terminal(frame) THEN "complete" ELSE "pulling"
    /\ UNCHANGED <<provider, reply, collected, frame, stored, session, client>>

\* The worker writes the frame, though perhaps nobody reads it, and resumes the
\* generators.
Write ==
    /\ at = "writing"
    /\ sent' = Append(sent, frame)
    /\ frame' = None
    /\ at' = IF Terminal(frame) THEN "complete" ELSE "pulling"
    /\ UNCHANGED <<provider, reply, collected, stored, session, client>>

\* The connection is gone: the worker closes the generators at their yield, and
\* GeneratorExit passes every handler.
Close ==
    /\ at = "writing"
    /\ client = "gone"
    /\ frame' = None
    /\ at' = "closed"
    /\ UNCHANGED <<provider, reply, collected, sent, stored, session, client>>

\* The client leaves: it is noticed at a write, if at all.
Leave ==
    /\ client = "there"
    /\ client' = "gone"
    /\ UNCHANGED <<provider, reply, collected, at, frame, sent, stored, session>>

\* The owner deletes the session, and the messages with it.
DeleteSession ==
    /\ session = "live"
    /\ session' = "deleted"
    /\ stored' = None
    /\ UNCHANGED <<provider, reply, collected, at, frame, sent, client>>

\* The worker dies.
Die ==
    /\ at \in UnderWay
    /\ at' = "died"
    /\ frame' = None
    /\ UNCHANGED <<provider, reply, collected, sent, stored, session, client>>

Serve == Open \/ Pull \/ Exhaust \/ Fail \/ Persist \/ PersistFails \/ Write \/ Close

\* The response is over and everybody gone.
Quiescent == at \in Over /\ UNCHANGED vars

Next == Serve \/ Leave \/ DeleteSession \/ Die \/ Quiescent

Spec == Init /\ [][Next]_vars

\* The worker keeps serving and the provider keeps answering or raises.
FairSpec == Spec /\ WF_vars(Serve)

-----------------------------------------------------------------------------
(* Safety *)

\* The stream a client can rely on parsing: meta first and once, then tokens, then at
\* most one of done and error, after which nothing comes (the except clause returns).
FramesInOrder ==
    \A i \in DOMAIN Yielded :
        /\ Yielded[i].event = "meta" <=> i = 1
        /\ Terminal(Yielded[i]) => i = Len(Yielded)

\* Who has been shown done or error finds that very reply in the history, unless the
\* session has been deleted: the commit comes before the frame (stream_reply).
TerminalFrameIsStored ==
    \A i \in DOMAIN Yielded : Terminal(Yielded[i]) /\ session = "live" => stored = Yielded[i].content

\* A stored reply, whole or partial, is the tokens shown before it, in their order:
\* reloading the session never changes what a reader has seen.
StoredIsShown == stored # None => stored = Shown(Yielded)

\* done says that the reply is all the provider had to say, cut as it may be into
\* deltas; error, that it is a beginning of it.
DoneIsWhole ==
    \A i \in DOMAIN Yielded :
        /\ Yielded[i].event = "done" => Yielded[i].content = reply
        /\ Yielded[i].event = "error" => IsPrefix(Yielded[i].content, reply)

(* Action properties *)

\* A reply is stored once and stays until its session goes, and nothing is stored in
\* a session that has gone.
StoredOnce ==
    [][\/ stored' = stored
       \/ stored = None /\ session' = "live"
       \/ stored' = None /\ session' = "deleted"]_vars

(* Liveness, under FairSpec *)

\* Every open response comes to an end, whoever leaves and whatever is deleted.
StreamEnds == at = "opening" ~> at \in Over

(* What the documents say, and the code does not keep *)

\* The route's description: meta, tokens and a terminal done or error.
EndsInTerminalFrame ==
    at \in Over \ {"died"} /\ client = "there" => sent # <<>> /\ Terminal(Last(sent))
=============================================================================
