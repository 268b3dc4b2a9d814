-------------------------- MODULE SseStreamProofs --------------------------
(***************************************************************************)
(* Theorems about one streamed reply, of any length, in deltas of any size. *)
(***************************************************************************)
EXTENDS SseStream, SequenceFacts

-----------------------------------------------------------------------------
(* Texts *)

LEMMA TextIsText ==
    ASSUME NEW a \in 1..MaxReply + 1, NEW b \in 0..MaxReply
    PROVE  Text(a, b) \in Texts
BY SMT DEF Texts

LEMMA TextLength ==
    ASSUME NEW n \in Nat
    PROVE  Text(1, n) \in Seq(Nat) /\ Len(Text(1, n)) = n
BY DEF Text

LEMMA Part ==
    ASSUME NEW n \in Nat, NEW a \in 1..n + 1, NEW b \in 0..n
    PROVE  SubSeq(Text(1, n), a, b) = Text(a, b)
BY DEF Text

\* A delta continues what has been collected.
LEMMA TextGoesOn ==
    ASSUME NEW b \in Nat, NEW m \in 0..b
    PROVE  Text(1, m) \o Text(m + 1, b) = Text(1, b)
BY DEF Text

LEMMA TextIsPrefix ==
    ASSUME NEW n \in Nat, NEW m \in 0..n
    PROVE  IsPrefix(Text(1, m), Text(1, n))
BY DEF Text, IsPrefix

LEMMA LeastOfTwo ==
    ASSUME NEW x \in Int, NEW y \in Int
    PROVE  Min({x, y}) = IF x <= y THEN x ELSE y
<1> DEFINE least == IF x <= y THEN x ELSE y
<1>1. /\ least \in {x, y}
      /\ \A z \in {x, y} : least <= z
      /\ \A w \in {x, y} : (\A z \in {x, y} : w <= z) => w = least
    OBVIOUS
<1> QED
    BY <1>1 DEF Min

-----------------------------------------------------------------------------
(* The invariant *)

\* What is collected is what the provider has said so far, and all of it at the end.
Said ==
    \E n \in 0..MaxReply : \E m \in 0..n :
        reply = Text(1, n) /\ collected = Text(1, m) /\ (at = "finished" => m = n)

NoTerminal(frames) == \A i \in DOMAIN frames : ~Terminal(frames[i])

\* Between meta and the terminal frame.
Position ==
    /\ at = "opening" => sent = <<>>
    /\ at \in {"pulling", "finished", "failed"} =>
           sent # <<>> /\ NoTerminal(sent)

\* Nothing is stored before there is a terminal frame, or the end without one.
StoredLate ==
    \/ at \in {"opening", "pulling", "finished", "failed"}
    \/ at = "writing" /\ ~Terminal(frame)
    => stored = None

\* What the frames promise, of any state of the reply and its row.
Promise == FramesInOrder /\ TerminalFrameIsStored /\ DoneIsWhole

IInv == TypeOK /\ Said /\ Position /\ StoredLate /\ Promise

\* A delta ends after what has been collected and no later than the reply; there is
\* none only when everything has been collected.
LEMMA EndsProperty ==
    ASSUME provider \in {"mock", "groq"},
           NEW n \in Nat, NEW m \in 0..n, Len(reply) = n, Len(collected) = m
    PROVE  Ends \subseteq m + 1..n /\ (Ends = {} => m = n)
<1>1. CASE provider = "groq"
    BY <1>1 DEF Ends
<1>2. CASE provider = "mock"
    <2>1. Chunk \in Nat /\ Chunk > 0
        BY SizeAssumption
    <2>2. Min({m + Chunk, n}) = IF m + Chunk <= n THEN m + Chunk ELSE n
        BY <2>1, LeastOfTwo
    <2>3. Ends = {Min({m + Chunk, n})} \ {m}
        BY <1>2 DEF Ends
    <2> QED
        BY <2>1, <2>2, <2>3, SMTT(30)
<1> QED
    BY <1>1, <1>2

LEMMA DeltasProperty ==
    ASSUME TypeOK, NEW n \in 0..MaxReply, NEW m \in 0..n,
           reply = Text(1, n), collected = Text(1, m)
    PROVE  /\ \A delta \in Deltas : \E b \in m + 1..n :
                  delta = Text(m + 1, b) /\ collected \o delta = Text(1, b)
           /\ Deltas = {} => m = n
<1>1. n \in Nat /\ m \in Nat /\ Len(reply) = n /\ Len(collected) = m
    BY SizeAssumption, TextLength
<1>2. Ends \subseteq m + 1..n /\ (Ends = {} => m = n)
    BY <1>1, EndsProperty DEF TypeOK
<1>3. ASSUME NEW b \in Ends
      PROVE  /\ b \in m + 1..n
             /\ SubSeq(reply, Len(collected) + 1, b) = Text(m + 1, b)
             /\ collected \o Text(m + 1, b) = Text(1, b)
    <2>1. b \in m + 1..n /\ b \in Nat /\ b \in 0..n /\ m + 1 \in 1..n + 1 /\ m \in 0..b
        BY <1>1, <1>2
    <2>2. SubSeq(Text(1, n), m + 1, b) = Text(m + 1, b)
        BY <1>1, <2>1, Part
    <2> QED
        BY <1>1, <2>1, <2>2, TextGoesOn
<1>4. Deltas = {} => Ends = {}
    BY DEF Deltas
<1> QED
    BY <1>2, <1>3, <1>4 DEF Deltas

-----------------------------------------------------------------------------
(* What a step does to the frames *)


\* A frame that may come next keeps the promise.
LEMMA OneMore ==
    ASSUME TypeOK, at # "writing", NoTerminal(sent), Promise,
           NEW f \in Frames, Yield(f),
           sent' = sent, reply' = reply,
           f.event = "meta" <=> sent = <<>>,
           Terminal(f) /\ session' = "live" => stored' = f.content,
           f.event = "done" => f.content = reply,
           f.event = "error" => IsPrefix(f.content, reply)
    PROVE  Promise'
<1>1. sent \in Seq(Frames) /\ frame = None /\ frame' = f /\ f # None
    BY NoneAssumption DEF TypeOK, Yield
<1>2. Yielded = sent /\ Yielded' = Append(sent, f)
    BY <1>1 DEF Yielded
<1>3. /\ Len(sent) \in Nat /\ DOMAIN sent = 1..Len(sent)
      /\ Len(Append(sent, f)) = Len(sent) + 1
      /\ DOMAIN Append(sent, f) = 1..Len(sent) + 1
      /\ \A i \in 1..Len(sent) : Append(sent, f)[i] = sent[i]
      /\ Append(sent, f)[Len(sent) + 1] = f
      /\ sent = <<>> <=> Len(sent) = 0
    BY <1>1
<1>4. FramesInOrder'
    <2> SUFFICES ASSUME NEW i \in 1..Len(sent) + 1
                 PROVE  /\ Append(sent, f)[i].event = "meta" <=> i = 1
                        /\ Terminal(Append(sent, f)[i]) => i = Len(sent) + 1
        BY <1>2, <1>3 DEF FramesInOrder
    <2>1. CASE i = Len(sent) + 1
        BY <1>3, <2>1
    <2>2. CASE i \in 1..Len(sent)
        <3>1. sent[i].event = "meta" <=> i = 1
            BY <1>2, <1>3, <2>2 DEF Promise, FramesInOrder
        <3>2. ~Terminal(sent[i])
            BY <1>3, <2>2 DEF NoTerminal
        <3> QED
            BY <1>3, <2>2, <3>1, <3>2
    <2> QED
        BY <1>3, <2>1, <2>2
<1>5. \A i \in DOMAIN Yielded' : Terminal(Yielded'[i]) => Yielded'[i] = f
    BY <1>2, <1>3 DEF NoTerminal
<1>6. TerminalFrameIsStored'
    BY <1>5 DEF TerminalFrameIsStored
<1>7. DoneIsWhole'
    <2>1. \A g : g.event = "done" \/ g.event = "error" => Terminal(g)
        BY DEF Terminal
    <2> QED
        BY <1>5, <2>1 DEF DoneIsWhole
<1> QED
    BY <1>4, <1>6, <1>7 DEF Promise

\* So does a frame that is dropped, or written.
LEMMA NoMore ==
    ASSUME TypeOK, Promise, reply' = reply,
           \/ Yielded' = Yielded
           \/ Yielded' = sent,
           \/ session' = session /\ stored' = stored
           \/ session' = "deleted"
           \/ NoTerminal(Yielded')
    PROVE  Promise'
<1>1. /\ DOMAIN Yielded' \subseteq DOMAIN Yielded
      /\ \A i \in DOMAIN Yielded' : Yielded'[i] = Yielded[i]
      /\ \A i \in DOMAIN Yielded' : i = Len(Yielded) => i = Len(Yielded')
    <2>1. CASE Yielded' = Yielded
        BY <2>1
    <2>2. CASE Yielded' = sent
        <3>1. sent \in Seq(Frames) /\ (frame = None \/ frame \in Frames)
            BY DEF TypeOK
        <3> QED
            BY <2>2, <3>1 DEF Yielded
    <2> QED
        BY <2>1, <2>2
<1>2. FramesInOrder'
    BY <1>1 DEF Promise, FramesInOrder
<1>3. TerminalFrameIsStored'
    BY <1>1 DEF Promise, TerminalFrameIsStored, NoTerminal
<1>4. DoneIsWhole'
    BY <1>1 DEF Promise, DoneIsWhole
<1> QED
    BY <1>2, <1>3, <1>4 DEF Promise

-----------------------------------------------------------------------------
(* Each step keeps the invariant *)

LEMMA InvInit == Init => IInv
<1> SUFFICES ASSUME Init PROVE IInv
    OBVIOUS
<1>1. PICK n \in 0..MaxReply : reply = Text(1, n)
    BY DEF Init
<1>2. MaxReply \in Nat /\ n \in Nat /\ 0 \in 0..n /\ 1 \in 1..MaxReply + 1 /\ 0 \in 0..MaxReply
    BY SizeAssumption
<1>3. collected = Text(1, 0) /\ collected \in Texts /\ reply \in Texts
    <2>1. Text(1, 0) \in Texts /\ Text(1, n) \in Texts
        BY <1>2, TextIsText
    <2>2. Text(1, 0) = <<>>
        BY DEF Text
    <2> QED
        BY <1>1, <2>1, <2>2 DEF Init
<1>4. TypeOK
    BY <1>3 DEF Init, TypeOK, UnderWay
<1>5. Said
    BY <1>1, <1>2, <1>3 DEF Init, Said
<1>6. Position /\ StoredLate
    BY DEF Init, Position, StoredLate
<1>7. Promise
    <2>1. Yielded = <<>>
        BY DEF Init, Yielded
    <2> QED
        BY <2>1 DEF Promise, FramesInOrder, TerminalFrameIsStored, DoneIsWhole
<1> QED
    BY <1>4, <1>5, <1>6, <1>7 DEF IInv

LEMMA InvOpen == IInv /\ Open => IInv'
<1> SUFFICES ASSUME IInv, Open PROVE IInv'
    OBVIOUS
<1> DEFINE meta == [event |-> "meta"]
<1>1. meta \in Frames /\ meta # None /\ ~Terminal(meta)
    BY NoneAssumption DEF Frames, Terminal
<1>2. at = "opening" /\ sent = <<>> /\ Yield(meta) /\ frame' = meta
    BY DEF IInv, Open, Position, Yield
<1>3. TypeOK'
    BY <1>1, <1>2 DEF IInv, TypeOK, Open, Yield, UnderWay
<1>4. Said' /\ Position' /\ StoredLate'
    BY <1>1, <1>2 DEF IInv, Open, Yield, Said, Position, StoredLate
<1>5. Promise'
    BY <1>1, <1>2, OneMore DEF IInv, Open, NoTerminal, Terminal
<1> QED
    BY <1>3, <1>4, <1>5 DEF IInv

LEMMA InvPull == IInv /\ Pull => IInv'
<1> SUFFICES ASSUME IInv, Pull PROVE IInv'
    OBVIOUS
<1>1. PICK n \in 0..MaxReply : \E m \in 0..n : reply = Text(1, n) /\ collected = Text(1, m)
    BY DEF IInv, Said
<1>2. PICK m \in 0..n : reply = Text(1, n) /\ collected = Text(1, m)
    BY <1>1
<1>3. PICK delta \in Deltas : collected' = collected \o delta
                              /\ Yield([event |-> "token", value |-> delta])
    BY DEF Pull
<1>4. PICK b \in m + 1..n : delta = Text(m + 1, b) /\ collected' = Text(1, b)
    BY <1>2, <1>3, DeltasProperty DEF IInv
<1>5. MaxReply \in Nat /\ n \in Nat /\ b \in 0..n /\ b \in 0..MaxReply
      /\ m + 1 \in 1..MaxReply + 1 /\ 1 \in 1..MaxReply + 1
    BY SizeAssumption
<1>6. delta \in Texts /\ collected' \in Texts
    BY <1>4, <1>5, TextIsText
<1> DEFINE token == [event |-> "token", value |-> delta]
<1>7. token \in Frames /\ token # None /\ ~Terminal(token) /\ token.event = "token"
    BY <1>6, NoneAssumption DEF Frames, Terminal
<1> HIDE DEF token
<1>8. at = "pulling" /\ at' = "writing" /\ frame' = token /\ sent # <<>> /\ NoTerminal(sent)
      /\ Yield(token)
    BY <1>3 DEF IInv, Pull, Position, Yield, token
<1>9. TypeOK'
    BY <1>6, <1>7, <1>8 DEF IInv, TypeOK, Pull, UnderWay
<1>10. Said'
    BY <1>2, <1>4, <1>5, <1>8 DEF Said, Pull
<1>11. Position' /\ StoredLate'
    BY <1>7, <1>8 DEF IInv, Pull, Position, StoredLate
<1>12. Promise'
    BY <1>7, <1>8, OneMore DEF IInv, Pull
<1> QED
    BY <1>9, <1>10, <1>11, <1>12 DEF IInv

\* The frames stay, and the generators go on without one.
LEMMA InvQuiet ==
    ASSUME IInv, Exhaust \/ Fail \/ PersistFails
    PROVE  IInv'
<1>1. at' \in {"finished", "failed", "raised"} /\ at \in {"pulling", "finished", "failed"}
      /\ NoTerminal(sent) /\ UNCHANGED <<provider, reply, collected, frame, sent, session, client>>
    BY DEF IInv, Position, Exhaust, Fail, PersistFails
<1>2. stored' \in {stored, collected}
    BY DEF Exhaust, Fail, PersistFails
<1>3. TypeOK'
    BY <1>1, <1>2 DEF IInv, TypeOK, UnderWay, Over
<1>4. Said'
    <2>1. PICK n \in 0..MaxReply : \E m \in 0..n : reply = Text(1, n) /\ collected = Text(1, m)
        BY DEF IInv, Said
    <2>2. PICK m \in 0..n : reply = Text(1, n) /\ collected = Text(1, m)
        BY <2>1
    <2>3. at' = "finished" => m = n
        BY <2>2, DeltasProperty DEF IInv, Exhaust, Fail, PersistFails
    <2> QED
        BY <1>1, <2>2, <2>3 DEF Said
<1>5. Position' /\ StoredLate'
    BY <1>1 DEF IInv, Position, StoredLate, Exhaust, Fail, PersistFails
<1>6. Promise'
    <2>1. Yielded' = Yielded /\ Yielded = sent
        BY <1>1 DEF IInv, TypeOK, Yielded
    <2> QED
        BY <1>1, <2>1, NoMore DEF IInv
<1> QED
    BY <1>3, <1>4, <1>5, <1>6 DEF IInv

LEMMA InvPersist == IInv /\ Persist => IInv'
<1> SUFFICES ASSUME IInv, Persist PROVE IInv'
    OBVIOUS
<1>1. PICK n \in 0..MaxReply : \E m \in 0..n : /\ reply = Text(1, n) /\ collected = Text(1, m)
                                               /\ at = "finished" => m = n
    BY DEF IInv, Said
<1>2. PICK m \in 0..n : /\ reply = Text(1, n) /\ collected = Text(1, m)
                        /\ at = "finished" => m = n
    BY <1>1
<1>3. n \in Nat /\ IsPrefix(collected, reply) /\ (at = "finished" => collected = reply)
    BY <1>2, SizeAssumption, TextIsPrefix
<1> DEFINE last == [event |-> IF at = "failed" THEN "error" ELSE "done", content |-> collected]
<1>4. /\ last \in Frames /\ last # None /\ Terminal(last) /\ last.content = collected
      /\ last.event = (IF at = "failed" THEN "error" ELSE "done")
    BY NoneAssumption DEF IInv, TypeOK, Frames, Terminal
<1>5. Yield(last)
    BY DEF Persist
<1> HIDE DEF last
<1>6. at \in {"finished", "failed"} /\ at' = "writing" /\ frame' = last
      /\ sent # <<>> /\ NoTerminal(sent) /\ stored' = collected
    BY <1>5 DEF IInv, Persist, Position, Yield
<1>7. TypeOK'
    BY <1>4, <1>6 DEF IInv, TypeOK, Persist, UnderWay
<1>8. Said'
    BY <1>2, <1>6 DEF Said, Persist
<1>9. Position' /\ StoredLate'
    BY <1>4, <1>6 DEF Position, StoredLate
<1>10. Promise'
    BY <1>3, <1>4, <1>5, <1>6, OneMore DEF IInv, Persist
<1> QED
    BY <1>7, <1>8, <1>9, <1>10 DEF IInv

LEMMA InvWrite == IInv /\ Write => IInv'
<1> SUFFICES ASSUME IInv, Write PROVE IInv'
    OBVIOUS
<1>1. at = "writing" /\ frame \in Frames /\ frame # None /\ sent \in Seq(Frames)
      /\ sent' = Append(sent, frame) /\ frame' = None
    BY DEF IInv, TypeOK, Write
<1>2. Yielded' = Yielded /\ Yielded = sent' /\ sent' \in Seq(Frames) /\ sent' # <<>>
    BY <1>1 DEF Yielded
<1>3. at' = IF Terminal(frame) THEN "complete" ELSE "pulling"
    BY DEF Write
<1>4. TypeOK'
    BY <1>1, <1>2, <1>3 DEF IInv, TypeOK, Write, UnderWay, Over
<1>5. Said'
    BY <1>3 DEF IInv, Said, Write
<1>6. ~Terminal(frame) => NoTerminal(sent')
    BY <1>1, <1>2 DEF IInv, Promise, FramesInOrder, NoTerminal
<1>7. Position' /\ StoredLate'
    BY <1>1, <1>2, <1>3, <1>6 DEF IInv, Position, StoredLate, Write
<1>8. Promise'
    BY <1>2, NoMore DEF IInv, Write
<1> QED
    BY <1>4, <1>5, <1>7, <1>8 DEF IInv

\* The worker closes the generators, or dies.
LEMMA InvStop ==
    ASSUME IInv, Close \/ Die
    PROVE  IInv'
<1>1. at' \in {"closed", "died"} /\ frame' = None /\ Yielded' = sent
      /\ UNCHANGED <<provider, reply, collected, sent, stored, session, client>>
    BY DEF Close, Die, Yielded
<1>2. TypeOK'
    BY <1>1 DEF IInv, TypeOK, Over
<1>3. Said' /\ Position' /\ StoredLate'
    BY <1>1 DEF IInv, Said, Position, StoredLate
<1>4. Promise'
    BY <1>1, NoMore DEF IInv
<1> QED
    BY <1>2, <1>3, <1>4 DEF IInv

\* What the worker does not notice.
LEMMA InvBeside ==
    ASSUME IInv, Leave \/ DeleteSession \/ UNCHANGED vars
    PROVE  IInv'
<1>1. UNCHANGED <<provider, reply, collected, at, frame, sent>> /\ Yielded' = Yielded
    BY DEF Leave, DeleteSession, vars, Yielded
<1>2. TypeOK'
    BY <1>1 DEF IInv, TypeOK, Leave, DeleteSession, vars
<1>3. Said' /\ Position' /\ StoredLate'
    BY <1>1 DEF IInv, Said, Position, StoredLate, Leave, DeleteSession, vars
<1>4. Promise'
    BY <1>1, NoMore DEF IInv, Leave, DeleteSession, vars
<1> QED
    BY <1>2, <1>3, <1>4 DEF IInv

LEMMA InvNext == IInv /\ [Next]_vars => IInv'
BY InvOpen, InvPull, InvQuiet, InvPersist, InvWrite, InvStop, InvBeside
   DEF Next, Serve, Quiescent

LEMMA IInvHolds == Spec => []IInv
BY InvInit, InvNext, PTL DEF Spec

-----------------------------------------------------------------------------
(* What has been shown *)

LEMMA TextsAreSeqs == Texts \subseteq Seq(Nat)
<1> SUFFICES ASSUME NEW a \in 1..MaxReply + 1, NEW b \in 0..MaxReply PROVE Text(a, b) \in Seq(Nat)
    BY DEF Texts
<1>1. a \in Nat /\ b \in Nat /\ a >= 1
    BY SizeAssumption
<1>2. CASE a <= b
    BY <1>1, <1>2 DEF Text
<1>3. CASE ~(a <= b)
    <2>1. 1..b + 1 - a = {}
        BY <1>1, <1>3
    <2> QED
        BY <2>1 DEF Text
<1> QED
    BY <1>2, <1>3

\* A further frame adds what its token says, if it is one.
LEMMA ShownAppends ==
    ASSUME NEW frames \in Seq(Frames), NEW f \in Frames
    PROVE  /\ Shown(<<>>) = <<>>
           /\ Shown(Append(frames, f)) =
                 IF f.event = "token" THEN Shown(frames) \o f.value ELSE Shown(frames)
<1> DEFINE V == Seq(Nat)
           base == <<>>
           says(shown, g) == IF g.event = "token" THEN shown \o g.value ELSE shown
           F == [p \in V \X Frames |-> says(p[1], p[2])]
           Iterates(it, seq) ==
               it = [s \in SUBSET DOMAIN seq |->
                        IF s = {} THEN base ELSE says(it[s \ {Max(s)}], seq[Max(s)])]
           Iterator(seq) == CHOOSE it : Iterates(it, seq)
<1>1. \A seq : Shown(seq) = Iterator(seq)[DOMAIN seq]
    BY DEF Shown, FoldLeft, MapThenFoldSet
<1>2. base \in V /\ \A shown \in V, g \in Frames : says(shown, g) \in V
    <2>1. \A g \in Frames : g.event = "token" => g.value \in V
        BY TextsAreSeqs DEF Frames
    <2> QED
        BY <2>1
<1>3. F \in [V \X Frames -> V] /\ \A shown \in V, g \in Frames : F[<<shown, g>>] = says(shown, g)
    BY <1>2
<1> HIDE DEF V, F, says, base
<1>4. ASSUME NEW seq \in Seq(Frames)
      PROVE  Foldable(V, Frames, base, F, seq) /\ Folds(Iterator(seq), V, base, F, seq)
    <2>1. Foldable(V, Frames, base, F, seq)
        BY <1>2, <1>3 DEF Foldable
    <2>2. PICK it : Iterating(it, V, Frames, base, F, seq)
        BY ONLY <2>1, FoldExists
    <2>3. Iterates(it, seq)
        BY <1>3, <2>2 DEF Iterating
    <2>4. Iterates(Iterator(seq), seq)
        BY <2>3
    <2> HIDE DEF Iterator
    <2>5. ASSUME NEW s \in SUBSET DOMAIN seq, s # {}, Iterator(seq)[s \ {Max(s)}] \in V
          PROVE  Iterator(seq)[s] = F[<<Iterator(seq)[s \ {Max(s)}], seq[Max(s)]>>]
        <3>1. Iterator(seq)[s] = says(Iterator(seq)[s \ {Max(s)}], seq[Max(s)])
            BY <2>4, <2>5
        <3>2. seq[Max(s)] \in Frames
            BY <2>2, <2>5 DEF Iterating
        <3> QED
            BY <1>3, <2>5, <3>1, <3>2
    <2>6. Iterator(seq)[{}] = base
        BY <2>4
    <2> QED
        BY <2>1, <2>5, <2>6 DEF Folds
<1>5. Append(frames, f) \in Seq(Frames) /\ <<>> \in Seq(Frames)
    OBVIOUS
<1> DEFINE a == Iterator(frames)
           b == Iterator(Append(frames, f))
<1>6. /\ Foldable(V, Frames, base, F, frames)
      /\ Folds(a, V, base, F, frames) /\ Folds(b, V, base, F, Append(frames, f))
    BY <1>4, <1>5
<1>7. Shown(frames) = a[DOMAIN frames] /\ Shown(Append(frames, f)) = b[DOMAIN Append(frames, f)]
    BY <1>1
<1> HIDE DEF Iterator
<1>8. Shown(<<>>) = base
    <2>1. DOMAIN <<>> = {}
        OBVIOUS
    <2> QED
        BY <1>1, <1>4, <1>5, <2>1 DEF Folds
<1> HIDE DEF a, b
<1>9. a[DOMAIN frames] \in V /\ b[DOMAIN Append(frames, f)] = F[<<a[DOMAIN frames], f>>]
    BY ONLY f \in Frames, <1>6, FoldAppends
<1> QED
    BY <1>3, <1>7, <1>8, <1>9 DEF says, base

\* A frame that is no token adds nothing to a sequence of them.
LEMMA ShownOfYielded ==
    ASSUME TypeOK
    PROVE  /\ Yielded \in Seq(Frames)
           /\ frame # None /\ Terminal(frame) => Shown(Yielded) = Shown(sent)
<1>1. sent \in Seq(Frames) /\ frame \in Frames \cup {None}
    BY DEF TypeOK
<1>2. Yielded \in Seq(Frames)
    BY <1>1 DEF Yielded
<1>3. ASSUME frame # None, Terminal(frame) PROVE Shown(Yielded) = Shown(sent)
    <2>1. frame \in Frames /\ frame.event # "token" /\ Yielded = Append(sent, frame)
        BY <1>1, <1>3 DEF Yielded, Terminal
    <2> QED
        BY <1>1, <2>1, ShownAppends
<1> QED
    BY <1>2, <1>3

\* What is collected has been shown, until a frame is dropped: by then the row is there
\* only if that frame was terminal.
ShownSoFar ==
    /\ at \notin {"closed", "died"} => collected = Shown(Yielded)
    /\ StoredIsShown

LEMMA ShownInit == Init => ShownSoFar
<1>1. <<>> \in Seq(Frames) /\ [event |-> "meta"] \in Frames
    BY DEF Frames
<1> QED
    BY <1>1, ShownAppends DEF Init, ShownSoFar, StoredIsShown, Yielded

LEMMA ShownNext ==
    ASSUME IInv, IInv', ShownSoFar, [Next]_vars
    PROVE  ShownSoFar'
<1>1. /\ sent \in Seq(Frames) /\ collected # None /\ TypeOK
      /\ stored' \in Texts \cup {None} /\ None \notin Texts
    BY NoneAssumption DEF IInv, TypeOK
<1>2. CASE Open
    <2> DEFINE meta == [event |-> "meta"]
    <2>1. meta \in Frames /\ meta # None /\ meta.event # "token"
        BY NoneAssumption DEF Frames
    <2> HIDE DEF meta
    <2>2. /\ frame' = meta /\ at = "opening" /\ Yielded = sent /\ stored = None
          /\ UNCHANGED <<collected, sent, stored>>
        BY <1>2 DEF Open, Yield, meta, IInv, TypeOK, StoredLate, Yielded
    <2>3. Yielded' = Append(sent, meta)
        BY <2>1, <2>2 DEF Yielded
    <2>4. Shown(Yielded') = Shown(Yielded)
        BY <1>1, <2>1, <2>2, <2>3, ShownAppends
    <2> QED
        BY <2>2, <2>4 DEF ShownSoFar, StoredIsShown
<1>3. CASE Pull
    <2>1. PICK delta \in Deltas : /\ collected' = collected \o delta
                                  /\ Yield([event |-> "token", value |-> delta])
        BY <1>3 DEF Pull
    <2> DEFINE token == [event |-> "token", value |-> delta]
    <2>2. frame' = token /\ token.event = "token" /\ token.value = delta
        BY <2>1 DEF Yield
    <2> HIDE DEF token
    <2>3. /\ at = "pulling" /\ at' = "writing" /\ Yielded = sent /\ stored = None
          /\ UNCHANGED <<sent, stored>>
        BY <1>3, <2>1 DEF Pull, Yield, IInv, TypeOK, StoredLate, Yielded
    <2>4. token \in Frames /\ token # None
        BY <2>2, <2>3, NoneAssumption DEF IInv, TypeOK
    <2>5. Yielded' = Append(sent, token)
        BY <2>2, <2>3, <2>4 DEF Yielded
    <2>6. Shown(Yielded') = Shown(Yielded) \o delta
        BY <1>1, <2>2, <2>3, <2>4, <2>5, ShownAppends
    <2> QED
        BY <2>1, <2>3, <2>6 DEF ShownSoFar, StoredIsShown
<1>4. CASE Persist
    <2>1. /\ frame' # None /\ Terminal(frame') /\ stored' = collected /\ Yielded = sent
          /\ at \in {"finished", "failed"} /\ UNCHANGED <<collected, sent>>
        <3> DEFINE last == [event |-> IF at = "failed" THEN "error" ELSE "done",
                            content |-> collected]
        <3>1. last \in Frames /\ last # None /\ Terminal(last)
            BY NoneAssumption DEF IInv, TypeOK, Frames, Terminal
        <3>2. frame' = last
            BY <1>4 DEF Persist, Yield
        <3> HIDE DEF last
        <3>3. Terminal(frame')
            BY <3>1, <3>2 DEF Terminal
        <3> QED
            BY <1>4, <3>1, <3>2, <3>3 DEF Persist, IInv, TypeOK, Yielded
    <2>2. Shown(Yielded') = Shown(sent)
        <3>1. frame' \in Frames /\ frame'.event # "token" /\ Yielded' = Append(sent, frame')
            BY <2>1 DEF IInv, TypeOK, Terminal, Yielded
        <3> QED
            BY <1>1, <3>1, ShownAppends
    <2> QED
        BY <2>1, <2>2 DEF ShownSoFar, StoredIsShown
<1>5. CASE Exhaust \/ Fail \/ PersistFails
    <2>1. /\ at \notin {"closed", "died"} /\ Yielded' = Yielded /\ collected' = collected
          /\ stored' \in {stored, collected}
        BY <1>5 DEF Exhaust, Fail, PersistFails, Yielded
    <2> QED
        BY <2>1 DEF ShownSoFar, StoredIsShown
<1>6. CASE Write
    <2>1. /\ at \notin {"closed", "died"} /\ Yielded' = Yielded
          /\ UNCHANGED <<collected, stored>>
        BY <1>6 DEF Write, Yielded, IInv, TypeOK
    <2> QED
        BY <2>1 DEF ShownSoFar, StoredIsShown
<1>7. CASE Close \/ Die
    <2>1. /\ at' \in {"closed", "died"} /\ Yielded' = sent /\ stored' = stored
          /\ at \in UnderWay
        BY <1>7 DEF Close, Die, Yielded, UnderWay
    <2>2. stored # None => frame # None /\ Terminal(frame)
        BY <2>1 DEF IInv, TypeOK, StoredLate, UnderWay
    <2>3. stored # None => Shown(Yielded) = Shown(sent)
        BY <1>1, <2>2, ShownOfYielded
    <2> QED
        BY <2>1, <2>3 DEF ShownSoFar, StoredIsShown
<1>8. CASE Leave \/ DeleteSession \/ UNCHANGED vars
    <2>1. Yielded' = Yielded /\ UNCHANGED <<at, collected>> /\ stored' \in {stored, None}
        BY <1>8 DEF Leave, DeleteSession, vars, Yielded
    <2> QED
        BY <2>1 DEF ShownSoFar, StoredIsShown
<1> QED
    BY <1>2, <1>3, <1>4, <1>5, <1>6, <1>7, <1>8 DEF Next, Serve, Quiescent

LEMMA ShownHolds == Spec => []ShownSoFar
<1>1. IInv /\ IInv' /\ ShownSoFar /\ [Next]_vars => ShownSoFar'
    BY ShownNext
<1> QED
    BY <1>1, ShownInit, IInvHolds, PTL DEF Spec

-----------------------------------------------------------------------------
(* Theorems *)

\* Frames, rows and texts keep their types, for any reply and any chunk.
THEOREM TypeCorrect == Spec => []TypeOK
BY IInvHolds, PTL DEF IInv

\* meta first and once, then tokens, then at most one of done and error and nothing
\* after it (generate, stream_reply).
THEOREM StreamsAreFramed == Spec => []FramesInOrder
BY IInvHolds, PTL DEF IInv, Promise

\* Whoever has been shown done or error finds that reply stored, unless the session
\* has been deleted (the commit comes before the frame).
THEOREM TerminalFramesAreStored == Spec => []TerminalFrameIsStored
BY IInvHolds, PTL DEF IInv, Promise

\* done carries the whole reply and error a beginning of it, however the provider cuts
\* it into deltas (MockLLMProvider.stream, GroqProvider.stream).
THEOREM DoneCarriesAll == Spec => []DoneIsWhole
BY IInvHolds, PTL DEF IInv, Promise

\* A stored reply, whole or partial, is what the tokens before it have shown, in their
\* order: at the commit, and after the generators were closed or the worker died.
THEOREM StoredRepliesWereShown == Spec => []StoredIsShown
BY ShownHolds, PTL DEF ShownSoFar

\* A reply is stored at most once, in a live session, and goes only with it.
THEOREM RepliesAreStoredOnce == Spec => StoredOnce
<1>1. ASSUME IInv, [Next]_vars
      PROVE  [\/ stored' = stored
              \/ stored = None /\ session' = "live"
              \/ stored' = None /\ session' = "deleted"]_vars
    <2>1. CASE Persist \/ PersistFails
        <3>1. stored = None
            BY <1>1, <2>1 DEF IInv, StoredLate, Persist, PersistFails
        <3> QED
            BY <2>1, <3>1 DEF Persist, PersistFails
    <2>2. CASE DeleteSession
        BY <2>2 DEF DeleteSession
    <2>3. CASE Open \/ Pull \/ Exhaust \/ Fail \/ Write \/ Close \/ Leave \/ Die \/ UNCHANGED vars
        BY <2>3 DEF Open, Pull, Exhaust, Fail, Write, Close, Leave, Die, vars
    <2> QED
        BY <1>1, <2>1, <2>2, <2>3 DEF Next, Serve, Quiescent
<1> QED
    BY <1>1, IInvHolds, PTL DEF Spec, StoredOnce

=============================================================================
