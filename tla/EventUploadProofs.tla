--------------------------- MODULE EventUploadProofs ---------------------------
(***************************************************************************)
(* Proofs about EventUpload, for files of every length and every threshold,*)
(* batch size and window.                                                  *)
(***************************************************************************)
EXTENDS EventUpload, SequenceTheorems, TLAPS

\* s lists the positions that follow a, in order and without a gap.
Follows(s, a) == \A i \in 1 .. Len(s) : s[i] = a + i

\* Positions that the handler has taken off the wire.
Taken == Len(stored) + Len(batch)

\* What the places of the client and of the handler say of each other.
Located ==
  /\ client = "start" =>
       /\ server = "off" /\ sent = 0 /\ verdict = "none" /\ reply = "none"
       /\ wire = <<>> /\ batch = <<>> /\ stored = <<>>
       /\ total = 0 /\ saved = 0 /\ ~half /\ ~cut
  /\ server # "off" => client # "start" /\ reply = "none"
  /\ server \in {"read", "poll", "saveRest"} \/ client = "write" => Streamed
  /\ server = "unary" => ~Streamed
  /\ half => sent = Len(events)
  /\ verdict = "true" => server = "off" /\ client = "done"

\* The database, the batch at hand and the wire hold consecutive stretches of
\* the file; nothing of it is lost in between unless the call is cut.
Consecutive ==
  /\ Follows(stored, 0) /\ Len(stored) <= Len(events)
  /\ server # "off" =>
       /\ Follows(batch, Len(stored)) /\ Follows(wire, Taken)
       /\ Taken + Len(wire) <= sent
       /\ ~cut => Taken + Len(wire) = sent

\* Nothing invalid has been stored or awaits it.
Validated ==
  /\ \A i \in 1 .. Len(stored) : events[i] = "valid"
  /\ server # "off" => \A i \in 1 .. Taken : events[i] = "valid"

\* Where the whole file has arrived.
Complete ==
  /\ server = "saveRest" /\ ~cut => Taken = Len(events)
  /\ server = "save" /\ ~Streamed => Len(stored) = 0 /\ Len(batch) = Len(events)
  /\ server = "unary" =>
       Len(stored) = 0 /\ Len(batch) = 0 /\ Len(wire) = Len(events)
  /\ reply = "ok" \/ verdict = "true" => Len(stored) = Len(events)

Counted ==
  /\ server # "off" => saved = Len(stored)
  /\ server # "off" /\ Streamed => total = Taken
  /\ ~Streamed => total = 0
  /\ server \in {"read", "poll"} => Len(batch) < BatchSize
  /\ RepliedCounts

IInv == TypeOK /\ Located /\ Consecutive /\ Validated /\ Complete /\ Counted

-------------------------------------------------------------------------------
(* Consecutive positions.                                                  *)

\* Writing the next position, and taking the first one off.
LEMMA FollowsAppend ==
  ASSUME NEW S, NEW s \in Seq(S), NEW a \in Nat, Follows(s, a), NEW e \in S,
         e = a + Len(s) + 1
  PROVE  /\ Append(s, e) \in Seq(S) /\ Len(Append(s, e)) = Len(s) + 1
         /\ Follows(Append(s, e), a)
  BY AppendProperties, LenProperties DEF Follows

LEMMA FollowsTail ==
  ASSUME NEW S, NEW s \in Seq(S), s # <<>>, NEW a \in Nat, Follows(s, a)
  PROVE  /\ Head(s) \in S /\ Head(s) = a + 1
         /\ Tail(s) \in Seq(S) /\ Len(Tail(s)) = Len(s) - 1 /\ Len(s) \in Nat
         /\ Follows(Tail(s), a + 1)
<1>1. /\ Head(s) \in S /\ Tail(s) \in Seq(S) /\ Len(Tail(s)) = Len(s) - 1
      /\ \A i \in 1 .. Len(Tail(s)) : Tail(s)[i] = s[i + 1]
  BY HeadTailProperties
<1>2. Len(s) \in Nat /\ Len(s) > 0
  BY LenProperties, EmptySeq
<1>3. Head(s) = s[1]
  BY <1>2
<1>4. QED BY <1>1, <1>2, <1>3 DEF Follows

\* Two stretches that meet make one.
LEMMA FollowsConcat ==
  ASSUME NEW S, NEW s \in Seq(S), NEW t \in Seq(S), NEW a \in Nat,
         Follows(s, a), Follows(t, a + Len(s))
  PROVE  /\ s \o t \in Seq(S) /\ Len(s \o t) = Len(s) + Len(t)
         /\ Follows(s \o t, a)
<1>1. /\ s \o t \in Seq(S) /\ Len(s \o t) = Len(s) + Len(t)
      /\ \A i \in 1 .. Len(s) + Len(t) : (s \o t)[i] =
           IF i <= Len(s) THEN s[i] ELSE t[i - Len(s)]
  BY ConcatProperties
<1>2. Len(s) \in Nat /\ Len(t) \in Nat
  BY LenProperties
<1>3. ASSUME NEW i \in 1 .. Len(s) + Len(t) PROVE (s \o t)[i] = a + i
  <2>1. CASE i <= Len(s)
    BY <2>1, <1>1, <1>2 DEF Follows
  <2>2. CASE i > Len(s)
    <3>1. i - Len(s) \in 1 .. Len(t)
      BY <2>2, <1>2
    <3>2. QED BY <3>1, <2>2, <1>1, <1>2 DEF Follows
  <2>3. QED BY <2>1, <2>2, <1>2
<1>4. QED BY <1>1, <1>3 DEF Follows

\* The lengths are numbers, and only the empty sequence has length 0.
LEMMA Lengths ==
  ASSUME TypeOK
  PROVE  /\ events \in Seq(Kinds) /\ Len(events) \in Nat
         /\ wire \in Seq(Indices) /\ batch \in Seq(Indices) /\ stored \in Seq(Indices)
         /\ Len(wire) \in Nat /\ Len(batch) \in Nat /\ Len(stored) \in Nat
         /\ Taken \in Nat /\ Taken = Len(stored) + Len(batch)
         /\ (wire = <<>> <=> Len(wire) = 0) /\ (batch = <<>> <=> Len(batch) = 0)
         /\ (stored = <<>> <=> Len(stored) = 0) /\ (events = <<>> <=> Len(events) = 0)
         /\ sent \in Nat /\ total \in Nat /\ saved \in Nat
         /\ Indices = 1 .. Len(events)
         /\ Threshold \in Nat /\ BatchSize \in Nat \ {0} /\ Window \in Nat \ {0}
<1>1. /\ events \in Seq(Kinds)
      /\ wire \in Seq(Indices) /\ batch \in Seq(Indices) /\ stored \in Seq(Indices)
  BY DEF TypeOK
<1>2. /\ Len(events) \in Nat /\ Len(wire) \in Nat
      /\ Len(batch) \in Nat /\ Len(stored) \in Nat
  BY <1>1, LenProperties
<1>3. /\ (wire = <<>> <=> Len(wire) = 0) /\ (batch = <<>> <=> Len(batch) = 0)
      /\ (stored = <<>> <=> Len(stored) = 0) /\ (events = <<>> <=> Len(events) = 0)
  BY <1>1, EmptySeq
<1>4. QED BY <1>1, <1>2, <1>3, UploadAssumption DEF UploadAssumption, TypeOK, Taken, Indices

-------------------------------------------------------------------------------
(* The invariant is inductive.                                             *)

LEMMA InitIInv == Init => IInv
<1> SUFFICES ASSUME Init PROVE IInv
  OBVIOUS
<1> USE UploadAssumption DEF Init, UploadAssumption
<1>1. events \in Seq(Kinds) /\ Len(events) \in Nat /\ <<>> \in Seq(Indices) /\ Len(<<>>) = 0
  BY LenProperties, EmptySeq
<1>2. TypeOK
  <2>1. {half, cut} \subseteq BOOLEAN
    OBVIOUS
  <2>2. {wire, batch, stored} \subseteq Seq(Indices) /\ {total, saved} \subseteq 0 .. Len(events)
    BY <1>1
  <2>3. QED BY <1>1, <2>1, <2>2 DEF TypeOK, Replies
<1>3. Located
  BY <1>1 DEF Located
<1>4. Consecutive /\ Validated /\ Complete /\ Counted
  BY <1>1 DEF Consecutive, Validated, Complete, Counted, RepliedCounts, Follows, Taken
<1>5. QED BY <1>2, <1>3, <1>4 DEF IInv

\* A step leaves the file alone, and with it what depends on it.
LEMMA FileStable ==
  ASSUME TypeOK, UNCHANGED events
  PROVE  Indices' = Indices /\ (Streamed' <=> Streamed) /\ Len(events') = Len(events)
  BY DEF Indices, Streamed

\* What a step of the client that touches neither the wire nor the handler keeps.
LEMMA ClientSide ==
  ASSUME IInv, TypeOK', Located', UNCHANGED <<events, wire, cut, serverVars, reply>>,
         sent' = sent, verdict' = "true" => Len(stored) = Len(events)
  PROVE  IInv'
<1> USE FileStable, Lengths DEF serverVars
<1>1. Consecutive'
  BY DEF IInv, Consecutive, Follows, Taken
<1>2. Validated'
  BY DEF IInv, Validated, Taken
<1>3. Complete'
  BY DEF IInv, Complete, Taken
<1>4. Counted'
  BY DEF IInv, Counted, RepliedCounts, Taken
<1>5. QED BY <1>1, <1>2, <1>3, <1>4 DEF IInv

LEMMA SaveUnaryIInv ==
  ASSUME IInv, SaveUnary
  PROVE  IInv'
<1> USE FileStable, Lengths DEF IInv
<1>1. /\ ~Streamed /\ wire' = [i \in Indices |-> i] /\ sent' = Len(events)
      /\ client' = "finish" /\ server' = "unary" /\ half' = TRUE
      /\ wire = <<>> /\ batch = <<>> /\ stored = <<>> /\ total = 0 /\ saved = 0
      /\ ~cut /\ verdict = "none" /\ reply = "none"
      /\ UNCHANGED <<events, verdict, cut, batch, total, saved, stored, reply>>
  BY DEF SaveUnary, Located
<1>2. wire' \in Seq(Indices) /\ Len(wire') = Len(events) /\ Follows(wire', 0)
  BY <1>1 DEF Follows
<1>3. TypeOK'
  BY <1>1, <1>2 DEF TypeOK
<1>4. Located'
  BY <1>1 DEF Located
<1>5. Consecutive' /\ Validated' /\ Complete' /\ Counted'
  BY <1>1, <1>2 DEF Consecutive, Validated, Complete, Counted, RepliedCounts, Follows, Taken
<1>6. QED BY <1>3, <1>4, <1>5

LEMMA OpenStreamIInv ==
  ASSUME IInv, OpenStream
  PROVE  IInv'
<1> USE FileStable, Lengths DEF IInv
<1>1. CASE events = <<>>
  <2>1. /\ client' = "done" /\ verdict' = "true" /\ server = "off" /\ stored = <<>>
        /\ UNCHANGED <<events, sent, wire, half, cut, serverVars, reply>>
    BY <1>1 DEF OpenStream, Return, Located, serverVars
  <2>2. TypeOK' /\ Located'
    BY <2>1 DEF TypeOK, Located, serverVars
  <2>3. QED BY <1>1, <2>1, <2>2, ClientSide
<1>2. CASE events # <<>>
  <2>1. /\ Streamed /\ client' = "write" /\ server' = "read" /\ sent = 0
        /\ wire = <<>> /\ batch = <<>> /\ stored = <<>> /\ total = 0 /\ saved = 0
        /\ ~cut /\ ~half /\ verdict = "none" /\ reply = "none"
        /\ UNCHANGED <<events, verdict, sent, wire, half, cut, batch, total, saved, stored, reply>>
    BY <1>2 DEF OpenStream, Located
  <2>2. TypeOK' /\ Located'
    BY <2>1 DEF TypeOK, Located
  <2>3. Consecutive' /\ Validated' /\ Complete' /\ Counted'
    BY <2>1 DEF Consecutive, Validated, Complete, Counted, RepliedCounts, Follows, Taken
  <2>4. QED BY <2>2, <2>3
<1>3. QED BY <1>1, <1>2

LEMMA WriteIInv ==
  ASSUME IInv, Write
  PROVE  IInv'
<1> USE FileStable, Lengths DEF IInv
<1>1. /\ client = "write" /\ sent < Len(events) /\ sent' = sent + 1 /\ ~half /\ Streamed
      /\ UNCHANGED <<events, client, verdict, half, cut, server, batch, total, saved, stored, reply>>
  BY DEF Write, Located, serverVars
<1>2. CASE cut \/ reply # "none"
  <2>1. wire' = wire
    BY <1>2 DEF Write
  <2>2. TypeOK' /\ Located'
    BY <1>1, <2>1 DEF TypeOK, Located
  <2>3. Consecutive'
    BY <1>1, <1>2, <2>1 DEF Consecutive, Located, Follows, Taken
  <2>4. Validated' /\ Complete' /\ Counted'
    BY <1>1, <2>1 DEF Validated, Complete, Counted, RepliedCounts, Taken
  <2>5. QED BY <2>2, <2>3, <2>4
<1>3. CASE ~(cut \/ reply # "none")
  <2>1. wire' = Append(wire, sent + 1) /\ Len(wire) < Window /\ sent + 1 \in Indices
    BY <1>1, <1>3 DEF Write
  <2>2. wire' \in Seq(Indices) /\ Len(wire') = Len(wire) + 1
    BY <2>1, AppendProperties
  <2>3. server # "off" => Follows(wire', Taken)
    BY <2>1, <1>3, FollowsAppend DEF Consecutive
  <2>4. TypeOK' /\ Located'
    BY <1>1, <2>1, <2>2 DEF TypeOK, Located
  <2>5. Consecutive'
    BY <1>1, <1>3, <2>2, <2>3 DEF Consecutive, Follows, Taken
  <2>6. Validated' /\ Complete' /\ Counted'
    BY <1>1, <1>3, <2>2 DEF Validated, Complete, Counted, RepliedCounts, Taken, Located
  <2>7. QED BY <2>4, <2>5, <2>6
<1>4. QED BY <1>2, <1>3

LEMMA ClientIInv ==
  ASSUME IInv, Client
  PROVE  IInv'
<1> USE FileStable, Lengths DEF IInv
<1>1. CASE WriteFails \/ FinishCut
  <2>1. /\ client # "start" /\ client' = "done" /\ verdict' = "false"
        /\ UNCHANGED <<events, sent, wire, half, cut, serverVars, reply>>
    BY <1>1 DEF WriteFails, FinishCut, Return
  <2>2. TypeOK' /\ Located'
    BY <2>1 DEF TypeOK, Located, serverVars
  <2>3. QED BY <2>1, <2>2, ClientSide
<1>2. CASE WritesDone
  <2>1. /\ client = "write" /\ sent = Len(events) /\ client' = "finish" /\ half' = TRUE
        /\ verdict' = verdict /\ verdict # "true"
        /\ UNCHANGED <<events, sent, wire, cut, serverVars, reply>>
    BY <1>2 DEF WritesDone, Located
  <2>2. TypeOK' /\ Located'
    BY <2>1 DEF TypeOK, Located, serverVars
  <2>3. QED BY <2>1, <2>2, ClientSide
<1>3. CASE FinishReply
  <2>1. /\ client = "finish" /\ reply # "none" /\ client' = "done" /\ server = "off"
        /\ verdict' = IF reply = "ok" THEN "true" ELSE "false"
        /\ UNCHANGED <<events, sent, wire, half, cut, serverVars, reply>>
    BY <1>3 DEF FinishReply, VerdictOn, Return, Located
  <2>2. TypeOK' /\ Located'
    BY <2>1 DEF TypeOK, Located, serverVars
  <2>3. QED BY <2>1, <2>2, ClientSide DEF Complete
<1>4. QED
  BY <1>1, <1>2, <1>3, SaveUnaryIInv, OpenStreamIInv, WriteIInv DEF Client

\* A step after which the handler has returned: only what is stored and what is
\* answered matters.
LEMMA HandlerReturns ==
  ASSUME IInv, server # "off", server' = "off", TypeOK', clientVars' = clientVars,
         half' = half, cut' = cut \/ cut' = TRUE,
         Follows(stored', 0), Len(stored') <= Taken,
         reply' = "ok" => Len(stored') = Len(events),
         RepliedCounts', ~Streamed => total' = 0
  PROVE  IInv'
<1> USE FileStable, Lengths DEF IInv, clientVars
<1>1. client # "start" /\ verdict # "true" /\ reply = "none"
  BY DEF Located
<1>2. Located'
  BY <1>1 DEF Located
<1>3. Len(stored') \in Nat
  BY FileStable, LenProperties DEF TypeOK
<1>4. Consecutive' /\ Validated'
  <2>1. Taken <= Len(events)
    BY DEF Consecutive, TypeOK
  <2>2. Consecutive'
    BY <1>3, <2>1 DEF Consecutive
  <2>3. Validated'
    BY <1>3 DEF Validated
  <2>4. QED BY <2>2, <2>3
<1>5. Complete'
  BY <1>1 DEF Complete
<1>6. Counted'
  BY DEF Counted
<1>7. QED BY <1>2, <1>4, <1>5, <1>6

LEMMA HandleUnaryIInv ==
  ASSUME IInv, HandleUnary
  PROVE  IInv'
<1> USE FileStable, Lengths DEF IInv
<1>1. /\ server = "unary" /\ ~Streamed /\ wire' = <<>> /\ wire' \in Seq(Indices)
      /\ Len(wire') = 0 /\ Len(stored) = 0 /\ Len(batch) = 0 /\ Len(wire) = Len(events)
      /\ client # "start" /\ reply = "none" /\ verdict # "true" /\ Follows(wire, 0)
      /\ total = 0 /\ saved = 0
      /\ UNCHANGED <<events, client, verdict, sent, half, cut, total, saved, stored>>
  BY EmptySeq DEF HandleUnary, Located, Complete, Consecutive, Counted, clientVars
<1>2. CASE events = <<>> \/ \E i \in Indices : events[i] = "invalid"
  <2>1. server' = "off" /\ batch' = batch /\ reply' \in {"none", "INVALID_ARGUMENT"}
    BY <1>1, <1>2 DEF HandleUnary, Reply
  <2>2. TypeOK'
    BY <1>1, <2>1 DEF TypeOK, Replies
  <2>3. QED
    BY <1>1, <2>1, <2>2, HandlerReturns DEF clientVars, Follows, RepliedCounts
<1>3. CASE ~(events = <<>> \/ \E i \in Indices : events[i] = "invalid")
  <2>1. server' = "save" /\ batch' = wire /\ reply' = reply
    BY <1>3 DEF HandleUnary
  <2>2. \A i \in 1 .. Len(events) : events[i] = "valid"
    <3>1. \A i \in 1 .. Len(events) : events[i] \in Kinds
      BY ElementOfSeq
    <3>2. QED BY <1>3, <3>1 DEF Kinds
  <2>3. TypeOK' /\ Located'
    BY <1>1, <2>1 DEF TypeOK, Located
  <2>4. Consecutive'
    BY <1>1, <2>1 DEF Consecutive, Follows, Taken
  <2>5. Validated' /\ Complete' /\ Counted'
    BY <1>1, <2>1, <2>2 DEF Validated, Complete, Counted, RepliedCounts, Taken
  <2>6. QED BY <2>3, <2>4, <2>5
<1>4. QED BY <1>2, <1>3

LEMMA ReadIInv ==
  ASSUME IInv, Read
  PROVE  IInv'
<1> USE FileStable, Lengths DEF IInv
<1>1. /\ server = "read" /\ wire # <<>> /\ wire' = Tail(wire) /\ Streamed
      /\ client # "start" /\ reply = "none" /\ verdict # "true" /\ Len(batch) < BatchSize
      /\ Follows(wire, Taken) /\ Follows(batch, Len(stored)) /\ total = Taken
      /\ UNCHANGED <<events, client, verdict, sent, half, cut, saved, stored>>
  BY DEF Read, ReadNext, Located, Consecutive, Counted, clientVars
<1>2. /\ Head(wire) \in Indices /\ Head(wire) = Taken + 1
      /\ wire' \in Seq(Indices) /\ Len(wire') = Len(wire) - 1 /\ Len(wire') \in Nat
      /\ Follows(wire', Taken + 1)
  BY <1>1, FollowsTail
<1>3. CASE events[Head(wire)] = "invalid"
  <2>1. server' = "off" /\ reply' \in {"none", "refused"} /\ UNCHANGED <<batch, total>>
    BY <1>1, <1>3 DEF Read, ReadNext, Reply
  <2>2. TypeOK'
    BY <1>1, <1>2, <2>1 DEF TypeOK, Replies
  <2>3. QED
    BY <1>1, <2>1, <2>2, HandlerReturns
    DEF clientVars, Consecutive, Follows, RepliedCounts
<1>4. CASE events[Head(wire)] # "invalid"
  <2>1. /\ batch' = Append(batch, Head(wire)) /\ total' = total + 1 /\ reply' = reply
        /\ server' = IF Len(batch) + 1 >= BatchSize THEN "save" ELSE "poll"
    BY <1>4 DEF Read, ReadNext
  <2>2. events[Taken + 1] = "valid"
    BY <1>2, <1>4, ElementOfSeq DEF Kinds
  <2>3. /\ batch' \in Seq(Indices) /\ Len(batch') = Len(batch) + 1
        /\ Follows(batch', Len(stored)) /\ Taken' = Taken + 1
    BY <1>1, <1>2, <2>1, FollowsAppend DEF Taken
  <2>4. Taken + Len(wire) <= sent /\ sent <= Len(events)
    BY <1>1 DEF Consecutive, TypeOK
  <2>5. TypeOK'
    <3>1. Indices' = Indices /\ (Streamed' <=> Streamed) /\ events' = events
      BY <1>1
    <3>2. total' \in 0 .. Len(events') /\ saved' \in 0 .. Len(events')
      <4>1. Taken + 1 \in 1 .. Len(events) /\ total = Taken
        BY <1>1, <1>2
      <4>2. total' = total + 1 /\ saved' = saved /\ saved \in 0 .. Len(events)
        BY <1>1, <2>1 DEF TypeOK
      <4>3. QED BY <3>1, <4>1, <4>2
    <3>3. Streamed' => Len(wire') <= Window /\ Len(batch') <= BatchSize
      <4>1. Streamed => Len(wire) <= Window
        BY DEF TypeOK
      <4>2. QED BY <1>1, <1>2, <2>3, <3>1, <4>1
    <3>4. {wire', batch', stored'} \subseteq Seq(Indices')
      BY <1>1, <1>2, <2>3, <3>1
    <3>5. /\ events' \in Seq(Kinds) /\ sent' \in 0 .. Len(events')
          /\ client' \in {"start", "write", "finish", "done"}
          /\ server' \in {"off", "unary", "read", "poll", "save", "saveRest"}
          /\ verdict' \in {"none", "true", "false"} /\ reply' \in Replies
          /\ {half', cut'} \subseteq BOOLEAN
      BY <1>1, <2>1 DEF TypeOK
    <3>6. QED BY <3>2, <3>3, <3>4, <3>5 DEF TypeOK
  <2>6. Located'
    BY <1>1, <2>1 DEF Located
  <2>7. Consecutive'
    BY <1>1, <1>2, <2>1, <2>3 DEF Consecutive
  <2>8. Validated'
    BY <1>1, <2>2, <2>3 DEF Validated
  <2>9. Complete' /\ Counted'
    BY <1>1, <2>1, <2>3 DEF Complete, Counted, RepliedCounts
  <2>10. QED BY <2>5, <2>6, <2>7, <2>8, <2>9
<1>5. QED BY <1>3, <1>4

LEMMA PollCancelledIInv ==
  ASSUME IInv, PollCancelled
  PROVE  IInv'
<1> USE FileStable, Lengths DEF IInv
<1>1. /\ server = "poll" /\ Streamed /\ reply' = "none" /\ reply = "none"
      /\ UNCHANGED <<events, client, verdict, sent, wire, half, cut, batch, total, saved, stored>>
  BY DEF PollCancelled, Reply, Located, clientVars
<1>2. CASE cut /\ Reply("none")
  <2>1. server' = "off"
    BY <1>2 DEF Reply
  <2>2. TypeOK'
    BY <1>1, <2>1 DEF TypeOK
  <2>3. QED
    BY <1>1, <1>2, <2>1, <2>2, HandlerReturns
    DEF clientVars, Consecutive, Follows, RepliedCounts
<1>3. CASE server' = "read"
  <2>1. server' = "read"
    BY <1>3
  <2>2. TypeOK' /\ Located'
    BY <1>1, <2>1 DEF TypeOK, Located
  <2>3. Consecutive'
    BY <1>1, <2>1 DEF Consecutive, Follows, Taken
  <2>4. Validated' /\ Complete' /\ Counted'
    BY <1>1, <2>1 DEF Validated, Complete, Counted, RepliedCounts, Taken
  <2>5. QED BY <2>2, <2>3, <2>4
<1>4. QED BY <1>2, <1>3 DEF PollCancelled

\* At the end of a stream that is not cut, everything sent has been taken.
LEMMA ReadFailsIInv ==
  ASSUME IInv, ReadFails
  PROVE  IInv'
<1> USE FileStable, Lengths DEF IInv
<1>1. /\ server = "read" /\ Streamed /\ reply = "none" /\ (cut \/ (half /\ wire = <<>>))
      /\ UNCHANGED <<events, client, verdict, sent, wire, half, cut, batch, total, saved, stored>>
  BY DEF ReadFails, ReadEnds, Located, clientVars
<1>2. ~cut => Taken = Len(events)
  BY <1>1 DEF Consecutive, Located
<1>3. CASE batch = <<>>
  <2>1. server' = "off" /\ reply' = IF cut THEN "none" ELSE "ok"
    BY <1>1, <1>3 DEF ReadFails, ReadEnds, Reply
  <2>2. TypeOK'
    BY <1>1, <2>1 DEF TypeOK, Replies
  <2>3. RepliedCounts'
    BY <1>1, <1>3 DEF RepliedCounts, Counted
  <2>4. QED
    BY <1>1, <1>2, <1>3, <2>1, <2>2, <2>3, HandlerReturns
    DEF clientVars, Consecutive, Follows
<1>4. CASE batch # <<>>
  <2>1. server' = "saveRest" /\ reply' = reply
    BY <1>4 DEF ReadFails, ReadEnds
  <2>2. TypeOK' /\ Located'
    BY <1>1, <2>1 DEF TypeOK, Located
  <2>3. Consecutive'
    BY <1>1, <2>1 DEF Consecutive, Follows, Taken
  <2>4. Validated' /\ Complete' /\ Counted'
    BY <1>1, <1>2, <2>1 DEF Validated, Complete, Counted, RepliedCounts, Taken
  <2>5. QED BY <2>2, <2>3, <2>4
<1>5. QED BY <1>3, <1>4

\* What the database holds once the batch is in it.
LEMMA BatchStored ==
  ASSUME IInv, server # "off", stored' = stored \o batch, UNCHANGED events
  PROVE  /\ stored' \in Seq(Indices) /\ Len(stored') = Taken /\ Follows(stored', 0)
         /\ Taken <= Len(events)
<1> USE Lengths DEF IInv
<1>1. Follows(stored, 0) /\ Follows(batch, Len(stored)) /\ Taken <= Len(events)
  BY DEF Consecutive, TypeOK
<1>2. QED BY <1>1, FollowsConcat

LEMMA SaveOkIInv ==
  ASSUME IInv, SaveOk
  PROVE  IInv'
<1> USE FileStable, Lengths DEF IInv
<1>1. /\ server \in {"save", "saveRest"} /\ stored' = stored \o batch
      /\ saved' = saved + Len(batch) /\ batch' = <<>> /\ reply = "none"
      /\ batch' \in Seq(Indices) /\ Len(batch') = 0 /\ saved = Len(stored)
      /\ UNCHANGED <<events, client, verdict, sent, wire, half, cut, total>>
  BY EmptySeq DEF SaveOk, Inserted, Proceed, Located, Counted, clientVars
<1>2. /\ stored' \in Seq(Indices) /\ Len(stored') = Taken /\ Follows(stored', 0)
      /\ Taken <= Len(events) /\ Taken' = Taken /\ saved' = Taken
  BY <1>1, BatchStored DEF Taken
<1>3. CASE server = "save" /\ Streamed
  <2>1. server' = "poll" /\ reply' = reply
    BY <1>3 DEF SaveOk, Proceed
  <2>2. TypeOK'
    BY <1>1, <1>2, <1>3, <2>1 DEF TypeOK
  <2>3. Located'
    BY <1>1, <1>3, <2>1 DEF Located
  <2>4. Consecutive'
    BY <1>1, <1>2, <2>1 DEF Consecutive, Follows
  <2>5. Validated' /\ Complete' /\ Counted'
    BY <1>1, <1>2, <1>3, <2>1 DEF Validated, Complete, Counted, RepliedCounts, Located
  <2>6. QED BY <2>2, <2>3, <2>4, <2>5
<1>4. CASE ~(server = "save" /\ Streamed)
  <2>1. server' = "off" /\ reply' = IF cut THEN "none" ELSE "ok"
    BY <1>1, <1>4 DEF SaveOk, Proceed, Reply
  <2>2. TypeOK'
    BY <1>1, <1>2, <2>1 DEF TypeOK, Replies
  <2>3. ~cut => Taken = Len(events)
    BY <1>1, <1>4 DEF Complete
  <2>4. RepliedCounts' /\ (~Streamed => total' = 0)
    BY <1>1, <1>2 DEF RepliedCounts, Counted
  <2>5. QED
    BY <1>1, <1>2, <2>1, <2>2, <2>3, <2>4, HandlerReturns DEF clientVars
<1>5. QED BY <1>3, <1>4

LEMMA SaveFailsIInv ==
  ASSUME IInv, SaveFails
  PROVE  IInv'
<1> USE FileStable, Lengths DEF IInv
<1>1. /\ server \in {"save", "saveRest"} /\ server' = "off" /\ reply' \in {"none", "refused"}
      /\ UNCHANGED <<events, client, verdict, sent, wire, half, cut, batch, total, saved>>
      /\ stored' = stored \/ stored' = stored \o batch
  BY DEF SaveFails, SaveFailsAnd, Inserted, Reply, Located, clientVars
<1>2. stored' \in Seq(Indices) /\ Len(stored') <= Taken /\ Follows(stored', 0)
  BY <1>1, BatchStored DEF Consecutive
<1>3. TypeOK'
  BY <1>1, <1>2 DEF TypeOK, Replies
<1>4. QED
  BY <1>1, <1>2, <1>3, HandlerReturns DEF clientVars, RepliedCounts, Counted

LEMMA CrashIInv ==
  ASSUME IInv, Crash
  PROVE  IInv'
<1> USE FileStable, Lengths DEF IInv
<1>1. /\ server # "off" /\ server' = "off" /\ reply' = "none" /\ cut' = TRUE
      /\ UNCHANGED <<events, client, verdict, sent, wire, half, batch, total, saved>>
      /\ stored' = stored \/ stored' = stored \o batch
  BY DEF Crash, Inserted, Located, clientVars
<1>2. stored' \in Seq(Indices) /\ Len(stored') <= Taken /\ Follows(stored', 0)
  BY <1>1, BatchStored DEF Consecutive
<1>3. TypeOK'
  BY <1>1, <1>2 DEF TypeOK, Replies
<1>4. QED
  BY <1>1, <1>2, <1>3, HandlerReturns DEF clientVars, RepliedCounts, Counted

LEMMA CutIInv ==
  ASSUME IInv, Cut
  PROVE  IInv'
<1> USE FileStable, Lengths DEF IInv, serverVars, clientVars
<1>1. /\ client # "start" /\ cut' = TRUE
      /\ UNCHANGED <<clientVars, wire, half, serverVars, reply>>
  BY DEF Cut, CutWhen
<1>2. TypeOK' /\ Located'
  BY <1>1 DEF TypeOK, Located
<1>3. Consecutive'
  BY <1>1 DEF Consecutive, Follows, Taken
<1>4. Validated' /\ Complete' /\ Counted'
  BY <1>1 DEF Validated, Complete, Counted, RepliedCounts, Taken
<1>5. QED BY <1>2, <1>3, <1>4

LEMMA NextIInv == IInv /\ [Next]_vars => IInv'
<1> SUFFICES ASSUME IInv, [Next]_vars PROVE IInv'
  OBVIOUS
<1>1. CASE Client
  BY <1>1, ClientIInv
<1>2. CASE Handle
  BY <1>2, HandleUnaryIInv, ReadIInv, PollCancelledIInv, ReadFailsIInv DEF Handle
<1>3. CASE Save
  BY <1>3, SaveOkIInv, SaveFailsIInv DEF Save
<1>4. CASE Cut \/ Crash
  BY <1>4, CutIInv, CrashIInv
<1>5. CASE UNCHANGED vars
  <2>1. UNCHANGED <<events, client, verdict, sent, wire, half, cut, server, batch,
                    total, saved, stored, reply>>
    BY <1>5 DEF vars, clientVars, serverVars
  <2>2. QED
    BY <2>1 DEF IInv, TypeOK, Located, Consecutive, Validated, Complete, Counted,
                RepliedCounts, Follows, Taken, Indices, Streamed
<1>6. QED BY <1>1, <1>2, <1>3, <1>4, <1>5 DEF Next

LEMMA InvariantHolds == Spec => []IInv
  BY InitIInv, NextIInv, PTL DEF Spec

-------------------------------------------------------------------------------
(* What follows from it.                                                   *)

\* Every variable of an upload keeps its type; no more than Window messages are
\* on their way and no more than BatchSize events await their insertion.
THEOREM TypeCorrect == Spec => []TypeOK
<1>1. IInv => TypeOK
  BY DEF IInv
<1>2. QED BY <1>1, InvariantHolds, PTL

\* "Events saved successfully" means that the database holds every event of the
\* file once and in its order, whatever the length of the file and wherever the
\* call is cut or the service dies.
THEOREM TrueStores == Spec => []TrueMeansStored
<1>1. ASSUME IInv, verdict = "true" PROVE stored = [i \in Indices |-> i]
  <2> USE <1>1, Lengths DEF IInv
  <2>1. Len(stored) = Len(events) /\ \A i \in 1 .. Len(stored) : stored[i] = i
    BY DEF Complete, Consecutive, Follows
  <2>2. DOMAIN stored = 1 .. Len(stored) /\ stored = [i \in DOMAIN stored |-> stored[i]]
    BY LenProperties
  <2>3. QED BY <2>1, <2>2
<1>2. IInv => TrueMeansStored
  BY <1>1 DEF TrueMeansStored
<1>3. QED BY <1>2, InvariantHolds, PTL

\* However an upload ends, it leaves a valid prefix of the file.
THEOREM PrefixStored == Spec => []StoredIsValidPrefix
<1>1. ASSUME IInv PROVE StoredIsValidPrefix
  <2> USE <1>1, Lengths DEF IInv
  <2>1. \A i \in 1 .. Len(stored) : stored[i] = i
    BY DEF Consecutive, Follows
  <2>2. DOMAIN stored = 1 .. Len(stored) /\ stored = [i \in DOMAIN stored |-> stored[i]]
    BY LenProperties
  <2>3. stored = [i \in 1 .. Len(stored) |-> i]
    BY <2>1, <2>2
  <2>4. \A i \in DOMAIN stored : events[stored[i]] = "valid"
    BY <2>1, <2>2 DEF Validated
  <2>5. QED BY <2>3, <2>4 DEF StoredIsValidPrefix
<1>2. QED BY <1>1, InvariantHolds, PTL

\* The counts that the handler of a stream reports are those of the database.
THEOREM CountsTrue == Spec => []RepliedCounts
<1>1. IInv => RepliedCounts
  BY DEF IInv, Counted
<1>2. QED BY <1>1, InvariantHolds, PTL
===============================================================================
