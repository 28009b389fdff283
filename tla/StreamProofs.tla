------------------------------ MODULE StreamProofs ------------------------------
(***************************************************************************)
(* The three streams obey the contract of BlockStream, for every number of *)
(* tools, blocks, events and redirects; and the arguments of tool calls    *)
(* and the requests of the web tools.  The parser that splits a stream of  *)
(* text at its think tags reads it the same however it is cut.             *)
(*                                                                         *)
(* What a stream has yielded and the client has not yet received is a      *)
(* sequence of events.  The argument for all three is the same: if the     *)
(* client receives all of them, each is legal when it arrives, and the     *)
(* client ends with the blocks that the producer thinks are open (Can).    *)
(*                                                                         *)
(* The parser reads any text as one reads it from left to right.  Meaning  *)
(* is defined by recursion on the text, so the proofs are by induction on  *)
(* its length.                                                             *)
(***************************************************************************)
EXTENDS OpenAIStream, NativeStream, WebToolStream, ThinkTags, DataLemmas, SequenceTheorems, TLAPS

Kinds == NativeKinds \cup {"text", "thinking", "tool_use", "server_tool_use", "tool_result"}
Events == [type : {"message_start", "message_delta", "message_stop", "error"}]
            \cup [type : {"content_block_start", "content_block_delta"}, index : Nat, kind : Kinds]
            \cup [type : {"content_block_stop"}, index : Nat]

\* A record with the fields of a client, and no others.
IsClient(c) == c = [open |-> c.open, seen |-> c.seen, last |-> c.last, over |-> c.over]

\* The client c can receive the events of s one after another, and is d then.
Reaches(c, s, d) ==
    \E cs : /\ cs[1] = c /\ cs[Len(s) + 1] = d
            /\ \A k \in 1 .. Len(s) : Legal(cs[k], s[k]) /\ cs[k + 1] = After(cs[k], s[k])

-----------------------------------------------------------------------------

\* What After does to the fields of a client.
LEMMA AfterFields ==
  ASSUME NEW c, IsClient(c), NEW e
  PROVE  /\ IsClient(After(c, e)) /\ After(c, e).last = e /\ After(c, e).over = c.over
         /\ After(c, e).open = IF e.type = "content_block_start" THEN WithBlock(c.open, e.index, e.kind)
                               ELSE IF e.type = "content_block_stop" THEN WithoutBlock(c.open, e.index) ELSE c.open
         /\ After(c, e).seen = IF e.type = "content_block_start" THEN c.seen \cup {e.index} ELSE c.seen
<1> DEFINE open == c.open
           seen == c.seen
           last == c.last
           over == c.over
           newOpen == IF e.type = "content_block_start" THEN WithBlock(open, e.index, e.kind)
                      ELSE IF e.type = "content_block_stop" THEN WithoutBlock(open, e.index) ELSE open
           newSeen == IF e.type = "content_block_start" THEN seen \cup {e.index} ELSE seen
<1>1. c = [open |-> open, seen |-> seen, last |-> last, over |-> over]
  BY DEF IsClient
<1>0. After(c, e) = [c EXCEPT !.last = e, !.open = newOpen, !.seen = newSeen]
  <2> HIDE DEF open, seen
  <2>1. c.open = open /\ c.seen = seen BY <1>1
  <2>2. After(c, e) =
         [[[c EXCEPT !.last = e] EXCEPT !.open = IF e.type = "content_block_start" THEN WithBlock(@, e.index, e.kind)
                            ELSE IF e.type = "content_block_stop" THEN WithoutBlock(@, e.index)
                            ELSE @] EXCEPT !.seen = IF e.type = "content_block_start" THEN @ \cup {e.index} ELSE @]
    BY DEF After
  <2> QED BY <2>1, <2>2, <1>1
<1> HIDE DEF open, seen, last, over, newOpen, newSeen
<1>2. After(c, e) = [open |-> newOpen, seen |-> newSeen, last |-> e, over |-> over]
  BY <1>0, <1>1
<1> USE DEF newOpen, newSeen
<1>3. After(c, e) = [open |-> IF e.type = "content_block_start" THEN WithBlock(open, e.index, e.kind)
                              ELSE IF e.type = "content_block_stop" THEN WithoutBlock(open, e.index) ELSE open,
                     seen |-> IF e.type = "content_block_start" THEN seen \cup {e.index} ELSE seen,
                     last |-> e, over |-> over]
  BY <1>2
<1> QED BY <1>1, <1>3 DEF IsClient

\* The response ends, or the client leaves.
LEMMA OverFields ==
  ASSUME NEW c, IsClient(c), NEW o
  PROVE  LET d == [c EXCEPT !.over = o]
         IN  IsClient(d) /\ d.over = o /\ d.open = c.open /\ d.seen = c.seen /\ d.last = c.last
<1> DEFINE open == c.open
           seen == c.seen
           last == c.last
           over == c.over
<1>1. c = [open |-> open, seen |-> seen, last |-> last, over |-> over]
  BY DEF IsClient
<1> HIDE DEF open, seen, last, over
<1>2. [c EXCEPT !.over = o] = [open |-> open, seen |-> seen, last |-> last, over |-> o]
  BY <1>1
<1> QED BY <1>1, <1>2 DEF IsClient

LEMMA NothingToReach ==
  ASSUME NEW c, NEW d
  PROVE  Reaches(c, <<>>, d) <=> c = d
<1>1. Reaches(c, <<>>, c)
  <2> DEFINE cs == [k \in {1} |-> c]
  <2>1. cs[1] = c /\ Len(<<>>) = 0 OBVIOUS
  <2> HIDE DEF cs
  <2>2. cs[1] = c /\ cs[Len(<<>>) + 1] = c /\ \A k \in 1 .. Len(<<>>) : Legal(cs[k], <<>>[k]) /\ cs[k + 1] = After(cs[k], <<>>[k])
    BY <2>1
  <2> QED BY <2>2 DEF Reaches
<1>2. Reaches(c, <<>>, d) => c = d
  BY DEF Reaches
<1> QED BY <1>1, <1>2

LEMMA OneToReach ==
  ASSUME NEW c, NEW e, Legal(c, e)
  PROVE  Reaches(c, <<e>>, After(c, e))
<1> DEFINE d == After(c, e)
           cs == [k \in 1 .. 2 |-> IF k = 1 THEN c ELSE d]
<1> HIDE DEF d
<1>1. cs[1] = c /\ cs[2] = d
  OBVIOUS
<1>2. Len(<<e>>) = 1 /\ <<e>>[1] = e
  OBVIOUS
<1> HIDE DEF cs
<1>3. \A k \in 1 .. Len(<<e>>) : Legal(cs[k], <<e>>[k]) /\ cs[k + 1] = After(cs[k], <<e>>[k])
  BY <1>1, <1>2 DEF d
<1> QED BY <1>1, <1>2, <1>3 DEF Reaches, d

LEMMA ReachAlong ==
  ASSUME NEW c, NEW m, NEW d, NEW s \in Seq(Events), NEW t \in Seq(Events), Reaches(c, s, m), Reaches(m, t, d)
  PROVE  Reaches(c, s \o t, d)
<1>1. PICK cs : /\ cs[1] = c /\ cs[Len(s) + 1] = m
                /\ \A k \in 1 .. Len(s) : Legal(cs[k], s[k]) /\ cs[k + 1] = After(cs[k], s[k])
  BY DEF Reaches
<1>2. PICK ct : /\ ct[1] = m /\ ct[Len(t) + 1] = d
                /\ \A k \in 1 .. Len(t) : Legal(ct[k], t[k]) /\ ct[k + 1] = After(ct[k], t[k])
  BY DEF Reaches
<1> DEFINE n == Len(s)
           u == s \o t
           cu == [k \in 1 .. n + Len(t) + 1 |-> IF k <= n THEN cs[k] ELSE ct[k - n]]
<1>3. n \in Nat /\ Len(t) \in Nat /\ Len(u) = n + Len(t)
  OBVIOUS
<1>4. \A k \in 1 .. Len(u) : u[k] = IF k <= n THEN s[k] ELSE t[k - n]
  OBVIOUS
<1>5. cu[1] = c /\ cu[Len(u) + 1] = d
  BY <1>1, <1>2, <1>3
<1>6. ASSUME NEW k \in 1 .. Len(u) PROVE Legal(cu[k], u[k]) /\ cu[k + 1] = After(cu[k], u[k])
  <2>1. CASE k < n BY <2>1, <1>1, <1>3, <1>4
  <2>2. CASE k = n
    <3>1. cu[k] = cs[k] /\ u[k] = s[k] /\ cu[k + 1] = ct[1] /\ k \in 1 .. Len(s)
      BY <2>2, <1>3, <1>4
    <3> QED BY <3>1, <2>2, <1>1, <1>2
  <2>3. CASE k > n
    <3>1. k - n \in 1 .. Len(t) /\ cu[k] = ct[k - n] /\ cu[k + 1] = ct[(k - n) + 1] /\ u[k] = t[k - n]
      BY <2>3, <1>3, <1>4
    <3> QED BY <3>1, <1>2
  <2> QED BY <2>1, <2>2, <2>3, <1>3
<1> HIDE DEF cu, u
<1> QED BY <1>5, <1>6 DEF Reaches, u

LEMMA ReachOneMore ==
  ASSUME NEW c, NEW m, NEW s \in Seq(Events), NEW e \in Events, Reaches(c, s, m), Legal(m, e)
  PROVE  Reaches(c, s \o <<e>>, After(m, e))
<1>1. <<e>> \in Seq(Events)
  OBVIOUS
<1> QED BY <1>1, OneToReach, ReachAlong

LEMMA Regroup ==
  ASSUME NEW s \in Seq(Events), NEW t \in Seq(Events), NEW u \in Seq(Events)
  PROVE  s \o (t \o u) = (s \o t) \o u
  OBVIOUS

LEMMA PairOfEvents ==
  ASSUME NEW a \in Events, NEW b \in Events
  PROVE  <<a, b>> = <<a>> \o <<b>>
<1> DEFINE p == <<a, b>>
           q == <<a>> \o <<b>>
<1>1. p \in Seq(Events) /\ q \in Seq(Events)
  OBVIOUS
<1>2. Len(p) = 2 /\ Len(q) = 2
  OBVIOUS
<1>3. p[1] = a /\ q[1] = a /\ p[2] = b /\ q[2] = b
  OBVIOUS
<1> HIDE DEF p, q
<1>4. \A k \in 1 .. Len(p) : p[k] = q[k]
  BY <1>2, <1>3
<1>5. p = q
  BY <1>1, <1>2, <1>4, SeqEqual
<1> QED BY <1>5 DEF p, q

LEMMA ReachFirst ==
  ASSUME NEW c, NEW d, NEW s \in Seq(Events), s # <<>>, Reaches(c, s, d)
  PROVE  Legal(c, Head(s)) /\ Reaches(After(c, Head(s)), Tail(s), d)
<1>1. PICK cs : /\ cs[1] = c /\ cs[Len(s) + 1] = d
                /\ \A k \in 1 .. Len(s) : Legal(cs[k], s[k]) /\ cs[k + 1] = After(cs[k], s[k])
  BY DEF Reaches
<1> DEFINE t == Tail(s)
           ct == [k \in 1 .. Len(s) |-> cs[k + 1]]
<1>2. Len(s) \in Nat /\ Len(s) >= 1 /\ Len(t) = Len(s) - 1 /\ Head(s) = s[1] /\ \A k \in 1 .. Len(t) : t[k] = s[k + 1]
  OBVIOUS
<1>3. Legal(c, Head(s)) /\ ct[1] = After(c, Head(s)) /\ ct[Len(t) + 1] = d
  BY <1>1, <1>2
<1>4. ASSUME NEW k \in 1 .. Len(t) PROVE Legal(ct[k], t[k]) /\ ct[k + 1] = After(ct[k], t[k])
  <2>1. ct[k] = cs[k + 1] /\ ct[k + 1] = cs[(k + 1) + 1] /\ t[k] = s[k + 1] /\ k + 1 \in 1 .. Len(s)
    BY <1>2
  <2> QED BY <2>1, <1>1
<1> HIDE DEF ct, t
<1> QED BY <1>3, <1>4 DEF Reaches, t

-----------------------------------------------------------------------------

\* A client in the middle of a stream, with these blocks open and seen.
View(d, open, seen) ==
    /\ IsClient(d) /\ d.over = "no" /\ d.last.type # "none" /\ d.open = open /\ d.seen = seen
    /\ open = [i \in DOMAIN open |-> open[i]]

\* c can receive s, and then has these blocks open and seen.
Can(c, s, open, seen) == \E d : Reaches(c, s, d) /\ View(d, open, seen)

\* ... and s is the whole rest of the stream.
CanFinish(c, s) == \E d : Reaches(c, s, d) /\ IsClient(d) /\ d.over = "no" /\ Complete(d)

LEMMA OpenIsFunction ==
  ASSUME NEW open, NEW i, NEW kind
  PROVE  /\ WithBlock(open, i, kind) = [j \in DOMAIN WithBlock(open, i, kind) |-> WithBlock(open, i, kind)[j]]
         /\ WithoutBlock(open, i) = [j \in DOMAIN WithoutBlock(open, i) |-> WithoutBlock(open, i)[j]]
  BY DEF WithBlock, WithoutBlock

LEMMA EventFields ==
  /\ \A i \in Nat, kind \in Kinds :
        /\ Start(i, kind) \in Events /\ Start(i, kind).type = "content_block_start"
        /\ Start(i, kind).index = i /\ Start(i, kind).kind = kind
        /\ Delta(i, kind) \in Events /\ Delta(i, kind).type = "content_block_delta"
        /\ Delta(i, kind).index = i /\ Delta(i, kind).kind = kind
  /\ \A i \in Nat : Stop(i) \in Events /\ Stop(i).type = "content_block_stop" /\ Stop(i).index = i
  /\ MessageStart \in Events /\ MessageStart.type = "message_start"
  /\ MessageDelta \in Events /\ MessageDelta.type = "message_delta"
  /\ MessageStop \in Events /\ MessageStop.type = "message_stop"
  /\ TopLevelError \in Events /\ TopLevelError.type = "error"
  BY DEF Events, Start, Delta, Stop, MessageStart, MessageDelta, MessageStop, TopLevelError

LEMMA CanStart ==
  ASSUME NEW c, NEW s \in Seq(Events), NEW open, NEW seen, Can(c, s, open, seen),
         NEW i \in Nat \ seen, NEW kind \in Kinds
  PROVE  /\ s \o <<Start(i, kind)>> \in Seq(Events)
         /\ Can(c, s \o <<Start(i, kind)>>, WithBlock(open, i, kind), seen \cup {i})
<1> DEFINE e == Start(i, kind)
<1>1. e \in Events /\ e.type = "content_block_start" /\ e.index = i /\ e.kind = kind
  BY EventFields
<1> HIDE DEF e
<1>2. PICK d : Reaches(c, s, d) /\ View(d, open, seen)
  BY DEF Can
<1>3. Legal(d, e)
  BY <1>1, <1>2 DEF Legal, View
<1>4. Reaches(c, s \o <<e>>, After(d, e))
  BY <1>1, <1>2, <1>3, ReachOneMore
<1>5. View(After(d, e), WithBlock(open, i, kind), seen \cup {i})
  <2>1. WithBlock(open, i, kind) = [j \in DOMAIN WithBlock(open, i, kind) |-> WithBlock(open, i, kind)[j]]
    BY OpenIsFunction
  <2> HIDE DEF e
  <2>2. IsClient(After(d, e)) /\ After(d, e).last = e /\ After(d, e).over = "no" /\ After(d, e).seen = seen \cup {i}
        /\ After(d, e).open = WithBlock(open, i, kind)
    BY ZenonT(60), <1>1, <1>2, AfterFields DEF View
  <2> QED BY <1>1, <2>1, <2>2 DEF View
<1>6. s \o <<e>> \in Seq(Events)
  BY <1>1
<1> QED BY <1>4, <1>5, <1>6 DEF Can, e

LEMMA CanDelta ==
  ASSUME NEW c, NEW s \in Seq(Events), NEW open, NEW seen, Can(c, s, open, seen),
         NEW i \in Nat, NEW kind \in Kinds, i \in DOMAIN open, open[i] = kind, kind \notin NoDeltaKinds
  PROVE  s \o <<Delta(i, kind)>> \in Seq(Events) /\ Can(c, s \o <<Delta(i, kind)>>, open, seen)
<1> DEFINE e == Delta(i, kind)
<1>1. e \in Events /\ e.type = "content_block_delta" /\ e.index = i /\ e.kind = kind
  BY ZenonT(60), EventFields
<1> HIDE DEF e
<1>2. PICK d : Reaches(c, s, d) /\ View(d, open, seen)
  BY DEF Can
<1>3. Legal(d, e)
  BY <1>1, <1>2 DEF Legal, View
<1>4. Reaches(c, s \o <<e>>, After(d, e))
  BY <1>1, <1>2, <1>3, ReachOneMore
<1>5. View(After(d, e), open, seen)
  BY ZenonT(60), <1>1, <1>2, AfterFields DEF View
<1>6. s \o <<e>> \in Seq(Events)
  BY <1>1
<1> QED BY <1>4, <1>5, <1>6 DEF Can, e

LEMMA CanStop ==
  ASSUME NEW c, NEW s \in Seq(Events), NEW open, NEW seen, Can(c, s, open, seen), NEW i \in Nat, i \in DOMAIN open
  PROVE  s \o <<Stop(i)>> \in Seq(Events) /\ Can(c, s \o <<Stop(i)>>, WithoutBlock(open, i), seen)
<1> DEFINE e == Stop(i)
<1>1. e \in Events /\ e.type = "content_block_stop" /\ e.index = i
  BY EventFields
<1> HIDE DEF e
<1>2. PICK d : Reaches(c, s, d) /\ View(d, open, seen)
  BY DEF Can
<1>3. Legal(d, e)
  BY <1>1, <1>2 DEF Legal, View
<1>4. Reaches(c, s \o <<e>>, After(d, e))
  BY <1>1, <1>2, <1>3, ReachOneMore
<1>5. View(After(d, e), WithoutBlock(open, i), seen)
  <2>1. WithoutBlock(open, i) = [j \in DOMAIN WithoutBlock(open, i) |-> WithoutBlock(open, i)[j]]
    BY OpenIsFunction
  <2> HIDE DEF e
  <2>2. IsClient(After(d, e)) /\ After(d, e).last = e /\ After(d, e).over = "no" /\ After(d, e).seen = seen
        /\ After(d, e).open = WithoutBlock(open, i)
    BY ZenonT(60), <1>1, <1>2, AfterFields DEF View
  <2> QED BY <1>1, <2>1, <2>2 DEF View
<1>6. s \o <<e>> \in Seq(Events)
  BY <1>1
<1> QED BY <1>4, <1>5, <1>6 DEF Can, e

LEMMA CanPlain ==
  ASSUME NEW c, NEW s \in Seq(Events), NEW open, NEW seen, Can(c, s, open, seen),
         NEW e \in {MessageDelta, MessageStop, TopLevelError}
  PROVE  s \o <<e>> \in Seq(Events) /\ Can(c, s \o <<e>>, open, seen)
<1>1. e \in Events /\ e.type \in {"message_delta", "message_stop", "error"}
  BY EventFields
<1>2. PICK d : Reaches(c, s, d) /\ View(d, open, seen)
  BY DEF Can
<1>3. Legal(d, e)
  BY <1>1, <1>2 DEF Legal, View
<1>4. Reaches(c, s \o <<e>>, After(d, e))
  BY <1>1, <1>2, <1>3, ReachOneMore
<1>5. View(After(d, e), open, seen)
  BY ZenonT(60), <1>1, <1>2, AfterFields DEF View
<1>6. s \o <<e>> \in Seq(Events)
  BY <1>1
<1> QED BY <1>4, <1>5, <1>6 DEF Can

\* message_delta and message_stop, with every block closed.
LEMMA CanEnd ==
  ASSUME NEW c, NEW s \in Seq(Events), NEW open, NEW seen, Can(c, s, open, seen), DOMAIN open = {}, seen # {}
  PROVE  s \o <<MessageDelta, MessageStop>> \in Seq(Events) /\ CanFinish(c, s \o <<MessageDelta, MessageStop>>)
<1> DEFINE t == s \o <<MessageDelta>>
           u == t \o <<MessageStop>>
<1>1. t \in Seq(Events) /\ Can(c, t, open, seen)
  BY CanPlain
<1>2. MessageDelta \in Events /\ MessageStop \in Events /\ MessageStop.type = "message_stop"
  BY EventFields
<1>3. s \o <<MessageDelta, MessageStop>> = u
  <2>1. <<MessageDelta>> \in Seq(Events) /\ <<MessageStop>> \in Seq(Events)
    BY <1>2
  <2>2. <<MessageDelta, MessageStop>> = <<MessageDelta>> \o <<MessageStop>>
    BY <1>2, PairOfEvents
  <2> QED BY <2>1, <2>2, Regroup
<1> HIDE DEF t
<1>4. PICK d : Reaches(c, t, d) /\ View(d, open, seen)
  BY <1>1 DEF Can
<1>5. Legal(d, MessageStop)
  BY <1>2, <1>4 DEF Legal, View
<1>6. Reaches(c, u, After(d, MessageStop))
  BY <1>1, <1>2, <1>4, <1>5, ReachOneMore
<1>7. IsClient(After(d, MessageStop)) /\ After(d, MessageStop).over = "no" /\ Complete(After(d, MessageStop))
  BY <1>2, <1>4, AfterFields DEF View, Complete
<1>8. u \in Seq(Events)
  BY <1>1, <1>2
<1> QED BY <1>3, <1>6, <1>7, <1>8 DEF CanFinish

\* The client receives the next event: it is legal, and the rest is as before.
LEMMA CanReceive ==
  ASSUME NEW c, NEW s \in Seq(Events), NEW open, NEW seen, s # <<>>
  PROVE  /\ Head(s) \in Events /\ Tail(s) \in Seq(Events)
         /\ Can(c, s, open, seen) => Legal(c, Head(s)) /\ Can(After(c, Head(s)), Tail(s), open, seen)
         /\ CanFinish(c, s) => Legal(c, Head(s)) /\ CanFinish(After(c, Head(s)), Tail(s))
<1>1. Head(s) \in Events /\ Tail(s) \in Seq(Events)
  OBVIOUS
<1>2. Can(c, s, open, seen) => Legal(c, Head(s)) /\ Can(After(c, Head(s)), Tail(s), open, seen)
  BY ReachFirst DEF Can
<1>3. CanFinish(c, s) => Legal(c, Head(s)) /\ CanFinish(After(c, Head(s)), Tail(s))
  BY ReachFirst DEF CanFinish
<1> QED BY <1>1, <1>2, <1>3

\* ... and when it has received all, it is as the producer thinks.
LEMMA CanNow ==
  ASSUME NEW c
  PROVE  /\ \A open, seen : Can(c, <<>>, open, seen) <=> View(c, open, seen)
         /\ CanFinish(c, <<>>) <=> IsClient(c) /\ c.over = "no" /\ Complete(c)
  BY NothingToReach DEF Can, CanFinish

\* The first event of a stream.
LEMMA CanBegin == <<MessageStart>> \in Seq(Events) /\ IsClient(NewClient) /\ Can(NewClient, <<MessageStart>>, <<>>, {})
<1>1. NewClient.over = "no" /\ NewClient.last.type = "none" /\ NewClient.open = <<>> /\ NewClient.seen = {} /\ IsClient(NewClient)
  BY DEF NewClient, IsClient
<1>2. MessageStart \in Events /\ MessageStart.type = "message_start"
  BY EventFields
<1>3. Legal(NewClient, MessageStart)
  BY <1>1, <1>2 DEF Legal
<1>4. View(After(NewClient, MessageStart), <<>>, {})
  <2>1. <<>> = [j \in DOMAIN <<>> |-> <<>>[j]]
    OBVIOUS
  <2> QED BY <1>1, <1>2, <2>1, AfterFields DEF View
<1>5. Reaches(NewClient, <<MessageStart>>, After(NewClient, MessageStart))
  BY <1>3, OneToReach
<1> QED BY <1>1, <1>2, <1>4, <1>5 DEF Can

\* Sequences that are written out, taken apart from their ends.
LEMMA TripleOfEvents ==
  ASSUME NEW a \in Events, NEW b \in Events, NEW c \in Events
  PROVE  <<a, b, c>> = <<a, b>> \o <<c>>
<1> DEFINE p == <<a, b, c>>
           q == <<a, b>> \o <<c>>
<1>1. p \in Seq(Events) /\ q \in Seq(Events) /\ Len(p) = 3 /\ Len(q) = 3
  OBVIOUS
<1>2. p[1] = a /\ q[1] = a /\ p[2] = b /\ q[2] = b /\ p[3] = c /\ q[3] = c
  OBVIOUS
<1> HIDE DEF p, q
<1>3. p = q
  BY <1>1, <1>2, SeqEqual
<1> QED BY <1>3 DEF p, q

LEMMA FourOfEvents ==
  ASSUME NEW a \in Events, NEW b \in Events, NEW c \in Events, NEW d \in Events
  PROVE  <<a, b, c, d>> = <<a, b, c>> \o <<d>>
<1> DEFINE p == <<a, b, c, d>>
           q == <<a, b, c>> \o <<d>>
<1>1. p \in Seq(Events) /\ q \in Seq(Events) /\ Len(p) = 4 /\ Len(q) = 4
  OBVIOUS
<1>2. p[1] = a /\ q[1] = a /\ p[2] = b /\ q[2] = b /\ p[3] = c /\ q[3] = c /\ p[4] = d /\ q[4] = d
  OBVIOUS
<1> HIDE DEF p, q
<1>3. p = q
  BY <1>1, <1>2, SeqEqual
<1> QED BY <1>3 DEF p, q

LEMMA FiveOfEvents ==
  ASSUME NEW a \in Events, NEW b \in Events, NEW c \in Events, NEW d \in Events, NEW e \in Events
  PROVE  <<a, b, c, d, e>> = <<a, b, c, d>> \o <<e>>
<1> DEFINE p == <<a, b, c, d, e>>
           q == <<a, b, c, d>> \o <<e>>
<1>1. p \in Seq(Events) /\ q \in Seq(Events) /\ Len(p) = 5 /\ Len(q) = 5
  OBVIOUS
<1>2. /\ p[1] = a /\ q[1] = a /\ p[2] = b /\ q[2] = b /\ p[3] = c /\ q[3] = c /\ p[4] = d /\ q[4] = d
     /\ p[5] = e /\ q[5] = e
  OBVIOUS
<1> HIDE DEF p, q
<1>3. p = q
  BY <1>1, <1>2, SeqEqual
<1> QED BY <1>3 DEF p, q

\* A block that is started, filled and stopped.
LEMMA CanBlock ==
  ASSUME NEW c, NEW s \in Seq(Events), NEW open, NEW seen, Can(c, s, open, seen), NEW i \in Nat \ seen,
         NEW kind \in Kinds \ NoDeltaKinds
  PROVE  LET t == s \o <<Start(i, kind), Delta(i, kind), Stop(i)>>
         IN  t \in Seq(Events) /\ Can(c, t, WithoutBlock(WithBlock(open, i, kind), i), seen \cup {i})
<1> DEFINE e == Start(i, kind)
           f == Delta(i, kind)
           g == Stop(i)
           one == WithBlock(open, i, kind)
           s1 == s \o <<e>>
           s2 == s1 \o <<f>>
<1>1. e \in Events /\ f \in Events /\ g \in Events /\ i \in Nat /\ kind \in Kinds
  BY EventFields
<1>2. s1 \in Seq(Events) /\ Can(c, s1, one, seen \cup {i})
  BY CanStart
<1>3. i \in DOMAIN one /\ one[i] = kind
  BY DEF WithBlock
<1> HIDE DEF one, s1
<1>4. s2 \in Seq(Events) /\ Can(c, s2, one, seen \cup {i})
  BY <1>1, <1>2, <1>3, CanDelta
<1> HIDE DEF s2
<1>5. s2 \o <<g>> \in Seq(Events) /\ Can(c, s2 \o <<g>>, WithoutBlock(one, i), seen \cup {i})
  BY <1>1, <1>3, <1>4, CanStop
<1>6. s2 \o <<g>> = s \o <<e, f, g>>
  <2> HIDE DEF e, f, g
  <2>1. <<e>> \in Seq(Events) /\ <<f>> \in Seq(Events) /\ <<g>> \in Seq(Events) /\ <<e>> \o <<f>> \in Seq(Events)
    BY <1>1
  <2>2. <<e, f>> = <<e>> \o <<f>> /\ <<e, f, g>> = <<e, f>> \o <<g>>
    BY <1>1, PairOfEvents, TripleOfEvents
  <2>3. s \o ((<<e>> \o <<f>>) \o <<g>>) = (s \o (<<e>> \o <<f>>)) \o <<g>>
    BY <2>1, Regroup
  <2>4. s \o (<<e>> \o <<f>>) = (s \o <<e>>) \o <<f>>
    BY <2>1, Regroup
  <2> QED BY <2>2, <2>3, <2>4 DEF s1, s2
<1> QED BY <1>5, <1>6 DEF one

\* The blocks that t closes are open, and it closes each of them once.
Closes(open, t) ==
    /\ \A k \in 1 .. Len(t) : t[k] = Stop(t[k].index) /\ t[k].index \in DOMAIN open /\ t[k].index \in Nat
    /\ \A k, m \in 1 .. Len(t) : t[k].index = t[m].index => k = m

\* Blocks closed one after another, in whatever order.
LEMMA CanStops ==
  ASSUME NEW c, NEW s \in Seq(Events), NEW open, NEW seen, Can(c, s, open, seen),
         NEW t \in Seq(Events), Closes(open, t)
  PROVE  LET left == DOMAIN open \ {t[k].index : k \in 1 .. Len(t)}
         IN  s \o t \in Seq(Events) /\ Can(c, s \o t, [i \in left |-> open[i]], seen)
<1> DEFINE closed(j) == {t[k].index : k \in 1 .. j}
           rest(j) == [i \in DOMAIN open \ closed(j) |-> open[i]]
           n == Len(t)
<1>1. PICK d : Reaches(c, s, d) /\ View(d, open, seen)
  BY DEF Can
<1> DEFINE last == d.last
           lastAt(k) == IF k = 1 THEN last ELSE t[k - 1]
           at(k) == [open |-> rest(k - 1), seen |-> seen, last |-> lastAt(k), over |-> "no"]
           cs == [k \in 1 .. n + 1 |-> at(k)]
<1>2. n \in Nat /\ 1 \in 1 .. n + 1 /\ n + 1 \in 1 .. n + 1
      /\ \A k \in 1 .. n : k + 1 \in 1 .. n + 1 /\ k \in 1 .. n + 1 /\ (k + 1) - 1 = k /\ k + 1 # 1
  OBVIOUS
<1>3. cs[1] = d
  <2>1. closed(1 - 1) = {}
    <3>1. \A k \in 1 .. 1 - 1 : FALSE
      OBVIOUS
    <3> QED BY <3>1
  <2>2. rest(1 - 1) = open
    BY <1>1, <2>1 DEF View
  <2>3. d = [open |-> d.open, seen |-> d.seen, last |-> d.last, over |-> d.over]
    BY <1>1 DEF View, IsClient
  <2>4. cs[1] = at(1)
    BY <1>2
  <2>5. at(1) = [open |-> rest(1 - 1), seen |-> seen, last |-> d.last, over |-> "no"]
    OBVIOUS
  <2> QED BY <1>1, <2>2, <2>3, <2>4, <2>5 DEF View
<1>4. \A k \in 1 .. n : cs[k] = at(k) /\ cs[k + 1] = at(k + 1)
  BY <1>2
<1>5. ASSUME NEW k \in 1 .. n
      PROVE  Legal(at(k), t[k]) /\ at(k + 1) = After(at(k), t[k])
  <2>1. t[k] = Stop(t[k].index) /\ t[k].index \in DOMAIN open /\ t[k].index \in Nat
    BY DEF Closes
  <2>2. t[k].type = "content_block_stop"
    BY <2>1, EventFields
  <2>3. t[k].index \notin closed(k - 1)
    <3>1. \A m \in 1 .. k - 1 : m \in 1 .. n /\ m # k
      OBVIOUS
    <3> QED BY <3>1 DEF Closes
  <2>4. IsClient(at(k)) /\ at(k).open = rest(k - 1) /\ at(k).seen = seen /\ at(k).over = "no"
    BY DEF IsClient
  <2>5. lastAt(k).type # "none"
    <3>1. CASE k = 1 BY <3>1, <1>1 DEF View
    <3>2. CASE k # 1
      <4>1. k - 1 \in 1 .. n BY <3>2
      <4>2. t[k - 1] = Stop(t[k - 1].index) /\ t[k - 1].index \in Nat BY <4>1 DEF Closes
      <4> QED BY <3>2, <4>2, EventFields
    <3> QED BY <3>1, <3>2
  <2>6. at(k).last = lastAt(k)
    OBVIOUS
  <2>7. t[k].index \in DOMAIN rest(k - 1)
    BY <2>1, <2>3
  <2>8. Legal(at(k), t[k])
    <3> HIDE DEF at, lastAt, rest, closed
    <3> QED BY <2>2, <2>4, <2>5, <2>6, <2>7 DEF Legal
  <2>9. WithoutBlock(rest(k - 1), t[k].index) = rest(k)
    <3>1. closed(k) = closed(k - 1) \cup {t[k].index}
      <4>1. 1 .. k = (1 .. k - 1) \cup {k}
        OBVIOUS
      <4> QED BY <4>1
    <3>2. DOMAIN rest(k - 1) \ {t[k].index} = DOMAIN open \ closed(k)
      BY <3>1
    <3>3. \A i \in DOMAIN open \ closed(k) : rest(k - 1)[i] = open[i]
      BY <3>1
    <3> QED BY <3>2, <3>3 DEF WithoutBlock
  <2>10. After(at(k), t[k]) = at(k + 1)
    <3> DEFINE a == After(at(k), t[k])
    <3>1. IsClient(a) /\ a.last = t[k] /\ a.over = "no" /\ a.open = rest(k) /\ a.seen = seen
      <4> DEFINE b == at(k)
                 w == rest(k)
                 v == rest(k - 1)
      <4>1. IsClient(b) /\ b.open = v /\ b.seen = seen /\ b.over = "no" BY <2>4
      <4>2. WithoutBlock(v, t[k].index) = w BY <2>9
      <4> HIDE DEF b, v, w
      <4>3. IsClient(After(b, t[k])) /\ After(b, t[k]).last = t[k] /\ After(b, t[k]).over = "no"
            /\ After(b, t[k]).seen = seen /\ After(b, t[k]).open = WithoutBlock(v, t[k].index)
        BY <4>1, <2>2, AfterFields
      <4> HIDE DEF at, rest, lastAt
      <4> QED BY <4>3, <4>2 DEF b, w
    <3>2. a = [open |-> rest(k), seen |-> seen, last |-> t[k], over |-> "no"]
      <4> HIDE DEF a, at, rest
      <4> QED BY <3>1 DEF IsClient
    <3>3. lastAt(k + 1) = t[k] /\ (k + 1) - 1 = k
      BY <1>2
    <3> QED BY <3>2, <3>3
  <2> QED BY <2>8, <2>10
<1>6. Reaches(d, t, cs[n + 1])
  <2> HIDE DEF cs, at
  <2>1. \A k \in 1 .. n : Legal(cs[k], t[k]) /\ cs[k + 1] = After(cs[k], t[k])
    BY <1>4, <1>5
  <2> QED BY <1>3, <2>1 DEF Reaches
<1>7. View(cs[n + 1], rest(n), seen)
  <2>1. cs[n + 1] = at(n + 1) /\ (n + 1) - 1 = n
    BY <1>2
  <2>2. lastAt(n + 1).type # "none"
    <3>1. CASE n = 0 BY <3>1, <1>1 DEF View
    <3>2. CASE n # 0
      <4>1. n \in 1 .. n BY <3>2, <1>2
      <4>2. t[n] = Stop(t[n].index) /\ t[n].index \in Nat BY <4>1 DEF Closes
      <4> QED BY <3>2, <4>2, <1>2, EventFields
    <3> QED BY <3>1, <3>2
  <2>3. rest(n) = [i \in DOMAIN rest(n) |-> rest(n)[i]]
    OBVIOUS
  <2>4. cs[n + 1] = [open |-> rest(n), seen |-> seen, last |-> lastAt(n + 1), over |-> "no"]
    BY <2>1
  <2> HIDE DEF cs, rest, lastAt
  <2> QED BY <2>2, <2>3, <2>4 DEF View, IsClient
<1>8. s \o t \in Seq(Events)
  OBVIOUS
<1>9. Reaches(c, s \o t, cs[n + 1])
  BY <1>1, <1>6, ReachAlong
<1> HIDE DEF cs
<1> QED BY <1>7, <1>8, <1>9 DEF Can

\* SetToSeq lists a finite set: every member once.
LEMMA SetAsSequence ==
  ASSUME NEW S, IsFiniteSet(S)
  PROVE  /\ SetToSeq(S) \in Seq(S)
         /\ \A x \in S : \E k \in 1 .. Len(SetToSeq(S)) : SetToSeq(S)[k] = x
         /\ \A k, m \in 1 .. Len(SetToSeq(S)) : SetToSeq(S)[k] = SetToSeq(S)[m] => k = m
<1> DEFINE n == Cardinality(S)
           f == SetToSeq(S)
<1>1. n \in Nat /\ ExistsBijection(1 .. n, S)
  BY FS_CardinalityType
<1>2. \E g \in [1 .. n -> S] : IsInjective(g)
  BY <1>1 DEF ExistsBijection, Bijection, Injection
<1>3. f \in [1 .. n -> S] /\ IsInjective(f)
  BY <1>2 DEF SetToSeq
<1> HIDE DEF f
<1>4. f \in Injection(1 .. n, S)
  BY <1>3 DEF Injection
<1>5. IsFiniteSet(1 .. n) /\ Cardinality(1 .. n) = n
  BY <1>1, FS_Interval
<1>6. f \in Surjection(1 .. n, S)
  BY <1>4, <1>5, FS_Injection
<1>7. f \in Seq(S) /\ Len(f) = n /\ DOMAIN f = 1 .. n
  BY <1>1, <1>3
<1>8. \A x \in S : \E k \in 1 .. n : f[k] = x
  BY <1>6 DEF Surjection
<1>9. \A k, m \in 1 .. n : f[k] = f[m] => k = m
  BY <1>3, <1>7 DEF IsInjective
<1> QED BY <1>7, <1>8, <1>9 DEF f

LEMMA FiniteImage ==
  ASSUME NEW I, IsFiniteSet(I), NEW f
  PROVE  IsFiniteSet({f[i] : i \in I})
<1> DEFINE T == {f[i] : i \in I}
           g == [i \in I |-> f[i]]
<1>1. g \in Surjection(I, T)
  BY DEF Surjection
<1> QED BY <1>1, FS_Surjection

\* A finite set of blocks is closed.
LEMMA CanStopSet ==
  ASSUME NEW c, NEW s \in Seq(Events), NEW open, NEW seen, Can(c, s, open, seen),
         NEW I \in SUBSET Nat, IsFiniteSet(I), I \subseteq DOMAIN open
  PROVE  LET t == SetToSeq({Stop(i) : i \in I})
         IN  t \in Seq(Events) /\ s \o t \in Seq(Events) /\ Can(c, s \o t, [i \in DOMAIN open \ I |-> open[i]], seen)
<1> DEFINE S == {Stop(i) : i \in I}
           t == SetToSeq(S)
           f == [i \in I |-> Stop(i)]
<1>1. IsFiniteSet(S)
  <2>1. {f[i] : i \in I} = S OBVIOUS
  <2>2. IsFiniteSet({f[i] : i \in I}) BY FiniteImage
  <2> QED BY <2>1, <2>2
<1>2. /\ t \in Seq(S)
      /\ \A x \in S : \E k \in 1 .. Len(t) : t[k] = x
      /\ \A k, m \in 1 .. Len(t) : t[k] = t[m] => k = m
  BY <1>1, SetAsSequence
<1> HIDE DEF t
<1>3. \A k \in 1 .. Len(t) : \E i \in I : t[k] = Stop(i)
  <2>1. \A k \in 1 .. Len(t) : t[k] \in S
    <3> HIDE DEF S
    <3> QED BY <1>2
  <2> QED BY <2>1
<1>4. \A i \in I : Stop(i).index = i /\ Stop(i) \in Events
  BY EventFields
<1>5. \A k \in 1 .. Len(t) : t[k] = Stop(t[k].index) /\ t[k].index \in I /\ t[k] \in Events
  BY <1>3, <1>4
<1>6. S \subseteq Events
  BY <1>4
<1>7. t \in Seq(Events)
  <2>1. t \in Seq(S) BY <1>2
  <2> HIDE DEF S
  <2> QED BY <2>1, <1>6, SeqMonotonic
<1>8. \A k, m \in 1 .. Len(t) : t[k].index = t[m].index => k = m
  BY <1>2, <1>5
<1>9. Closes(open, t)
  BY <1>5, <1>8 DEF Closes
<1>10. {t[k].index : k \in 1 .. Len(t)} = I
  <2>1. \A i \in I : \E k \in 1 .. Len(t) : t[k].index = i
    BY <1>2, <1>4
  <2> QED BY <2>1, <1>5
<1>11. s \o t \in Seq(Events)
       /\ Can(c, s \o t, [i \in DOMAIN open \ {t[k].index : k \in 1 .. Len(t)} |-> open[i]], seen)
  BY <1>7, <1>9, CanStops
<1> QED BY <1>7, <1>10, <1>11 DEF t

-----------------------------------------------------------------------------
(* Web tools.                                                              *)

\* The contract is that of the streams' own module.
LEMMA SameContract ==
  /\ WebClient!NewClient = NewClient /\ OpenAIClient!NewClient = NewClient /\ NativeClient!NewClient = NewClient
  /\ \A c, e : /\ WebClient!Legal(c, e) <=> Legal(c, e)
               /\ OpenAIClient!Legal(c, e) <=> Legal(c, e)
               /\ NativeClient!Legal(c, e) <=> Legal(c, e)
  /\ \A c, e : /\ WebClient!After(c, e) = After(c, e)
               /\ OpenAIClient!After(c, e) = After(c, e)
               /\ NativeClient!After(c, e) = After(c, e)
  /\ \A c : /\ WebClient!Complete(c) <=> Complete(c)
            /\ OpenAIClient!Complete(c) <=> Complete(c)
            /\ NativeClient!Complete(c) <=> Complete(c)
<1>1. WebClient!NewClient = NewClient /\ OpenAIClient!NewClient = NewClient /\ NativeClient!NewClient = NewClient
  BY DEF NewClient, WebClient!NewClient, OpenAIClient!NewClient, NativeClient!NewClient
<1>2. ASSUME NEW c, NEW e
      PROVE  /\ WebClient!Legal(c, e) <=> Legal(c, e)
             /\ OpenAIClient!Legal(c, e) <=> Legal(c, e)
             /\ NativeClient!Legal(c, e) <=> Legal(c, e)
  BY DEF Legal, WebClient!Legal, OpenAIClient!Legal, NativeClient!Legal, NoDeltaKinds, WebClient!NoDeltaKinds,
         OpenAIClient!NoDeltaKinds, NativeClient!NoDeltaKinds
<1>3. ASSUME NEW c, NEW e
      PROVE  /\ WebClient!After(c, e) = After(c, e)
             /\ OpenAIClient!After(c, e) = After(c, e)
             /\ NativeClient!After(c, e) = After(c, e)
  BY DEF After, WebClient!After, OpenAIClient!After, NativeClient!After,
         WithBlock, WebClient!WithBlock, OpenAIClient!WithBlock, NativeClient!WithBlock,
         WithoutBlock, WebClient!WithoutBlock, OpenAIClient!WithoutBlock, NativeClient!WithoutBlock
<1>4. ASSUME NEW c
      PROVE  /\ WebClient!Complete(c) <=> Complete(c)
             /\ OpenAIClient!Complete(c) <=> Complete(c)
             /\ NativeClient!Complete(c) <=> Complete(c)
  BY DEF Complete, WebClient!Complete, OpenAIClient!Complete, NativeClient!Complete,
         MessageStop, WebClient!MessageStop, OpenAIClient!MessageStop, NativeClient!MessageStop
<1> QED BY <1>1, <1>2, <1>3, <1>4

Serving == {"searching", "resolving", "connecting", "redirected", "reading"}

WebStreamInv ==
    /\ webOut \in Seq(Events) /\ IsClient(webClient)
    /\ web \in {"arrived", "rejected", "canned", "provider", "answered", "left"} \cup Serving
    /\ web \in {"connecting", "redirected", "reading"} => webOut = <<>>
    /\ web \in {"arrived", "rejected", "canned", "provider"} => webOut = <<>> /\ webClient = NewClient
    /\ web \in Serving => \E open : Can(webClient, webOut, open, {0}) /\ DOMAIN open = {}
    /\ web = "answered" /\ webClient.over = "no" => CanFinish(webClient, webOut)
    /\ web = "left" => webClient.over # "no"

LEMMA CallOfWebTool ==
  LET s == <<MessageStart, Start(0, "server_tool_use"), Stop(0)>>
  IN  s \in Seq(Events) /\ \E open : Can(NewClient, s, open, {0}) /\ DOMAIN open = {}
<1> DEFINE a == MessageStart
           b == Start(0, "server_tool_use")
           e == Stop(0)
           none == <<>>
           one == WithBlock(none, 0, "server_tool_use")
<1>1. a \in Events /\ b \in Events /\ e \in Events
  BY EventFields DEF Kinds
<1>2. <<a>> \in Seq(Events) /\ Can(NewClient, <<a>>, none, {})
  BY CanBegin
<1>3. "server_tool_use" \in Kinds
  BY DEF Kinds
<1>4. <<a>> \o <<b>> \in Seq(Events) /\ Can(NewClient, <<a>> \o <<b>>, one, {} \cup {0})
  BY <1>2, <1>3, CanStart
<1>5. {} \cup {0} = {0} /\ DOMAIN one = {0} /\ DOMAIN WithoutBlock(one, 0) = {}
  BY DEF WithBlock, WithoutBlock
<1>6. <<a, b>> = <<a>> \o <<b>> /\ <<a, b, e>> = <<a, b>> \o <<e>>
  <2>1. <<a, b>> = <<a>> \o <<b>> BY <1>1, PairOfEvents
  <2>2. <<a, b, e>> = <<a, b>> \o <<e>> BY <1>1, TripleOfEvents
  <2> QED BY <2>1, <2>2
<1> HIDE DEF a, b, one
<1>7. <<a, b>> \in Seq(Events) /\ Can(NewClient, <<a, b>>, one, {0})
  BY <1>4, <1>5, <1>6
<1>8. <<a, b>> \o <<e>> \in Seq(Events) /\ Can(NewClient, <<a, b>> \o <<e>>, WithoutBlock(one, 0), {0})
  BY <1>5, <1>7, CanStop
<1> QED BY <1>5, <1>6, <1>8 DEF a, b, e

LEMMA AnswerCompletes ==
  ASSUME NEW c, NEW open, Can(c, <<>>, open, {0}), DOMAIN open = {}
  PROVE  Answer \in Seq(Events) /\ CanFinish(c, Answer)
<1> DEFINE a == Start(1, "tool_result")
           b == Stop(1)
           e == Start(2, "text")
           f == Delta(2, "text")
           g == Stop(2)
           none == <<>>
           s == none \o <<a>>
           one == WithBlock(open, 1, "tool_result")
           two == WithoutBlock(one, 1)
           three == WithoutBlock(WithBlock(two, 2, "text"), 2)
<1>1. a \in Events /\ b \in Events /\ e \in Events /\ f \in Events /\ g \in Events
  BY EventFields DEF Kinds
<1>2. MessageDelta \in Events /\ MessageStop \in Events
  BY EventFields
<1>3. none \in Seq(Events) /\ s = <<a>>
  BY <1>1
<1>4. s \in Seq(Events) /\ Can(c, s, one, {0, 1})
  <2>1. "tool_result" \in Kinds /\ 1 \in Nat \ {0} /\ {0} \cup {1} = {0, 1}
    BY DEF Kinds
  <2>2. s \in Seq(Events) /\ Can(c, s, one, {0} \cup {1})
    BY <1>3, <2>1, CanStart
  <2> HIDE DEF s, one
  <2> QED BY <2>1, <2>2
<1>5. 1 \in DOMAIN one /\ DOMAIN two = {} /\ DOMAIN three = {}
  BY DEF WithBlock, WithoutBlock
<1> HIDE DEF one, three
<1>6. <<a>> \o <<b>> \in Seq(Events) /\ Can(c, <<a>> \o <<b>>, two, {0, 1})
  <2>1. <<a>> \in Seq(Events) /\ Can(c, <<a>>, one, {0, 1})
    BY <1>3, <1>4
  <2> QED BY <1>5, <2>1, CanStop
<1> HIDE DEF two
<1>7. (<<a>> \o <<b>>) \o <<e, f, g>> \in Seq(Events)
      /\ Can(c, (<<a>> \o <<b>>) \o <<e, f, g>>, three, {0, 1, 2})
  <2>1. "text" \in Kinds \ NoDeltaKinds /\ 2 \in Nat \ {0, 1} /\ {0, 1} \cup {2} = {0, 1, 2}
    BY DEF Kinds, NoDeltaKinds
  <2> HIDE DEF a, b
  <2>2. (<<a>> \o <<b>>) \o <<e, f, g>> \in Seq(Events)
        /\ Can(c, (<<a>> \o <<b>>) \o <<e, f, g>>, three, {0, 1} \cup {2})
    BY <1>6, <2>1, CanBlock DEF three
  <2> QED BY <2>1, <2>2
<1> HIDE DEF a, b, e, f, g
<1>8. (<<a>> \o <<b>>) \o <<e, f, g>> = <<a, b, e, f, g>>
  <2>1. <<a>> \in Seq(Events) /\ <<b>> \in Seq(Events) /\ <<e>> \in Seq(Events) /\ <<f>> \in Seq(Events) /\ <<g>> \in Seq(Events)
        /\ <<a, b>> \in Seq(Events) /\ <<e, f>> \in Seq(Events)
    BY <1>1
  <2>2. <<a>> \o <<b>> = <<a, b>> /\ <<e, f, g>> = <<e, f>> \o <<g>> /\ <<e, f>> = <<e>> \o <<f>>
    BY <1>1, PairOfEvents, TripleOfEvents
  <2>3. <<a, b, e>> = <<a, b>> \o <<e>> BY <1>1, TripleOfEvents
  <2>4. <<a, b, e, f>> = <<a, b, e>> \o <<f>> BY <1>1, FourOfEvents
  <2>5. <<a, b, e, f, g>> = <<a, b, e, f>> \o <<g>> BY <1>1, FiveOfEvents
  <2>6. <<a, b>> \o (<<e, f>> \o <<g>>) = (<<a, b>> \o <<e, f>>) \o <<g>> BY <2>1, Regroup
  <2>7. <<a, b>> \o (<<e>> \o <<f>>) = (<<a, b>> \o <<e>>) \o <<f>> BY <2>1, Regroup
  <2> QED BY <2>2, <2>3, <2>4, <2>5, <2>6, <2>7
<1>9. <<a, b, e, f, g>> \o <<MessageDelta, MessageStop>> = Answer
  <2>1. Answer = <<a, b, e, f, g, MessageDelta, MessageStop>>
    BY DEF Answer, a, b, e, f, g
  <2>2. <<a, b, e, f, g, MessageDelta, MessageStop>> = <<a, b, e, f, g>> \o <<MessageDelta, MessageStop>>
    <3> DEFINE p == <<a, b, e, f, g, MessageDelta, MessageStop>>
               q == <<a, b, e, f, g>> \o <<MessageDelta, MessageStop>>
    <3>1. p \in Seq(Events) /\ q \in Seq(Events) /\ Len(p) = 7 /\ Len(q) = 7
      BY <1>1, <1>2
    <3>2. /\ p[1] = a /\ q[1] = a /\ p[2] = b /\ q[2] = b /\ p[3] = e /\ q[3] = e
          /\ p[4] = f /\ q[4] = f /\ p[5] = g /\ q[5] = g
          /\ p[6] = MessageDelta /\ q[6] = MessageDelta /\ p[7] = MessageStop /\ q[7] = MessageStop
      BY <1>1, <1>2
    <3> HIDE DEF p, q
    <3>3. p = q
      BY <3>1, <3>2, SeqEqual
    <3> QED BY <3>3 DEF p, q
  <2> QED BY <2>1, <2>2
<1>10. <<a, b, e, f, g>> \in Seq(Events) /\ Can(c, <<a, b, e, f, g>>, three, {0, 1, 2}) /\ {0, 1, 2} # {}
  BY <1>7, <1>8
<1>11. <<a, b, e, f, g>> \o <<MessageDelta, MessageStop>> \in Seq(Events)
       /\ CanFinish(c, <<a, b, e, f, g>> \o <<MessageDelta, MessageStop>>)
  BY <1>5, <1>10, CanEnd
<1> QED BY <1>9, <1>11

LEMMA WebInitInv == WebInit => WebStreamInv
  BY CanBegin DEF WebInit, WebStreamInv, Serving

\* While the client has not left, what it receives next is legal, and an answered
\* request ends with a whole stream.
LEMMA WebStreamStep == WebStreamInv /\ [WebNext]_webVars => WebStreamInv'
<1> SUFFICES ASSUME WebStreamInv, [WebNext]_webVars PROVE WebStreamInv'
  OBVIOUS
<1> USE DEF WebStreamInv, Serving, fetchVars
<1>0. <<>> \in Seq(Events) OBVIOUS
<1>1. CASE UNCHANGED webVars BY <1>1 DEF webVars
<1>2. CASE RequestRejected BY <1>2 DEF RequestRejected
<1>3. CASE RequestForWebTool
  <2>1. web = "arrived" /\ webClient = NewClient /\ webClient' = webClient /\ web' \in {"searching", "resolving"}
        /\ webOut' = <<MessageStart, Start(0, "server_tool_use"), Stop(0)>>
    BY <1>3 DEF RequestForWebTool, RequestAccepted
  <2>2. webOut' \in Seq(Events) /\ \E open : Can(webClient', webOut', open, {0}) /\ DOMAIN open = {}
    BY <2>1, CallOfWebTool
  <2> QED BY <2>1, <2>2
<1>4. CASE RequestForOthers BY <1>4 DEF RequestForOthers, RequestAccepted
<1>5. ASSUME ToolAnswers, web \in Serving, webOut = <<>> PROVE WebStreamInv'
  <2>1. PICK open : Can(webClient, <<>>, open, {0}) /\ DOMAIN open = {}
    BY <1>5
  <2>2. Answer \in Seq(Events) /\ CanFinish(webClient, Answer)
    BY <2>1, AnswerCompletes
  <2> QED BY <2>2, <1>5 DEF ToolAnswers
<1>6. CASE Search BY <1>5, <1>6 DEF Search
<1>7. CASE FetchFails BY <1>5, <1>7 DEF FetchFails
<1>8. CASE FetchReturns BY <1>5, <1>8 DEF FetchReturns
<1>9. CASE Resolve BY <1>9 DEF Resolve
<1>10. CASE Connect BY <1>10 DEF Connect
<1>11. CASE Redirect BY <1>11 DEF Redirect
<1>12. ASSUME NEW chunk \in 1 .. 2, ReadBody(chunk) PROVE WebStreamInv' BY <1>12 DEF ReadBody
<1>13. CASE WebReceive
  <2>1. webOut # <<>> /\ webClient.over = "no" /\ webClient' = After(webClient, Head(webOut)) /\ webOut' = Tail(webOut)
        /\ web' = web
    BY <1>13 DEF WebReceive
  <2>2. webOut' \in Seq(Events) /\ IsClient(webClient')
    <3>1. webOut' \in Seq(Events) BY <2>1
    <3>2. IsClient(webClient) OBVIOUS
    <3> QED BY <2>1, <3>1, <3>2, AfterFields
  <2>3. web \in Serving \cup {"answered"}
    BY <2>1
  <2>4. CASE web = "answered"
    <3>1. CanFinish(webClient', webOut')
      BY <2>1, <2>4, CanReceive
    <3> QED BY <2>1, <2>2, <2>4, <3>1
  <2>5. CASE web \in Serving
    <3>1. PICK open : Can(webClient, webOut, open, {0}) /\ DOMAIN open = {}
      BY <2>5
    <3>2. Can(webClient', webOut', open, {0})
      BY <3>1, <2>1, CanReceive
    <3> QED BY <2>1, <2>2, <2>5, <3>1, <3>2
  <2> QED BY <2>3, <2>4, <2>5
<1>14. CASE WebEnd
  <2>1. IsClient(webClient') /\ webClient'.over # "no"
    BY <1>14, OverFields DEF WebEnd
  <2> QED BY <1>14, <2>1 DEF WebEnd
<1>15. CASE WebLeave
  <2>1. IsClient(webClient') /\ webClient'.over # "no"
    BY <1>15, OverFields DEF WebLeave
  <2> QED BY <1>15, <2>1 DEF WebLeave
<1> QED
  BY <1>1, <1>2, <1>3, <1>4, <1>6, <1>7, <1>8, <1>9, <1>10, <1>11, <1>12, <1>13, <1>14, <1>15 DEF WebNext

\* The client of a web tool sees a stream that obeys the contract.
THEOREM WebContractCorrect == WebSpec => WebContract
<1>1. WebInit => WebClient!Init
  BY SameContract DEF WebInit, WebClient!Init
<1>2. WebStreamInv /\ [WebNext]_webVars => [WebClient!Next]_webClient
  <2> SUFFICES ASSUME WebStreamInv, WebNext, webClient' # webClient PROVE WebClient!Next
    BY DEF webVars
  <2>1. WebReceive \/ WebEnd \/ WebLeave
    BY DEF WebNext, RequestRejected, RequestForWebTool, RequestForOthers, ToolAnswers, Search, FetchFails, FetchReturns,
           Resolve, Connect, Redirect, ReadBody
  <2>2. CASE WebReceive
    <3>1. webOut # <<>> /\ webClient.over = "no" /\ webClient' = After(webClient, Head(webOut)) /\ webOut \in Seq(Events)
      BY <2>2 DEF WebReceive, WebStreamInv
    <3>2. web = "answered" \/ web \in Serving
      BY <2>2 DEF WebReceive, WebStreamInv
    <3>3. Legal(webClient, Head(webOut)) /\ Head(webOut) \in Events /\ IsClient(webClient)
      BY <3>1, <3>2, CanReceive DEF WebStreamInv
    <3>4. webClient'.last = Head(webOut)
      BY <3>1, <3>3, AfterFields
    <3>5. Head(webOut).type \in WebClient!EventTypes
      BY <3>3 DEF Events, WebClient!EventTypes
    <3> QED BY <3>1, <3>3, <3>4, <3>5, SameContract DEF WebClient!Next, WebClient!Receive
  <2>3. CASE WebEnd
    <3>1. Complete(webClient)
      BY <2>3, CanNow DEF WebEnd, WebStreamInv
    <3> QED BY <2>3, <3>1, SameContract DEF WebEnd, WebClient!Next, WebClient!Ends
  <2>4. CASE WebLeave
    BY <2>4 DEF WebLeave, WebClient!Next, WebClient!Leaves
  <2> QED BY <2>1, <2>2, <2>3, <2>4
<1> QED BY <1>1, <1>2, WebInitInv, WebStreamStep, PTL DEF WebSpec, WebContract, WebClient!Spec

\* What the program asks of the outside: who was checked, and for which URL.
WebOutboundInv ==
    /\ target \in Urls /\ checked \subseteq Addresses /\ hops \in Nat /\ body \in 0 .. MaxBody
    /\ UpstreamSpared
    /\ (web = "arrived" => hops = 0) /\ (web = "resolving" => hops <= MaxRedirects)
    /\ web = "connecting" =>
          /\ Permitted(target, checked) /\ hops <= MaxRedirects
          /\ target.host \in Addresses => checked = {target.host}
    /\ web \in {"redirected", "reading"} => HopsPinned

LEMMA WebOutboundInit == WebInit => WebOutboundInv
  BY WebAssumption DEF WebInit, WebOutboundInv, Urls, UpstreamSpared

LEMMA WebOutboundStep == WebOutboundInv /\ [WebNext]_webVars => WebOutboundInv'
<1> SUFFICES ASSUME WebOutboundInv, [WebNext]_webVars PROVE WebOutboundInv'
  OBVIOUS
<1> USE WebAssumption DEF WebOutboundInv, fetchVars
<1>1. CASE UNCHANGED webVars BY <1>1 DEF webVars, UpstreamSpared, Permitted, HopsPinned
<1>2. CASE RequestRejected BY <1>2 DEF RequestRejected, UpstreamSpared
<1>3. CASE RequestForWebTool BY <1>3 DEF RequestForWebTool, RequestAccepted, UpstreamSpared
<1>4. CASE RequestForOthers BY <1>4 DEF RequestForOthers, RequestAccepted, ServerToolError, IsWebToolRequest, UpstreamSpared
<1>5. ASSUME ToolAnswers PROVE WebOutboundInv' BY <1>5 DEF ToolAnswers, UpstreamSpared
<1>6. CASE Search \/ FetchFails \/ FetchReturns BY <1>5, <1>6 DEF Search, FetchFails, FetchReturns
<1>9. CASE Resolve BY <1>9 DEF Resolve, UpstreamSpared, Permitted, Resolutions, Addresses
<1>10. CASE Connect BY <1>10 DEF Connect, UpstreamSpared, Permitted, HopsPinned, Addresses
<1>11. CASE Redirect BY <1>11 DEF Redirect, UpstreamSpared
<1>12. ASSUME NEW chunk \in 1 .. 2, ReadBody(chunk) PROVE WebOutboundInv' BY <1>12 DEF ReadBody, UpstreamSpared, HopsPinned
<1>13. CASE WebReceive BY <1>13 DEF WebReceive, UpstreamSpared, Permitted, HopsPinned
<1>14. CASE WebEnd BY <1>14 DEF WebEnd, UpstreamSpared, Permitted, HopsPinned
<1>15. CASE WebLeave BY <1>15 DEF WebLeave, UpstreamSpared
<1> QED
  BY <1>1, <1>2, <1>3, <1>4, <1>6, <1>9, <1>10, <1>11, <1>12, <1>13, <1>14, <1>15 DEF WebNext

\* No server tool reaches an upstream that cannot serve it, and every hop of a
\* fetch goes to an address that was checked for it.
THEOREM OutboundPermittedCorrect == WebSpec => []OutboundPermitted
<1>1. WebOutboundInv => OutboundPermitted
  BY DEF WebOutboundInv, OutboundPermitted, HopsPinned
<1> QED BY WebOutboundInit, WebOutboundStep, <1>1, PTL DEF WebSpec

-----------------------------------------------------------------------------
(* The native relay.                                                       *)

Policies == [next : Nat, by : [Upstream -> [known : BOOLEAN, down : Int, isOpen : BOOLEAN]],
             dropped : SUBSET Upstream, suppressed : SUBSET Upstream, stopped : BOOLEAN]
Blocks == [Upstream -> [state : {"new", "open", "stopped"}, kind : NativeKinds \cup {"none"}]]

\* What the policy p knows of the upstream's blocks bs: a visible block that was
\* begun has an index of its own, ...
PolicyOK(p, bs) ==
    /\ \A u \in Upstream :
          /\ p.by[u].known <=> bs[u].state # "new" /\ ~Hidden(bs[u].kind)
          /\ bs[u].state # "new" => bs[u].kind \in NativeKinds
          /\ p.by[u].isOpen => p.by[u].known /\ bs[u].state = "open" /\ u \notin p.suppressed
          /\ p.by[u].known => p.by[u].down \in 0 .. p.next - 1
          /\ u \in p.dropped => bs[u].state # "new" /\ Hidden(bs[u].kind)
          /\ u \in p.suppressed => p.by[u].known
    /\ \A u, v \in Upstream : p.by[u].known /\ p.by[v].known /\ p.by[u].down = p.by[v].down => u = v

\* ... and the client has open the blocks that the policy thinks are open.
OpenAs(open, p, bs) ==
    /\ \A i \in DOMAIN open : \E u \in Upstream : p.by[u].isOpen /\ i = p.by[u].down
    /\ \A u \in Upstream : p.by[u].isOpen => p.by[u].down \in DOMAIN open /\ open[p.by[u].down] = bs[u].kind

NoHiddenStart(s) == \A k \in 1 .. Len(s) : s[k].type = "content_block_start" => ~Hidden(s[k].kind)

\* When c has received s, the client, the policy p and the blocks bs agree.
Agree(c, s, open, p, bs) ==
    /\ p \in Policies /\ bs \in Blocks /\ PolicyOK(p, bs)
    /\ s \in Seq(Events) /\ NoHiddenStart(s)
    /\ Can(c, s, open, 0 .. p.next - 1) /\ OpenAs(open, p, bs)

\* One event of the upstream, seen by a client that has received everything before.
Advances(c, p, r, bs) ==
    /\ r.policy \in Policies /\ r.policy.stopped = p.stopped /\ PolicyOK(r.policy, bs)
    /\ r.yield \in Seq(Events) /\ NoHiddenStart(r.yield)
    /\ \E open : Can(c, r.yield, open, 0 .. r.policy.next - 1) /\ OpenAs(open, r.policy, bs)

LEMMA FromNothing ==
  ASSUME NEW t \in Seq(Events)
  PROVE  <<>> \o t = t
  OBVIOUS

\* The other open blocks are closed; then nothing is open but u, if it was.
LEMMA CloseOthersAdvances ==
  ASSUME NEW c, NEW p \in Policies, NEW bs \in Blocks, NEW u \in Upstream, NEW open,
         PolicyOK(p, bs), Can(c, <<>>, open, 0 .. p.next - 1), OpenAs(open, p, bs), ~p.by[u].isOpen
  PROVE  LET r == CloseOthers(p, u)
         IN  /\ Advances(c, p, r, bs) /\ r.policy.next = p.next /\ r.policy.by[u] = p.by[u]
             /\ r.policy.dropped = p.dropped /\ \A v \in Upstream : ~r.policy.by[v].isOpen
             /\ \A v \in Upstream : r.policy.by[v].known = p.by[v].known /\ r.policy.by[v].down = p.by[v].down
             /\ u \in r.policy.suppressed => u \in p.suppressed
             /\ \A k \in 1 .. Len(r.yield) : r.yield[k].type = "content_block_stop"
             /\ \E none : Can(c, r.yield, none, 0 .. p.next - 1) /\ DOMAIN none = {}
<1> DEFINE r == CloseOthers(p, u)
           q == r.policy
           others == {v \in Upstream \ {u} : IsOpen(p, v)}
           I == {p.by[v].down : v \in others}
           by == [v \in Upstream |-> IF v \in others THEN [p.by[v] EXCEPT !.isOpen = FALSE] ELSE p.by[v]]
           t == SetToSeq({Stop(i) : i \in I})
           none == [i \in DOMAIN open \ I |-> open[i]]
<1>1. q = [p EXCEPT !.by = by, !.suppressed = @ \cup others] /\ r.yield = t
  <2>1. {Stop(p.by[v].down) : v \in others} = {Stop(i) : i \in I}
    OBVIOUS
  <2> QED BY <2>1 DEF CloseOthers
<1>2. by \in [Upstream -> [known : BOOLEAN, down : Int, isOpen : BOOLEAN]]
  BY DEF Policies
<1>3. /\ q \in Policies /\ q.by = by /\ q.next = p.next /\ q.stopped = p.stopped /\ q.dropped = p.dropped
      /\ q.suppressed = p.suppressed \cup others
  <2> HIDE DEF by, q
  <2> QED BY <1>1, <1>2 DEF Policies
<1>4. \A v \in Upstream : /\ by[v].known = p.by[v].known /\ by[v].down = p.by[v].down /\ ~by[v].isOpen
                          /\ v \in others <=> p.by[v].isOpen
  BY DEF Policies, IsOpen
<1>5. by[u] = p.by[u]
  BY DEF IsOpen
<1> HIDE DEF by, q, r
<1>6. PolicyOK(q, bs)
  BY <1>3, <1>4 DEF PolicyOK
<1>7. I \subseteq DOMAIN open /\ DOMAIN open \subseteq I /\ I \subseteq 0 .. p.next - 1
  BY <1>4 DEF OpenAs, PolicyOK
<1>8. I \in SUBSET Nat /\ IsFiniteSet(I)
  <2>1. p.next \in Nat BY DEF Policies
  <2>2. IsFiniteSet(0 .. p.next - 1) BY <2>1, FS_Interval
  <2> HIDE DEF I
  <2>3. I \in SUBSET (0 .. p.next - 1) BY <1>7
  <2>4. IsFiniteSet(I) BY <2>2, <2>3, FS_Subset
  <2> QED BY <2>1, <2>3, <2>4
<1> HIDE DEF I
<1>9. t \in Seq(Events) /\ Can(c, <<>> \o t, none, 0 .. p.next - 1)
  <2>1. <<>> \in Seq(Events) OBVIOUS
  <2> QED BY ZenonT(60), <1>7, <1>8, <2>1, CanStopSet
<1>10. <<>> \o t = t
  BY <1>9, FromNothing
<1>11. DOMAIN none = {}
  BY <1>7
<1> HIDE DEF none
<1>12. OpenAs(none, q, bs)
  BY <1>3, <1>4, <1>11 DEF OpenAs
<1>13. \A k \in 1 .. Len(t) : t[k].type = "content_block_stop"
  <2> DEFINE S == {Stop(i) : i \in I}
             f == [i \in I |-> Stop(i)]
  <2>1. {f[i] : i \in I} = S OBVIOUS
  <2>2. IsFiniteSet({f[i] : i \in I}) BY <1>8, FiniteImage
  <2>3. IsFiniteSet(S) BY <2>1, <2>2
  <2>4. t \in Seq(S) BY <2>3, SetAsSequence
  <2>5. \A k \in 1 .. Len(t) : t[k] \in S
    <3> HIDE DEF S, t
    <3> QED BY <2>4
  <2> HIDE DEF t
  <2> QED BY <2>5, <1>8, EventFields
<1> HIDE DEF t
<1>14. NoHiddenStart(t)
  BY <1>13 DEF NoHiddenStart
<1>15. Advances(c, p, r, bs)
  BY <1>1, <1>3, <1>6, <1>9, <1>10, <1>12, <1>14 DEF Advances, q
<1> QED BY <1>1, <1>3, <1>4, <1>5, <1>9, <1>10, <1>11, <1>13, <1>15 DEF q, r, IsOpen, others

\* A block of the upstream goes on in a new block of the client.
LEMMA SegmentAdvances ==
  ASSUME NEW c, NEW s, NEW q, NEW bs, NEW open, Agree(c, s, open, q, bs), NEW u \in Upstream, NEW kind \in NativeKinds,
         ~q.by[u].isOpen, u \notin q.suppressed, u \notin q.dropped, ~Hidden(kind)
  PROVE  LET bs2 == [bs EXCEPT ![u] = [state |-> "open", kind |-> kind]]
             t == s \o <<Start(q.next, kind)>>
             two == WithBlock(open, q.next, kind)
         IN  /\ Advances(c, q, [policy |-> Segment(q, u), yield |-> t], bs2)
             /\ t \in Seq(Events) /\ Can(c, t, two, 0 .. q.next) /\ OpenAs(two, Segment(q, u), bs2)
<1> DEFINE bs2 == [bs EXCEPT ![u] = [state |-> "open", kind |-> kind]]
           t == s \o <<Start(q.next, kind)>>
           two == WithBlock(open, q.next, kind)
           by == [q.by EXCEPT ![u] = [known |-> TRUE, down |-> q.next, isOpen |-> TRUE]]
           r == Segment(q, u)
           n == q.next
<1>0. /\ q \in Policies /\ bs \in Blocks /\ PolicyOK(q, bs) /\ s \in Seq(Events) /\ NoHiddenStart(s)
      /\ Can(c, s, open, 0 .. q.next - 1) /\ OpenAs(open, q, bs)
  BY DEF Agree
<1>1. n \in Nat /\ 0 .. n = (0 .. n - 1) \cup {n} /\ n \notin 0 .. n - 1 /\ (n + 1) - 1 = n
  BY <1>0 DEF Policies
<1>2. by \in [Upstream -> [known : BOOLEAN, down : Int, isOpen : BOOLEAN]]
  BY <1>0, <1>1 DEF Policies
<1>3. r = [q EXCEPT !.next = n + 1, !.by = by]
  BY <1>0 DEF Segment, Policies
<1>4. /\ r \in Policies /\ r.by = by /\ r.next = n + 1 /\ r.stopped = q.stopped /\ r.dropped = q.dropped
      /\ r.suppressed = q.suppressed
  <2>1. n + 1 \in Nat BY <1>1
  <2> DEFINE m == n + 1
  <2> HIDE DEF by, r, m
  <2>2. r = [q EXCEPT !.next = m, !.by = by] BY <1>3 DEF m
  <2>3. /\ r \in Policies /\ r.by = by /\ r.next = m /\ r.stopped = q.stopped /\ r.dropped = q.dropped
        /\ r.suppressed = q.suppressed
    BY <1>0, <1>2, <2>1, <2>2 DEF Policies, m
  <2> QED BY <2>3 DEF m
<1>5. /\ by[u].known /\ by[u].down = n /\ by[u].isOpen
      /\ \A v \in Upstream : v # u => by[v] = q.by[v]
  BY <1>0 DEF Policies
<1>6. /\ bs2[u].state = "open" /\ bs2[u].kind = kind
      /\ \A v \in Upstream : v # u => bs2[v] = bs[v]
  BY <1>0 DEF Blocks
<1> HIDE DEF by, r, bs2
<1>7. \A v \in Upstream : q.by[v].known => q.by[v].down \in 0 .. n - 1
  BY <1>0 DEF PolicyOK
<1>8. PolicyOK(r, bs2)
  <2>1. ASSUME NEW v \in Upstream
        PROVE  /\ r.by[v].known <=> bs2[v].state # "new" /\ ~Hidden(bs2[v].kind)
               /\ bs2[v].state # "new" => bs2[v].kind \in NativeKinds
               /\ r.by[v].isOpen => r.by[v].known /\ bs2[v].state = "open" /\ v \notin r.suppressed
               /\ r.by[v].known => r.by[v].down \in 0 .. r.next - 1
               /\ v \in r.dropped => bs2[v].state # "new" /\ Hidden(bs2[v].kind)
               /\ v \in r.suppressed => r.by[v].known
    <3>1. CASE v = u BY <3>1, <1>0, <1>1, <1>4, <1>5, <1>6
    <3>2. CASE v # u BY <3>2, <1>0, <1>1, <1>4, <1>5, <1>6 DEF PolicyOK
    <3> QED BY <3>1, <3>2
  <2>2. ASSUME NEW v \in Upstream, NEW w \in Upstream, r.by[v].known, r.by[w].known, r.by[v].down = r.by[w].down
        PROVE  v = w
    BY <2>2, <1>0, <1>1, <1>4, <1>5, <1>7 DEF PolicyOK
  <2> QED BY <2>1, <2>2 DEF PolicyOK
<1>9. DOMAIN two = DOMAIN open \cup {n} /\ two[n] = kind /\ \A i \in DOMAIN open : i # n => two[i] = open[i]
  BY DEF WithBlock
<1> HIDE DEF two
<1>10. OpenAs(two, r, bs2)
  <2>1. \A v \in Upstream : q.by[v].isOpen => q.by[v].down # n
    BY <1>0, <1>1, <1>7 DEF PolicyOK
  <2>2. ASSUME NEW i \in DOMAIN two PROVE \E v \in Upstream : r.by[v].isOpen /\ i = r.by[v].down
    <3>1. CASE i = n BY <3>1, <1>4, <1>5
    <3>2. CASE i # n
      <4>1. PICK v \in Upstream : q.by[v].isOpen /\ i = q.by[v].down BY <1>0, <3>2, <1>9 DEF OpenAs
      <4> QED BY <4>1, <1>0, <1>4, <1>5
    <3> QED BY <3>1, <3>2
  <2>3. ASSUME NEW v \in Upstream, r.by[v].isOpen PROVE r.by[v].down \in DOMAIN two /\ two[r.by[v].down] = bs2[v].kind
    <3>1. CASE v = u BY <3>1, <1>4, <1>5, <1>6, <1>9
    <3>2. CASE v # u
      <4>1. q.by[v].isOpen /\ q.by[v] = r.by[v] BY <3>2, <2>3, <1>4, <1>5
      <4>2. q.by[v].down \in DOMAIN open /\ open[q.by[v].down] = bs[v].kind BY <1>0, <4>1 DEF OpenAs
      <4> QED BY <3>2, <4>1, <4>2, <2>1, <1>6, <1>9
    <3> QED BY <3>1, <3>2
  <2> QED BY <2>2, <2>3 DEF OpenAs
<1>11. t \in Seq(Events) /\ Can(c, t, two, 0 .. n)
  <2>1. n \in Nat \ (0 .. n - 1) /\ kind \in Kinds BY <1>1 DEF Kinds
  <2>2. t \in Seq(Events) /\ Can(c, t, two, (0 .. n - 1) \cup {n}) BY <1>0, <2>1, CanStart DEF two
  <2> HIDE DEF t
  <2> QED BY <2>2, <1>1
<1>12. NoHiddenStart(t)
  <2>1. Start(n, kind) \in Events /\ Start(n, kind).kind = kind BY <1>1, EventFields DEF Kinds
  <2>2. Len(t) = Len(s) + 1 /\ \A k \in 1 .. Len(t) : t[k] = IF k <= Len(s) THEN s[k] ELSE Start(n, kind) BY <1>0, <2>1
  <2> HIDE DEF t
  <2>3. ASSUME NEW k \in 1 .. Len(t), t[k].type = "content_block_start" PROVE ~Hidden(t[k].kind)
    <3>1. CASE k <= Len(s) BY <1>0, <3>1, <2>2, <2>3 DEF NoHiddenStart
    <3>2. CASE ~(k <= Len(s)) BY <3>2, <2>1, <2>2
    <3> QED BY <3>1, <3>2
  <2> QED BY <2>3 DEF NoHiddenStart
<1> HIDE DEF t
<1>13. Advances(c, q, [policy |-> r, yield |-> t], bs2)
  BY <1>1, <1>4, <1>8, <1>10, <1>11, <1>12 DEF Advances
<1> QED BY <1>10, <1>11, <1>13 DEF r, t, two, bs2

\* What the upstream's blocks are after an event that says nothing.
LEMMA NothingAdvances ==
  ASSUME NEW c, NEW p \in Policies, NEW bs \in Blocks, NEW bs2 \in Blocks, NEW open,
         PolicyOK(p, bs2), Can(c, <<>>, open, 0 .. p.next - 1), OpenAs(open, p, bs2)
  PROVE  Advances(c, p, [policy |-> p, yield |-> <<>>], bs2)
<1>1. <<>> \in Seq(Events) /\ NoHiddenStart(<<>>)
  BY DEF NoHiddenStart
<1> QED BY <1>1 DEF Advances

LEMMA PolicyStartAdvances ==
  ASSUME NEW c, NEW p \in Policies, NEW bs \in Blocks, NEW u \in Upstream, NEW kind \in NativeKinds, NEW open,
         PolicyOK(p, bs), Can(c, <<>>, open, 0 .. p.next - 1), OpenAs(open, p, bs), bs[u].state = "new"
  PROVE  Advances(c, p, PolicyStart(p, u, kind), [bs EXCEPT ![u] = [state |-> "open", kind |-> kind]])
<1> DEFINE bs2 == [bs EXCEPT ![u] = [state |-> "open", kind |-> kind]]
<1>1. /\ bs2[u].state = "open" /\ bs2[u].kind = kind /\ bs2 \in Blocks
      /\ \A v \in Upstream : v # u => bs2[v] = bs[v]
  BY DEF Blocks
<1>2. ~p.by[u].known /\ ~p.by[u].isOpen /\ u \notin p.suppressed /\ u \notin p.dropped
  BY DEF PolicyOK
<1>3. CASE Hidden(kind)
  <2> DEFINE q == [p EXCEPT !.dropped = @ \cup {u}]
  <2>1. PolicyStart(p, u, kind) = [policy |-> q, yield |-> <<>>]
    BY <1>3 DEF PolicyStart
  <2>2. /\ q \in Policies /\ q.by = p.by /\ q.next = p.next /\ q.stopped = p.stopped /\ q.suppressed = p.suppressed
        /\ q.dropped = p.dropped \cup {u}
    BY DEF Policies
  <2> HIDE DEF q, bs2
  <2>3. PolicyOK(q, bs2)
    <3>1. ASSUME NEW v \in Upstream
          PROVE  /\ q.by[v].known <=> bs2[v].state # "new" /\ ~Hidden(bs2[v].kind)
                 /\ bs2[v].state # "new" => bs2[v].kind \in NativeKinds
                 /\ q.by[v].isOpen => q.by[v].known /\ bs2[v].state = "open" /\ v \notin q.suppressed
                 /\ q.by[v].known => q.by[v].down \in 0 .. q.next - 1
                 /\ v \in q.dropped => bs2[v].state # "new" /\ Hidden(bs2[v].kind)
                 /\ v \in q.suppressed => q.by[v].known
      <4>1. CASE v = u BY <4>1, <1>1, <1>2, <1>3, <2>2
      <4>2. CASE v # u BY <4>2, <1>1, <2>2 DEF PolicyOK
      <4> QED BY <4>1, <4>2
    <3> QED BY <3>1, <2>2 DEF PolicyOK
  <2>4. OpenAs(open, q, bs2)
    BY <1>1, <1>2, <2>2 DEF OpenAs
  <2>5. Advances(c, q, [policy |-> q, yield |-> <<>>], bs2)
    BY <1>1, <2>2, <2>3, <2>4, NothingAdvances
  <2> QED BY <2>1, <2>2, <2>5 DEF Advances, bs2
<1>4. CASE ~Hidden(kind)
  <2> DEFINE r == CloseOthers(p, u)
             q == r.policy
             t == r.yield \o <<Start(q.next, kind)>>
  <2>1. /\ Advances(c, p, r, bs) /\ q.next = p.next /\ q.by[u] = p.by[u] /\ q.dropped = p.dropped
        /\ u \in q.suppressed => u \in p.suppressed
    BY <1>2, CloseOthersAdvances
  <2>2. q \in Policies /\ q.stopped = p.stopped /\ PolicyOK(q, bs) /\ r.yield \in Seq(Events) /\ NoHiddenStart(r.yield)
    BY <2>1 DEF Advances
  <2>3. PICK none : Can(c, r.yield, none, 0 .. q.next - 1) /\ OpenAs(none, q, bs)
    BY <2>1 DEF Advances
  <2> HIDE DEF r
  <2>0. Agree(c, r.yield, none, q, bs)
    BY <2>2, <2>3 DEF Agree
  <2>4. Advances(c, q, [policy |-> Segment(q, u), yield |-> t], bs2)
    BY <1>2, <1>4, <2>0, <2>1, SegmentAdvances
  <2>5. q.next \in Nat /\ Start(q.next, kind) \in Events
    BY <2>2, EventFields DEF Policies, Kinds
  <2>6. PolicyStart(p, u, kind) = [policy |-> Segment(q, u), yield |-> Append(r.yield, Start(q.next, kind))]
    BY <1>4 DEF PolicyStart, r
  <2>7. Append(r.yield, Start(q.next, kind)) = t
    <3> DEFINE e == Start(q.next, kind)
    <3> HIDE DEF e
    <3>1. e \in Events BY <2>5 DEF e
    <3>2. Append(r.yield, e) = r.yield \o <<e>> BY <3>1, <2>2
    <3> QED BY <3>2 DEF e
  <2> QED BY <2>2, <2>4, <2>6, <2>7 DEF Advances
<1> QED BY <1>3, <1>4

LEMMA PolicyDeltaAdvances ==
  ASSUME NEW c, NEW p \in Policies, NEW bs \in Blocks, NEW u \in Upstream, NEW kind \in NativeKinds \ NoDeltaKinds, NEW open,
         PolicyOK(p, bs), Can(c, <<>>, open, 0 .. p.next - 1), OpenAs(open, p, bs),
         bs[u] = [state |-> "open", kind |-> kind] \/ (bs[u].state = "new" /\ kind # "thinking")
  PROVE  Advances(c, p, PolicyDelta(p, u, kind), [bs EXCEPT ![u] = [state |-> "open", kind |-> kind]])
<1> DEFINE bs2 == [bs EXCEPT ![u] = [state |-> "open", kind |-> kind]]
<1>1. /\ bs2[u].state = "open" /\ bs2[u].kind = kind /\ bs2 \in Blocks
      /\ \A v \in Upstream : v # u => bs2[v] = bs[v]
  BY DEF Blocks
<1>2. bs[u].state = "new" \/ (bs[u].state = "open" /\ bs[u].kind = kind)
  OBVIOUS
<1>3. bs[u].state = "new" => ~Hidden(kind) /\ ~p.by[u].known /\ ~p.by[u].isOpen /\ u \notin p.suppressed /\ u \notin p.dropped
  <2>1. bs[u].state = "new" => kind # "thinking" BY <1>2
  <2>2. kind # "redacted_thinking" BY DEF NoDeltaKinds
  <2> QED BY <2>1, <2>2 DEF PolicyOK, Hidden
<1>4. bs[u].state = "open" => bs2 = bs
  BY <1>2 DEF Blocks
<1> HIDE DEF bs2
<1>5. CASE bs[u].state = "open" /\ (u \in p.dropped \/ Hidden(kind))
  BY <1>1, <1>4, <1>5, NothingAdvances DEF PolicyDelta, bs2
<1>6. CASE bs[u].state = "open" /\ u \notin p.dropped /\ ~Hidden(kind) /\ IsOpen(p, u)
  <2> DEFINE d == p.by[u].down
             t == <<Delta(d, kind)>>
  <2>1. d \in DOMAIN open /\ open[d] = kind
    BY <1>2, <1>6 DEF OpenAs, IsOpen
  <2>2. d \in Nat /\ kind \in Kinds
    BY <1>6 DEF PolicyOK, IsOpen, Kinds
  <2>3. <<>> \in Seq(Events) OBVIOUS
  <2>4. <<>> \o t \in Seq(Events) /\ Can(c, <<>> \o t, open, 0 .. p.next - 1)
    BY <2>1, <2>2, <2>3, CanDelta
  <2>5. Delta(d, kind) \in Events /\ Delta(d, kind).type = "content_block_delta"
    BY <2>2, EventFields
  <2>6. t \in Seq(Events) /\ t[1] = Delta(d, kind) /\ Len(t) = 1
    BY <2>5
  <2>7. <<>> \o t = t
    BY <2>6, FromNothing
  <2>8. PolicyDelta(p, u, kind) = [policy |-> p, yield |-> t]
    BY <1>6 DEF PolicyDelta
  <2> HIDE DEF t
  <2>9. NoHiddenStart(t)
    BY <2>5, <2>6 DEF NoHiddenStart
  <2>10. PolicyOK(p, bs2) /\ OpenAs(open, p, bs2) /\ Can(c, t, open, 0 .. p.next - 1)
    BY <1>4, <1>6, <2>4, <2>7
  <2>11. Advances(c, p, [policy |-> p, yield |-> t], bs2)
    BY <2>6, <2>9, <2>10 DEF Advances
  <2> QED BY <2>8, <2>11 DEF bs2
<1>7. CASE (bs[u].state = "new" \/ (bs[u].state = "open" /\ u \notin p.dropped /\ ~Hidden(kind))) /\ ~IsOpen(p, u)
  <2> DEFINE q == [p EXCEPT !.suppressed = @ \ {u}]
             n == p.next
  <2>1. ~(u \in p.dropped \/ Hidden(kind)) /\ ~(~p.by[u].known /\ kind = "thinking")
    BY <1>2, <1>3, <1>7 DEF PolicyOK
  <2>2. PolicyDelta(p, u, kind) = [policy |-> Segment(q, u), yield |-> <<Start(n, kind), Delta(n, kind)>>]
    BY <1>7, <2>1 DEF PolicyDelta
  <2>3. /\ q \in Policies /\ q.by = p.by /\ q.next = n /\ q.stopped = p.stopped /\ q.dropped = p.dropped
        /\ q.suppressed = p.suppressed \ {u}
    BY DEF Policies
  <2> HIDE DEF q
  <2>4. PolicyOK(q, bs) /\ OpenAs(open, q, bs)
    BY <2>3 DEF PolicyOK, OpenAs
  <2>5. <<>> \in Seq(Events) /\ NoHiddenStart(<<>>)
    BY DEF NoHiddenStart
  <2> DEFINE e == Start(n, kind)
             f == Delta(n, kind)
             r == Segment(q, u)
             two == WithBlock(open, n, kind)
  <2>6. n \in Nat /\ kind \in Kinds /\ e \in Events /\ f \in Events /\ f.type = "content_block_delta" /\ kind \notin NoDeltaKinds
    BY EventFields DEF Policies, Kinds
  <2>7. <<>> \o <<e>> = <<e>> /\ <<e, f>> = <<e>> \o <<f>>
    <3> HIDE DEF e, f
    <3>1. <<e>> \in Seq(Events) BY <2>6
    <3> QED BY <2>6, <3>1, FromNothing, PairOfEvents
  <2>8. /\ Advances(c, q, [policy |-> r, yield |-> <<>> \o <<e>>], bs2)
        /\ r.next = n + 1 /\ <<>> \o <<e>> \in Seq(Events) /\ Can(c, <<>> \o <<e>>, two, 0 .. n)
        /\ OpenAs(two, r, bs2) /\ n \in DOMAIN two /\ two[n] = kind
    <3>1. ~q.by[u].isOpen /\ u \notin q.suppressed /\ u \notin q.dropped /\ ~Hidden(kind) /\ Can(c, <<>>, open, 0 .. q.next - 1)
      BY <1>7, <2>1, <2>3 DEF IsOpen
    <3>2. /\ Advances(c, q, [policy |-> Segment(q, u), yield |-> <<>> \o <<Start(q.next, kind)>>], bs2)
          /\ Segment(q, u).next = q.next + 1
          /\ <<>> \o <<Start(q.next, kind)>> \in Seq(Events)
          /\ Can(c, <<>> \o <<Start(q.next, kind)>>, WithBlock(open, q.next, kind), 0 .. q.next)
          /\ OpenAs(WithBlock(open, q.next, kind), Segment(q, u), bs2)
          /\ q.next \in DOMAIN WithBlock(open, q.next, kind) /\ WithBlock(open, q.next, kind)[q.next] = kind
      <4>1. Agree(c, <<>>, open, q, bs)
        BY <3>1, <2>3, <2>4, <2>5 DEF Agree
      <4>2. Advances(c, q, [policy |-> Segment(q, u), yield |-> <<>> \o <<Start(q.next, kind)>>], bs2)
        BY <4>1, <3>1, SegmentAdvances DEF bs2
      <4>3. Segment(q, u).next = q.next + 1
        BY <2>3 DEF Segment, Policies
      <4>4. <<>> \o <<Start(q.next, kind)>> \in Seq(Events)
        BY <4>1, <3>1, SegmentAdvances
      <4>5. Can(c, <<>> \o <<Start(q.next, kind)>>, WithBlock(open, q.next, kind), 0 .. q.next)
        BY <4>1, <3>1, SegmentAdvances
      <4>6. OpenAs(WithBlock(open, q.next, kind), Segment(q, u), bs2)
        BY <4>1, <3>1, SegmentAdvances DEF bs2
      <4>7. q.next \in DOMAIN WithBlock(open, q.next, kind) /\ WithBlock(open, q.next, kind)[q.next] = kind
        BY DEF WithBlock
      <4> QED BY <4>2, <4>3, <4>4, <4>5, <4>6, <4>7
    <3>3. q.next = n BY <2>3
    <3> HIDE DEF n
    <3> QED BY <3>2, <3>3
  <2> HIDE DEF r, two, e
  <2>9. r \in Policies /\ r.stopped = p.stopped /\ PolicyOK(r, bs2) /\ NoHiddenStart(<<e>>)
    BY <2>3, <2>7, <2>8 DEF Advances
  <2>10. <<e>> \in Seq(Events) /\ Can(c, <<e>>, two, 0 .. n)
    BY <2>7, <2>8
  <2>11. <<e>> \o <<f>> \in Seq(Events) /\ Can(c, <<e>> \o <<f>>, two, 0 .. n)
    BY <2>6, <2>8, <2>10, CanDelta
  <2>12. NoHiddenStart(<<e, f>>)
    <3> HIDE DEF f
    <3>1. <<e>>[1] = e /\ <<e, f>>[1] = e /\ <<e, f>>[2] = f /\ Len(<<e>>) = 1 /\ Len(<<e, f>>) = 2
      OBVIOUS
    <3> QED BY <3>1, <2>6, <2>9 DEF NoHiddenStart
  <2>13. (n + 1) - 1 = n BY <2>6
  <2> HIDE DEF f, n
  <2>14. Advances(c, p, [policy |-> r, yield |-> <<e, f>>], bs2)
    BY <2>7, <2>8, <2>9, <2>11, <2>12, <2>13 DEF Advances
  <2> QED BY <2>2, <2>14 DEF r, e, f, bs2
<1>8. CASE bs[u].state = "new" /\ IsOpen(p, u) BY <1>3, <1>8 DEF IsOpen
<1> QED BY <1>2, <1>5, <1>6, <1>7, <1>8

LEMMA PolicyStopAdvances ==
  ASSUME NEW c, NEW p \in Policies, NEW bs \in Blocks, NEW u \in Upstream, NEW open,
         PolicyOK(p, bs), Can(c, <<>>, open, 0 .. p.next - 1), OpenAs(open, p, bs), bs[u].state # "new"
  PROVE  Advances(c, p, PolicyStop(p, u), [bs EXCEPT ![u] = [state |-> "stopped", kind |-> bs[u].kind]])
<1> DEFINE bs2 == [bs EXCEPT ![u] = [state |-> "stopped", kind |-> bs[u].kind]]
<1>1. /\ bs2[u].state = "stopped" /\ bs2[u].kind = bs[u].kind /\ bs2 \in Blocks
      /\ \A v \in Upstream : v # u => bs2[v] = bs[v]
  BY DEF Blocks
<1> HIDE DEF bs2
<1>2. ASSUME NEW q \in Policies, q.next = p.next, q.stopped = p.stopped, q.dropped = p.dropped,
             q.suppressed = p.suppressed \/ q.suppressed = p.suppressed \ {u},
             ~q.by[u].isOpen, q.by[u].known = p.by[u].known, q.by[u].down = p.by[u].down,
             \A v \in Upstream : v # u => q.by[v] = p.by[v]
      PROVE  PolicyOK(q, bs2)
  <2>1. ASSUME NEW v \in Upstream
        PROVE  /\ q.by[v].known <=> bs2[v].state # "new" /\ ~Hidden(bs2[v].kind)
               /\ bs2[v].state # "new" => bs2[v].kind \in NativeKinds
               /\ q.by[v].isOpen => q.by[v].known /\ bs2[v].state = "open" /\ v \notin q.suppressed
               /\ q.by[v].known => q.by[v].down \in 0 .. q.next - 1
               /\ v \in q.dropped => bs2[v].state # "new" /\ Hidden(bs2[v].kind)
               /\ v \in q.suppressed => q.by[v].known
    <3>1. CASE v = u BY <3>1, <1>1, <1>2 DEF PolicyOK
    <3>2. CASE v # u BY <3>2, <1>1, <1>2 DEF PolicyOK
    <3> QED BY <3>1, <3>2
  <2>2. ASSUME NEW v \in Upstream, NEW w \in Upstream, q.by[v].known, q.by[w].known, q.by[v].down = q.by[w].down
        PROVE  v = w
    <3>1. p.by[v].known /\ p.by[w].known /\ p.by[v].down = p.by[w].down
      BY <1>2, <2>2
    <3> QED BY <3>1 DEF PolicyOK
  <2> QED BY <2>1, <2>2 DEF PolicyOK
<1>3. ~IsOpen(p, u) => PolicyOK(p, bs2) /\ OpenAs(open, p, bs2)
  <2> SUFFICES ASSUME ~IsOpen(p, u) PROVE PolicyOK(p, bs2) /\ OpenAs(open, p, bs2)
    OBVIOUS
  <2>1. PolicyOK(p, bs2) BY <1>2 DEF IsOpen
  <2>2. OpenAs(open, p, bs2) BY <1>1 DEF OpenAs, IsOpen
  <2> QED BY <2>1, <2>2
<1>4. CASE u \in p.dropped
  <2>1. ~IsOpen(p, u) BY <1>4 DEF PolicyOK, IsOpen
  <2>2. Advances(c, p, [policy |-> p, yield |-> <<>>], bs2)
    BY <1>1, <1>3, <2>1, NothingAdvances
  <2> QED BY <1>4, <2>2 DEF PolicyStop, bs2
<1>5. CASE u \notin p.dropped /\ u \in p.suppressed
  <2> DEFINE q == [p EXCEPT !.suppressed = @ \ {u}]
  <2>1. ~IsOpen(p, u) BY <1>5 DEF PolicyOK, IsOpen
  <2>2. /\ q \in Policies /\ q.by = p.by /\ q.next = p.next /\ q.stopped = p.stopped /\ q.dropped = p.dropped
        /\ q.suppressed = p.suppressed \ {u}
    BY DEF Policies
  <2>3. PolicyStop(p, u) = [policy |-> q, yield |-> <<>>]
    BY <1>5 DEF PolicyStop
  <2> HIDE DEF q
  <2>4. PolicyOK(q, bs2) BY <1>2, <2>1, <2>2 DEF IsOpen
  <2>5. OpenAs(open, q, bs2) BY <1>3, <2>1, <2>2 DEF OpenAs
  <2>6. Advances(c, q, [policy |-> q, yield |-> <<>>], bs2)
    BY <1>1, <2>2, <2>4, <2>5, NothingAdvances
  <2> QED BY <2>2, <2>3, <2>6 DEF Advances, bs2
<1>6. CASE u \notin p.dropped /\ u \notin p.suppressed /\ IsOpen(p, u)
  <2> DEFINE d == p.by[u].down
             by == [p.by EXCEPT ![u].isOpen = FALSE]
             q == [p EXCEPT !.by[u].isOpen = FALSE]
             t == <<Stop(d)>>
             rest == WithoutBlock(open, d)
  <2>1. d \in DOMAIN open /\ d \in Nat
    BY <1>6 DEF OpenAs, PolicyOK, IsOpen
  <2>2. /\ by \in [Upstream -> [known : BOOLEAN, down : Int, isOpen : BOOLEAN]]
        /\ ~by[u].isOpen /\ by[u].known = p.by[u].known /\ by[u].down = d
        /\ \A v \in Upstream : v # u => by[v] = p.by[v]
    BY DEF Policies
  <2>3. q = [p EXCEPT !.by = by]
    BY DEF Policies
  <2>4. /\ q \in Policies /\ q.by = by /\ q.next = p.next /\ q.stopped = p.stopped /\ q.dropped = p.dropped
        /\ q.suppressed = p.suppressed
    <3> HIDE DEF q, by
    <3> QED BY <2>2, <2>3 DEF Policies
  <2>5. PolicyStop(p, u) = [policy |-> q, yield |-> t]
    BY <1>6 DEF PolicyStop
  <2> HIDE DEF q, by
  <2>6. PolicyOK(q, bs2) BY <1>2, <2>2, <2>4
  <2>7. OpenAs(rest, q, bs2)
    <3>1. DOMAIN rest = DOMAIN open \ {d} /\ \A i \in DOMAIN rest : rest[i] = open[i]
      BY DEF WithoutBlock
    <3> HIDE DEF rest
    <3>2. ASSUME NEW i \in DOMAIN rest PROVE \E v \in Upstream : q.by[v].isOpen /\ i = q.by[v].down
      <4>1. PICK v \in Upstream : p.by[v].isOpen /\ i = p.by[v].down BY <3>1 DEF OpenAs
      <4>2. v # u BY <3>1, <4>1
      <4> QED BY <4>1, <4>2, <2>2, <2>4
    <3>3. ASSUME NEW v \in Upstream, q.by[v].isOpen PROVE q.by[v].down \in DOMAIN rest /\ rest[q.by[v].down] = bs2[v].kind
      <4>1. v # u /\ q.by[v] = p.by[v] BY <3>3, <2>2, <2>4
      <4>2. p.by[v].down # d BY <4>1, <3>3, <1>6 DEF PolicyOK, IsOpen
      <4>3. p.by[v].down \in DOMAIN open /\ open[p.by[v].down] = bs[v].kind BY <4>1, <3>3 DEF OpenAs
      <4> QED BY <4>1, <4>2, <4>3, <3>1, <1>1
    <3> QED BY <3>2, <3>3 DEF OpenAs
  <2>8. Stop(d) \in Events /\ Stop(d).type = "content_block_stop"
    BY <2>1, EventFields
  <2>9. t \in Seq(Events) /\ t[1] = Stop(d) /\ Len(t) = 1
    BY <2>8
  <2>10. <<>> \o t = t /\ <<>> \in Seq(Events)
    BY <2>9, FromNothing
  <2>11. Can(c, <<>> \o t, rest, 0 .. p.next - 1)
    BY <2>1, <2>10, CanStop
  <2> HIDE DEF t, rest
  <2>12. NoHiddenStart(t)
    BY <2>8, <2>9 DEF NoHiddenStart
  <2>13. Can(c, t, rest, 0 .. q.next - 1)
    BY <2>4, <2>10, <2>11
  <2>14. Advances(c, p, [policy |-> q, yield |-> t], bs2)
    BY <2>4, <2>6, <2>7, <2>9, <2>12, <2>13 DEF Advances
  <2> QED BY <2>5, <2>14 DEF bs2
<1>7. CASE u \notin p.dropped /\ u \notin p.suppressed /\ ~IsOpen(p, u)
  <2>1. p.by[u].known \/ ~settings.thinking
    BY DEF PolicyOK, Hidden
  <2>2. PolicyStop(p, u) = [policy |-> p, yield |-> <<>>]
    BY <1>7, <2>1 DEF PolicyStop
  <2>3. Advances(c, p, [policy |-> p, yield |-> <<>>], bs2)
    BY <1>1, <1>3, <1>7, NothingAdvances
  <2> QED BY <2>2, <2>3 DEF bs2
<1> QED BY <1>4, <1>5, <1>6, <1>7

\* The tracker has what its client has: the open blocks, each once, and an
\* index that is at least every one in use.
TrackerOf(t, c) ==
    /\ t \in [stack : Seq(Nat), max : Int] /\ t.max >= -1
    /\ \A k, m \in 1 .. Len(t.stack) : t.stack[k] = t.stack[m] => k = m
    /\ \A k \in 1 .. Len(t.stack) : t.stack[k] \in DOMAIN c.open
    /\ \A i \in DOMAIN c.open : i \in c.seen /\ \E k \in 1 .. Len(t.stack) : t.stack[k] = i
    /\ \A i \in c.seen : i \in Nat /\ i <= t.max

LEMMA TrackerObserves ==
  ASSUME NEW t, NEW c, TrackerOf(t, c), IsClient(c), NEW e \in Events, Legal(c, e)
  PROVE  TrackerOf(Observe(t, e), After(c, e))
<1> DEFINE d == After(c, e)
<1>0. PICK s \in Seq(Nat), m \in Int : t = [stack |-> s, max |-> m]
  BY DEF TrackerOf
<1>a. t.stack = s /\ t.max = m /\ m >= -1 /\ Len(s) \in Nat /\ DOMAIN s = 1 .. Len(s)
  BY <1>0 DEF TrackerOf
<1>b. /\ \A k, l \in 1 .. Len(s) : s[k] = s[l] => k = l
      /\ \A k \in 1 .. Len(s) : s[k] \in DOMAIN c.open
      /\ \A i \in DOMAIN c.open : i \in c.seen /\ \E k \in 1 .. Len(s) : s[k] = i
      /\ \A i \in c.seen : i \in Nat /\ i <= m
  BY <1>a DEF TrackerOf
<1>c. /\ d.open = IF e.type = "content_block_start" THEN WithBlock(c.open, e.index, e.kind)
                    ELSE IF e.type = "content_block_stop" THEN WithoutBlock(c.open, e.index) ELSE c.open
      /\ d.seen = IF e.type = "content_block_start" THEN c.seen \cup {e.index} ELSE c.seen
  BY AfterFields
<1> HIDE DEF d
<1>1. CASE e.type = "content_block_start"
  <2> DEFINE i == e.index
             s2 == Append(s, i)
             m2 == IF i > m THEN i ELSE m
  <2>1. i \in Nat /\ i \notin c.seen
    BY <1>1 DEF Events, Legal
  <2>2. d.open = WithBlock(c.open, i, e.kind) /\ d.seen = c.seen \cup {i}
    BY <1>1, <1>c
  <2>3. DOMAIN d.open = DOMAIN c.open \cup {i}
    BY <2>2 DEF WithBlock
  <2>4. Observe(t, e) = [stack |-> s2, max |-> m2]
    BY <1>a, <1>1 DEF Observe
  <2> HIDE DEF i
  <2>5. s2 \in Seq(Nat) /\ Len(s2) = Len(s) + 1 /\ \A k \in 1 .. Len(s2) : s2[k] = IF k <= Len(s) THEN s[k] ELSE i
    BY <2>1
  <2>6. m2 \in Int /\ m2 >= -1 /\ i <= m2 /\ m <= m2
    BY <1>a, <2>1
  <2>7. \A k \in 1 .. Len(s) : s[k] # i
    BY <1>b, <2>1
  <2> HIDE DEF s2, m2
  <2>8. \A k, l \in 1 .. Len(s2) : s2[k] = s2[l] => k = l
    BY <1>a, <1>b, <2>5, <2>7
  <2>9. \A k \in 1 .. Len(s2) : s2[k] \in DOMAIN d.open
    BY <1>a, <1>b, <2>3, <2>5
  <2>10. \A j \in DOMAIN d.open : j \in d.seen /\ \E k \in 1 .. Len(s2) : s2[k] = j
    <3> DEFINE n == Len(s)
    <3> HIDE DEF n
    <3>0. n \in Nat /\ Len(s2) = n + 1 /\ \A k \in 1 .. n + 1 : s2[k] = IF k <= n THEN s[k] ELSE i BY <1>a, <2>5 DEF n
    <3>1. n + 1 \in 1 .. n + 1 /\ s2[n + 1] = i BY <3>0
    <3>2. \A k \in 1 .. n : k \in 1 .. n + 1 /\ s2[k] = s[k] BY <3>0
    <3> QED BY <1>b, <2>2, <2>3, <3>0, <3>1, <3>2 DEF n
  <2>11. \A j \in d.seen : j \in Nat /\ j <= m2
    BY <1>b, <2>1, <2>2, <2>6
  <2> DEFINE t2 == Observe(t, e)
  <2>12. t2.stack = s2 /\ t2.max = m2 /\ t2 \in [stack : Seq(Nat), max : Int]
    BY <2>4, <2>5, <2>6
  <2> HIDE DEF t2
  <2>13. TrackerOf(t2, d)
    BY <2>6, <2>8, <2>9, <2>10, <2>11, <2>12 DEF TrackerOf
  <2> QED BY <2>13 DEF t2, d
<1>2. CASE e.type = "content_block_stop"
  <2> DEFINE i == e.index
             S == {i}
             s2 == Without(s, S)
  <2>1. d.open = WithoutBlock(c.open, i) /\ d.seen = c.seen /\ DOMAIN d.open = DOMAIN c.open \ {i}
    BY <1>2, <1>c DEF WithoutBlock
  <2>2. Observe(t, e) = [stack |-> s2, max |-> m]
    BY <1>0, <1>2 DEF Observe
  <2> HIDE DEF i, S
  <2>3. s2 \in Seq(Nat) /\ \A k \in DOMAIN s2 : s2[k] \notin S /\ \E j \in DOMAIN s : s2[k] = s[j]
    BY WithoutIsSeq
  <2>4. DOMAIN s2 = 1 .. Len(s2)
    BY <2>3
  <2>5. \A j \in DOMAIN s : s[j] \notin S => \E k \in DOMAIN s2 : s2[k] = s[j]
    BY WithoutKeeps
  <2>6. \A k, l \in DOMAIN s2 : s2[k] = s2[l] => k = l
    <3>1. \A k, l \in DOMAIN s : s[k] = s[l] => k = l BY <1>a, <1>b
    <3> QED BY <3>1, WithoutKeeps
  <2> HIDE DEF s2
  <2>7. \A k \in 1 .. Len(s2) : s2[k] \in DOMAIN d.open
    <3>1. \A j \in DOMAIN s : s[j] \in DOMAIN c.open BY <1>a, <1>b
    <3>2. \A j \in S : j = i BY DEF S
    <3>3. \A k \in DOMAIN s2 : s2[k] \in DOMAIN c.open /\ s2[k] # i BY <2>3, <3>1 DEF S
    <3> QED BY <2>1, <2>4, <3>3
  <2>8. \A j \in DOMAIN d.open : j \in d.seen /\ \E k \in 1 .. Len(s2) : s2[k] = j
    <3>1. ASSUME NEW j \in DOMAIN d.open PROVE j \in d.seen /\ \E k \in 1 .. Len(s2) : s2[k] = j
      <4>1. j \in DOMAIN c.open /\ j # i /\ j \in c.seen BY <1>b, <2>1
      <4>2. PICK l \in DOMAIN s : s[l] = j BY <1>a, <1>b, <4>1
      <4>3. s[l] \notin S BY <4>1, <4>2 DEF S
      <4> QED BY <2>1, <2>4, <2>5, <4>1, <4>2, <4>3
    <3> QED BY <3>1
  <2>9. \A j \in d.seen : j \in Nat /\ j <= m
    BY <1>b, <2>1
  <2> DEFINE t2 == Observe(t, e)
  <2>10. t2.stack = s2 /\ t2.max = m /\ t2 \in [stack : Seq(Nat), max : Int]
    BY <2>2, <2>3
  <2> HIDE DEF t2
  <2>11. TrackerOf(t2, d)
    <3>1. \A k, l \in 1 .. Len(s2) : s2[k] = s2[l] => k = l BY <2>4, <2>6
    <3> HIDE DEF s2
    <3> QED BY <1>a, <2>7, <2>8, <2>9, <2>10, <3>1 DEF TrackerOf
  <2> QED BY <2>11 DEF t2, d
<1>3. CASE e.type # "content_block_start" /\ e.type # "content_block_stop"
  <2>1. d.open = c.open /\ d.seen = c.seen
    BY <1>3, <1>c
  <2>2. Observe(t, e) = t
    BY <1>3 DEF Observe
  <2>3. TrackerOf(t, d)
    BY <2>1 DEF TrackerOf
  <2> QED BY <2>2, <2>3 DEF d
<1> QED BY <1>1, <1>2, <1>3

NativeInv ==
    /\ blocks \in Blocks /\ policy \in Policies /\ settings \in [thinking : BOOLEAN, openRouter : BOOLEAN]
    /\ upstream \in {"idle", "begun", "stopped", "over"}
    /\ out \in Seq(Events) /\ IsClient(nativeClient) /\ PolicyOK(policy, blocks)
    /\ upstream = "idle" => out = <<>> /\ nativeClient = NewClient /\ policy.next = 0
    /\ upstream \in {"idle", "begun"} => ~policy.stopped
    /\ upstream = "begun" =>
          \E open : Can(nativeClient, out, open, 0 .. policy.next - 1) /\ OpenAs(open, policy, blocks)
    /\ upstream = "stopped" =>
          /\ CanFinish(nativeClient, out)
          /\ \E open : Can(nativeClient, out, open, 0 .. policy.next - 1) /\ DOMAIN open = {}
    /\ upstream = "over" /\ nativeClient.over = "no" => CanFinish(nativeClient, out)
    /\ nativeClient.over # "no" => upstream = "over" /\ out = <<>>
    /\ upstream # "over" => TrackerOf(tracker, nativeClient)
    /\ NoHiddenStart(out) /\ \A i \in DOMAIN nativeClient.open : ~Hidden(nativeClient.open[i])

\* The settings of a stream do not change, nor what is hidden.
LEMMA HiddenUnchanged ==
  ASSUME settings' = settings
  PROVE  /\ \A kind : Hidden(kind)' <=> Hidden(kind)
         /\ NoHiddenStart(out)' <=> NoHiddenStart(out')
         /\ PolicyOK(policy, blocks)' <=> PolicyOK(policy', blocks')
         /\ (\A i \in DOMAIN nativeClient.open : ~Hidden(nativeClient.open[i]))'
              <=> \A i \in DOMAIN nativeClient'.open : ~Hidden(nativeClient'.open[i])
<1>1. \A kind : Hidden(kind)' <=> Hidden(kind)
  BY DEF Hidden
<1>2. NoHiddenStart(out)' <=> NoHiddenStart(out')
  BY DEF NoHiddenStart, Hidden
<1>3. PolicyOK(policy, blocks)' <=> PolicyOK(policy', blocks')
  BY DEF PolicyOK, Hidden
<1>4. (\A i \in DOMAIN nativeClient.open : ~Hidden(nativeClient.open[i]))'
        <=> \A i \in DOMAIN nativeClient'.open : ~Hidden(nativeClient'.open[i])
  BY DEF Hidden
<1> QED BY <1>1, <1>2, <1>3, <1>4

LEMMA NothingHidden ==
  ASSUME NEW s \in Seq(Events), NEW t \in Seq(Events), NoHiddenStart(s), NoHiddenStart(t)
  PROVE  NoHiddenStart(s \o t)
<1> DEFINE u == s \o t
<1>1. /\ Len(s) \in Nat /\ Len(t) \in Nat /\ Len(u) = Len(s) + Len(t)
      /\ \A k \in 1 .. Len(u) : u[k] = IF k <= Len(s) THEN s[k] ELSE t[k - Len(s)]
  OBVIOUS
<1> HIDE DEF u
<1>2. ASSUME NEW k \in 1 .. Len(u), u[k].type = "content_block_start" PROVE ~Hidden(u[k].kind)
  <2>1. CASE k <= Len(s) BY <2>1, <1>1, <1>2 DEF NoHiddenStart
  <2>2. CASE ~(k <= Len(s))
    <3>1. k - Len(s) \in 1 .. Len(t) /\ u[k] = t[k - Len(s)] BY <2>2, <1>1
    <3> QED BY <3>1, <1>2 DEF NoHiddenStart
  <2> QED BY <2>1, <2>2
<1>3. NoHiddenStart(u) BY <1>2 DEF NoHiddenStart
<1> QED BY <1>3 DEF u

LEMMA NativeInitInv == NativeInit => NativeInv
<1> SUFFICES ASSUME NativeInit PROVE NativeInv
  OBVIOUS
<1> USE DEF NativeInit
<1>1. blocks \in Blocks /\ settings \in [thinking : BOOLEAN, openRouter : BOOLEAN] /\ out \in Seq(Events)
  BY DEF Blocks
<1>2. policy \in Policies /\ policy.next = 0 /\ ~policy.stopped
  BY DEF Policies, Fresh, None
<1>3. PolicyOK(policy, blocks)
  BY DEF PolicyOK, Fresh, None
<1>4. IsClient(nativeClient) /\ DOMAIN nativeClient.open = {} /\ nativeClient.seen = {} /\ nativeClient.over = "no"
  BY DEF IsClient, NewClient
<1>5. TrackerOf(tracker, nativeClient)
  <2>1. tracker.stack = <<>> /\ tracker.max = -1 /\ tracker \in [stack : Seq(Nat), max : Int] /\ Len(<<>>) = 0
    OBVIOUS
  <2> QED BY <1>4, <2>1 DEF TrackerOf
<1>6. NoHiddenStart(out)
  BY DEF NoHiddenStart
<1> QED BY <1>1, <1>2, <1>3, <1>4, <1>5, <1>6 DEF NativeInv

\* An event of a block, transformed by the policy and yielded.
LEMMA RelayKeeps ==
  ASSUME NativeInv, upstream = "begun", upstream' = "begun", NEW r, Relay(r), blocks' \in Blocks,
         \A open : Can(nativeClient, <<>>, open, 0 .. policy.next - 1) /\ OpenAs(open, policy, blocks)
                     => Advances(nativeClient, policy, r, blocks')
  PROVE  NativeInv'
<1>1. /\ policy' = r.policy /\ out' = r.yield /\ out = <<>> /\ tracker' = tracker /\ settings' = settings
      /\ nativeClient' = nativeClient
  BY DEF Relay, NativeInv
<1>2. Advances(nativeClient, policy, r, blocks')
  BY <1>1 DEF NativeInv
<1>3. /\ policy' \in Policies /\ ~policy'.stopped /\ PolicyOK(policy', blocks') /\ out' \in Seq(Events) /\ NoHiddenStart(out')
      /\ \E open : Can(nativeClient', out', open, 0 .. policy'.next - 1) /\ OpenAs(open, policy', blocks')
  BY <1>1, <1>2 DEF Advances, NativeInv
<1>4. PolicyOK(policy, blocks)' /\ NoHiddenStart(out)' /\ (\A i \in DOMAIN nativeClient.open : ~Hidden(nativeClient.open[i]))'
  BY <1>1, <1>3, HiddenUnchanged DEF NativeInv
<1> QED BY <1>1, <1>3, <1>4 DEF NativeInv, OpenAs, TrackerOf, IsClient, Can, CanFinish

\* The stops of an error tail: every open block, once.
LEMMA TailCloses ==
  ASSUME NEW t, NEW c, TrackerOf(t, c)
  PROVE  LET s == [n \in DOMAIN t.stack |-> Stop(Reverse(t.stack)[n])]
         IN  s \in Seq(Events) /\ Closes(c.open, s) /\ DOMAIN c.open \subseteq {s[k].index : k \in 1 .. Len(s)} /\ NoHiddenStart(s)
<1> DEFINE q == t.stack
           n == Len(q)
           back(k) == (n - k) + 1
           s == [k \in DOMAIN q |-> Stop(Reverse(q)[k])]
<1>1. q \in Seq(Nat) /\ n \in Nat /\ DOMAIN q = 1 .. n /\ \A k \in 1 .. n : q[k] \in Nat
  BY DEF TrackerOf
<1>2. /\ \A k, m \in 1 .. n : q[k] = q[m] => k = m
      /\ \A k \in 1 .. n : q[k] \in DOMAIN c.open
      /\ \A i \in DOMAIN c.open : \E k \in 1 .. n : q[k] = i
  BY DEF TrackerOf
<1>3. \A k \in 1 .. n : back(k) \in 1 .. n /\ back(back(k)) = k
  BY <1>1
<1>4. \A k \in 1 .. n : s[k] = Stop(q[back(k)])
  BY <1>1 DEF Reverse
<1>5. \A i \in Nat : Stop(i) \in Events /\ Stop(i).type = "content_block_stop" /\ Stop(i).index = i
  BY EventFields
<1>6. \A k \in 1 .. n : s[k] \in Events
  BY <1>1, <1>3, <1>4, <1>5
<1>7. s \in Seq(Events) /\ Len(s) = n
  <2>1. DOMAIN s = 1 .. n /\ s = [k \in 1 .. n |-> s[k]] BY <1>1
  <2> HIDE DEF s, n
  <2> QED BY <2>1, <1>1, <1>6
<1> HIDE DEF s, q, n
<1>8. \A k \in 1 .. n : s[k].type = "content_block_stop" /\ s[k].index = q[back(k)] /\ s[k] = Stop(s[k].index)
  BY <1>1, <1>3, <1>4, <1>5
<1>9. Closes(c.open, s)
  <2>1. \A k \in 1 .. n : s[k] = Stop(s[k].index) /\ s[k].index \in DOMAIN c.open /\ s[k].index \in Nat
    BY <1>1, <1>2, <1>3, <1>8
  <2>2. ASSUME NEW k \in 1 .. n, NEW m \in 1 .. n, s[k].index = s[m].index PROVE k = m
    <3>1. back(k) = back(m) BY <2>2, <1>2, <1>3, <1>8
    <3>2. back(back(k)) = back(back(m)) BY <3>1
    <3> QED BY <3>2, <1>3
  <2> QED BY <2>1, <2>2, <1>7 DEF Closes
<1>10. DOMAIN c.open \subseteq {s[k].index : k \in 1 .. Len(s)}
  <2> SUFFICES ASSUME NEW i \in DOMAIN c.open PROVE \E k \in 1 .. n : s[k].index = i
    BY <1>7
  <2>1. PICK k \in 1 .. n : q[k] = i BY <1>2
  <2>2. back(k) \in 1 .. n /\ s[back(k)].index = q[back(back(k))] BY <1>3, <1>8
  <2> QED BY <2>1, <2>2, <1>3
<1>11. NoHiddenStart(s)
  BY <1>7, <1>8 DEF NoHiddenStart
<1> QED BY <1>7, <1>9, <1>10, <1>11 DEF s, q

\* An error block in a block of its own.
LEMMA ErrorBlockShown ==
  ASSUME NEW i \in Nat
  PROVE  /\ ErrorBlock(i) \in Seq(Events) /\ NoHiddenStart(ErrorBlock(i))
         /\ <<MessageDelta, MessageStop>> \in Seq(Events) /\ NoHiddenStart(<<MessageDelta, MessageStop>>)
         /\ <<MessageStart>> \in Seq(Events) /\ NoHiddenStart(<<MessageStart>>)
<1> DEFINE a == Start(i, "text")
           b == Delta(i, "text")
           d == Stop(i)
<1>1. /\ a \in Events /\ a.kind = "text" /\ b \in Events /\ b.type = "content_block_delta"
      /\ d \in Events /\ d.type = "content_block_stop"
  BY EventFields DEF Kinds
<1>2. /\ MessageDelta \in Events /\ MessageDelta.type = "message_delta" /\ MessageStop \in Events /\ MessageStop.type = "message_stop"
      /\ MessageStart \in Events /\ MessageStart.type = "message_start"
  BY EventFields
<1>3. ErrorBlock(i) = <<a, b, d>>
  BY DEF ErrorBlock
<1> HIDE DEF a, b, d
<1>4. <<a, b, d>> \in Seq(Events) /\ NoHiddenStart(<<a, b, d>>)
  <2>1. Len(<<a, b, d>>) = 3 /\ <<a, b, d>>[1] = a /\ <<a, b, d>>[2] = b /\ <<a, b, d>>[3] = d OBVIOUS
  <2>2. \A k \in 1 .. 3 : k = 1 \/ k = 2 \/ k = 3 OBVIOUS
  <2> QED BY <1>1, <2>1, <2>2 DEF NoHiddenStart, Hidden
<1>5. <<MessageDelta, MessageStop>> \in Seq(Events) /\ NoHiddenStart(<<MessageDelta, MessageStop>>)
  <2>1. Len(<<MessageDelta, MessageStop>>) = 2 /\ <<MessageDelta, MessageStop>>[1] = MessageDelta
        /\ <<MessageDelta, MessageStop>>[2] = MessageStop OBVIOUS
  <2>2. \A k \in 1 .. 2 : k = 1 \/ k = 2 OBVIOUS
  <2> QED BY <1>2, <2>1, <2>2 DEF NoHiddenStart
<1>6. <<MessageStart>> \in Seq(Events) /\ NoHiddenStart(<<MessageStart>>)
  <2>1. Len(<<MessageStart>>) = 1 /\ <<MessageStart>>[1] = MessageStart OBVIOUS
  <2>2. \A k \in 1 .. 1 : k = 1 OBVIOUS
  <2> QED BY <1>2, <2>1, <2>2 DEF NoHiddenStart
<1> QED BY <1>3, <1>4, <1>5, <1>6

\* An error block and the end, after the open blocks were closed.
LEMMA ErrorFinishes ==
  ASSUME NEW c, NEW s \in Seq(Events), NEW open, NEW seen, Can(c, s, open, seen), DOMAIN open = {}, NEW i \in Nat \ seen,
         NoHiddenStart(s)
  PROVE  LET t == s \o ErrorBlock(i) \o <<MessageDelta, MessageStop>>
         IN  t \in Seq(Events) /\ CanFinish(c, t) /\ NoHiddenStart(t)
<1> DEFINE u == s \o ErrorBlock(i)
           left == WithoutBlock(WithBlock(open, i, "text"), i)
<1>1. "text" \in Kinds \ NoDeltaKinds
  BY DEF Kinds, NoDeltaKinds
<1>2. u \in Seq(Events) /\ Can(c, u, left, seen \cup {i})
  BY <1>1, CanBlock DEF ErrorBlock
<1>3. DOMAIN left = {} /\ seen \cup {i} # {}
  BY DEF WithBlock, WithoutBlock
<1>4. NoHiddenStart(u)
  BY ErrorBlockShown, NothingHidden
<1> HIDE DEF u, left
<1>5. u \o <<MessageDelta, MessageStop>> \in Seq(Events) /\ CanFinish(c, u \o <<MessageDelta, MessageStop>>)
  BY <1>2, <1>3, CanEnd
<1>6. NoHiddenStart(u \o <<MessageDelta, MessageStop>>)
  BY <1>2, <1>4, ErrorBlockShown, NothingHidden
<1> QED BY <1>5, <1>6 DEF u

LEMMA ErrorTailFinishes ==
  ASSUME NEW t, NEW c, NEW open, NEW seen, TrackerOf(t, c), Can(c, <<>>, open, seen)
  PROVE  ErrorTail(t) \in Seq(Events) /\ CanFinish(c, ErrorTail(t)) /\ NoHiddenStart(ErrorTail(t))
<1> DEFINE s == [n \in DOMAIN t.stack |-> Stop(Reverse(t.stack)[n])]
           i == t.max + 1
           left == [j \in DOMAIN open \ {s[k].index : k \in 1 .. Len(s)} |-> open[j]]
<1>1. View(c, open, seen)
  BY CanNow
<1>2. s \in Seq(Events) /\ Closes(open, s) /\ DOMAIN open \subseteq {s[k].index : k \in 1 .. Len(s)} /\ NoHiddenStart(s)
  BY <1>1, TailCloses DEF View
<1>3. i \in Nat \ seen
  <2>1. t.max \in Int /\ t.max >= -1 /\ \A j \in seen : j \in Nat /\ j <= t.max
    BY <1>1 DEF TrackerOf, View
  <2> QED BY <2>1
<1>4. ErrorTail(t) = s \o ErrorBlock(i) \o <<MessageDelta, MessageStop>>
  BY DEF ErrorTail
<1> HIDE DEF s, i
<1>5. <<>> \o s = s /\ <<>> \in Seq(Events)
  BY <1>2, FromNothing
<1>6. <<>> \o s \in Seq(Events) /\ Can(c, <<>> \o s, left, seen)
  BY <1>2, <1>5, CanStops
<1>7. DOMAIN left = {}
  BY <1>2
<1> HIDE DEF left
<1>8. Can(c, s, left, seen)
  BY <1>5, <1>6
<1>9. LET u == s \o ErrorBlock(i) \o <<MessageDelta, MessageStop>>
      IN  u \in Seq(Events) /\ CanFinish(c, u) /\ NoHiddenStart(u)
  <2> HIDE DEF NoHiddenStart, CanFinish, Can, ErrorBlock
  <2> QED BY <1>2, <1>3, <1>7, <1>8, ErrorFinishes
<1> QED BY <1>4, <1>9

LEMMA NativeStep == NativeInv /\ [NativeNext]_nativeVars => NativeInv'
<1> SUFFICES ASSUME NativeInv, [NativeNext]_nativeVars PROVE NativeInv'
  OBVIOUS
<1>0. ASSUME settings' = settings, NoHiddenStart(out'), PolicyOK(policy', blocks'),
             \A i \in DOMAIN nativeClient'.open : ~Hidden(nativeClient'.open[i])
      PROVE  NoHiddenStart(out)' /\ PolicyOK(policy, blocks)' /\ (\A i \in DOMAIN nativeClient.open : ~Hidden(nativeClient.open[i]))'
  BY <1>0, HiddenUnchanged
<1>1. CASE UNCHANGED nativeVars
  BY <1>1, <1>0 DEF nativeVars, NativeInv, OpenAs, TrackerOf, IsClient, Can, CanFinish
<1>2. CASE UpstreamBegins
  <2>1. /\ upstream = "idle" /\ upstream' = "begun" /\ out' = <<MessageStart>> /\ nativeClient' = NewClient
        /\ nativeClient = NewClient /\ policy' = policy /\ blocks' = blocks /\ settings' = settings /\ tracker' = tracker
        /\ policy.next = 0 /\ ~policy.stopped
    BY <1>2 DEF UpstreamBegins, NativeInv
  <2>2. <<MessageStart>> \in Seq(Events) /\ Can(NewClient, <<MessageStart>>, <<>>, {})
    BY CanBegin
  <2>3. NoHiddenStart(<<MessageStart>>)
    BY ErrorBlockShown
  <2>4. \A u \in Upstream : ~policy.by[u].known
    BY <2>1 DEF NativeInv, PolicyOK
  <2>5. OpenAs(<<>>, policy, blocks)
    BY <2>4 DEF OpenAs, NativeInv, PolicyOK
  <2>6. 0 .. policy.next - 1 = {}
    BY <2>1
  <2>7. \E open : Can(nativeClient', out', open, 0 .. policy'.next - 1) /\ OpenAs(open, policy', blocks')
    BY <2>1, <2>2, <2>5, <2>6
  <2>8. NoHiddenStart(out)' /\ PolicyOK(policy, blocks)' /\ (\A i \in DOMAIN nativeClient.open : ~Hidden(nativeClient.open[i]))'
    BY <1>0, <2>1, <2>3 DEF NativeInv
  <2>9. TrackerOf(tracker', nativeClient')
    BY <2>1 DEF NativeInv
  <2> QED BY <2>1, <2>2, <2>7, <2>8, <2>9 DEF NativeInv, OpenAs, TrackerOf, IsClient, Can, CanFinish
<1>3. CASE UpstreamStops
  <2> DEFINE t == <<MessageDelta, MessageStop>>
             r == [policy |-> [policy EXCEPT !.stopped = settings.openRouter], yield |-> t]
  <2>1. /\ upstream = "begun" /\ upstream' = "stopped" /\ out = <<>> /\ out' = t /\ nativeClient' = nativeClient
        /\ policy' = [policy EXCEPT !.stopped = settings.openRouter] /\ blocks' = blocks /\ settings' = settings
        /\ tracker' = tracker /\ ~policy.stopped
    BY <1>3 DEF UpstreamStops, Relay, NativeInv
  <2>2. /\ policy' \in Policies /\ policy'.by = policy.by /\ policy'.next = policy.next
        /\ policy'.dropped = policy.dropped /\ policy'.suppressed = policy.suppressed
    BY <2>1 DEF NativeInv, Policies
  <2>3. PICK open : Can(nativeClient, <<>>, open, 0 .. policy.next - 1) /\ OpenAs(open, policy, blocks)
    BY <2>1 DEF NativeInv
  <2>4. DOMAIN open = {}
    BY ZenonT(60), <1>3, <2>3 DEF UpstreamStops, OpenAs, NativeInv, PolicyOK
  <2>5. 0 .. policy.next - 1 # {}
    <3>1. PICK u \in Upstream : blocks[u].state = "stopped" /\ ~Hidden(blocks[u].kind)
      BY <1>3 DEF UpstreamStops
    <3>2. policy.by[u].down \in 0 .. policy.next - 1
      BY <3>1 DEF NativeInv, PolicyOK
    <3> QED BY <3>2
  <2>6. t \in Seq(Events) /\ NoHiddenStart(t) /\ <<>> \in Seq(Events)
    <3>1. 0 \in Nat /\ <<>> \in Seq(Events) OBVIOUS
    <3>2. t \in Seq(Events) /\ NoHiddenStart(t) BY <3>1, ErrorBlockShown
    <3> QED BY <3>1, <3>2
  <2>7. <<>> \o t = t
    BY <2>6, FromNothing
  <2>8. CanFinish(nativeClient, t)
    <3>1. CanFinish(nativeClient, <<>> \o t) BY <2>3, <2>4, <2>5, <2>6, CanEnd
    <3> QED BY <3>1, <2>7
  <2>9. Can(nativeClient, t, open, 0 .. policy.next - 1)
    <3> DEFINE seen == 0 .. policy.next - 1
               a == MessageDelta
               b == MessageStop
    <3>1. a \in Events /\ b \in Events BY EventFields
    <3> HIDE DEF seen
    <3>2. <<>> \o <<a>> \in Seq(Events) /\ Can(nativeClient, <<>> \o <<a>>, open, seen)
      BY <2>3, <2>6, CanPlain DEF seen
    <3>3. <<>> \o <<a>> = <<a>>
      <4> HIDE DEF a
      <4>1. <<a>> \in Seq(Events) BY <3>1
      <4> QED BY <4>1, FromNothing
    <3>4. Can(nativeClient, <<a>> \o <<b>>, open, seen)
      <4>1. <<a>> \in Seq(Events) /\ Can(nativeClient, <<a>>, open, seen) BY <3>2, <3>3
      <4> QED BY <4>1, CanPlain
    <3>5. <<a, b>> = <<a>> \o <<b>> BY <3>1, PairOfEvents
    <3> QED BY <3>4, <3>5 DEF seen
  <2>10. PolicyOK(policy', blocks')
    BY <2>1, <2>2 DEF NativeInv, PolicyOK
  <2>11. NoHiddenStart(out)' /\ PolicyOK(policy, blocks)' /\ (\A i \in DOMAIN nativeClient.open : ~Hidden(nativeClient.open[i]))'
    BY <1>0, <2>1, <2>6, <2>10 DEF NativeInv
  <2> HIDE DEF t
  <2>12. Can(nativeClient', out', open, 0 .. policy'.next - 1) /\ CanFinish(nativeClient', out')
    BY <2>1, <2>2, <2>8, <2>9
  <2>13. TrackerOf(tracker', nativeClient')
    BY <2>1 DEF NativeInv
  <2> QED BY <2>1, <2>2, <2>4, <2>6, <2>11, <2>12, <2>13 DEF NativeInv, OpenAs, TrackerOf, IsClient, Can, CanFinish
<1>4. CASE UpstreamFails
  <2>1. /\ upstream # "over" /\ upstream' = "over" /\ out = <<>> /\ nativeClient' = nativeClient
        /\ policy' = policy /\ blocks' = blocks /\ settings' = settings
    BY <1>4 DEF UpstreamFails
  <2>2. out' \in Seq(Events) /\ CanFinish(nativeClient, out') /\ NoHiddenStart(out')
    <3>1. CASE upstream = "idle"
      <4>1. nativeClient = NewClient /\ out' = <<MessageStart>> \o ErrorBlock(0) \o <<MessageDelta, MessageStop>>
        BY <1>4, <3>1 DEF UpstreamFails, NativeInv
      <4>2. <<MessageStart>> \in Seq(Events) /\ Can(NewClient, <<MessageStart>>, <<>>, {}) /\ NoHiddenStart(<<MessageStart>>)
        BY CanBegin, ErrorBlockShown
      <4>3. DOMAIN <<>> = {} /\ 0 \in Nat \ {}
        OBVIOUS
      <4>4. LET t == <<MessageStart>> \o ErrorBlock(0) \o <<MessageDelta, MessageStop>>
            IN  t \in Seq(Events) /\ CanFinish(NewClient, t) /\ NoHiddenStart(t)
        BY <4>2, <4>3, ErrorFinishes
      <4> QED BY <4>1, <4>4
    <3>2. CASE upstream # "idle"
      <4>1. out' = ErrorTail(tracker) /\ TrackerOf(tracker, nativeClient)
        BY <1>4, <3>2 DEF UpstreamFails, NativeInv
      <4>2. PICK open : Can(nativeClient, <<>>, open, 0 .. policy.next - 1)
        BY <2>1, <3>2 DEF NativeInv
      <4> QED BY <4>1, <4>2, ErrorTailFinishes
    <3> QED BY <3>1, <3>2
  <2>3. NoHiddenStart(out)' /\ PolicyOK(policy, blocks)' /\ (\A i \in DOMAIN nativeClient.open : ~Hidden(nativeClient.open[i]))'
    BY <1>0, <2>1, <2>2 DEF NativeInv
  <2> QED BY <2>1, <2>2, <2>3 DEF NativeInv, IsClient, CanFinish
<1>5. CASE UpstreamCloses
  <2>1. /\ upstream = "stopped" /\ upstream' = "over" /\ out' = out /\ nativeClient' = nativeClient
        /\ policy' = policy /\ blocks' = blocks /\ settings' = settings
    BY <1>5 DEF UpstreamCloses
  <2>2. NoHiddenStart(out)' /\ PolicyOK(policy, blocks)' /\ (\A i \in DOMAIN nativeClient.open : ~Hidden(nativeClient.open[i]))'
    BY <1>0, <2>1 DEF NativeInv
  <2> QED BY <2>1, <2>2 DEF NativeInv, IsClient, CanFinish
<1>6. CASE NativeReceive
  <2> DEFINE e == Head(out)
  <2>1. /\ out # <<>> /\ nativeClient' = After(nativeClient, e) /\ out' = Tail(out) /\ upstream' = upstream
        /\ policy' = policy /\ blocks' = blocks /\ settings' = settings
        /\ tracker' = IF upstream = "over" THEN tracker ELSE Observe(tracker, e)
    BY <1>6 DEF NativeReceive
  <2>2. out \in Seq(Events) /\ e \in Events /\ Tail(out) \in Seq(Events) /\ IsClient(nativeClient)
    BY <2>1, CanReceive DEF NativeInv
  <2>3. \A k \in 1 .. Len(Tail(out)) : k + 1 \in 1 .. Len(out) /\ Tail(out)[k] = out[k + 1]
    BY <2>1, <2>2
  <2>4. e = out[1] /\ 1 \in 1 .. Len(out)
    BY <2>1, <2>2
  <2> HIDE DEF e
  <2>5. IsClient(nativeClient') /\ nativeClient'.over = nativeClient.over
        /\ nativeClient'.open = IF e.type = "content_block_start" THEN WithBlock(nativeClient.open, e.index, e.kind)
                                ELSE IF e.type = "content_block_stop" THEN WithoutBlock(nativeClient.open, e.index)
                                ELSE nativeClient.open
    BY <2>1, <2>2, AfterFields
  <2>6. NoHiddenStart(out')
    BY <2>1, <2>3 DEF NativeInv, NoHiddenStart
  <2>7. \A i \in DOMAIN nativeClient'.open : ~Hidden(nativeClient'.open[i])
    <3>1. e.type = "content_block_start" => ~Hidden(e.kind) BY <2>4 DEF NativeInv, NoHiddenStart
    <3>2. \A i \in DOMAIN nativeClient.open : ~Hidden(nativeClient.open[i]) BY DEF NativeInv
    <3> QED BY <2>5, <3>1, <3>2 DEF WithBlock, WithoutBlock
  <2>8. NoHiddenStart(out)' /\ PolicyOK(policy, blocks)' /\ (\A i \in DOMAIN nativeClient.open : ~Hidden(nativeClient.open[i]))'
    BY <1>0, <2>1, <2>6, <2>7 DEF NativeInv
  <2>9. \A open, seen : Can(nativeClient, out, open, seen) => Legal(nativeClient, e) /\ Can(nativeClient', out', open, seen)
    BY <2>1, <2>2, CanReceive DEF e
  <2>10. CanFinish(nativeClient, out) => Legal(nativeClient, e) /\ CanFinish(nativeClient', out')
    BY <2>1, <2>2, CanReceive DEF e
  <2>11. upstream # "over" => TrackerOf(tracker', nativeClient')
    <3> SUFFICES ASSUME upstream # "over" PROVE TrackerOf(tracker', nativeClient')
      OBVIOUS
    <3>1. Legal(nativeClient, e)
      BY <2>1, <2>9 DEF NativeInv
    <3> QED BY <2>1, <2>2, <3>1, TrackerObserves DEF NativeInv
  <2>12. upstream = "begun" =>
            \E open : Can(nativeClient', out', open, 0 .. policy'.next - 1) /\ OpenAs(open, policy', blocks')
    BY <2>1, <2>9 DEF NativeInv
  <2>13. upstream = "stopped" =>
            /\ CanFinish(nativeClient', out')
            /\ \E open : Can(nativeClient', out', open, 0 .. policy'.next - 1) /\ DOMAIN open = {}
    BY <2>1, <2>9, <2>10 DEF NativeInv
  <2>14. upstream = "over" => CanFinish(nativeClient', out') /\ nativeClient'.over = "no"
    BY <2>1, <2>5, <2>10 DEF NativeInv
  <2>15. upstream # "idle" /\ out' \in Seq(Events) /\ nativeClient'.over = "no"
    BY <2>1, <2>2, <2>5 DEF NativeInv
  <2> QED BY <2>1, <2>5, <2>8, <2>11, <2>12, <2>13, <2>14, <2>15 DEF NativeInv, OpenAs, TrackerOf, IsClient, Can, CanFinish
<1>7. CASE NativeEnd
  <2>1. /\ upstream = "over" /\ upstream' = "over" /\ nativeClient' = [nativeClient EXCEPT !.over = "ended"]
        /\ policy' = policy /\ blocks' = blocks /\ settings' = settings /\ out' = out /\ out = <<>>
    BY <1>7 DEF NativeEnd
  <2>2. IsClient(nativeClient') /\ nativeClient'.over # "no" /\ nativeClient'.open = nativeClient.open
    <3>1. nativeClient'.over = "ended" /\ IsClient(nativeClient') /\ nativeClient'.open = nativeClient.open
      BY SMTT(40), <2>1, OverFields DEF NativeInv
    <3> QED BY <3>1
  <2>3. NoHiddenStart(out)' /\ PolicyOK(policy, blocks)' /\ (\A i \in DOMAIN nativeClient.open : ~Hidden(nativeClient.open[i]))'
    BY <1>0, <2>1, <2>2 DEF NativeInv
  <2> QED BY <2>1, <2>2, <2>3 DEF NativeInv, IsClient, CanFinish
<1>8. ASSUME NEW u \in Upstream, NEW kind \in NativeKinds, BlockStarts(u, kind) PROVE NativeInv'
  <2>1. /\ upstream = "begun" /\ upstream' = "begun" /\ Relay(PolicyStart(policy, u, kind)) /\ blocks[u].state = "new"
        /\ blocks' = [blocks EXCEPT ![u] = [state |-> "open", kind |-> kind]]
    BY <1>8 DEF BlockStarts, BlockEvent
  <2>2. blocks' \in Blocks
    BY <2>1 DEF NativeInv, Blocks
  <2>3. \A open : Can(nativeClient, <<>>, open, 0 .. policy.next - 1) /\ OpenAs(open, policy, blocks)
                     => Advances(nativeClient, policy, PolicyStart(policy, u, kind), blocks')
    BY <2>1, PolicyStartAdvances DEF NativeInv
  <2> QED BY <2>1, <2>2, <2>3, RelayKeeps
<1>9. ASSUME NEW u \in Upstream, NEW kind \in NativeKinds, BlockDelta(u, kind) PROVE NativeInv'
  <2>1. /\ upstream = "begun" /\ upstream' = "begun" /\ Relay(PolicyDelta(policy, u, kind)) /\ kind \notin NoDeltaKinds
        /\ blocks[u] = [state |-> "open", kind |-> kind] \/ (blocks[u].state = "new" /\ kind # "thinking")
        /\ blocks' = [blocks EXCEPT ![u] = [state |-> "open", kind |-> kind]]
    BY <1>9 DEF BlockDelta, BlockEvent
  <2>2. blocks' \in Blocks
    BY <2>1 DEF NativeInv, Blocks
  <2>3. \A open : Can(nativeClient, <<>>, open, 0 .. policy.next - 1) /\ OpenAs(open, policy, blocks)
                     => Advances(nativeClient, policy, PolicyDelta(policy, u, kind), blocks')
    BY <2>1, PolicyDeltaAdvances DEF NativeInv
  <2> QED BY <2>1, <2>2, <2>3, RelayKeeps
<1>10. ASSUME NEW u \in Upstream, BlockStops(u) PROVE NativeInv'
  <2>1. /\ upstream = "begun" /\ upstream' = "begun" /\ Relay(PolicyStop(policy, u)) /\ blocks[u].state # "new"
        /\ blocks' = [blocks EXCEPT ![u] = [state |-> "stopped", kind |-> blocks[u].kind]]
    BY <1>10 DEF BlockStops, BlockEvent
  <2>2. blocks' \in Blocks
    BY <2>1 DEF NativeInv, Blocks
  <2>3. \A open : Can(nativeClient, <<>>, open, 0 .. policy.next - 1) /\ OpenAs(open, policy, blocks)
                     => Advances(nativeClient, policy, PolicyStop(policy, u), blocks')
    BY <2>1, PolicyStopAdvances DEF NativeInv
  <2> QED BY <2>1, <2>2, <2>3, RelayKeeps
<1> QED BY <1>1, <1>2, <1>3, <1>4, <1>5, <1>6, <1>7, <1>8, <1>9, <1>10 DEF NativeNext

\* Whatever the upstream's blocks do, and wherever its connection breaks, the
\* client sees a stream that obeys the contract, and no hidden block.
THEOREM NativeContractCorrect == NativeSpec => NativeContract
<1>1. NativeInit => NativeClient!Init
  BY SameContract DEF NativeInit, NativeClient!Init
<1>2. NativeInv /\ [NativeNext]_nativeVars => [NativeClient!Next]_nativeClient
  <2> SUFFICES ASSUME NativeInv, NativeNext, nativeClient' # nativeClient PROVE NativeClient!Next
    BY DEF nativeVars
  <2>1. NativeReceive \/ NativeEnd
    BY DEF NativeNext, UpstreamBegins, UpstreamStops, UpstreamFails, UpstreamCloses, BlockStops, BlockStarts, BlockDelta, Relay
  <2>2. CASE NativeReceive
    <3>1. out # <<>> /\ nativeClient' = After(nativeClient, Head(out)) /\ out \in Seq(Events) /\ upstream # "idle"
      BY <2>2 DEF NativeReceive, NativeInv
    <3>2. IsClient(nativeClient) /\ Head(out) \in Events /\ Tail(out) \in Seq(Events)
      BY <3>1, CanReceive DEF NativeInv
    <3>3. nativeClient.over = "no"
      BY <3>1 DEF NativeInv
    <3>4. Legal(nativeClient, Head(out))
      BY <3>1, <3>3, CanReceive DEF NativeInv
    <3>5. nativeClient'.last = Head(out)
      BY <3>1, <3>2, AfterFields
    <3>6. Head(out).type \in NativeClient!EventTypes
      BY <3>2 DEF Events, NativeClient!EventTypes
    <3> QED BY <3>1, <3>4, <3>5, <3>6, SameContract DEF NativeClient!Next, NativeClient!Receive
  <2>3. CASE NativeEnd
    <3>1. Complete(nativeClient)
      BY <2>3, CanNow DEF NativeEnd, NativeInv
    <3> QED BY <2>3, <3>1, SameContract DEF NativeEnd, NativeClient!Next, NativeClient!Ends
  <2> QED BY <2>1, <2>2, <2>3
<1>3. NativeInv => ThinkingHidden
  BY DEF NativeInv, ThinkingHidden, Hidden
<1> QED BY <1>1, <1>2, <1>3, NativeInitInv, NativeStep, PTL DEF NativeSpec, NativeContract, NativeClient!Spec

-----------------------------------------------------------------------------
(* The OpenAI stream.                                                      *)

ToolStates == [block : Int, name : Seq(Pieces), shown : Seq(Pieces), started : BOOLEAN, held : Nat, sent : BOOLEAN,
               pre : Nat, got : Nat, gave : Nat]
ToolMaps == UNION {[D -> ToolStates] : D \in SUBSET Tools}
Builders == [next : Nat, thinking : Int, text : Int, thinkingOn : BOOLEAN, textOn : BOOLEAN, tools : ToolMaps,
             wroteText : BOOLEAN, heuristic : BOOLEAN, out : Seq(Events)]

\* The client has open the blocks that the builder thinks are open.
Fits(open, b) ==
    /\ b.thinkingOn => b.thinking \in 0 .. b.next - 1 /\ b.thinking \in DOMAIN open /\ open[b.thinking] = "thinking"
    /\ b.textOn => b.text \in 0 .. b.next - 1 /\ b.text \in DOMAIN open /\ open[b.text] = "text"
    /\ \A j \in DOMAIN b.tools : b.tools[j].started =>
          b.tools[j].block \in 0 .. b.next - 1 /\ b.tools[j].block \in DOMAIN open /\ open[b.tools[j].block] = "tool_use"
    /\ \A i \in DOMAIN open : \/ b.thinkingOn /\ i = b.thinking
                              \/ b.textOn /\ i = b.text
                              \/ \E j \in DOMAIN b.tools : b.tools[j].started /\ i = b.tools[j].block

Consistent(b) == (b.wroteText => b.text # None) /\ (b.text # None \/ b.thinking # None => b.next # 0)

Good(c, b) ==
    /\ b \in Builders /\ Consistent(b)
    /\ \E open : Can(c, b.out, open, 0 .. b.next - 1) /\ Fits(open, b)

\* A block that is open or was, however it changed otherwise.
Keeps(r, b) ==
    /\ r.tools = b.tools /\ (b.text # None => r.text # None) /\ (b.heuristic => r.heuristic)

LEMMA ToolMapFields ==
  ASSUME NEW m
  PROVE  m \in ToolMaps <=> /\ DOMAIN m \subseteq Tools /\ m = [i \in DOMAIN m |-> m[i]]
                            /\ \A i \in DOMAIN m : m[i] \in ToolStates
<1>1. ASSUME m \in ToolMaps
      PROVE  DOMAIN m \subseteq Tools /\ m = [i \in DOMAIN m |-> m[i]] /\ \A i \in DOMAIN m : m[i] \in ToolStates
  <2>1. PICK D \in SUBSET Tools : m \in [D -> ToolStates] BY <1>1 DEF ToolMaps
  <2> HIDE DEF ToolStates
  <2> QED BY <2>1
<1>2. ASSUME DOMAIN m \subseteq Tools, m = [i \in DOMAIN m |-> m[i]], \A i \in DOMAIN m : m[i] \in ToolStates
      PROVE  m \in ToolMaps
  <2>1. m \in [DOMAIN m -> ToolStates] BY <1>2
  <2> QED BY <2>1, <1>2 DEF ToolMaps
<1> QED BY <1>1, <1>2

\* What emitting an event does to the builder.
LEMMA EmitFields ==
  ASSUME NEW b \in Builders, NEW e \in Events
  PROVE  LET r == Emit(b, e)
         IN  /\ r \in Builders /\ r.out = b.out \o <<e>> /\ r.next = b.next /\ r.thinking = b.thinking /\ r.text = b.text
             /\ r.thinkingOn = b.thinkingOn /\ r.textOn = b.textOn /\ r.tools = b.tools
             /\ r.wroteText = b.wroteText /\ r.heuristic = b.heuristic
<1>1. b.out \in Seq(Events) BY DEF Builders
<1>2. Append(b.out, e) = b.out \o <<e>> /\ Append(b.out, e) \in Seq(Events) BY <1>1
<1> DEFINE s == Append(b.out, e)
<1>3. Emit(b, e) = [b EXCEPT !.out = s] BY DEF Emit
<1> HIDE DEF s
<1>4. s \in Seq(Events) /\ s = b.out \o <<e>> BY <1>2 DEF s
<1> QED BY <1>3, <1>4 DEF Builders

\* All but what is yielded.
SameFields(r, d) ==
    /\ r.next = d.next /\ r.thinking = d.thinking /\ r.text = d.text
    /\ r.thinkingOn = d.thinkingOn /\ r.textOn = d.textOn /\ r.tools = d.tools
    /\ r.wroteText = d.wroteText /\ r.heuristic = d.heuristic

\* The builder has a block of this kind open.
HasBlock(b, i, kind) ==
    \/ kind = "thinking" /\ b.thinkingOn /\ i = b.thinking
    \/ kind = "text" /\ b.textOn /\ i = b.text
    \/ kind = "tool_use" /\ \E j \in DOMAIN b.tools : b.tools[j].started /\ i = b.tools[j].block

\* A delta for a block that is open.
LEMMA DeltaGood ==
  ASSUME NEW c, NEW b, Good(c, b), NEW i, NEW kind, HasBlock(b, i, kind)
  PROVE  LET r == Emit(b, Delta(i, kind))
         IN  Good(c, r) /\ SameFields(r, b)
<1> DEFINE e == Delta(i, kind)
           r == Emit(b, e)
<1>1. PICK open : Can(c, b.out, open, 0 .. b.next - 1) /\ Fits(open, b)
  BY DEF Good
<1>2. i \in Nat /\ i \in DOMAIN open /\ open[i] = kind /\ b.out \in Seq(Events)
  BY <1>1 DEF HasBlock, Fits, Good, Builders
<1>3. kind \in Kinds /\ kind \notin NoDeltaKinds
  BY DEF HasBlock, Kinds, NoDeltaKinds
<1>4. Can(c, b.out \o <<e>>, open, 0 .. b.next - 1)
  BY <1>1, <1>2, <1>3, CanDelta
<1>5. e \in Events
  BY <1>2, <1>3, EventFields
<1> HIDE DEF e
<1>6. /\ r \in Builders /\ r.out = b.out \o <<e>> /\ r.next = b.next /\ r.thinking = b.thinking /\ r.text = b.text
      /\ r.thinkingOn = b.thinkingOn /\ r.textOn = b.textOn /\ r.tools = b.tools
      /\ r.wroteText = b.wroteText /\ r.heuristic = b.heuristic
  BY <1>5, EmitFields DEF Good
<1> HIDE DEF r
<1>7. Fits(open, r)
  BY <1>1, <1>6 DEF Fits
<1>8. Good(c, r)
  BY <1>4, <1>6, <1>7 DEF Good, Consistent
<1>9. SameFields(r, b)
  BY <1>6 DEF SameFields
<1> QED BY <1>8, <1>9 DEF r, e

LEMMA StopThinkingGood ==
  ASSUME NEW c, NEW b, Good(c, b)
  PROVE  LET r == StopThinking(b)
         IN  /\ Good(c, r) /\ Keeps(r, b) /\ ~r.thinkingOn /\ r.textOn = b.textOn /\ r.next = b.next
             /\ r.wroteText = b.wroteText /\ r.text = b.text /\ r.thinking = b.thinking /\ r.heuristic = b.heuristic
<1>1. CASE ~b.thinkingOn
  BY <1>1 DEF StopThinking, Keeps
<1>2. CASE b.thinkingOn
  <2> DEFINE i == b.thinking
             e == Stop(i)
             d == [b EXCEPT !.thinkingOn = FALSE]
             r == Emit(d, e)
  <2>0. StopThinking(b) = r
    BY <1>2 DEF StopThinking
  <2>1. PICK open : Can(c, b.out, open, 0 .. b.next - 1) /\ Fits(open, b)
    BY DEF Good
  <2>2. i \in Nat /\ i \in DOMAIN open /\ open[i] = "thinking" /\ b.out \in Seq(Events)
    BY <1>2, <2>1 DEF Fits, Good, Builders
  <2>3. e \in Events
    BY <2>2, EventFields
  <2>4. Can(c, b.out \o <<e>>, WithoutBlock(open, i), 0 .. b.next - 1)
    BY <2>1, <2>2, CanStop
  <2>5. /\ d \in Builders /\ d.out = b.out /\ d.next = b.next /\ d.thinking = b.thinking /\ d.text = b.text
        /\ d.thinkingOn = FALSE /\ d.textOn = b.textOn /\ d.tools = b.tools
        /\ d.wroteText = b.wroteText /\ d.heuristic = b.heuristic
    BY DEF Good, Builders
  <2> HIDE DEF d, e
  <2>b. /\ r \in Builders /\ r.out = d.out \o <<e>> /\ r.next = d.next /\ r.thinking = d.thinking /\ r.text = d.text
        /\ r.thinkingOn = d.thinkingOn /\ r.textOn = d.textOn /\ r.tools = d.tools
        /\ r.wroteText = d.wroteText /\ r.heuristic = d.heuristic
    BY <2>3, <2>5, EmitFields
  <2> HIDE DEF r
  <2>6. /\ r \in Builders /\ r.out = b.out \o <<e>> /\ r.next = b.next /\ r.thinking = b.thinking /\ r.text = b.text
        /\ r.thinkingOn = FALSE /\ r.textOn = b.textOn /\ r.tools = b.tools
        /\ r.wroteText = b.wroteText /\ r.heuristic = b.heuristic
    BY <2>5, <2>b
  <2> DEFINE left == WithoutBlock(open, i)
  <2>a. DOMAIN left = DOMAIN open \ {i} /\ \A k \in DOMAIN left : left[k] = open[k]
    BY DEF WithoutBlock
  <2> HIDE DEF left
  <2>7. Fits(left, r)
    <3>1. b.textOn => b.text \in 0 .. b.next - 1 /\ b.text \in DOMAIN left /\ left[b.text] = "text"
      BY <2>1, <2>2, <2>a DEF Fits
    <3>2. \A j \in DOMAIN b.tools : b.tools[j].started =>
             b.tools[j].block \in 0 .. b.next - 1 /\ b.tools[j].block \in DOMAIN left /\ left[b.tools[j].block] = "tool_use"
      BY <2>1, <2>2, <2>a DEF Fits
    <3>3. \A k \in DOMAIN left : (b.textOn /\ k = b.text) \/ \E j \in DOMAIN b.tools : b.tools[j].started /\ k = b.tools[j].block
      BY <2>1, <2>a DEF Fits
    <3> QED BY <2>6, <3>1, <3>2, <3>3 DEF Fits
  <2>8. Good(c, r)
    BY <2>4, <2>6, <2>7 DEF Good, Consistent, left
  <2> QED BY <2>0, <2>6, <2>8 DEF Keeps
<1> QED BY <1>1, <1>2 DEF Good, Builders

LEMMA StopTextGood ==
  ASSUME NEW c, NEW b, Good(c, b)
  PROVE  LET r == StopText(b)
         IN  /\ Good(c, r) /\ Keeps(r, b) /\ ~r.textOn /\ r.thinkingOn = b.thinkingOn /\ r.next = b.next
             /\ r.wroteText = b.wroteText /\ r.text = b.text /\ r.thinking = b.thinking /\ r.heuristic = b.heuristic
<1>1. CASE ~b.textOn
  BY <1>1 DEF StopText, Keeps
<1>2. CASE b.textOn
  <2> DEFINE i == b.text
             e == Stop(i)
             d == [b EXCEPT !.textOn = FALSE]
             r == Emit(d, e)
  <2>0. StopText(b) = r
    BY <1>2 DEF StopText
  <2>1. PICK open : Can(c, b.out, open, 0 .. b.next - 1) /\ Fits(open, b)
    BY DEF Good
  <2>2. i \in Nat /\ i \in DOMAIN open /\ open[i] = "text" /\ b.out \in Seq(Events)
    BY <1>2, <2>1 DEF Fits, Good, Builders
  <2>3. e \in Events
    BY <2>2, EventFields
  <2>4. Can(c, b.out \o <<e>>, WithoutBlock(open, i), 0 .. b.next - 1)
    BY <2>1, <2>2, CanStop
  <2>5. /\ d \in Builders /\ d.out = b.out /\ d.next = b.next /\ d.thinking = b.thinking /\ d.text = b.text
        /\ d.thinkingOn = b.thinkingOn /\ d.textOn = FALSE /\ d.tools = b.tools
        /\ d.wroteText = b.wroteText /\ d.heuristic = b.heuristic
    BY DEF Good, Builders
  <2> HIDE DEF d, e
  <2>b. /\ r \in Builders /\ r.out = d.out \o <<e>> /\ r.next = d.next /\ r.thinking = d.thinking /\ r.text = d.text
        /\ r.thinkingOn = d.thinkingOn /\ r.textOn = d.textOn /\ r.tools = d.tools
        /\ r.wroteText = d.wroteText /\ r.heuristic = d.heuristic
    BY <2>3, <2>5, EmitFields
  <2> HIDE DEF r
  <2>6. /\ r \in Builders /\ r.out = b.out \o <<e>> /\ r.next = b.next /\ r.thinking = b.thinking /\ r.text = b.text
        /\ r.thinkingOn = b.thinkingOn /\ r.textOn = FALSE /\ r.tools = b.tools
        /\ r.wroteText = b.wroteText /\ r.heuristic = b.heuristic
    BY <2>5, <2>b
  <2> DEFINE left == WithoutBlock(open, i)
  <2>a. DOMAIN left = DOMAIN open \ {i} /\ \A k \in DOMAIN left : left[k] = open[k]
    BY DEF WithoutBlock
  <2> HIDE DEF left
  <2>7. Fits(left, r)
    <3>1. b.thinkingOn => b.thinking \in 0 .. b.next - 1 /\ b.thinking \in DOMAIN left /\ left[b.thinking] = "thinking"
      BY <2>1, <2>2, <2>a DEF Fits
    <3>2. \A j \in DOMAIN b.tools : b.tools[j].started =>
             b.tools[j].block \in 0 .. b.next - 1 /\ b.tools[j].block \in DOMAIN left /\ left[b.tools[j].block] = "tool_use"
      BY <2>1, <2>2, <2>a DEF Fits
    <3>3. \A k \in DOMAIN left : (b.thinkingOn /\ k = b.thinking) \/ \E j \in DOMAIN b.tools : b.tools[j].started /\ k = b.tools[j].block
      BY <2>1, <2>a DEF Fits
    <3> QED BY <2>6, <3>1, <3>2, <3>3 DEF Fits
  <2>8. Good(c, r)
    BY <2>4, <2>6, <2>7 DEF Good, Consistent, left
  <2> QED BY <2>0, <2>6, <2>8 DEF Keeps
<1> QED BY <1>1, <1>2 DEF Good, Builders

\* The range of indexes grows by one.
LEMMA OneMoreIndex ==
  ASSUME NEW n \in Nat
  PROVE  /\ n \in Nat \ (0 .. n - 1) /\ (0 .. n - 1) \cup {n} = 0 .. (n + 1) - 1 /\ n \in 0 .. (n + 1) - 1
         /\ \A i \in 0 .. n - 1 : i \in 0 .. (n + 1) - 1 /\ i # n
  OBVIOUS

\* A block starts with the next index: d is the builder that knows of it.
Begins(b, d, kind) ==
    /\ d \in Builders /\ d.out = b.out /\ d.next = b.next + 1 /\ Consistent(d)
    /\ \A open : Fits(open, b) => Fits(WithBlock(open, b.next, kind), d)

LEMMA StartGood ==
  ASSUME NEW c, NEW b, Good(c, b), NEW d, NEW kind \in Kinds, Begins(b, d, kind)
  PROVE  LET r == Emit(d, Start(b.next, kind))
         IN  Good(c, r) /\ SameFields(r, d)
<1> DEFINE n == b.next
           e == Start(n, kind)
           r == Emit(d, e)
           S == 0 .. n - 1
<1>1. PICK open : Can(c, b.out, open, 0 .. b.next - 1) /\ Fits(open, b)
  BY DEF Good
<1>2. n \in Nat /\ b.out \in Seq(Events)
  BY DEF Good, Builders
<1>3. n \in Nat \ S /\ S \cup {n} = 0 .. d.next - 1
  <2>1. d.next = n + 1 BY DEF Begins
  <2> HIDE DEF n
  <2> QED BY <1>2, <2>1, OneMoreIndex
<1>4. e \in Events
  BY <1>2, EventFields
<1>5. Can(c, d.out \o <<e>>, WithBlock(open, n, kind), 0 .. d.next - 1)
  <2>1. Can(c, b.out, open, S) BY <1>1
  <2> HIDE DEF S, n
  <2>2. Can(c, b.out \o <<e>>, WithBlock(open, n, kind), S \cup {n})
    BY <1>2, <1>3, <2>1, CanStart
  <2> HIDE DEF e
  <2>3. d.out = b.out BY DEF Begins
  <2> QED BY <2>2, <2>3, <1>3
<1> HIDE DEF e
<1>6. /\ r \in Builders /\ r.out = d.out \o <<e>> /\ r.next = d.next /\ r.thinking = d.thinking /\ r.text = d.text
      /\ r.thinkingOn = d.thinkingOn /\ r.textOn = d.textOn /\ r.tools = d.tools
      /\ r.wroteText = d.wroteText /\ r.heuristic = d.heuristic
  BY <1>4, EmitFields DEF Begins
<1> HIDE DEF r
<1>7. Fits(WithBlock(open, n, kind), r)
  <2>1. Fits(WithBlock(open, n, kind), d) BY <1>1 DEF Begins
  <2> QED BY <2>1, <1>6 DEF Fits
<1>8. Good(c, r)
  BY <1>5, <1>6, <1>7 DEF Good, Consistent, Begins
<1>9. SameFields(r, d)
  BY <1>6 DEF SameFields
<1> QED BY <1>8, <1>9 DEF r, e

LEMMA StartThinkingGood ==
  ASSUME NEW c, NEW b, Good(c, b), ~b.thinkingOn
  PROVE  LET r == StartThinking(b)
         IN  Good(c, r) /\ Keeps(r, b) /\ r.thinkingOn /\ r.textOn = b.textOn /\ r.thinking # None /\ r.text = b.text
<1> DEFINE n == b.next
           m == n + 1
           d == [b EXCEPT !.thinking = n, !.next = m, !.thinkingOn = TRUE]
           r == Emit(d, Start(n, "thinking"))
<1>0. n \in Nat /\ n + 1 \in Nat /\ n # None
  BY DEF Good, Builders, None
<1>a. n = b.next /\ m = n + 1
  OBVIOUS
<1> HIDE DEF n, m
<1>1. /\ d \in Builders /\ d.out = b.out /\ d.next = m /\ d.thinking = n /\ d.text = b.text
      /\ d.thinkingOn = TRUE /\ d.textOn = b.textOn /\ d.tools = b.tools
      /\ d.wroteText = b.wroteText /\ d.heuristic = b.heuristic
  <2>1. b \in Builders /\ m \in Nat /\ n \in Int BY <1>0, <1>a DEF Good
  <2> QED BY <2>1 DEF Builders
<1> HIDE DEF d
<1>2. ASSUME NEW open, Fits(open, b) PROVE Fits(WithBlock(open, n, "thinking"), d)
  <2> DEFINE w == WithBlock(open, n, "thinking")
  <2>1. n \in 0 .. (n + 1) - 1 /\ \A i \in 0 .. n - 1 : i \in 0 .. (n + 1) - 1 /\ i # n
    BY <1>0, OneMoreIndex
  <2>2. DOMAIN w = DOMAIN open \cup {n} /\ w[n] = "thinking" /\ \A i \in DOMAIN open : i # n => w[i] = open[i]
    BY DEF WithBlock
  <2> HIDE DEF w
  <2>3. b.textOn => b.text \in 0 .. (n + 1) - 1 /\ b.text \in DOMAIN w /\ w[b.text] = "text"
    BY <1>2, <1>a, <2>1, <2>2 DEF Fits
  <2>4. \A j \in DOMAIN b.tools : b.tools[j].started =>
           b.tools[j].block \in 0 .. (n + 1) - 1 /\ b.tools[j].block \in DOMAIN w /\ w[b.tools[j].block] = "tool_use"
    BY <1>2, <1>a, <2>1, <2>2 DEF Fits
  <2>5. \A i \in DOMAIN w : \/ i = n
                            \/ b.textOn /\ i = b.text
                            \/ \E j \in DOMAIN b.tools : b.tools[j].started /\ i = b.tools[j].block
    BY <1>2, <1>a, <2>2 DEF Fits
  <2>6. n \in 0 .. (n + 1) - 1 /\ n \in DOMAIN w /\ w[n] = "thinking"
    BY <2>1, <2>2
  <2>7. Fits(w, d)
    BY <1>1, <1>a, <2>3, <2>4, <2>5, <2>6 DEF Fits
  <2> QED BY <2>7 DEF w
<1>3. "thinking" \in Kinds /\ Consistent(d)
  BY <1>0, <1>1, <1>a DEF Kinds, Good, Consistent
<1>4. /\ Good(c, r) /\ r.next = d.next /\ r.thinking = d.thinking /\ r.text = d.text
      /\ r.thinkingOn = d.thinkingOn /\ r.textOn = d.textOn /\ r.tools = d.tools
      /\ r.wroteText = d.wroteText /\ r.heuristic = d.heuristic
  <2>1. Begins(b, d, "thinking") BY <1>1, <1>2, <1>3, <1>a DEF Begins
  <2>2. Good(c, Emit(d, Start(b.next, "thinking"))) /\ SameFields(Emit(d, Start(b.next, "thinking")), d)
    BY <2>1, <1>3, StartGood
  <2> QED BY <2>2, <1>a DEF SameFields
<1>5. StartThinking(b) = r
  BY <1>a DEF StartThinking, d
<1> HIDE DEF r
<1> QED BY <1>0, <1>1, <1>4, <1>5 DEF Keeps

LEMMA StartTextGood ==
  ASSUME NEW c, NEW b, Good(c, b), ~b.textOn
  PROVE  LET r == StartText(b)
         IN  Good(c, r) /\ Keeps(r, b) /\ r.textOn /\ r.thinkingOn = b.thinkingOn /\ r.text # None
<1> DEFINE n == b.next
           m == n + 1
           d == [b EXCEPT !.text = n, !.next = m, !.textOn = TRUE]
           r == Emit(d, Start(n, "text"))
<1>0. n \in Nat /\ n + 1 \in Nat /\ n # None
  BY DEF Good, Builders, None
<1>a. n = b.next /\ m = n + 1
  OBVIOUS
<1> HIDE DEF n, m
<1>1. /\ d \in Builders /\ d.out = b.out /\ d.next = m /\ d.thinking = b.thinking /\ d.text = n
      /\ d.thinkingOn = b.thinkingOn /\ d.textOn = TRUE /\ d.tools = b.tools
      /\ d.wroteText = b.wroteText /\ d.heuristic = b.heuristic
  <2>1. b \in Builders /\ m \in Nat /\ n \in Int BY <1>0, <1>a DEF Good
  <2> QED BY <2>1 DEF Builders
<1> HIDE DEF d
<1>2. ASSUME NEW open, Fits(open, b) PROVE Fits(WithBlock(open, n, "text"), d)
  <2> DEFINE w == WithBlock(open, n, "text")
  <2>1. n \in 0 .. (n + 1) - 1 /\ \A i \in 0 .. n - 1 : i \in 0 .. (n + 1) - 1 /\ i # n
    BY <1>0, OneMoreIndex
  <2>2. DOMAIN w = DOMAIN open \cup {n} /\ w[n] = "text" /\ \A i \in DOMAIN open : i # n => w[i] = open[i]
    BY DEF WithBlock
  <2> HIDE DEF w
  <2>3. b.thinkingOn => b.thinking \in 0 .. (n + 1) - 1 /\ b.thinking \in DOMAIN w /\ w[b.thinking] = "thinking"
    BY <1>2, <1>a, <2>1, <2>2 DEF Fits
  <2>4. \A j \in DOMAIN b.tools : b.tools[j].started =>
           b.tools[j].block \in 0 .. (n + 1) - 1 /\ b.tools[j].block \in DOMAIN w /\ w[b.tools[j].block] = "tool_use"
    BY <1>2, <1>a, <2>1, <2>2 DEF Fits
  <2>5. \A i \in DOMAIN w : \/ b.thinkingOn /\ i = b.thinking
                            \/ i = n
                            \/ \E j \in DOMAIN b.tools : b.tools[j].started /\ i = b.tools[j].block
    BY <1>2, <1>a, <2>2 DEF Fits
  <2>6. n \in 0 .. (n + 1) - 1 /\ n \in DOMAIN w /\ w[n] = "text"
    BY <2>1, <2>2
  <2>7. Fits(w, d)
    BY <1>1, <1>a, <2>3, <2>4, <2>5, <2>6 DEF Fits
  <2> QED BY <2>7 DEF w
<1>3. "text" \in Kinds /\ Consistent(d)
  BY <1>0, <1>1, <1>a DEF Kinds, Good, Consistent
<1>4. /\ Good(c, r) /\ r.next = d.next /\ r.thinking = d.thinking /\ r.text = d.text
      /\ r.thinkingOn = d.thinkingOn /\ r.textOn = d.textOn /\ r.tools = d.tools
      /\ r.wroteText = d.wroteText /\ r.heuristic = d.heuristic
  <2>1. Begins(b, d, "text") BY <1>1, <1>2, <1>3, <1>a DEF Begins
  <2>2. Good(c, Emit(d, Start(b.next, "text"))) /\ SameFields(Emit(d, Start(b.next, "text")), d)
    BY <2>1, <1>3, StartGood
  <2> QED BY <2>2, <1>a DEF SameFields
<1>5. StartText(b) = r
  BY <1>a DEF StartText, d
<1> HIDE DEF r
<1> QED BY <1>0, <1>1, <1>4, <1>5 DEF Keeps

LEMMA WriteThinkingGood ==
  ASSUME NEW c, NEW b, Good(c, b)
  PROVE  Good(c, WriteThinking(b)) /\ Keeps(WriteThinking(b), b)
<1> DEFINE a == StopText(b)
           d == IF a.thinkingOn THEN a ELSE StartThinking(a)
           r == Emit(d, Delta(d.thinking, "thinking"))
<1>1. Good(c, a) /\ Keeps(a, b)
  BY StopTextGood
<1> HIDE DEF a
<1>2. Good(c, d) /\ Keeps(d, a) /\ d.thinkingOn
  BY <1>1, StartThinkingGood DEF Keeps
<1> HIDE DEF d
<1>3. Good(c, r) /\ r.tools = d.tools /\ r.text = d.text /\ r.heuristic = d.heuristic
  <2>1. HasBlock(d, d.thinking, "thinking") BY <1>2 DEF HasBlock
  <2> QED BY <1>2, <2>1, DeltaGood DEF SameFields
<1>4. WriteThinking(b) = r
  BY DEF WriteThinking, EnsureThinking, a, d
<1> HIDE DEF r
<1> QED BY <1>1, <1>2, <1>3, <1>4 DEF Keeps

LEMMA WriteTextGood ==
  ASSUME NEW c, NEW b, Good(c, b), NEW blank \in BOOLEAN
  PROVE  Good(c, WriteText(b, blank)) /\ Keeps(WriteText(b, blank), b) /\ WriteText(b, blank).text # None
<1> DEFINE a == StopThinking(b)
           d == IF a.textOn THEN a ELSE StartText(a)
           w == d.wroteText \/ ~blank
           f == [d EXCEPT !.wroteText = w]
           r == Emit(f, Delta(d.text, "text"))
<1>1. Good(c, a) /\ Keeps(a, b)
  BY StopThinkingGood
<1> HIDE DEF a
<1>2. Good(c, d) /\ Keeps(d, a) /\ d.textOn
  BY <1>1, StartTextGood DEF Keeps
<1>3. d.text # None
  BY <1>2 DEF Good, Fits, None, Builders
<1> HIDE DEF d
<1>4. /\ f \in Builders /\ f.out = d.out /\ f.next = d.next /\ f.thinking = d.thinking /\ f.text = d.text
      /\ f.thinkingOn = d.thinkingOn /\ f.textOn = d.textOn /\ f.tools = d.tools /\ f.heuristic = d.heuristic
  <2>1. w \in BOOLEAN BY <1>2 DEF Good, Builders
  <2> HIDE DEF w
  <2> QED BY <1>2, <2>1 DEF Good, Builders
<1>a. [d EXCEPT !.wroteText = @ \/ ~blank] = f
  OBVIOUS
<1> HIDE DEF f
<1>5. Good(c, f)
  <2>1. PICK open : Can(c, d.out, open, 0 .. d.next - 1) /\ Fits(open, d) BY <1>2 DEF Good
  <2>2. Fits(open, f) BY <1>4, <2>1 DEF Fits
  <2> QED BY <1>2, <1>3, <1>4, <2>1, <2>2 DEF Good, Consistent
<1>6. Good(c, r) /\ r.tools = f.tools /\ r.text = f.text /\ r.heuristic = f.heuristic
  <2>1. HasBlock(f, d.text, "text") BY <1>2, <1>4 DEF HasBlock
  <2> QED BY <1>5, <2>1, DeltaGood DEF SameFields
<1>7. WriteText(b, blank) = r
  BY <1>a DEF WriteText, EnsureText, a, d
<1> HIDE DEF r
<1> QED BY <1>1, <1>2, <1>3, <1>4, <1>6, <1>7 DEF Keeps

LEMMA CloseContentGood ==
  ASSUME NEW c, NEW b, Good(c, b)
  PROVE  LET r == CloseContentBlocks(b) IN Good(c, r) /\ Keeps(r, b) /\ ~r.thinkingOn /\ ~r.textOn
<1> DEFINE a == StopThinking(b)
           r == StopText(a)
<1>1. Good(c, a) /\ Keeps(a, b) /\ ~a.thinkingOn
  BY StopThinkingGood
<1> HIDE DEF a
<1>2. Good(c, r) /\ Keeps(r, a) /\ ~r.textOn /\ r.thinkingOn = a.thinkingOn
  BY <1>1, StopTextGood
<1>3. CloseContentBlocks(b) = r
  BY DEF CloseContentBlocks, a
<1> HIDE DEF r
<1> QED BY <1>1, <1>2, <1>3 DEF Keeps

LEMMA HeuristicToolGood ==
  ASSUME NEW c, NEW b, Good(c, b)
  PROVE  LET r == HeuristicTool(b) IN Good(c, r) /\ Keeps(r, b) /\ r.heuristic
<1> DEFINE a == CloseContentBlocks(b)
           n == a.next
           m == n + 1
           s == a.out \o <<Start(n, "tool_use"), Delta(n, "tool_use"), Stop(n)>>
           r == [a EXCEPT !.next = m, !.heuristic = TRUE, !.out = s]
<1>1. Good(c, a) /\ Keeps(a, b) /\ ~a.thinkingOn /\ ~a.textOn
  BY CloseContentGood
<1>2. HeuristicTool(b) = r
  BY DEF HeuristicTool
<1> HIDE DEF a
<1>3. PICK open : Can(c, a.out, open, 0 .. a.next - 1) /\ Fits(open, a)
  BY <1>1 DEF Good
<1>4. n \in Nat /\ a.out \in Seq(Events) /\ a \in Builders
  BY <1>1 DEF Good, Builders
<1>5. n = a.next /\ m = n + 1 /\ m \in Nat
  BY <1>4
<1> HIDE DEF n, m
<1> DEFINE S == 0 .. n - 1
           w == WithoutBlock(WithBlock(open, n, "tool_use"), n)
<1>6. n \in Nat \ S /\ S \cup {n} = 0 .. m - 1
  BY <1>4, <1>5, OneMoreIndex
<1>7. s \in Seq(Events) /\ Can(c, s, w, 0 .. m - 1)
  <2>1. "tool_use" \in Kinds \ NoDeltaKinds BY DEF Kinds, NoDeltaKinds
  <2>2. Can(c, a.out, open, S) BY <1>3, <1>5
  <2> HIDE DEF S
  <2>3. s \in Seq(Events) /\ Can(c, s, w, S \cup {n}) BY <1>4, <1>6, <2>1, <2>2, CanBlock
  <2> HIDE DEF s, w
  <2> QED BY <2>3, <1>6
<1> HIDE DEF s
<1>8. /\ r \in Builders /\ r.next = m /\ r.out = s /\ r.thinking = a.thinking /\ r.text = a.text
      /\ ~r.thinkingOn /\ ~r.textOn /\ r.tools = a.tools /\ r.wroteText = a.wroteText /\ r.heuristic
  BY <1>1, <1>4, <1>5, <1>7 DEF Builders
<1> HIDE DEF r
<1>9. Fits(w, r)
  <2>1. DOMAIN w = DOMAIN open \ {n} /\ \A i \in DOMAIN open : i # n => w[i] = open[i]
    BY DEF WithBlock, WithoutBlock
  <2>2. \A i \in 0 .. n - 1 : i \in 0 .. m - 1 /\ i # n
    BY <1>4, <1>5
  <2> HIDE DEF w
  <2>3. \A j \in DOMAIN a.tools : a.tools[j].started =>
           a.tools[j].block \in 0 .. m - 1 /\ a.tools[j].block \in DOMAIN w /\ w[a.tools[j].block] = "tool_use"
    BY <1>3, <1>5, <2>1, <2>2 DEF Fits
  <2>4. \A i \in DOMAIN w : \E j \in DOMAIN a.tools : a.tools[j].started /\ i = a.tools[j].block
    BY <1>1, <1>3, <2>1 DEF Fits
  <2> QED BY <1>8, <2>3, <2>4 DEF Fits
<1>10. Consistent(r)
  BY <1>1, <1>4, <1>5, <1>8 DEF Good, Consistent
<1>11. Good(c, r) /\ Keeps(r, b) /\ r.heuristic
  BY <1>1, <1>7, <1>8, <1>9, <1>10 DEF Good, Keeps
<1> QED BY <1>2, <1>11

\* Every block that the builder has open is stopped: nothing is open any more.
Finished(c, r) == r \in Builders /\ \E open : Can(c, r.out, open, 0 .. r.next - 1) /\ DOMAIN open = {}

LEMMA CloseAllFinishes ==
  ASSUME NEW c, NEW b, Good(c, b)
  PROVE  LET r == CloseAllBlocks(b) IN Finished(c, r) /\ Keeps(r, b) /\ (b.next # 0 => r.next # 0)
<1> DEFINE a == CloseContentBlocks(b)
           I == StartedBlocks(b)
           t == SetToSeq({Stop(k) : k \in I})
           s == a.out \o t
           r == [a EXCEPT !.out = s]
<1>1. Good(c, a) /\ Keeps(a, b) /\ ~a.thinkingOn /\ ~a.textOn
  BY CloseContentGood
<1>0. a.next = b.next
  <2> DEFINE d == StopThinking(b)
  <2>1. Good(c, d) /\ d.next = b.next BY StopThinkingGood
  <2> HIDE DEF d
  <2>2. StopText(d).next = d.next BY <2>1, StopTextGood
  <2> QED BY <2>1, <2>2 DEF CloseContentBlocks, d
<1>2. CloseAllBlocks(b) = r
  BY DEF CloseAllBlocks
<1> HIDE DEF a
<1>3. PICK open : Can(c, a.out, open, 0 .. a.next - 1) /\ Fits(open, a)
  BY <1>1 DEF Good
<1>4. a.next \in Nat /\ a.out \in Seq(Events) /\ a \in Builders
  BY <1>1 DEF Good, Builders
<1>5. I = {a.tools[i].block : i \in {j \in DOMAIN a.tools : a.tools[j].started}}
  BY <1>1 DEF StartedBlocks, Keeps
<1>6. I \subseteq DOMAIN open /\ DOMAIN open \subseteq I /\ I \subseteq 0 .. a.next - 1
  BY <1>1, <1>3, <1>5 DEF Fits
<1>7. I \in SUBSET Nat /\ IsFiniteSet(I)
  <2> HIDE DEF I
  <2>1. IsFiniteSet(0 .. a.next - 1) BY <1>4, FS_Interval
  <2>2. I \in SUBSET (0 .. a.next - 1) BY <1>6
  <2>3. IsFiniteSet(I) BY <2>1, <2>2, FS_Subset
  <2> QED BY <2>2, <2>3, <1>4
<1> HIDE DEF I
<1> DEFINE left == [i \in DOMAIN open \ I |-> open[i]]
           seen == 0 .. a.next - 1
<1>8. s \in Seq(Events) /\ Can(c, s, left, seen)
  <2>1. Can(c, a.out, open, seen) BY <1>3
  <2> HIDE DEF seen
  <2> QED BY <1>4, <1>6, <1>7, <2>1, CanStopSet
<1>9. DOMAIN left = {}
  BY <1>6
<1> HIDE DEF s, left
<1>10. /\ r \in Builders /\ r.next = a.next /\ r.out = s /\ r.text = a.text /\ r.tools = a.tools /\ r.heuristic = a.heuristic
  BY <1>4, <1>8 DEF Builders
<1> HIDE DEF r
<1>11. Finished(c, r)
  BY <1>8, <1>9, <1>10 DEF Finished
<1>12. Keeps(r, b)
  BY <1>1, <1>10 DEF Keeps
<1> QED BY <1>0, <1>2, <1>10, <1>11, <1>12

-----------------------------------------------------------------------------
(* Tool calls.                                                             *)

SetTool(b, i, t) == [b EXCEPT !.tools = WithBlock(@, i, t)]

\* r is b after a step of tool call i.
Retooled(r, b, i) ==
    /\ DOMAIN r.tools = DOMAIN b.tools \cup {i} /\ \A j \in DOMAIN b.tools : j # i => r.tools[j] = b.tools[j]
    /\ (b.text # None => r.text # None) /\ (b.heuristic => r.heuristic)

\* A tool call in the builder is that tool call, as far as the client can see.
SameCall(b, i, t) ==
    \/ i \in DOMAIN b.tools /\ t.started = b.tools[i].started /\ t.block = b.tools[i].block
    \/ i \notin DOMAIN b.tools /\ ~t.started

WithToolIs(w, m, i, t) ==
    /\ w \in ToolMaps /\ DOMAIN w = DOMAIN m \cup {i} /\ w[i] = t /\ \A j \in DOMAIN m : j # i => w[j] = m[j]
    /\ i \in DOMAIN m => [m EXCEPT ![i] = t] = w

LEMMA WithTool ==
  ASSUME NEW m \in ToolMaps, NEW i \in Tools, NEW t \in ToolStates
  PROVE  WithToolIs(WithBlock(m, i, t), m, i, t)
<1> DEFINE w == WithBlock(m, i, t)
<1>1. DOMAIN m \subseteq Tools /\ m = [j \in DOMAIN m |-> m[j]] /\ \A j \in DOMAIN m : m[j] \in ToolStates
  BY ToolMapFields
<1>2. /\ DOMAIN w = DOMAIN m \cup {i} /\ w[i] = t /\ (\A j \in DOMAIN m : j # i => w[j] = m[j])
      /\ w = [j \in DOMAIN w |-> w[j]]
  BY DEF WithBlock
<1>3. i \in DOMAIN m => [m EXCEPT ![i] = t] = w
  <2> SUFFICES ASSUME i \in DOMAIN m PROVE [m EXCEPT ![i] = t] = w
    OBVIOUS
  <2>1. DOMAIN m \cup {i} = DOMAIN m OBVIOUS
  <2>2. [m EXCEPT ![i] = t] = [j \in DOMAIN m |-> IF j = i THEN t ELSE m[j]]
    BY <1>1
  <2> QED BY <2>1, <2>2 DEF WithBlock
<1> HIDE DEF w, ToolStates
<1>4. w \in ToolMaps
  <2>1. \A j \in DOMAIN w : w[j] \in ToolStates BY <1>1, <1>2
  <2>2. DOMAIN w \subseteq Tools BY <1>1, <1>2
  <2> QED BY <1>2, <2>1, <2>2, ToolMapFields
<1> QED BY <1>2, <1>3, <1>4 DEF w, WithToolIs

LEMMA SetToolGood ==
  ASSUME NEW c, NEW b, Good(c, b), NEW i \in Tools, NEW t \in ToolStates, SameCall(b, i, t)
  PROVE  LET r == SetTool(b, i, t) IN Good(c, r) /\ Retooled(r, b, i) /\ r.tools[i] = t
<1> DEFINE w == WithBlock(b.tools, i, t)
           r == [b EXCEPT !.tools = w]
<1>1. b \in Builders /\ b.tools \in ToolMaps
  BY DEF Good, Builders
<1>2. /\ w \in ToolMaps /\ DOMAIN w = DOMAIN b.tools \cup {i} /\ w[i] = t
      /\ \A j \in DOMAIN b.tools : j # i => w[j] = b.tools[j]
  <2>1. WithToolIs(w, b.tools, i, t) BY <1>1, WithTool
  <2> HIDE DEF w
  <2> QED BY <2>1 DEF WithToolIs
<1> HIDE DEF w
<1>3. r \in Builders /\ r.tools = w /\ r.out = b.out
  BY <1>1, <1>2 DEF Builders
<1>4. /\ r.next = b.next /\ r.thinking = b.thinking /\ r.text = b.text /\ r.thinkingOn = b.thinkingOn
      /\ r.textOn = b.textOn /\ r.wroteText = b.wroteText /\ r.heuristic = b.heuristic
  BY <1>1 DEF Builders
<1>5. SetTool(b, i, t) = r
  BY DEF SetTool, w
<1> HIDE DEF r
<1>6. PICK open : Can(c, b.out, open, 0 .. b.next - 1) /\ Fits(open, b)
  BY DEF Good
<1>7. Fits(open, r)
  <2>1. \A j \in DOMAIN w : w[j].started => j \in DOMAIN b.tools /\ b.tools[j].started /\ w[j].block = b.tools[j].block
    BY <1>2 DEF SameCall
  <2>2. \A j \in DOMAIN b.tools : b.tools[j].started => w[j].started /\ w[j].block = b.tools[j].block /\ j \in DOMAIN w
    BY <1>2 DEF SameCall
  <2>3. \A k \in DOMAIN open : \/ b.thinkingOn /\ k = b.thinking
                               \/ b.textOn /\ k = b.text
                               \/ \E j \in DOMAIN w : w[j].started /\ k = w[j].block
    BY <1>6, <2>2 DEF Fits
  <2>4. \A j \in DOMAIN w : w[j].started =>
          w[j].block \in 0 .. b.next - 1 /\ w[j].block \in DOMAIN open /\ open[w[j].block] = "tool_use"
    BY <1>6, <2>1 DEF Fits
  <2> QED BY <1>3, <1>4, <1>6, <2>3, <2>4 DEF Fits
<1>8. Good(c, r)
  BY <1>3, <1>4, <1>6, <1>7 DEF Good, Consistent
<1>9. Retooled(r, b, i) /\ r.tools[i] = t
  BY <1>2, <1>3, <1>4 DEF Retooled
<1> QED BY <1>5, <1>8, <1>9

\* One tool call changes.
LEMMA ToolUpdate ==
  ASSUME NEW b \in Builders, NEW i \in DOMAIN b.tools, NEW u \in ToolStates
  PROVE  [b EXCEPT !.tools[i] = u] = SetTool(b, i, u)
<1> DEFINE m == b.tools
<1>1. m \in ToolMaps /\ i \in DOMAIN m
  BY DEF Builders
<1>2. i \in Tools
  BY <1>1, ToolMapFields
<1>3. [m EXCEPT ![i] = u] = WithBlock(m, i, u)
  <2> HIDE DEF m
  <2>1. WithToolIs(WithBlock(m, i, u), m, i, u) BY <1>1, <1>2, WithTool
  <2> QED BY <1>1, <2>1 DEF WithToolIs
<1>4. SetTool(b, i, u) = [b EXCEPT !.tools = WithBlock(m, i, u)]
  BY DEF SetTool
<1> QED BY <1>3, <1>4

LEMMA ToolTypes ==
  ASSUME NEW b \in Builders, NEW i \in DOMAIN b.tools
  PROVE  b.tools[i] \in ToolStates /\ i \in Tools
<1>1. b.tools \in ToolMaps
  BY DEF Builders
<1> QED BY <1>1, ToolMapFields

LEMMA SendArgsGood ==
  ASSUME NEW c, NEW b, Good(c, b), NEW i \in DOMAIN b.tools, b.tools[i].started, NEW n \in Nat
  PROVE  LET r == SendArgs(b, i, n)
         IN  Good(c, r) /\ Retooled(r, b, i) /\ r.tools[i] = [b.tools[i] EXCEPT !.gave = @ + n]
<1> DEFINE t == b.tools[i]
           u == [t EXCEPT !.gave = @ + n]
           d == SetTool(b, i, u)
           r == Emit(d, Delta(t.block, "tool_use"))
<1>0. b \in Builders
  BY DEF Good
<1>1. t \in ToolStates /\ i \in Tools
  BY <1>0, ToolTypes
<1>3. u \in ToolStates /\ u.started = t.started /\ u.block = t.block
  <2> DEFINE g == t.gave + n
  <2>1. g \in Nat /\ u = [t EXCEPT !.gave = g] BY <1>1 DEF ToolStates
  <2> HIDE DEF t, g, u
  <2> QED BY <1>1, <2>1 DEF ToolStates
<1>2. SendArgs(b, i, n) = r
  <2>1. [b EXCEPT !.tools[i] = u] = d BY <1>0, <1>3, ToolUpdate
  <2>2. [b EXCEPT !.tools[i].gave = @ + n] = [b EXCEPT !.tools[i] = u] OBVIOUS
  <2> HIDE DEF d
  <2> QED BY <2>1, <2>2 DEF SendArgs
<1> HIDE DEF u
<1>4. SameCall(b, i, u)
  BY <1>3 DEF SameCall
<1>5. Good(c, d) /\ Retooled(d, b, i) /\ d.tools[i] = u
  BY <1>1, <1>3, <1>4, SetToolGood
<1> HIDE DEF d
<1>6. HasBlock(d, t.block, "tool_use")
  BY <1>3, <1>5 DEF HasBlock, Retooled
<1>7. Good(c, r) /\ SameFields(r, d)
  BY <1>5, <1>6, DeltaGood
<1> HIDE DEF r
<1>8. Retooled(r, b, i) /\ r.tools[i] = u
  BY <1>5, <1>7 DEF Retooled, SameFields
<1> QED BY <1>2, <1>7, <1>8 DEF u

\* What n pieces of arguments do to a tool call whose block was started.
ArgsStep(t, u, n) ==
    /\ u \in ToolStates /\ u.block = t.block /\ u.started = t.started /\ u.name = t.name /\ u.shown = t.shown
    /\ u.pre = t.pre /\ u.got = t.got
    /\ IF t.name # Task THEN u.gave = t.gave + n /\ u.held = t.held /\ u.sent = t.sent
       ELSE IF t.sent \/ n = 0 THEN u.gave = t.gave /\ u.held = t.held /\ u.sent = t.sent
       ELSE IF t.held + n < Whole THEN u.gave = t.gave /\ u.held = t.held + n /\ u.sent = t.sent
       ELSE u.gave = t.gave + (t.held + n) /\ u.held = 0 /\ u.sent

LEMMA EmitArgsGood ==
  ASSUME NEW c, NEW b, Good(c, b), NEW i \in DOMAIN b.tools, b.tools[i].started, NEW n \in Nat
  PROVE  LET r == EmitToolArgDelta(b, i, n)
         IN  Good(c, r) /\ Retooled(r, b, i) /\ ArgsStep(b.tools[i], r.tools[i], n)
<1> DEFINE t == b.tools[i]
           r == EmitToolArgDelta(b, i, n)
<1>0. b \in Builders
  BY DEF Good
<1>1. t \in ToolStates /\ i \in Tools /\ t.held \in Nat /\ t.gave \in Nat
  BY <1>0, ToolTypes DEF ToolStates
<1>2. CASE n = 0 \/ (t.name = Task /\ t.sent)
  <2>1. r = b BY <1>2 DEF EmitToolArgDelta
  <2>2. Retooled(b, b, i) BY DEF Retooled
  <2>3. t.gave + 0 = t.gave BY <1>1
  <2> HIDE DEF r
  <2>4. ArgsStep(t, t, n)
    <3> HIDE DEF t
    <3> QED BY <1>1, <1>2, <2>3 DEF ArgsStep
  <2> QED BY <2>1, <2>2, <2>4 DEF r
<1>3. CASE n # 0 /\ t.name # Task
  <2>1. r = SendArgs(b, i, n) BY <1>3 DEF EmitToolArgDelta
  <2> HIDE DEF r
  <2>2. Good(c, r) /\ Retooled(r, b, i) /\ r.tools[i] = [t EXCEPT !.gave = @ + n]
    BY <2>1, SendArgsGood
  <2> DEFINE u == r.tools[i]
             g == t.gave + n
  <2>3. g \in Nat /\ u = [t EXCEPT !.gave = g] BY <1>1, <2>2
  <2> HIDE DEF t, u, g
  <2>4. u \in ToolStates /\ u.gave = g /\ u.held = t.held /\ u.sent = t.sent /\ u.block = t.block /\ u.started = t.started
        /\ u.name = t.name /\ u.shown = t.shown /\ u.pre = t.pre /\ u.got = t.got
    BY <1>1, <2>3 DEF ToolStates
  <2>5. ArgsStep(t, u, n)
    BY <1>3, <2>4 DEF ArgsStep, g
  <2> QED BY <2>2, <2>5 DEF r, t, u
<1> DEFINE v == t.held + n
           t1 == [t EXCEPT !.held = @ + n]
           d == SetTool(b, i, t1)
<1>4. v \in Nat /\ t1 = [t EXCEPT !.held = v]
  BY <1>1
<1>5. /\ t1 \in ToolStates /\ t1.held = v /\ t1.gave = t.gave /\ t1.sent = t.sent /\ t1.block = t.block /\ t1.started = t.started
      /\ t1.name = t.name /\ t1.shown = t.shown /\ t1.pre = t.pre /\ t1.got = t.got
  <2> HIDE DEF t, v, t1
  <2> QED BY <1>1, <1>4 DEF ToolStates
<1>a. [b EXCEPT !.tools[i].held = @ + n] = d
  <2>1. [b EXCEPT !.tools[i] = t1] = d BY SMTT(40), <1>0, <1>5, ToolUpdate
  <2>2. [b EXCEPT !.tools[i].held = @ + n] = [b EXCEPT !.tools[i] = t1] OBVIOUS
  <2> HIDE DEF d
  <2> QED BY <2>1, <2>2
<1>6. Good(c, d) /\ Retooled(d, b, i) /\ d.tools[i] = t1
  <2> HIDE DEF t1
  <2>1. SameCall(b, i, t1) BY <1>5 DEF SameCall
  <2> QED BY <1>1, <1>5, <2>1, SetToolGood
<1>7. CASE n # 0 /\ t.name = Task /\ ~t.sent /\ v < Whole
  <2>1. r = d BY <1>a, <1>7 DEF EmitToolArgDelta
  <2> HIDE DEF r, d, t1
  <2>2. ArgsStep(t, t1, n)
    <3> HIDE DEF t
    <3> QED BY <1>5, <1>7 DEF ArgsStep
  <2> QED BY <1>6, <2>1, <2>2 DEF r, t
<1>8. CASE n # 0 /\ t.name = Task /\ ~t.sent /\ ~(v < Whole)
  <2> DEFINE e == [d EXCEPT !.tools[i].held = 0, !.tools[i].sent = TRUE]
             t2 == [t1 EXCEPT !.held = 0, !.sent = TRUE]
             f == SetTool(d, i, t2)
  <2>1. r = SendArgs(e, i, v) BY ZenonT(60), <1>a, <1>8 DEF EmitToolArgDelta
  <2> HIDE DEF d, t1
  <2>2. d \in Builders /\ i \in DOMAIN d.tools BY <1>6 DEF Good, Retooled
  <2>4. /\ t2 \in ToolStates /\ t2.held = 0 /\ t2.gave = t.gave /\ t2.sent = TRUE /\ t2.block = t.block /\ t2.started = t.started
        /\ t2.name = t.name /\ t2.shown = t.shown /\ t2.pre = t.pre /\ t2.got = t.got
    <3> HIDE DEF t
    <3> QED BY <1>5 DEF ToolStates
  <2>3. e = f
    <3>1. [d EXCEPT !.tools[i] = t2] = f BY SMTT(40), <2>2, <2>4, ToolUpdate
    <3>2. e = [d EXCEPT !.tools[i] = [d.tools[i] EXCEPT !.held = 0, !.sent = TRUE]] OBVIOUS
    <3> HIDE DEF e, f
    <3> QED BY <1>6, <3>1, <3>2
  <2> HIDE DEF t2, e
  <2>5. Good(c, f) /\ Retooled(f, d, i) /\ f.tools[i] = t2
    <3>1. SameCall(d, i, t2) BY <1>5, <1>6, <2>2, <2>4 DEF SameCall
    <3> QED BY <1>1, <1>6, <2>4, <3>1, SetToolGood
  <2> HIDE DEF f, r, v
  <2>6. i \in DOMAIN f.tools /\ f.tools[i].started BY <2>4, <2>5, <1>1 DEF Retooled
  <2>7. Good(c, r) /\ Retooled(r, f, i) /\ r.tools[i] = [t2 EXCEPT !.gave = @ + v]
    BY <2>1, <2>3, <2>5, <2>6, <1>4, SendArgsGood
  <2>8. Retooled(r, b, i)
    BY <1>6, <2>5, <2>7 DEF Retooled
  <2> DEFINE u == r.tools[i]
             g == t.gave + v
  <2>9. g \in Nat /\ u = [t2 EXCEPT !.gave = g] BY <1>1, <1>4, <2>4, <2>7
  <2> HIDE DEF t, u, g
  <2>10. u \in ToolStates /\ u.gave = g /\ u.held = 0 /\ u.sent = TRUE /\ u.block = t.block /\ u.started = t.started
        /\ u.name = t.name /\ u.shown = t.shown /\ u.pre = t.pre /\ u.got = t.got
    BY <2>4, <2>9 DEF ToolStates
  <2>11. ArgsStep(t, u, n)
    BY <1>8, <2>10 DEF ArgsStep, g, v
  <2> QED BY SMTT(40), <2>7, <2>8, <2>11 DEF r, t, u
<1> QED BY <1>2, <1>3, <1>7, <1>8

\* The block of a tool call starts, with the name the call has by then.
LEMMA StartToolGood ==
  ASSUME NEW c, NEW b, Good(c, b), NEW i \in DOMAIN b.tools, ~b.tools[i].started
  PROVE  LET r == StartTool(b, i)
             u == r.tools[i]
             t == b.tools[i]
         IN  /\ Good(c, r) /\ Retooled(r, b, i)
             /\ u \in ToolStates /\ u.started /\ u.shown = t.name /\ u.name = t.name /\ u.held = t.held /\ u.sent = t.sent
             /\ u.pre = t.pre /\ u.got = t.got /\ u.gave = t.gave
<1> DEFINE t == b.tools[i]
           n == b.next
           m == n + 1
           u == [t EXCEPT !.block = n, !.started = TRUE, !.shown = t.name]
           w == WithBlock(b.tools, i, u)
           d == [b EXCEPT !.next = m, !.tools = w]
           r == Emit(d, Start(n, "tool_use"))
<1>0. b \in Builders /\ b.tools \in ToolMaps /\ n \in Nat /\ m \in Nat
  BY DEF Good, Builders
<1>1. t \in ToolStates /\ i \in Tools
  BY <1>0, ToolTypes
<1>2. /\ u \in ToolStates /\ u.started = TRUE /\ u.block = n /\ u.shown = t.name /\ u.name = t.name /\ u.held = t.held
      /\ u.sent = t.sent /\ u.pre = t.pre /\ u.got = t.got /\ u.gave = t.gave
  <2>1. n \in Int BY <1>0
  <2> HIDE DEF n, t
  <2> QED BY <1>1, <2>1 DEF ToolStates
<1>3. StartTool(b, i) = r
  <2>1. [b EXCEPT !.tools[i] = u] = SetTool(b, i, u) BY <1>0, <1>2, ToolUpdate
  <2>2. [b.tools EXCEPT ![i] = u] = w
    <3> DEFINE tt == b.tools
    <3>1. i \in DOMAIN tt /\ tt \in ToolMaps BY <1>0
    <3> HIDE DEF tt, u
    <3>2. WithToolIs(WithBlock(tt, i, u), tt, i, u) BY <1>1, <1>2, <3>1, WithTool
    <3>3. [tt EXCEPT ![i] = u] = WithBlock(tt, i, u) BY <3>1, <3>2 DEF WithToolIs
    <3> QED BY <3>3 DEF tt
  <2>3. [b EXCEPT !.next = @ + 1, !.tools[i].block = b.next, !.tools[i].started = TRUE, !.tools[i].shown = b.tools[i].name]
          = [b EXCEPT !.next = m, !.tools = [b.tools EXCEPT ![i] = u]]
    OBVIOUS
  <2> HIDE DEF u, w
  <2> QED BY <2>2, <2>3 DEF StartTool
<1> HIDE DEF u
<1>4. WithToolIs(w, b.tools, i, u)
  BY <1>0, <1>1, <1>2, WithTool
<1> HIDE DEF w
<1>a. n = b.next /\ m = n + 1
  OBVIOUS
<1> HIDE DEF n, m
<1>5. w \in ToolMaps /\ DOMAIN w = DOMAIN b.tools /\ w[i] = u /\ \A j \in DOMAIN b.tools : j # i => w[j] = b.tools[j]
  BY <1>4 DEF WithToolIs
<1>6. /\ d \in Builders /\ d.out = b.out /\ d.next = m /\ d.thinking = b.thinking /\ d.text = b.text
      /\ d.thinkingOn = b.thinkingOn /\ d.textOn = b.textOn /\ d.tools = w
      /\ d.wroteText = b.wroteText /\ d.heuristic = b.heuristic
  BY <1>0, <1>5 DEF Builders
<1> HIDE DEF d
<1>7. ASSUME NEW open, Fits(open, b) PROVE Fits(WithBlock(open, n, "tool_use"), d)
  <2> DEFINE o == WithBlock(open, n, "tool_use")
  <2>1. n \in 0 .. m - 1 /\ \A k \in 0 .. n - 1 : k \in 0 .. m - 1 /\ k # n
    BY <1>0, <1>a, OneMoreIndex
  <2>2. DOMAIN o = DOMAIN open \cup {n} /\ o[n] = "tool_use" /\ \A k \in DOMAIN open : k # n => o[k] = open[k]
    BY DEF WithBlock
  <2> HIDE DEF o
  <2>3. b.thinkingOn => b.thinking \in 0 .. m - 1 /\ b.thinking \in DOMAIN o /\ o[b.thinking] = "thinking"
    BY <1>7, <1>a, <2>1, <2>2 DEF Fits
  <2>4. b.textOn => b.text \in 0 .. m - 1 /\ b.text \in DOMAIN o /\ o[b.text] = "text"
    BY <1>7, <1>a, <2>1, <2>2 DEF Fits
  <2>5. \A j \in DOMAIN w : w[j].started => w[j].block \in 0 .. m - 1 /\ w[j].block \in DOMAIN o /\ o[w[j].block] = "tool_use"
    <3>1. ASSUME NEW j \in DOMAIN w, w[j].started
          PROVE  w[j].block \in 0 .. m - 1 /\ w[j].block \in DOMAIN o /\ o[w[j].block] = "tool_use"
      <4>1. CASE j = i BY <4>1, <1>2, <1>5, <2>1, <2>2
      <4>2. CASE j # i BY <4>2, <3>1, <1>5, <1>7, <1>a, <2>1, <2>2 DEF Fits
      <4> QED BY <4>1, <4>2
    <3> QED BY <3>1
  <2>6. \A k \in DOMAIN o : \/ b.thinkingOn /\ k = b.thinking
                            \/ b.textOn /\ k = b.text
                            \/ \E j \in DOMAIN w : w[j].started /\ k = w[j].block
    <3>1. ASSUME NEW j \in DOMAIN b.tools, b.tools[j].started PROVE w[j].started /\ w[j].block = b.tools[j].block /\ j # i
      BY <3>1, <1>5
    <3>2. w[i].started /\ w[i].block = n BY <1>2, <1>5
    <3> QED BY <1>5, <1>7, <2>2, <3>1, <3>2 DEF Fits
  <2>7. Fits(o, d)
    BY <1>6, <2>3, <2>4, <2>5, <2>6 DEF Fits
  <2> QED BY <2>7 DEF o
<1>8. "tool_use" \in Kinds /\ Consistent(d)
  BY <1>0, <1>6, <1>a DEF Kinds, Good, Consistent
<1>9. Begins(b, d, "tool_use")
  BY <1>6, <1>7, <1>8, <1>a DEF Begins
<1>10. Good(c, Emit(d, Start(b.next, "tool_use"))) /\ SameFields(Emit(d, Start(b.next, "tool_use")), d)
  BY <1>8, <1>9, StartGood
<1>11. Good(c, r) /\ SameFields(r, d)
  BY <1>10, <1>a
<1> HIDE DEF r
<1>12. Retooled(r, b, i) /\ r.tools[i] = u
  BY <1>5, <1>6, <1>11 DEF Retooled, SameFields
<1> QED BY <1>2, <1>3, <1>11, <1>12 DEF t

LEMMA MergeExtends ==
  ASSUME NEW prev \in Seq(Pieces), NEW name \in Seq(Pieces)
  PROVE  LET m == MergeName(prev, name)
         IN  m \in Seq(Pieces) /\ Len(prev) <= Len(m) /\ (Len(m) = Len(prev) => m = prev)
<1> DEFINE m == MergeName(prev, name)
<1>0. Len(prev) \in Nat /\ Len(name) \in Nat
  OBVIOUS
<1>1. CASE prev = <<>>
  <2>1. m = name BY <1>1 DEF MergeName
  <2>2. Len(name) = 0 => name = <<>> BY SMTT(40)
  <2> QED BY <1>0, <1>1, <2>1, <2>2
<1>2. CASE prev # <<>> /\ IsPrefix(prev, name)
  <2>1. m = name BY <1>2 DEF MergeName
  <2>2. Len(prev) <= Len(name) /\ SubSeq(prev, 1, Len(prev)) = SubSeq(name, 1, Len(prev))
    BY <1>2 DEF IsPrefix
  <2>3. SubSeq(prev, 1, Len(prev)) = prev /\ SubSeq(name, 1, Len(name)) = name
    OBVIOUS
  <2> QED BY ZenonT(60), <2>1, <2>2, <2>3
<1>3. CASE prev # <<>> /\ ~IsPrefix(prev, name) /\ IsPrefix(name, prev)
  <2>1. m = prev BY <1>3 DEF MergeName
  <2> QED BY <1>0, <2>1
<1>4. CASE prev # <<>> /\ ~IsPrefix(prev, name) /\ ~IsPrefix(name, prev)
  <2>1. m = prev \o name BY <1>4 DEF MergeName
  <2>2. Len(prev \o name) = Len(prev) + Len(name) /\ prev \o name \in Seq(Pieces) OBVIOUS
  <2>3. Len(name) = 0 => prev \o name = prev OBVIOUS
  <2> DEFINE x == prev \o name
             k == Len(x)
  <2>4. k = Len(prev) + Len(name) /\ x \in Seq(Pieces) /\ (Len(name) = 0 => x = prev) BY <2>2, <2>3
  <2> HIDE DEF x, k
  <2>5. Len(prev) <= k /\ (k = Len(prev) => x = prev) BY <1>0, <2>4
  <2>6. m = x BY <2>1 DEF x
  <2> QED BY <2>4, <2>5, <2>6 DEF k
<1> QED BY <1>1, <1>2, <1>3, <1>4

\* k pieces of the arguments of t came, and each was sent on or is held.
Handled(t, k) ==
    /\ t.name # Task => t.gave = k
    /\ t.name # Task => t.held = 0
    /\ t.name = Task /\ t.sent => t.gave = k /\ k = Whole
    /\ t.name = Task /\ ~t.sent => t.gave = 0 /\ t.held = k /\ k < Whole

LEMMA ArgsHandled ==
  ASSUME NEW t \in ToolStates, NEW u, NEW n \in Nat, NEW k \in Nat, ArgsStep(t, u, n), Handled(t, k), k + n <= Whole
  PROVE  Handled(u, k + n)
<1>1. Whole \in Nat /\ t.held \in Nat /\ t.gave \in Nat /\ u.name = t.name /\ u.sent \in BOOLEAN /\ t.sent \in BOOLEAN
  BY OpenAIAssumption DEF ToolStates, ArgsStep
<1>2. CASE t.name # Task
  BY <1>1, <1>2 DEF ArgsStep, Handled
<1>3. CASE t.name = Task /\ t.sent
  <2>1. n = 0 /\ k + n = k BY <1>1, <1>3 DEF Handled
  <2> QED BY <1>1, <1>3, <2>1 DEF ArgsStep, Handled
<1>4. CASE t.name = Task /\ ~t.sent /\ n = 0
  <2>1. k + n = k BY <1>4
  <2> QED BY <1>1, <1>4, <2>1 DEF ArgsStep, Handled
<1>5. CASE t.name = Task /\ ~t.sent /\ n # 0 /\ t.held + n < Whole
  BY <1>1, <1>5 DEF ArgsStep, Handled
<1>6. CASE t.name = Task /\ ~t.sent /\ n # 0 /\ ~(t.held + n < Whole)
  <2>1. t.held = k /\ t.gave = 0 /\ k + n = Whole BY <1>1, <1>6 DEF Handled
  <2>2. u.gave = 0 + (k + n) /\ u.sent BY <1>6, <2>1 DEF ArgsStep
  <2> QED BY <1>1, <1>6, <2>1, <2>2 DEF Handled
<1> QED BY <1>2, <1>3, <1>4, <1>5, <1>6

\* A tool call while the stream is read.  Once its block was started with the
\* whole name, all pieces of arguments that came were dealt with; before that
\* they wait, and the name has not begun.
Kept(t) ==
    /\ t.got <= Whole
    /\ IF t.started
       THEN /\ Len(t.shown) <= Len(t.name) /\ (Len(t.shown) = Len(t.name) => t.shown = t.name)
            /\ t.shown = t.name => Handled(t, t.got)
       ELSE t.name = <<>> /\ t.held = 0 /\ t.gave = 0 /\ ~t.sent /\ t.pre = t.got

LEMMA RetooledTwice ==
  ASSUME NEW b, NEW d, NEW r, NEW i, Retooled(d, b, i), Retooled(r, d, i)
  PROVE  Retooled(r, b, i)
<1>1. DOMAIN r.tools = DOMAIN b.tools \cup {i} /\ \A j \in DOMAIN b.tools : j # i => j \in DOMAIN d.tools
  BY DEF Retooled
<1> QED BY <1>1 DEF Retooled

\* u is t but for its name and the arguments that came.
Renamed(u, t, name, g) ==
    /\ u \in ToolStates /\ u.name = name /\ u.got = g /\ u.block = t.block /\ u.shown = t.shown /\ u.started = t.started
    /\ u.held = t.held /\ u.sent = t.sent /\ u.pre = t.pre /\ u.gave = t.gave

\* ... for the arguments that wait.
Waiting(u, t, p) ==
    /\ u \in ToolStates /\ u.name = t.name /\ u.got = t.got /\ u.block = t.block /\ u.shown = t.shown /\ u.started = t.started
    /\ u.held = t.held /\ u.sent = t.sent /\ u.pre = p /\ u.gave = t.gave

LEMMA ToolChanges ==
  ASSUME NEW t \in ToolStates, NEW name \in Seq(Pieces), NEW g \in Nat
  PROVE  Renamed([t EXCEPT !.name = name, !.got = g], t, name, g) /\ Waiting([t EXCEPT !.pre = g], t, g)
<1>1. Renamed([t EXCEPT !.name = name, !.got = g], t, name, g)
  BY DEF ToolStates, Renamed
<1>2. Waiting([t EXCEPT !.pre = g], t, g)
  BY DEF ToolStates, Waiting
<1> QED BY <1>1, <1>2

\* The block of tool call i can start, with its name ...
Startable(d, i, n) ==
    /\ ~d.tools[i].started /\ d.tools[i].held = 0 /\ d.tools[i].gave = 0 /\ ~d.tools[i].sent
    /\ d.tools[i].pre + n <= Whole

\* ... and the pieces that waited for the name are dealt with, and n new ones after them.
StartsAndSends(c, d, i, n) ==
    LET p == d.tools[i].pre
        s == [StartTool(d, i) EXCEPT !.tools[i].pre = 0]
        r == EmitToolArgDelta(EmitToolArgDelta(s, i, p), i, n)
        u == r.tools[i]
    IN  /\ EmitToolArgDelta(s, i, p).tools[i].started /\ Good(c, r) /\ Retooled(r, d, i)
        /\ u \in ToolStates /\ u.started /\ u.shown = d.tools[i].name /\ u.name = d.tools[i].name
        /\ u.got = d.tools[i].got /\ Handled(u, p + n)

LEMMA StartedWithArgs ==
  ASSUME NEW c, NEW d, Good(c, d), NEW i \in DOMAIN d.tools, NEW n \in Nat, Startable(d, i, n)
  PROVE  StartsAndSends(c, d, i, n)
<1> DEFINE t == d.tools[i]
           p == t.pre
           a == StartTool(d, i)
           ta == a.tools[i]
           s == [a EXCEPT !.tools[i].pre = 0]
           ts == [ta EXCEPT !.pre = 0]
           e == EmitToolArgDelta(s, i, p)
           r == EmitToolArgDelta(e, i, n)
<1>1. d \in Builders /\ t \in ToolStates /\ i \in Tools
  BY ToolTypes DEF Good
<1>0. ~t.started /\ t.held = 0 /\ t.gave = 0 /\ ~t.sent
  BY DEF Startable
<1>2. /\ Good(c, a) /\ Retooled(a, d, i)
      /\ ta \in ToolStates /\ ta.started /\ ta.shown = t.name /\ ta.name = t.name /\ ta.held = t.held /\ ta.sent = t.sent
      /\ ta.pre = t.pre /\ ta.got = t.got /\ ta.gave = t.gave
  BY <1>0, StartToolGood
<1> HIDE DEF a
<1>3. /\ ts \in ToolStates /\ ts.started = ta.started /\ ts.block = ta.block /\ ts.shown = t.name /\ ts.name = t.name
      /\ ts.held = 0 /\ ~ts.sent /\ ts.gave = 0 /\ ts.got = t.got
  <2> HIDE DEF t, ta
  <2>1. 0 \in Nat /\ ta.held = 0 /\ ~ta.sent /\ ta.gave = 0 BY <1>2 DEF t, Startable
  <2> QED BY <1>2, <2>1 DEF ToolStates
<1>4. s = SetTool(a, i, ts)
  <2>1. a \in Builders /\ i \in DOMAIN a.tools BY <1>2 DEF Good, Retooled
  <2>2. [a EXCEPT !.tools[i] = ts] = SetTool(a, i, ts) BY ZenonT(60), <1>3, <2>1, ToolUpdate
  <2>3. s = [a EXCEPT !.tools[i] = ts] OBVIOUS
  <2> QED BY <2>2, <2>3
<1>5. SameCall(a, i, ts)
  BY <1>2, <1>3 DEF SameCall, Retooled
<1> HIDE DEF ts, s
<1>6. Good(c, s) /\ Retooled(s, a, i) /\ s.tools[i] = ts
  BY <1>1, <1>2, <1>3, <1>4, <1>5, SetToolGood
<1>7. p \in Nat /\ i \in DOMAIN s.tools /\ s.tools[i].started
  <2>1. p \in Nat BY <1>1 DEF ToolStates
  <2> QED BY <1>2, <1>3, <1>6, <2>1 DEF Retooled
<1> HIDE DEF p
<1>8. Good(c, e) /\ Retooled(e, s, i) /\ ArgsStep(s.tools[i], e.tools[i], p)
  BY <1>6, <1>7, EmitArgsGood
<1> HIDE DEF e
<1>9. i \in DOMAIN e.tools /\ e.tools[i].started /\ e.tools[i] \in ToolStates
  BY <1>7, <1>8 DEF Retooled, ArgsStep
<1>10. Good(c, r) /\ Retooled(r, e, i) /\ ArgsStep(e.tools[i], r.tools[i], n)
  BY <1>8, <1>9, EmitArgsGood
<1> HIDE DEF r
<1>11. Retooled(r, d, i)
  <2>1. Retooled(s, d, i) BY <1>2, <1>6, RetooledTwice
  <2>2. Retooled(e, d, i) BY <2>1, <1>8, RetooledTwice
  <2> QED BY <2>2, <1>10, RetooledTwice
<1> DEFINE v == e.tools[i]
           u == r.tools[i]
<1>12. Handled(ts, 0)
  BY <1>3, OpenAIAssumption DEF Handled
<1>13. Handled(u, p + n)
  <2>1. p <= Whole /\ p + n <= Whole /\ 0 + p = p
    <3>1. Whole \in Nat BY OpenAIAssumption
    <3>2. p + n <= Whole BY DEF p, Startable
    <3> QED BY <1>7, <3>1, <3>2
  <2>2. ArgsStep(ts, v, p) BY <1>6, <1>8
  <2>3. ArgsStep(v, u, n) BY <1>10
  <2>4. v \in ToolStates BY <1>9
  <2> HIDE DEF v, u
  <2>5. Handled(v, 0 + p) BY <1>3, <1>7, <1>12, <2>1, <2>2, ArgsHandled
  <2> QED BY <1>7, <2>1, <2>3, <2>4, <2>5, ArgsHandled
<1>14. u \in ToolStates /\ u.started /\ u.shown = t.name /\ u.name = t.name /\ u.got = t.got
  BY <1>2, <1>3, <1>6, <1>8, <1>9, <1>10 DEF ArgsStep
<1> QED BY ZenonT(60), <1>9, <1>10, <1>11, <1>13, <1>14 DEF a, p, s, e, r, StartsAndSends

LEMMA NewToolTypes ==
  /\ NewTool \in ToolStates /\ Kept(NewTool) /\ ~NewTool.started
  BY OpenAIAssumption DEF NewTool, ToolStates, Kept, None

\* The block of a tool call has been started already, with some name.
LEMMA KeptStarted ==
  ASSUME NEW t \in ToolStates, NEW name \in Seq(Pieces), NEW n \in Nat, NEW v, NEW u,
         Kept(t), t.started, t.got + n <= Whole,
         Renamed(v, t, IF name = <<>> THEN t.name ELSE MergeName(t.name, name), t.got + n), ArgsStep(v, u, n)
  PROVE  Kept(u)
<1> DEFINE m == IF name = <<>> THEN t.name ELSE MergeName(t.name, name)
<1>0. t.name \in Seq(Pieces) /\ t.shown \in Seq(Pieces) /\ t.got \in Nat
  BY DEF ToolStates
<1>1. m \in Seq(Pieces) /\ Len(t.name) <= Len(m) /\ (Len(m) = Len(t.name) => m = t.name)
  <2>1. CASE name = <<>>
    <3>1. m = t.name BY <2>1
    <3>2. Len(t.name) \in Nat BY <1>0
    <3> QED BY <3>1, <3>2, <1>0
  <2>2. CASE name # <<>>
    <3>1. m = MergeName(t.name, name) BY <2>2
    <3> QED BY <3>1, <1>0, MergeExtends
  <2> QED BY <2>1, <2>2
<1>2. u.name = m /\ u.shown = t.shown /\ u.started /\ u.got = t.got + n
  BY DEF Renamed, ArgsStep
<1>3. Len(t.shown) \in Nat /\ Len(t.name) \in Nat /\ Len(m) \in Nat
  BY <1>0, <1>1
<1> HIDE DEF m
<1>4. Len(u.shown) <= Len(u.name) /\ (Len(u.shown) = Len(u.name) => u.shown = u.name)
  BY <1>1, <1>2, <1>3 DEF Kept
<1>5. ASSUME u.shown = u.name PROVE Handled(u, u.got)
  <2>1. m = t.name /\ t.shown = t.name BY <1>1, <1>2, <1>3, <1>5 DEF Kept
  <2>2. Handled(t, t.got) BY <2>1 DEF Kept
  <2>3. v.name = t.name BY <2>1 DEF m, Renamed
  <2>4. Handled(v, t.got) BY <2>2, <2>3 DEF Handled, Renamed
  <2>5. v \in ToolStates BY DEF Renamed
  <2>6. Handled(u, t.got + n) BY <1>0, <2>4, <2>5, ArgsHandled
  <2> QED BY <1>2, <2>6
<1> QED BY <1>2, <1>4, <1>5 DEF Kept

\* The tool calls of a builder are kept.
AllKept(b) == \A i \in DOMAIN b.tools : Kept(b.tools[i])

LEMMA ProcessGood ==
  ASSUME NEW c, NEW b, Good(c, b), AllKept(b), NEW i \in Tools, NEW name \in Seq(Pieces), NEW n \in Nat,
         (IF i \in DOMAIN b.tools THEN b.tools[i] ELSE NewTool).got + n <= Whole
  PROVE  LET r == ProcessToolCall(b, i, name, n) IN Good(c, r) /\ Retooled(r, b, i) /\ AllKept(r)
<1> DEFINE t == IF i \in DOMAIN b.tools THEN b.tools[i] ELSE NewTool
           m == IF name = <<>> THEN t.name ELSE MergeName(t.name, name)
           g == t.got + n
           v == [t EXCEPT !.name = m, !.got = g]
           d == SetTool(b, i, v)
           r == ProcessToolCall(b, i, name, n)
<1>0. b \in Builders
  BY DEF Good
<1>1. t \in ToolStates /\ Kept(t)
  BY <1>0, ToolTypes, NewToolTypes DEF AllKept
<1>2. i \notin DOMAIN b.tools => ~t.started
  BY NewToolTypes
<1>3. t.name \in Seq(Pieces) /\ t.got \in Nat /\ t.pre \in Nat
  BY <1>1 DEF ToolStates
<1>4. m \in Seq(Pieces) /\ g \in Nat /\ g <= Whole
  <2>1. MergeName(t.name, name) \in Seq(Pieces)
    <3> HIDE DEF t
    <3> QED BY <1>3, MergeExtends
  <2> QED BY <1>3, <2>1
<1>5. [t EXCEPT !.name = IF name = <<>> THEN @ ELSE MergeName(@, name), !.got = @ + n] = v
  <2> HIDE DEF t
  <2> QED BY <1>1 DEF ToolStates
<1>6. Renamed(v, t, m, g)
  <2> HIDE DEF t, m, g
  <2> QED BY <1>1, <1>4, ToolChanges
<1>7. Good(c, d) /\ Retooled(d, b, i) /\ d.tools[i] = v
  <2>1. SameCall(b, i, v) BY <1>2, <1>6 DEF SameCall, Renamed
  <2>2. v \in ToolStates BY <1>6 DEF Renamed
  <2> HIDE DEF v
  <2> QED BY <2>1, <2>2, SetToolGood
<1>8. i \in DOMAIN d.tools
  BY <1>7 DEF Retooled
<1>9. r = LET e == IF d.tools[i].started \/ d.tools[i].name = <<>> THEN d
                   ELSE EmitToolArgDelta([StartTool(d, i) EXCEPT !.tools[i].pre = 0], i, t.pre)
          IN  IF e.tools[i].started THEN EmitToolArgDelta(e, i, n) ELSE [e EXCEPT !.tools[i].pre = @ + n]
  BY <1>5 DEF ProcessToolCall, SetTool
<1>a. ASSUME Good(c, r), Retooled(r, d, i), Kept(r.tools[i]) PROVE Good(c, r) /\ Retooled(r, b, i) /\ AllKept(r)
  <2>1. Retooled(r, b, i) BY <1>7, <1>a, RetooledTwice
  <2>2. DOMAIN r.tools = DOMAIN b.tools \cup {i} /\ \A j \in DOMAIN b.tools : j # i => r.tools[j] = b.tools[j]
    BY <2>1 DEF Retooled
  <2>3. AllKept(r)
    <3> HIDE DEF r
    <3> QED BY <1>a, <2>2 DEF AllKept
  <2> QED BY <1>a, <2>1, <2>3
<1> HIDE DEF d, t, v, r, m, g
<1>b. v.started = t.started /\ v.name = m /\ v \in ToolStates /\ v.pre = t.pre /\ v.got = g
  BY <1>6 DEF Renamed
<1>10. CASE t.started
  <2>1. r = EmitToolArgDelta(d, i, n) BY <1>7, <1>9, <1>b, <1>10
  <2>2. Good(c, r) /\ Retooled(r, d, i) /\ ArgsStep(v, r.tools[i], n)
    BY <1>7, <1>8, <1>b, <1>10, <2>1, EmitArgsGood
  <2>3. Kept(r.tools[i])
    <3> DEFINE u == r.tools[i]
    <3>1. ArgsStep(v, u, n) BY <2>2
    <3>2. Renamed(v, t, IF name = <<>> THEN t.name ELSE MergeName(t.name, name), t.got + n) BY <1>6 DEF m, g
    <3>3. t.got + n <= Whole BY <1>4 DEF g
    <3> HIDE DEF u
    <3>4. Kept(u) BY <1>1, <1>10, <3>1, <3>2, <3>3, KeptStarted
    <3> QED BY <3>4 DEF u
  <2> QED BY <1>a, <2>2, <2>3 DEF r
<1>11. CASE ~t.started /\ m = <<>>
  <2> DEFINE p == v.pre + n
             u == [v EXCEPT !.pre = p]
  <2>1. r = [d EXCEPT !.tools[i].pre = @ + n] BY <1>7, <1>9, <1>b, <1>11
  <2>2. p \in Nat BY <1>3, <1>b
  <2>3. [d EXCEPT !.tools[i].pre = @ + n] = [d EXCEPT !.tools[i] = u] BY <1>7
  <2>4. Waiting(u, v, p)
    <3> HIDE DEF p
    <3> QED BY <1>b, <2>2, ToolChanges
  <2> HIDE DEF u
  <2>5. d \in Builders /\ u \in ToolStates BY <1>7, <2>4 DEF Good, Waiting
  <2>6. r = SetTool(d, i, u) BY <1>8, <2>1, <2>3, <2>5, ToolUpdate
  <2>7. SameCall(d, i, u) BY <1>7, <1>8, <2>4 DEF SameCall, Waiting
  <2>8. Good(c, r) /\ Retooled(r, d, i) /\ r.tools[i] = u BY <1>7, <2>5, <2>6, <2>7, SetToolGood
  <2>9. Kept(u)
    <3>1. ~u.started /\ u.name = <<>> /\ u.held = 0 /\ u.gave = 0 /\ ~u.sent /\ u.pre = p /\ u.got = g
      BY <1>1, <1>6, <1>11, <2>4 DEF Kept, Waiting, Renamed
    <3>2. v.pre = t.got BY <1>1, <1>b, <1>11 DEF Kept
    <3>3. p = g BY <3>2 DEF g
    <3> QED BY <1>4, <3>1, <3>3 DEF Kept
  <2> QED BY <1>a, <2>8, <2>9 DEF r
<1>12. CASE ~t.started /\ m # <<>>
  <2> DEFINE s == [StartTool(d, i) EXCEPT !.tools[i].pre = 0]
             e == EmitToolArgDelta(s, i, v.pre)
             u == r.tools[i]
  <2>0. ~d.tools[i].started /\ d.tools[i].held = 0 /\ d.tools[i].gave = 0 /\ ~d.tools[i].sent /\ v.pre = t.got
    BY <1>1, <1>6, <1>7, <1>12 DEF Kept, Renamed
  <2>1. d.tools[i].pre = v.pre /\ d.tools[i].name = m /\ d.tools[i].got = g /\ v.pre + n = g BY <1>7, <1>b, <2>0 DEF g
  <2>2. /\ e.tools[i].started /\ Good(c, EmitToolArgDelta(e, i, n)) /\ Retooled(EmitToolArgDelta(e, i, n), d, i)
        /\ LET w == EmitToolArgDelta(e, i, n).tools[i]
           IN  /\ w \in ToolStates /\ w.started /\ w.shown = m /\ w.name = m
               /\ w.got = g /\ Handled(w, v.pre + n)
    <3>1. Startable(d, i, n) BY <1>4, <2>0, <2>1 DEF Startable
    <3>2. StartsAndSends(c, d, i, n) BY SMTT(40), <1>7, <1>8, <3>1, StartedWithArgs
    <3> QED BY <2>1, <3>2 DEF StartsAndSends
  <2> HIDE DEF s
  <2>3. r = EmitToolArgDelta(e, i, n)
    BY <1>7, <1>9, <1>b, <1>12, <2>2 DEF s
  <2> HIDE DEF e
  <2>4. Good(c, r) /\ Retooled(r, d, i)
    BY <2>2, <2>3
  <2>5. u \in ToolStates /\ u.started /\ u.shown = m /\ u.name = m /\ u.got = g /\ Handled(u, g)
    BY <2>1, <2>2, <2>3
  <2>6. Kept(u)
    <3>1. Len(m) <= Len(m) BY <1>4
    <3> HIDE DEF u
    <3> QED BY <1>4, <2>5, <3>1 DEF Kept
  <2> QED BY <1>a, <2>4, <2>6 DEF r, u
<1> QED BY <1>10, <1>11, <1>12 DEF r

-----------------------------------------------------------------------------
(* The end of the OpenAI stream.                                           *)

\* A stream without text and without a tool call gets a blank text.
LEMMA FillGood ==
  ASSUME NEW c, NEW b, Good(c, b)
  PROVE  LET r == Fill(b) IN Good(c, r) /\ Keeps(r, b) /\ (r.text # None \/ HasStartedTool(r))
<1> DEFINE r == Fill(b)
           w == WriteText(b, TRUE)
<1>1. CASE r = w
  <2> HIDE DEF r
  <2>1. Good(c, w) /\ Keeps(w, b) /\ w.text # None BY WriteTextGood
  <2> HIDE DEF w
  <2> QED BY <1>1, <2>1 DEF r
<1>2. CASE r # w
  <2>1. r = b BY <1>2 DEF Fill
  <2>2. b.text # None \/ HasStartedTool(b)
    <3>1. \/ b.text # None \/ b.thinking # None \/ HasStartedTool(b)
      BY <1>2 DEF Fill
    <3>2. HasStartedTool(b) \/ b.wroteText \/ b.thinking = None
      BY <1>2 DEF Fill
    <3> QED BY <3>1, <3>2 DEF Good, Consistent
  <2> HIDE DEF r
  <2> QED BY <2>1, <2>2 DEF Keeps, r
<1> QED BY <1>1, <1>2

\* Content has an index, so some block was seen.
LEMMA ContentHasIndex ==
  ASSUME NEW c, NEW b, Good(c, b), b.text # None \/ HasStartedTool(b)
  PROVE  b.next # 0
<1>1. CASE b.text # None
  BY <1>1 DEF Good, Consistent
<1>2. CASE HasStartedTool(b)
  <2>1. PICK j \in DOMAIN b.tools : b.tools[j].started BY <1>2 DEF HasStartedTool
  <2>2. b.tools[j].block \in 0 .. b.next - 1 BY <2>1 DEF Good, Fits
  <2> QED BY <2>2
<1> QED BY <1>1, <1>2

\* Deltas for blocks of this kind that are open.
Feeds(open, t, kind) ==
    \A k \in 1 .. Len(t) : \E i \in Nat : t[k] = Delta(i, kind) /\ i \in DOMAIN open /\ open[i] = kind

LEMMA CanDeltas ==
  ASSUME NEW c, NEW s \in Seq(Events), NEW open, NEW seen, Can(c, s, open, seen), NEW kind \in Kinds \ NoDeltaKinds,
         NEW t \in Seq(Events), Feeds(open, t, kind)
  PROVE  s \o t \in Seq(Events) /\ Can(c, s \o t, open, seen)
<1> DEFINE n == Len(t)
<1>1. PICK d : Reaches(c, s, d) /\ View(d, open, seen)
  BY DEF Can
<1> DEFINE last == d.last
           lastAt(k) == IF k = 1 THEN last ELSE t[k - 1]
           at(k) == [open |-> open, seen |-> seen, last |-> lastAt(k), over |-> "no"]
           cs == [k \in 1 .. n + 1 |-> at(k)]
<1>2. n \in Nat /\ 1 \in 1 .. n + 1 /\ n + 1 \in 1 .. n + 1
      /\ \A k \in 1 .. n : k + 1 \in 1 .. n + 1 /\ k \in 1 .. n + 1 /\ (k + 1) - 1 = k /\ k + 1 # 1
  OBVIOUS
<1>3. cs[1] = d
  <2>1. d = [open |-> d.open, seen |-> d.seen, last |-> d.last, over |-> d.over]
    BY <1>1 DEF View, IsClient
  <2>2. cs[1] = at(1)
    BY <1>2
  <2> QED BY <1>1, <2>1, <2>2 DEF View
<1>4. \A k \in 1 .. n : cs[k] = at(k) /\ cs[k + 1] = at(k + 1)
  BY <1>2
<1>0. \A k \in 1 .. n : t[k].type = "content_block_delta" /\ t[k].index \in DOMAIN open /\ open[t[k].index] = t[k].kind
                        /\ t[k].kind \notin NoDeltaKinds
  BY EventFields DEF Feeds
<1>a. \A k \in 1 .. n + 1 : lastAt(k).type # "none"
  <2>1. last.type # "none" BY <1>1 DEF View
  <2>2. ASSUME NEW k \in 1 .. n + 1, k # 1 PROVE t[k - 1].type # "none"
    <3>1. k - 1 \in 1 .. n BY <2>2, <1>2
    <3> QED BY <3>1, <1>0
  <2> QED BY <2>1, <2>2
<1>5. ASSUME NEW k \in 1 .. n
      PROVE  Legal(at(k), t[k]) /\ at(k + 1) = After(at(k), t[k])
  <2>1. IsClient(at(k)) /\ at(k).open = open /\ at(k).seen = seen /\ at(k).over = "no" /\ at(k).last = lastAt(k)
    BY DEF IsClient
  <2>2. lastAt(k).type # "none"
    <3> HIDE DEF lastAt
    <3> QED BY <1>2, <1>a
  <2>3. Legal(at(k), t[k])
    <3> HIDE DEF at, lastAt
    <3> QED BY <1>0, <2>1, <2>2 DEF Legal
  <2>4. After(at(k), t[k]) = at(k + 1)
    <3> DEFINE a == After(at(k), t[k])
               b == at(k)
    <3>1. IsClient(a) /\ a.last = t[k] /\ a.over = "no" /\ a.open = open /\ a.seen = seen
      <4>1. IsClient(b) /\ b.open = open /\ b.seen = seen /\ b.over = "no" BY <2>1
      <4> HIDE DEF b
      <4>2. IsClient(After(b, t[k])) /\ After(b, t[k]).last = t[k] /\ After(b, t[k]).over = "no"
            /\ After(b, t[k]).seen = seen /\ After(b, t[k]).open = open
        BY <4>1, <1>0, AfterFields
      <4> HIDE DEF at, lastAt
      <4> QED BY <4>2 DEF b
    <3>2. a = [open |-> open, seen |-> seen, last |-> t[k], over |-> "no"]
      <4> HIDE DEF a, at
      <4> QED BY <3>1 DEF IsClient
    <3>3. lastAt(k + 1) = t[k]
      BY <1>2
    <3> QED BY <3>2, <3>3
  <2> QED BY <2>3, <2>4
<1>6. Reaches(d, t, cs[n + 1])
  <2> HIDE DEF cs, at
  <2>1. \A k \in 1 .. n : Legal(cs[k], t[k]) /\ cs[k + 1] = After(cs[k], t[k])
    BY <1>4, <1>5
  <2> QED BY <1>3, <2>1 DEF Reaches
<1>7. View(cs[n + 1], open, seen)
  <2>1. cs[n + 1] = [open |-> open, seen |-> seen, last |-> lastAt(n + 1), over |-> "no"]
    BY <1>2
  <2> HIDE DEF cs, lastAt
  <2> QED BY <1>1, <1>2, <1>a, <2>1 DEF View, IsClient
<1>8. s \o t \in Seq(Events)
  OBVIOUS
<1>9. Reaches(c, s \o t, cs[n + 1])
  BY <1>1, <1>6, ReachAlong
<1> HIDE DEF cs
<1> QED BY <1>7, <1>8, <1>9 DEF Can

\* A finite set of blocks gets one delta each.
LEMMA CanDeltaSet ==
  ASSUME NEW c, NEW s \in Seq(Events), NEW open, NEW seen, Can(c, s, open, seen), NEW kind \in Kinds \ NoDeltaKinds,
         NEW I \in SUBSET Nat, IsFiniteSet(I), \A i \in I : i \in DOMAIN open /\ open[i] = kind
  PROVE  LET t == SetToSeq({Delta(i, kind) : i \in I})
         IN  s \o t \in Seq(Events) /\ Can(c, s \o t, open, seen)
<1> DEFINE S == {Delta(i, kind) : i \in I}
           t == SetToSeq(S)
           f == [i \in I |-> Delta(i, kind)]
<1>1. IsFiniteSet(S)
  <2>1. {f[i] : i \in I} = S OBVIOUS
  <2>2. IsFiniteSet({f[i] : i \in I}) BY FiniteImage
  <2> QED BY <2>1, <2>2
<1>2. t \in Seq(S)
  BY <1>1, SetAsSequence
<1> HIDE DEF t
<1>3. \A k \in 1 .. Len(t) : \E i \in I : t[k] = Delta(i, kind)
  <2>1. \A k \in 1 .. Len(t) : t[k] \in S
    <3> HIDE DEF S
    <3> QED BY <1>2
  <2> QED BY <2>1
<1>4. S \subseteq Events
  BY EventFields
<1>5. t \in Seq(Events)
  <2> HIDE DEF S
  <2> QED BY <1>2, <1>4, SeqMonotonic
<1>6. Feeds(open, t, kind)
  BY <1>3 DEF Feeds
<1>7. s \o t \in Seq(Events) /\ Can(c, s \o t, open, seen)
  BY <1>5, <1>6, CanDeltas
<1> QED BY <1>7 DEF t

\* The tool calls of b, with the same arguments passed on.
SameArgs(u, t) ==
    /\ u \in ToolStates /\ u.started = t.started /\ u.block = t.block /\ u.shown = t.shown /\ u.name = t.name
    /\ u.gave = t.gave /\ u.got = t.got

SameCalls(r, b) ==
    /\ DOMAIN r.tools = DOMAIN b.tools
    /\ \A i \in DOMAIN b.tools : SameArgs(r.tools[i], b.tools[i])
    /\ r.text = b.text /\ r.heuristic = b.heuristic

\* The arguments that were held back, and are no JSON, are given up.
LEMMA FlushGood ==
  ASSUME NEW c, NEW b, Good(c, b), AllKept(b)
  PROVE  LET r == FlushTaskArgs(b) IN Good(c, r) /\ SameCalls(r, b) /\ r.next = b.next
<1> DEFINE B == {i \in DOMAIN b.tools : b.tools[i].held # 0 /\ ~b.tools[i].sent}
           K == {b.tools[i].block : i \in B}
           tools == [i \in DOMAIN b.tools |-> IF i \in B THEN [b.tools[i] EXCEPT !.held = 0, !.sent = TRUE] ELSE b.tools[i]]
           s == b.out \o SetToSeq({Delta(k, "tool_use") : k \in K})
           r == [b EXCEPT !.tools = tools, !.out = s]
<1>1. b \in Builders /\ b.tools \in ToolMaps /\ b.next \in Nat /\ b.out \in Seq(Events)
  BY DEF Good, Builders
<1>2. FlushTaskArgs(b) = r
  <2>1. {Delta(b.tools[i].block, "tool_use") : i \in B} = {Delta(k, "tool_use") : k \in K}
    OBVIOUS
  <2> QED BY <2>1 DEF FlushTaskArgs
<1>3. PICK open : Can(c, b.out, open, 0 .. b.next - 1) /\ Fits(open, b)
  BY DEF Good
<1>4. \A i \in B : b.tools[i].started
  BY DEF AllKept, Kept
<1>5. \A k \in K : k \in 0 .. b.next - 1 /\ k \in DOMAIN open /\ open[k] = "tool_use"
  BY <1>3, <1>4 DEF Fits
<1>6. K \in SUBSET Nat /\ IsFiniteSet(K)
  <2> HIDE DEF K
  <2>1. IsFiniteSet(0 .. b.next - 1) BY <1>1, FS_Interval
  <2>2. K \in SUBSET (0 .. b.next - 1) BY <1>5
  <2>3. IsFiniteSet(K) BY <2>1, <2>2, FS_Subset
  <2> QED BY <1>1, <2>2, <2>3
<1> HIDE DEF K
<1> DEFINE seen == 0 .. b.next - 1
<1>7. s \in Seq(Events) /\ Can(c, s, open, seen)
  <2>1. Can(c, b.out, open, seen) BY <1>3
  <2>2. "tool_use" \in Kinds \ NoDeltaKinds BY DEF Kinds, NoDeltaKinds
  <2> HIDE DEF seen
  <2> QED BY <1>1, <1>5, <1>6, <2>1, <2>2, CanDeltaSet
<1>8. DOMAIN tools = DOMAIN b.tools /\ \A i \in DOMAIN b.tools : SameArgs(tools[i], b.tools[i])
  <2>1. ASSUME NEW t \in ToolStates PROVE SameArgs(t, t) /\ SameArgs([t EXCEPT !.held = 0, !.sent = TRUE], t)
    BY DEF ToolStates, SameArgs
  <2>2. \A i \in DOMAIN b.tools :
           tools[i] = IF i \in B THEN [b.tools[i] EXCEPT !.held = 0, !.sent = TRUE] ELSE b.tools[i]
    OBVIOUS
  <2>3. \A i \in DOMAIN b.tools : b.tools[i] \in ToolStates
    BY <1>1, ToolTypes
  <2>4. DOMAIN tools = DOMAIN b.tools
    OBVIOUS
  <2> HIDE DEF B, tools
  <2>5. ASSUME NEW i \in DOMAIN b.tools PROVE SameArgs(tools[i], b.tools[i])
    <3> DEFINE t == b.tools[i]
    <3>1. t \in ToolStates BY <2>3
    <3>2. tools[i] = t \/ tools[i] = [t EXCEPT !.held = 0, !.sent = TRUE] BY <2>2
    <3> HIDE DEF t
    <3>3. SameArgs(tools[i], t) BY ZenonT(60), <2>1, <3>1, <3>2
    <3> QED BY <3>3 DEF t
  <2> QED BY <2>4, <2>5
<1>9. tools = [i \in DOMAIN tools |-> tools[i]]
  OBVIOUS
<1> HIDE DEF tools
<1>10. tools \in ToolMaps
  <2>1. DOMAIN b.tools \subseteq Tools BY <1>1, ToolMapFields
  <2>2. \A i \in DOMAIN tools : tools[i] \in ToolStates BY <1>8 DEF SameArgs
  <2> QED BY <1>8, <1>9, <2>1, <2>2, ToolMapFields
<1> HIDE DEF s
<1>11. /\ r \in Builders /\ r.tools = tools /\ r.out = s /\ r.next = b.next /\ r.thinking = b.thinking /\ r.text = b.text
       /\ r.thinkingOn = b.thinkingOn /\ r.textOn = b.textOn /\ r.wroteText = b.wroteText /\ r.heuristic = b.heuristic
  BY <1>1, <1>7, <1>10 DEF Builders
<1> HIDE DEF r
<1>12. Fits(open, r)
  <2>1. \A j \in DOMAIN tools : j \in DOMAIN b.tools /\ tools[j].started = b.tools[j].started
                                /\ tools[j].block = b.tools[j].block
    BY <1>8 DEF SameArgs
  <2>2. DOMAIN tools = DOMAIN b.tools
    BY <1>8
  <2> QED BY <1>3, <1>11, <2>1, <2>2 DEF Fits
<1>13. Good(c, r)
  BY <1>7, <1>11, <1>12 DEF Good, Consistent
<1>14. SameCalls(r, b)
  BY <1>8, <1>11 DEF SameCalls
<1> QED BY <1>2, <1>11, <1>13, <1>14

\* The last two events.
Ended(b) == [b EXCEPT !.out = @ \o <<MessageDelta, MessageStop>>]

LEMMA EndedFinishes ==
  ASSUME NEW c, NEW b, Finished(c, b), b.next # 0
  PROVE  LET r == Ended(b)
         IN  /\ r \in Builders /\ CanFinish(c, r.out)
             /\ r.tools = b.tools /\ r.text = b.text /\ r.heuristic = b.heuristic
<1> DEFINE s == b.out \o <<MessageDelta, MessageStop>>
           r == [b EXCEPT !.out = s]
           seen == 0 .. b.next - 1
<1>1. PICK open : Can(c, b.out, open, seen) /\ DOMAIN open = {}
  BY DEF Finished
<1>2. b \in Builders /\ b.out \in Seq(Events) /\ 0 \in seen
  BY DEF Finished, Builders
<1>3. seen # {}
  BY <1>2
<1> HIDE DEF seen
<1>4. s \in Seq(Events) /\ CanFinish(c, s)
  BY <1>1, <1>2, <1>3, CanEnd
<1>5. Ended(b) = r
  BY DEF Ended
<1> HIDE DEF s
<1>6. r \in Builders /\ r.out = s /\ r.tools = b.tools /\ r.text = b.text /\ r.heuristic = b.heuristic
  BY <1>2, <1>4 DEF Builders
<1> HIDE DEF r
<1> QED BY <1>4, <1>5, <1>6

\* The error of a stream that fails before any tool call was shown.
LEMMA ErrorTextFinishes ==
  ASSUME NEW c, NEW b, Finished(c, b)
  PROVE  LET r == [b EXCEPT !.out = @ \o ErrorBlock(b.next), !.next = @ + 1] IN Finished(c, r) /\ r.next # 0
<1> DEFINE n == b.next
           m == n + 1
           s == b.out \o <<Start(n, "text"), Delta(n, "text"), Stop(n)>>
           r == [b EXCEPT !.out = s, !.next = m]
<1>1. PICK open : Can(c, b.out, open, 0 .. b.next - 1) /\ DOMAIN open = {}
  BY DEF Finished
<1>2. b \in Builders /\ b.out \in Seq(Events) /\ n \in Nat
  BY DEF Finished, Builders
<1>3. [b EXCEPT !.out = @ \o ErrorBlock(b.next), !.next = @ + 1] = r
  BY DEF ErrorBlock
<1>4. n = b.next /\ m = n + 1 /\ m \in Nat /\ m # 0
  BY <1>2
<1> HIDE DEF n, m
<1> DEFINE S == 0 .. n - 1
           w == WithoutBlock(WithBlock(open, n, "text"), n)
<1>5. n \in Nat \ S /\ S \cup {n} = 0 .. m - 1
  BY <1>2, <1>4, OneMoreIndex
<1>6. s \in Seq(Events) /\ Can(c, s, w, 0 .. m - 1)
  <2>1. "text" \in Kinds \ NoDeltaKinds BY DEF Kinds, NoDeltaKinds
  <2>2. Can(c, b.out, open, S) BY <1>1, <1>4
  <2> HIDE DEF S
  <2>3. s \in Seq(Events) /\ Can(c, s, w, S \cup {n}) BY <1>2, <1>5, <2>1, <2>2, CanBlock
  <2> HIDE DEF s, w
  <2> QED BY <2>3, <1>5
<1>7. DOMAIN w = {}
  BY <1>1 DEF WithBlock, WithoutBlock
<1> HIDE DEF s, w
<1>8. r \in Builders /\ r.next = m /\ r.out = s
  BY <1>2, <1>4, <1>6 DEF Builders
<1> HIDE DEF r
<1> QED BY <1>3, <1>4, <1>6, <1>7, <1>8 DEF Finished

\* ... and of one that fails after that: no block, an error event.
LEMMA ErrorEventFinishes ==
  ASSUME NEW c, NEW b, Finished(c, b)
  PROVE  LET r == Emit(b, TopLevelError) IN Finished(c, r) /\ r.next = b.next
<1> DEFINE r == Emit(b, TopLevelError)
<1>1. PICK open : Can(c, b.out, open, 0 .. b.next - 1) /\ DOMAIN open = {}
  BY DEF Finished
<1>2. b \in Builders /\ b.out \in Seq(Events) /\ TopLevelError \in Events
  BY EventFields DEF Finished, Builders
<1>3. r \in Builders /\ r.out = b.out \o <<TopLevelError>> /\ r.next = b.next
  BY <1>2, EmitFields
<1>4. Can(c, b.out \o <<TopLevelError>>, open, 0 .. b.next - 1)
  BY <1>1, <1>2, CanPlain
<1> HIDE DEF r
<1> QED BY <1>1, <1>3, <1>4 DEF Finished, r

-----------------------------------------------------------------------------

\* While the stream is read, the client that receives what was yielded has open
\* what the builder has, and every tool call is kept.  When it is over, what
\* remains is the rest of a complete stream.
OpenAIInv ==
    /\ sse \in Builders /\ IsClient(openaiClient) /\ openai \in {"reading", "finished", "failed"}
    /\ openai = "reading" => openaiClient.over = "no" /\ Good(openaiClient, sse) /\ AllKept(sse)
    /\ openai # "reading" /\ openaiClient.over = "no" => CanFinish(openaiClient, sse.out)
    /\ openaiClient.over # "no" => sse.out = <<>>
    /\ NeverSilent /\ ArgumentsKept

LEMMA OpenAIInitInv == OpenAIInit => OpenAIInv
<1> SUFFICES ASSUME OpenAIInit PROVE OpenAIInv
  OBVIOUS
<1>1. sse = NewBuilder /\ openaiClient = NewClient /\ openai = "reading"
  BY DEF OpenAIInit
<1>2. <<MessageStart>> \in Seq(Events) /\ IsClient(NewClient) /\ Can(NewClient, <<MessageStart>>, <<>>, {})
  BY CanBegin
<1>3. <<>> \in ToolMaps /\ DOMAIN <<>> = {}
  <2>1. DOMAIN <<>> = {} /\ <<>> = [i \in DOMAIN <<>> |-> <<>>[i]]
    OBVIOUS
  <2> DEFINE m == <<>>
  <2>2. DOMAIN m \subseteq Tools /\ m = [i \in DOMAIN m |-> m[i]] /\ \A i \in DOMAIN m : m[i] \in ToolStates
    BY <2>1
  <2> HIDE DEF m
  <2>3. m \in ToolMaps BY <2>2, ToolMapFields
  <2> QED BY <2>1, <2>3 DEF m
<1>4. /\ NewBuilder \in Builders /\ NewBuilder.out = <<MessageStart>> /\ NewBuilder.next = 0 /\ NewBuilder.tools = <<>>
      /\ NewBuilder.text = None /\ NewBuilder.thinking = None /\ ~NewBuilder.thinkingOn /\ ~NewBuilder.textOn
      /\ ~NewBuilder.wroteText
  BY <1>2, <1>3 DEF NewBuilder, Builders, None
<1>5. Fits(<<>>, NewBuilder)
  BY <1>3, <1>4 DEF Fits
<1>6. 0 .. NewBuilder.next - 1 = {}
  BY <1>4
<1>7. Good(NewClient, NewBuilder)
  BY <1>2, <1>4, <1>5, <1>6 DEF Good, Consistent
<1>8. AllKept(NewBuilder)
  BY <1>3, <1>4 DEF AllKept
<1>9. NewClient.over = "no"
  BY DEF NewClient
<1> QED BY <1>1, <1>2, <1>4, <1>7, <1>8, <1>9 DEF OpenAIInv, NeverSilent, ArgumentsKept

\* An item is translated.
LEMMA ItemKeeps ==
  ASSUME OpenAIInv, NEW b, Item(b), Good(openaiClient, b), AllKept(b)
  PROVE  OpenAIInv'
<1>1. sse' = b /\ openai = "reading" /\ openai' = "reading" /\ openaiClient' = openaiClient
  BY DEF Item
<1>2. b \in Builders
  BY DEF Good
<1>3. openaiClient.over = "no" /\ IsClient(openaiClient)
  BY <1>1 DEF OpenAIInv
<1> QED BY <1>1, <1>2, <1>3 DEF OpenAIInv, NeverSilent, ArgumentsKept, IsClient

\* Tool calls that did not change are kept.
LEMMA StillKept ==
  ASSUME NEW r, NEW b, Keeps(r, b), AllKept(b)
  PROVE  AllKept(r)
  BY DEF Keeps, AllKept

\* What the response has said, and passed on, when the stream was read to its end.
LEMMA FinishesWell ==
  ASSUME NEW c, NEW b, Good(c, b), AllKept(b)
  PROVE  LET r == Ended(CloseAllBlocks(FlushTaskArgs(Fill(b))))
         IN  /\ r \in Builders /\ CanFinish(c, r.out)
             /\ r.text # None \/ HasStartedTool(r)
             /\ \A i \in DOMAIN r.tools :
                   LET t == r.tools[i]
                   IN  t.started /\ t.shown = t.name => t.gave = t.got \/ (t.name = Task /\ t.got < Whole)
<1> DEFINE f == Fill(b)
           g == FlushTaskArgs(f)
           h == CloseAllBlocks(g)
           r == Ended(h)
<1>1. Good(c, f) /\ Keeps(f, b) /\ (f.text # None \/ HasStartedTool(f))
  BY FillGood
<1> HIDE DEF f
<1>2. AllKept(f) /\ f.next # 0
  BY <1>1, StillKept, ContentHasIndex
<1>3. Good(c, g) /\ SameCalls(g, f) /\ g.next = f.next
  BY <1>1, <1>2, FlushGood
<1> HIDE DEF g
<1>4. g.text # None \/ HasStartedTool(g)
  BY <1>1, <1>3 DEF SameCalls, SameArgs, HasStartedTool
<1>5. Finished(c, h) /\ Keeps(h, g) /\ h.next # 0
  BY <1>2, <1>3, CloseAllFinishes
<1> HIDE DEF h
<1>6. r \in Builders /\ CanFinish(c, r.out) /\ r.tools = h.tools /\ r.text = h.text
  BY <1>5, EndedFinishes
<1> HIDE DEF r
<1>7. r.text # None \/ HasStartedTool(r)
  BY <1>4, <1>5, <1>6 DEF Keeps, HasStartedTool
<1>8. r.tools = g.tools
  BY <1>5, <1>6 DEF Keeps
<1>9. ASSUME NEW i \in DOMAIN r.tools, r.tools[i].started, r.tools[i].shown = r.tools[i].name
      PROVE  r.tools[i].gave = r.tools[i].got \/ (r.tools[i].name = Task /\ r.tools[i].got < Whole)
  <2> DEFINE t == f.tools[i]
  <2>1. i \in DOMAIN f.tools /\ SameArgs(r.tools[i], t)
    BY <1>3, <1>8, <1>9 DEF SameCalls
  <2>2. t.started /\ t.shown = t.name
    BY <2>1, <1>9 DEF SameArgs
  <2>3. Kept(t)
    BY <1>2, <2>1 DEF AllKept
  <2> HIDE DEF t
  <2>4. Handled(t, t.got)
    BY <2>2, <2>3 DEF Kept
  <2>5. t.gave = t.got \/ (t.name = Task /\ t.got < Whole)
    BY <2>4 DEF Handled
  <2> QED BY <2>1, <2>5 DEF SameArgs
<1> QED BY <1>6, <1>7, <1>9 DEF f, g, h, r

\* What is left when the upstream fails.
LEMMA FailsWell ==
  ASSUME NEW c, NEW b, Good(c, b)
  PROVE  LET a == CloseAllBlocks(b)
             d == IF HasStartedTool(a) THEN Emit(a, TopLevelError)
                  ELSE [a EXCEPT !.out = @ \o ErrorBlock(a.next), !.next = @ + 1]
             r == Ended(d)
         IN  r \in Builders /\ CanFinish(c, r.out)
<1> DEFINE a == CloseAllBlocks(b)
           d1 == Emit(a, TopLevelError)
           d2 == [a EXCEPT !.out = @ \o ErrorBlock(a.next), !.next = @ + 1]
           d == IF HasStartedTool(a) THEN d1 ELSE d2
           r == Ended(d)
<1>1. Finished(c, a) /\ Keeps(a, b) /\ (b.next # 0 => a.next # 0)
  BY CloseAllFinishes
<1> HIDE DEF a
<1>2. Finished(c, d1) /\ d1.next = a.next
  BY <1>1, ErrorEventFinishes
<1>3. Finished(c, d2) /\ d2.next # 0
  BY <1>1, ErrorTextFinishes
<1> HIDE DEF d1, d2
<1>4. HasStartedTool(a) => a.next # 0
  <2>1. HasStartedTool(a) => HasStartedTool(b) BY <1>1 DEF HasStartedTool, Keeps
  <2> QED BY <1>1, <2>1, ContentHasIndex
<1>5. Finished(c, d) /\ d.next # 0
  BY <1>2, <1>3, <1>4
<1> HIDE DEF d
<1>6. r \in Builders /\ CanFinish(c, r.out)
  BY <1>5, EndedFinishes
<1> QED BY <1>6 DEF a, d, d1, d2

LEMMA OpenAIStep == OpenAIInv /\ [OpenAINext]_openaiVars => OpenAIInv'
<1> SUFFICES ASSUME OpenAIInv, [OpenAINext]_openaiVars PROVE OpenAIInv'
  OBVIOUS
<1>0. openai = "reading" => Good(openaiClient, sse) /\ AllKept(sse)
  BY DEF OpenAIInv
<1>1. CASE UNCHANGED openaiVars
  BY <1>1 DEF openaiVars, OpenAIInv, NeverSilent, ArgumentsKept, HasStartedTool, IsClient
<1>2. CASE Reasoning
  <2> DEFINE b == WriteThinking(sse)
  <2>1. Item(b) /\ openai = "reading" BY <1>2 DEF Reasoning, Item
  <2>2. Good(openaiClient, b) /\ Keeps(b, sse) BY <1>0, <2>1, WriteThinkingGood
  <2> HIDE DEF b
  <2> QED BY <1>0, <2>1, <2>2, StillKept, ItemKeeps
<1>3. ASSUME NEW blank \in BOOLEAN, Text(blank) PROVE OpenAIInv'
  <2> DEFINE b == WriteText(sse, blank)
  <2>1. Item(b) /\ openai = "reading" BY <1>3 DEF Text, Item
  <2>2. Good(openaiClient, b) /\ Keeps(b, sse) BY <1>0, <2>1, WriteTextGood
  <2> HIDE DEF b
  <2> QED BY <1>0, <2>1, <2>2, StillKept, ItemKeeps
<1>4. CASE HeuristicToolCall
  <2> DEFINE b == HeuristicTool(sse)
  <2>1. Item(b) /\ openai = "reading" BY <1>4 DEF HeuristicToolCall, Item
  <2>2. Good(openaiClient, b) /\ Keeps(b, sse) BY <1>0, <2>1, HeuristicToolGood
  <2> HIDE DEF b
  <2> QED BY <1>0, <2>1, <2>2, StillKept, ItemKeeps
<1>5. ASSUME NEW given \in Tools \cup {-1}, NEW name \in Names, NEW n \in 0 .. Whole, ToolCall(given, name, n)
      PROVE  OpenAIInv'
  <2> DEFINE i == IF given < 0 THEN Cardinality(DOMAIN sse.tools) ELSE given
             a == CloseContentBlocks(sse)
             b == ProcessToolCall(a, i, name, n)
  <2>1. /\ Item(b) /\ openai = "reading" /\ i \in Tools
        /\ (IF i \in DOMAIN sse.tools THEN sse.tools[i] ELSE NewTool).got + n <= Whole
    BY <1>5 DEF ToolCall, Item
  <2> HIDE DEF i
  <2>2. Good(openaiClient, a) /\ Keeps(a, sse) BY <1>0, <2>1, CloseContentGood
  <2>3. name \in Seq(Pieces)
    <3>1. name = <<>> \/ name = Task \/ \E p \in Pieces : name = <<p>> BY DEF Names
    <3>2. \A p \in Pieces : <<p>> \in Seq(Pieces) OBVIOUS
    <3>3. <<>> \in Seq(Pieces) OBVIOUS
    <3>4. Task \in Seq(Pieces) BY OpenAIAssumption
    <3>5. CASE name = <<>> BY <3>3, <3>5
    <3>6. CASE name = Task BY <3>4, <3>6
    <3>7. ASSUME NEW p \in Pieces, name = <<p>> PROVE name \in Seq(Pieces) BY <3>2, <3>7
    <3> QED BY <3>1, <3>5, <3>6, <3>7
  <2>4. n \in Nat
    OBVIOUS
  <2> HIDE DEF a
  <2>5. AllKept(a) /\ (IF i \in DOMAIN a.tools THEN a.tools[i] ELSE NewTool).got + n <= Whole
    BY <1>0, <2>1, <2>2, StillKept DEF Keeps
  <2>6. Good(openaiClient, b) /\ AllKept(b)
    BY <2>1, <2>2, <2>3, <2>4, <2>5, ProcessGood
  <2> HIDE DEF b
  <2> QED BY <2>1, <2>6, ItemKeeps
<1>6. CASE StreamFinishes
  <2> DEFINE r == Ended(CloseAllBlocks(FlushTaskArgs(Fill(sse))))
  <2>1. openai = "reading" /\ sse' = r /\ openai' = "finished" /\ openaiClient' = openaiClient
    BY <1>6 DEF StreamFinishes, Ended
  <2>2. /\ r \in Builders /\ CanFinish(openaiClient, r.out)
        /\ r.text # None \/ HasStartedTool(r)
        /\ \A i \in DOMAIN r.tools :
              LET t == r.tools[i]
              IN  t.started /\ t.shown = t.name => t.gave = t.got \/ (t.name = Task /\ t.got < Whole)
    BY <1>0, <2>1, FinishesWell
  <2> HIDE DEF r
  <2>3. NeverSilent' /\ ArgumentsKept'
    BY <2>1, <2>2 DEF NeverSilent, ArgumentsKept, HasStartedTool
  <2>4. openaiClient.over = "no" /\ IsClient(openaiClient)
    BY <2>1 DEF OpenAIInv
  <2> QED BY <2>1, <2>2, <2>3, <2>4 DEF OpenAIInv, IsClient
<1>7. CASE Fail
  <2> DEFINE a == CloseAllBlocks(sse)
             d == IF HasStartedTool(a) THEN Emit(a, TopLevelError)
                  ELSE [a EXCEPT !.out = @ \o ErrorBlock(a.next), !.next = @ + 1]
             r == Ended(d)
  <2>1. openai = "reading" /\ sse' = r /\ openai' = "failed" /\ openaiClient' = openaiClient
    BY <1>7 DEF Fail, Ended
  <2>2. r \in Builders /\ CanFinish(openaiClient, r.out)
    BY <1>0, <2>1, FailsWell
  <2> HIDE DEF r
  <2>3. openaiClient.over = "no" /\ IsClient(openaiClient)
    BY <2>1 DEF OpenAIInv
  <2> QED BY <2>1, <2>2, <2>3 DEF OpenAIInv, NeverSilent, ArgumentsKept, IsClient
<1>8. CASE Receive
  <2> DEFINE s == Tail(sse.out)
             r == [sse EXCEPT !.out = s]
             c == After(openaiClient, Head(sse.out))
  <2>1. sse.out # <<>> /\ openaiClient' = c /\ sse' = r /\ openai' = openai
    BY <1>8 DEF Receive
  <2>2. sse \in Builders /\ sse.out \in Seq(Events) /\ IsClient(openaiClient) /\ openaiClient.over = "no"
    BY <2>1 DEF OpenAIInv, Builders
  <2>3. s \in Seq(Events) /\ Head(sse.out) \in Events
    BY <2>1, <2>2, CanReceive
  <2>4. IsClient(c) /\ c.over = "no"
    BY <2>2, AfterFields
  <2>5. \A open, seen : Can(openaiClient, sse.out, open, seen) => Can(c, s, open, seen)
    BY <2>1, <2>2, CanReceive
  <2>6. CanFinish(openaiClient, sse.out) => CanFinish(c, s)
    BY <2>1, <2>2, CanReceive
  <2> HIDE DEF s, c
  <2>7. /\ r \in Builders /\ r.out = s /\ r.next = sse.next /\ r.thinking = sse.thinking /\ r.text = sse.text
        /\ r.thinkingOn = sse.thinkingOn /\ r.textOn = sse.textOn /\ r.tools = sse.tools
        /\ r.wroteText = sse.wroteText /\ r.heuristic = sse.heuristic
    BY <2>2, <2>3 DEF Builders
  <2> HIDE DEF r
  <2>8. ASSUME openai = "reading" PROVE Good(c, r) /\ AllKept(r)
    <3>1. PICK open : Can(openaiClient, sse.out, open, 0 .. sse.next - 1) /\ Fits(open, sse)
      BY <1>0, <2>8 DEF Good
    <3>2. Can(c, r.out, open, 0 .. r.next - 1) /\ Fits(open, r)
      BY <2>5, <2>7, <3>1 DEF Fits
    <3>3. Consistent(r) /\ AllKept(r)
      BY <1>0, <2>7, <2>8 DEF Good, Consistent, AllKept
    <3> QED BY <2>7, <3>2, <3>3 DEF Good
  <2>9. NeverSilent' /\ ArgumentsKept'
    BY <2>1, <2>7 DEF OpenAIInv, NeverSilent, ArgumentsKept, HasStartedTool
  <2> QED BY <2>1, <2>2, <2>4, <2>6, <2>7, <2>8, <2>9 DEF OpenAIInv, IsClient
<1>9. CASE End
  <2>1. /\ sse.out = <<>> /\ openai # "reading" /\ openaiClient' = [openaiClient EXCEPT !.over = "ended"]
        /\ sse' = sse /\ openai' = openai
    BY <1>9 DEF End
  <2>2. IsClient(openaiClient') /\ openaiClient'.over = "ended"
    BY <2>1, OverFields DEF OpenAIInv
  <2> QED BY <2>1, <2>2 DEF OpenAIInv, NeverSilent, ArgumentsKept, HasStartedTool, IsClient
<1> QED BY <1>1, <1>2, <1>3, <1>4, <1>5, <1>6, <1>7, <1>8, <1>9 DEF OpenAINext

\* Whatever the model writes, and wherever its stream breaks, the client sees a
\* stream that obeys the contract, and one that was read to its end says
\* something besides its thinking.
THEOREM OpenAIContractCorrect == OpenAISpec => OpenAIContract
<1>1. OpenAIInit => OpenAIClient!Init
  BY SameContract DEF OpenAIInit, OpenAIClient!Init
<1>2. OpenAIInv /\ [OpenAINext]_openaiVars => [OpenAIClient!Next]_openaiClient
  <2> SUFFICES ASSUME OpenAIInv, OpenAINext, openaiClient' # openaiClient PROVE OpenAIClient!Next
    BY DEF openaiVars
  <2>1. Receive \/ End
    BY DEF OpenAINext, Reasoning, HeuristicToolCall, Text, ToolCall, Item, StreamFinishes, Fail
  <2>2. CASE Receive
    <3>1. sse.out # <<>> /\ openaiClient' = After(openaiClient, Head(sse.out)) /\ sse.out \in Seq(Events)
      BY <2>2 DEF Receive, OpenAIInv, Builders
    <3>2. IsClient(openaiClient) /\ openaiClient.over = "no" /\ Head(sse.out) \in Events
      BY <3>1, CanReceive DEF OpenAIInv
    <3>3. Legal(openaiClient, Head(sse.out))
      BY <3>1, <3>2, CanReceive DEF OpenAIInv, Good
    <3>4. openaiClient'.last = Head(sse.out)
      BY <3>1, <3>2, AfterFields
    <3>5. Head(sse.out).type \in OpenAIClient!EventTypes
      BY <3>2 DEF Events, OpenAIClient!EventTypes
    <3> QED BY <3>1, <3>3, <3>4, <3>5, SameContract DEF OpenAIClient!Next, OpenAIClient!Receive
  <2>3. CASE End
    <3>1. Complete(openaiClient)
      BY <2>3, CanNow DEF End, OpenAIInv
    <3> QED BY <2>3, <3>1, SameContract DEF End, OpenAIClient!Next, OpenAIClient!Ends
  <2> QED BY <2>1, <2>2, <2>3
<1>3. OpenAIInv => NeverSilent
  BY DEF OpenAIInv
<1> QED BY <1>1, <1>2, <1>3, OpenAIInitInv, OpenAIStep, PTL DEF OpenAISpec, OpenAIContract, OpenAIClient!Spec

\* Every piece of arguments that the upstream sent for a tool call is passed on
\* exactly once, unless they are those of Task and incomplete, or the name grew
\* after the block was started.
THEOREM ArgumentsKeptCorrect == OpenAISpec => []ArgumentsKept
<1>1. OpenAIInv => ArgumentsKept
  BY DEF OpenAIInv
<1> QED BY <1>1, OpenAIInitInv, OpenAIStep, PTL DEF OpenAISpec

-----------------------------------------------------------------------------

(* Texts, and the tags that are looked for inside and outside of a tag.      *)
Texts == Seq(Characters)
Eligible(in) == IF in THEN {CloseTag} ELSE {OpenTag, CloseTag}
(* The tag stands in s from n on.                                            *)
MatchAt(s, n, tag) == n + Len(tag) - 1 <= Len(s) /\ \A j \in 1..Len(tag) : s[n + j - 1] = tag[j]

(* What comes from n on, and what comes before n, character by character.    *)
LEMMA FromUpto ==
  ASSUME NEW s \in Texts, NEW n \in 1..Len(s) + 1
  PROVE  /\ From(s, n) \in Texts /\ Len(From(s, n)) = Len(s) - n + 1
         /\ \A j \in 1..Len(s) - n + 1 : From(s, n)[j] = s[n + j - 1]
         /\ Upto(s, n) \in Texts /\ Len(Upto(s, n)) = n - 1
         /\ \A j \in 1..n - 1 : Upto(s, n)[j] = s[j]
<1>1. Len(s) \in Nat /\ \A j \in 1..Len(s) : s[j] \in Characters
  BY DEF Texts
<1>2. n \in Int /\ 1 <= n /\ n <= Len(s) + 1
  BY <1>1
<1>3. /\ SubSeq(s, n, Len(s)) \in Seq(Characters)
      /\ Len(SubSeq(s, n, Len(s))) = IF n <= Len(s) THEN Len(s) - n + 1 ELSE 0
      /\ \A j \in 1..Len(s) - n + 1 : SubSeq(s, n, Len(s))[j] = s[n + j - 1]
  BY <1>1, <1>2, SubSeqProperties
<1>4. /\ SubSeq(s, 1, n - 1) \in Seq(Characters)
      /\ Len(SubSeq(s, 1, n - 1)) = IF 1 <= n - 1 THEN n - 1 - 1 + 1 ELSE 0
      /\ \A j \in 1..n - 1 - 1 + 1 : SubSeq(s, 1, n - 1)[j] = s[1 + j - 1]
  BY <1>1, <1>2, SubSeqProperties
<1> QED
  BY <1>1, <1>2, <1>3, <1>4 DEF From, Upto, Texts

(* The first k elements of a sequence.                                       *)
LEMMA FirstOnes ==
  ASSUME NEW S, NEW s \in Seq(S), NEW k \in 0..Len(s)
  PROVE  /\ SubSeq(s, 1, k) \in Seq(S) /\ Len(SubSeq(s, 1, k)) = k
         /\ \A j \in 1..k : SubSeq(s, 1, k)[j] = s[j]
<1>1. k \in Int /\ 0 <= k /\ k <= Len(s) /\ \A j \in 1..k : s[j] \in S
  OBVIOUS
<1>2. /\ SubSeq(s, 1, k) \in Seq(S)
      /\ Len(SubSeq(s, 1, k)) = IF 1 <= k THEN k - 1 + 1 ELSE 0
      /\ \A j \in 1..k - 1 + 1 : SubSeq(s, 1, k)[j] = s[1 + j - 1]
  BY <1>1, SubSeqProperties
<1> QED
  BY <1>1, <1>2

(* The rest of s begins with a tag just if the tag stands there.             *)
LEMMA PrefixIsMatch ==
  ASSUME NEW s \in Texts, NEW n \in 1..Len(s) + 1, NEW tag \in Texts
  PROVE  IsPrefix(tag, From(s, n)) <=> MatchAt(s, n, tag)
<1> DEFINE r == From(s, n)
<1>1. /\ r \in Texts /\ Len(r) = Len(s) - n + 1 /\ \A j \in 1..Len(r) : r[j] = s[n + j - 1]
  BY FromUpto
<1>2. Len(s) \in Nat /\ Len(tag) \in Nat /\ n \in Nat /\ Len(r) \in Nat
  BY <1>1 DEF Texts
<1> HIDE DEF r
<1>3. CASE Len(tag) <= Len(r)
  <2>2. /\ SubSeq(tag, 1, Len(tag)) \in Texts /\ Len(SubSeq(tag, 1, Len(tag))) = Len(tag)
        /\ \A j \in 1..Len(tag) : SubSeq(tag, 1, Len(tag))[j] = tag[j]
    BY <1>2, FirstOnes DEF Texts
  <2>3. /\ SubSeq(r, 1, Len(tag)) \in Texts /\ Len(SubSeq(r, 1, Len(tag))) = Len(tag)
        /\ \A j \in 1..Len(tag) : SubSeq(r, 1, Len(tag))[j] = r[j]
    BY <1>1, <1>2, <1>3, FirstOnes DEF Texts
  <2>4. SubSeq(tag, 1, Len(tag)) = SubSeq(r, 1, Len(tag)) <=> \A j \in 1..Len(tag) : tag[j] = r[j]
    <3>1. ASSUME \A j \in 1..Len(tag) : tag[j] = r[j]
          PROVE  SubSeq(tag, 1, Len(tag)) = SubSeq(r, 1, Len(tag))
      <4>1. \A j \in 1..Len(tag) : SubSeq(tag, 1, Len(tag))[j] = SubSeq(r, 1, Len(tag))[j]
        BY <2>2, <2>3, <3>1
      <4> QED
        BY <4>1, <2>2, <2>3, SeqEqual DEF Texts
    <3> QED
      BY <2>2, <2>3, <3>1
  <2>5. \A j \in 1..Len(tag) : r[j] = s[n + j - 1]
    BY <1>1, <1>2, <1>3
  <2>6. n + Len(tag) - 1 <= Len(s)
    BY <1>1, <1>2, <1>3
  <2> QED
    BY <1>3, <2>4, <2>5, <2>6 DEF IsPrefix, MatchAt, r
<1>4. CASE ~ (Len(tag) <= Len(r))
  <2>1. ~ (n + Len(tag) - 1 <= Len(s))
    BY <1>1, <1>2, <1>4
  <2> QED
    BY <1>4, <2>1 DEF IsPrefix, MatchAt, r
<1> QED
  BY <1>3, <1>4

(* What TagAssumption says of the two tags, as it is used here.              *)
LEMMA TagFacts ==
  /\ OpenTag \in Texts /\ CloseTag \in Texts /\ Len(OpenTag) >= 1 /\ Len(CloseTag) >= 1
  /\ OpenTag[1] = CloseTag[1]
  /\ \A j \in 2..Len(OpenTag) : OpenTag[j] # OpenTag[1]
  /\ \A j \in 2..Len(CloseTag) : CloseTag[j] # OpenTag[1]
  BY TagAssumption, EmptySeq DEF Texts

(* str.find: the first place where the tag stands.                           *)
LEMMA FindFacts ==
  ASSUME NEW s \in Texts, NEW tag \in Texts
  PROVE  /\ Find(s, tag) \in 1..Len(s) + 1
         /\ Find(s, tag) <= Len(s) => MatchAt(s, Find(s, tag), tag)
         /\ \A n \in 1..Len(s) : n < Find(s, tag) => ~MatchAt(s, n, tag)
<1> DEFINE at == {n \in 1..Len(s) : IsPrefix(tag, From(s, n))}
<1>1. Len(s) \in Nat
  BY DEF Texts
<1>2. \A n \in 1..Len(s) : n \in at <=> MatchAt(s, n, tag)
  BY <1>1, PrefixIsMatch
<1>3. at \in SUBSET Nat /\ at \subseteq 1..Len(s)
  BY <1>1
<1>4. Find(s, tag) = IF at = {} THEN Len(s) + 1 ELSE CHOOSE n \in at : \A m \in at : n <= m
  BY DEF Find
<1> HIDE DEF at
<1>5. CASE at = {}
  BY <1>1, <1>2, <1>4, <1>5
<1>6. CASE at # {}
  <2>1. \E n \in at : \A m \in at : n <= m
    BY <1>3, <1>6, LeastNatural
  <2>2. Find(s, tag) \in at /\ \A m \in at : Find(s, tag) <= m
    BY <1>4, <1>6, <2>1
  <2>3. Find(s, tag) \in 1..Len(s)
    BY <1>3, <2>2
  <2>4. \A n \in 1..Len(s) : n < Find(s, tag) => n \notin at
    BY <1>3, <2>2, <2>3
  <2> QED
    BY <1>1, <1>2, <2>2, <2>3, <2>4
<1> QED
  BY <1>5, <1>6

(* The end of s from n on is a proper beginning of the tag. *)
BeginsAt(s, n, tag) == Len(s) - n + 1 < Len(tag) /\ \A j \in 1..Len(s) - n + 1 : s[n + j - 1] = tag[j]

(* What HoldFrom asks of the rest of s: that it is a proper beginning.       *)
LEMMA BeginIsPrefix ==
  ASSUME NEW s \in Texts, NEW n \in 1..Len(s) + 1, NEW tag \in Texts
  PROVE  From(s, n) # tag /\ IsPrefix(From(s, n), tag) <=> BeginsAt(s, n, tag)
<1> DEFINE r == From(s, n)
<1>1. /\ r \in Texts /\ Len(r) = Len(s) - n + 1 /\ \A j \in 1..Len(r) : r[j] = s[n + j - 1]
  BY FromUpto
<1>2. Len(s) \in Nat /\ Len(tag) \in Nat /\ n \in Nat /\ Len(r) \in Nat
  BY <1>1 DEF Texts
<1>3. SubSeq(r, 1, Len(r)) = r
  BY <1>1, SubSeqFull DEF Texts
<1> HIDE DEF r
<1>4. ASSUME IsPrefix(r, tag), r # tag
      PROVE  BeginsAt(s, n, tag)
  <2>1. Len(r) <= Len(tag) /\ r = SubSeq(tag, 1, Len(r))
    BY <1>3, <1>4 DEF IsPrefix
  <2>2. \A j \in 1..Len(r) : SubSeq(tag, 1, Len(r))[j] = tag[j]
    BY <1>2, <2>1, FirstOnes DEF Texts
  <2>3. \A j \in 1..Len(r) : r[j] = tag[j]
    BY <2>1, <2>2
  <2>4. Len(r) # Len(tag)
    BY <1>1, <1>2, <1>4, <2>3, SeqEqual DEF Texts
  <2>5. Len(r) < Len(tag)
    BY <1>2, <2>1, <2>4
  <2>6. \A j \in 1..Len(r) : s[n + j - 1] = tag[j]
    BY <1>1, <2>3
  <2> QED
    BY <1>1, <2>5, <2>6 DEF BeginsAt
<1>5. ASSUME BeginsAt(s, n, tag)
      PROVE  IsPrefix(r, tag) /\ r # tag
  <2>1. Len(r) < Len(tag) /\ \A j \in 1..Len(r) : r[j] = tag[j]
    BY <1>1, <1>2, <1>5 DEF BeginsAt
  <2>2. /\ SubSeq(tag, 1, Len(r)) \in Texts /\ Len(SubSeq(tag, 1, Len(r))) = Len(r)
        /\ \A j \in 1..Len(r) : SubSeq(tag, 1, Len(r))[j] = tag[j]
    BY <1>2, <2>1, FirstOnes DEF Texts
  <2>3. \A j \in 1..Len(r) : SubSeq(tag, 1, Len(r))[j] = r[j]
    BY <2>1, <2>2
  <2>4. SubSeq(tag, 1, Len(r)) = r
    BY <1>1, <2>2, <2>3, SeqEqual DEF Texts
  <2> QED
    BY <1>2, <1>3, <2>1, <2>4 DEF IsPrefix
<1> QED
  BY <1>4, <1>5 DEF r

(* str.rfind: no "<" comes after the last one.                               *)
LEMMA BracketFacts ==
  ASSUME NEW s \in Texts
  PROVE  /\ LastBracket(s) \in 0..Len(s)
         /\ LastBracket(s) > 0 => s[LastBracket(s)] = OpenTag[1]
         /\ \A n \in 1..Len(s) : s[n] = OpenTag[1] => n <= LastBracket(s)
<1> DEFINE I == {i \in 1..Len(s) : s[i] = OpenTag[1]}
<1>1. Len(s) \in Nat
  BY DEF Texts
<1>2. LastBracket(s) = IF I # {} THEN Max(I) ELSE 0
  BY DEF LastBracket, SelectLastInSeq
<1>3. I \subseteq 1..Len(s) /\ \A i \in I : i \in Nat /\ i >= 1 /\ i <= Len(s)
  BY <1>1
<1>4. \A n \in 1..Len(s) : n \in I <=> s[n] = OpenTag[1]
  OBVIOUS
<1> HIDE DEF I
<1>5. CASE I = {}
  BY <1>1, <1>2, <1>4, <1>5
<1>6. CASE I # {}
  <2> DEFINE J == {Len(s) - i : i \in I}
  <2>1. J \in SUBSET Nat /\ J # {}
    <3>1. \A i \in I : Len(s) - i \in Nat
      BY <1>1, <1>3
    <3>2. J # {}
      BY <1>6
    <3> QED
      BY <3>1, <3>2
  <2>2. PICK k \in J : \A j \in J : k <= j
    <3> HIDE DEF J
    <3> QED
      BY <2>1, LeastNatural
  <2>3. PICK i \in I : k = Len(s) - i
    BY <2>2
  <2>4. \A j \in I : j <= i
    <3>1. TAKE j \in I
    <3>2. Len(s) - j \in J
      OBVIOUS
    <3>3. Len(s) - i <= Len(s) - j
      BY <2>2, <2>3, <3>2
    <3> QED
      BY <1>1, <1>3, <3>3
  <2>5. Max(I) \in I /\ \A j \in I : j <= Max(I)
    <3>1. \E x \in I : \A y \in I : x >= y
      BY <1>3, <2>3, <2>4
    <3>2. Max(I) \in I /\ \A y \in I : Max(I) >= y
      BY <3>1 DEF Max
    <3> QED
      BY <3>2, <1>3
  <2>6. LastBracket(s) \in I /\ \A j \in I : j <= LastBracket(s)
    BY <1>2, <1>6, <2>5
  <2>7. LastBracket(s) \in 1..Len(s) /\ s[LastBracket(s)] = OpenTag[1]
    BY <1>3, <1>4, <2>6
  <2>8. \A n \in 1..Len(s) : s[n] = OpenTag[1] => n <= LastBracket(s)
    BY <1>4, <2>6
  <2> QED
    BY <1>1, <2>7, <2>8
<1> QED
  BY <1>5, <1>6

(* What is held back is the only end of s that may become a tag: a tag's     *)
(* first character is nowhere else in it, so only the last "<" matters.      *)
LEMMA HoldFacts ==
  ASSUME NEW s \in Texts, NEW in \in BOOLEAN
  PROVE  /\ HoldFrom(s, Eligible(in)) \in 1..Len(s) + 1
         /\ HoldFrom(s, Eligible(in)) <= Len(s) => \E tag \in Eligible(in) : BeginsAt(s, HoldFrom(s, Eligible(in)), tag)
         /\ \A n \in 1..Len(s), tag \in Eligible(in) : n < HoldFrom(s, Eligible(in)) => ~BeginsAt(s, n, tag)
<1> DEFINE b == LastBracket(s)
           Holds == b > 0 /\ \E tag \in Eligible(in) : From(s, b) # tag /\ IsPrefix(From(s, b), tag)
<1>1. Len(s) \in Nat /\ b \in 0..Len(s) /\ \A n \in 1..Len(s) : s[n] = OpenTag[1] => n <= b
  BY BracketFacts DEF Texts
<1>2. HoldFrom(s, Eligible(in)) = IF Holds THEN b ELSE Len(s) + 1
  BY DEF HoldFrom
<1>3. Eligible(in) \subseteq Texts /\ Eligible(in) \subseteq {OpenTag, CloseTag}
  BY TagFacts DEF Eligible
<1>4. Holds <=> b > 0 /\ \E tag \in Eligible(in) : BeginsAt(s, b, tag)
  BY <1>1, <1>3, BeginIsPrefix
<1> HIDE DEF Holds, b
<1>5. ASSUME NEW n \in 1..Len(s), NEW tag \in Eligible(in), BeginsAt(s, n, tag)
      PROVE  n = b
  <2>1. tag \in Texts /\ Len(tag) \in Nat /\ Len(s) - n + 1 >= 1 /\ n \in Nat
    BY <1>1, <1>3 DEF Texts
  <2>2. s[n] = tag[1] /\ tag[1] = OpenTag[1]
    <3>1. 1 \in 1..Len(s) - n + 1 /\ n + 1 - 1 = n
      BY <1>1, <2>1
    <3>2. s[n + 1 - 1] = tag[1]
      BY <1>5, <3>1 DEF BeginsAt
    <3>3. tag = OpenTag \/ tag = CloseTag
      BY <1>3
    <3> QED
      BY <3>1, <3>2, <3>3, TagFacts
  <2>3. n <= b
    BY <1>1, <2>2
  <2>4. CASE n < b
    <3>1. b - n + 1 \in 1..Len(s) - n + 1 /\ n + (b - n + 1) - 1 = b
      BY <1>1, <2>1, <2>4
    <3>2. s[b] = tag[b - n + 1]
      BY <1>5, <3>1 DEF BeginsAt
    <3>3. b - n + 1 \in 2..Len(tag)
      BY <1>1, <1>5, <2>1, <2>4 DEF BeginsAt
    <3>4. tag[b - n + 1] # OpenTag[1]
      BY <1>3, <3>3, TagFacts
    <3>5. s[b] = OpenTag[1]
      BY <1>1, <2>1, <2>4, BracketFacts DEF b
    <3> QED
      BY <3>2, <3>4, <3>5
  <2> QED
    BY <1>1, <2>1, <2>3, <2>4
<1> QED
  BY <1>1, <1>2, <1>4, <1>5

(* What is handed out, and one step of reading, with g for what is read of   *)
(* shorter texts.                                                            *)
TypedTexts == Seq(Characters \X BOOLEAN)
Read(g, s, in) ==
  IF s = <<>> THEN <<>>
  ELSE IF IsPrefix(CloseTag, s) THEN g[From(s, Len(CloseTag) + 1)][FALSE]
  ELSE IF ~in /\ IsPrefix(OpenTag, s) THEN g[From(s, Len(OpenTag) + 1)][TRUE]
  ELSE <<<<s[1], in>>>> \o g[From(s, 2)][in]

(* Each step of reading leaves a shorter text.                               *)
LEMMA Shorter ==
  ASSUME NEW s \in Texts, s # <<>>
  PROVE  /\ From(s, 2) \in Texts /\ Len(From(s, 2)) < Len(s)
         /\ \A tag \in {OpenTag, CloseTag} : IsPrefix(tag, s) =>
               From(s, Len(tag) + 1) \in Texts /\ Len(From(s, Len(tag) + 1)) < Len(s)
<1>1. Len(s) \in Nat /\ Len(s) >= 1
  BY EmptySeq DEF Texts
<1>2. From(s, 2) \in Texts /\ Len(From(s, 2)) = Len(s) - 2 + 1
  <2>1. 2 \in 1..Len(s) + 1
    BY <1>1
  <2> QED
    BY <2>1, FromUpto
<1>3. ASSUME NEW tag \in {OpenTag, CloseTag}, IsPrefix(tag, s)
      PROVE  From(s, Len(tag) + 1) \in Texts /\ Len(From(s, Len(tag) + 1)) < Len(s)
  <2>1. Len(tag) \in Nat /\ Len(tag) >= 1 /\ Len(tag) <= Len(s)
    BY <1>3, TagFacts DEF IsPrefix, Texts
  <2>2. Len(tag) + 1 \in 1..Len(s) + 1
    BY <1>1, <2>1
  <2>3. From(s, Len(tag) + 1) \in Texts /\ Len(From(s, Len(tag) + 1)) = Len(s) - (Len(tag) + 1) + 1
    BY <2>2, FromUpto
  <2> QED
    BY <1>1, <2>1, <2>3
<1> QED
  BY <1>1, <1>2, <1>3

(* Meaning solves its recursive definition, and has the type it should.      *)
LEMMA MeaningDefined ==
  /\ \A s \in Texts, in \in BOOLEAN : Meaning[s][in] \in TypedTexts
  /\ \A s \in Texts, in \in BOOLEAN : Meaning[s][in] = Read(Meaning, s, in)
<1> DEFINE V == [BOOLEAN -> TypedTexts]
           size == [s \in Texts |-> Len(s)]
           reads == [g \in [Texts -> V] |-> [s \in Texts |-> [in \in BOOLEAN |-> Read(g, s, in)]]]
<1>1. V # {} /\ size \in [Texts -> Nat]
  <2>1. [in \in BOOLEAN |-> <<>>] \in V
    BY EmptySeq DEF TypedTexts
  <2>2. \A s \in Texts : Len(s) \in Nat
    BY DEF Texts
  <2>3. size \in [Texts -> Nat]
    BY <2>2
  <2> QED
    BY <2>1, <2>3
<1>2. ASSUME NEW g \in [Texts -> V], NEW s \in Texts, NEW in \in BOOLEAN
      PROVE  Read(g, s, in) \in TypedTexts
  <2>1. \A t \in Texts, b \in BOOLEAN : g[t][b] \in TypedTexts
    OBVIOUS
  <2> HIDE DEF V
  <2>2. CASE s = <<>>
    BY <2>2, EmptySeq DEF Read, TypedTexts
  <2>3. CASE s # <<>>
    <3>1. From(s, 2) \in Texts /\ s[1] \in Characters /\ Len(s) >= 1
      BY <2>3, Shorter, EmptySeq DEF Texts
    <3>2. IsPrefix(CloseTag, s) => g[From(s, Len(CloseTag) + 1)][FALSE] \in TypedTexts
      BY <2>1, <2>3, Shorter
    <3>3. IsPrefix(OpenTag, s) => g[From(s, Len(OpenTag) + 1)][TRUE] \in TypedTexts
      BY <2>1, <2>3, Shorter
    <3>4. g[From(s, 2)][in] \in TypedTexts
      BY <2>1, <3>1
    <3>5. <<<<s[1], in>>>> \in TypedTexts
      BY <3>1 DEF TypedTexts
    <3>6. <<<<s[1], in>>>> \o g[From(s, 2)][in] \in TypedTexts
      BY <3>4, <3>5, ConcatProperties DEF TypedTexts
    <3> QED
      BY <2>3, <3>2, <3>3, <3>6 DEF Read
  <2> QED
    BY <2>2, <2>3
<1>3. reads \in [[Texts -> V] -> [Texts -> V]]
  BY <1>2
<1>4. ASSUME NEW g \in [Texts -> V], NEW h \in [Texts -> V], NEW s \in Texts,
             \A t \in Texts : size[t] < size[s] => g[t] = h[t]
      PROVE  reads[g][s] = reads[h][s]
  <2>1. ASSUME NEW in \in BOOLEAN
        PROVE  Read(g, s, in) = Read(h, s, in)
    <3>1. CASE s = <<>>
      BY <3>1 DEF Read
    <3>2. CASE s # <<>>
      <4>1. \A t \in Texts : Len(t) < Len(s) => g[t] = h[t]
        BY <1>4
      <4>2. g[From(s, 2)] = h[From(s, 2)]
        BY <3>2, <4>1, Shorter
      <4>3. IsPrefix(CloseTag, s) => g[From(s, Len(CloseTag) + 1)] = h[From(s, Len(CloseTag) + 1)]
        BY <3>2, <4>1, Shorter
      <4>4. IsPrefix(OpenTag, s) => g[From(s, Len(OpenTag) + 1)] = h[From(s, Len(OpenTag) + 1)]
        BY <3>2, <4>1, Shorter
      <4> HIDE DEF V
      <4> QED
        BY <3>2, <4>2, <4>3, <4>4 DEF Read
    <3> QED
      BY <3>1, <3>2
  <2>2. reads[g][s] = [in \in BOOLEAN |-> Read(g, s, in)] /\ reads[h][s] = [in \in BOOLEAN |-> Read(h, s, in)]
    <3> HIDE DEF V
    <3> QED
      OBVIOUS
  <2> QED
    BY <2>1, <2>2
<1>5. \A g, h \in [Texts -> V], d \in Texts :
         (\A c \in Texts : size[c] < size[d] => g[c] = h[c]) => reads[g][d] = reads[h][d]
  <2> HIDE DEF reads, size, V
  <2> QED
    BY <1>4
<1>6. PICK f : IsDefinedBy(f, Texts, V, reads)
  <2>1. V # {}
    BY <1>1
  <2>2. size \in [Texts -> Nat]
    BY <1>1
  <2> HIDE DEF reads, size, V
  <2> QED
    BY <1>3, <1>5, <2>1, <2>2, Recursion
<1> DEFINE Solves(f_) == f_ = [s \in Texts |-> [in \in BOOLEAN |-> Read(f_, s, in)]]
<1>7. f \in [Texts -> V] /\ Solves(f)
  <2>1. f \in [Texts -> V] /\ f = reads[f]
    BY <1>6 DEF IsDefinedBy
  <2> HIDE DEF V
  <2> QED
    BY <2>1
<1>8. Meaning = CHOOSE f_ : Solves(f_)
  BY DEF Meaning, Texts, Read
<1>9. Solves(Meaning)
  <2> HIDE DEF Solves
  <2> QED
    BY <1>7, <1>8
<1>10. ASSUME NEW k \in Nat, \A m \in Nat : m < k => \A s \in Texts : Len(s) = m => Meaning[s] \in V
       PROVE  \A s \in Texts : Len(s) = k => Meaning[s] \in V
  <2> SUFFICES ASSUME NEW s \in Texts, Len(s) = k
               PROVE  Meaning[s] \in V
    OBVIOUS
  <2> DEFINE g == [t \in Texts |-> IF Len(t) < k THEN Meaning[t] ELSE [in \in BOOLEAN |-> <<>>]]
  <2>1. g \in [Texts -> V]
    <3>1. [in \in BOOLEAN |-> <<>>] \in V
      BY EmptySeq DEF TypedTexts
    <3>2. \A t \in Texts : Len(t) \in Nat
      BY DEF Texts
    <3> HIDE DEF V
    <3> QED
      BY <1>10, <3>1, <3>2
  <2>2. \A t \in Texts : Len(t) < Len(s) => g[t] = Meaning[t]
    OBVIOUS
  <2> HIDE DEF g
  <2>3. ASSUME NEW in \in BOOLEAN
        PROVE  Read(Meaning, s, in) = Read(g, s, in)
    <3>1. CASE s = <<>>
      BY <3>1 DEF Read
    <3>2. CASE s # <<>>
      <4>2. g[From(s, 2)] = Meaning[From(s, 2)]
        BY <3>2, <2>2, Shorter
      <4>3. IsPrefix(CloseTag, s) => g[From(s, Len(CloseTag) + 1)] = Meaning[From(s, Len(CloseTag) + 1)]
        BY <3>2, <2>2, Shorter
      <4>4. IsPrefix(OpenTag, s) => g[From(s, Len(OpenTag) + 1)] = Meaning[From(s, Len(OpenTag) + 1)]
        BY <3>2, <2>2, Shorter
      <4> QED
        BY <3>2, <4>2, <4>3, <4>4 DEF Read
    <3> QED
      BY <3>1, <3>2
  <2>4. Meaning[s] = [in \in BOOLEAN |-> Read(Meaning, s, in)]
    BY <1>9
  <2>5. \A in \in BOOLEAN : Read(g, s, in) \in TypedTexts
    <3> HIDE DEF V
    <3> QED
      BY <1>2, <2>1
  <2> QED
    BY <2>3, <2>4, <2>5
<1>11. \A s \in Texts : Meaning[s] \in V
  <2> DEFINE S == {k \in Nat : \A s \in Texts : Len(s) = k => Meaning[s] \in V}
  <2> HIDE DEF V
  <2>1. \A n \in Nat : (\A m \in Nat : m < n => m \in S) => n \in S
    BY <1>10
  <2>2. \A n \in Nat : n \in S
    <3> HIDE DEF S
    <3> QED
      BY <2>1, StrongInduction
  <2>3. \A s \in Texts : Len(s) \in Nat
    BY DEF Texts
  <2> QED
    BY <2>2, <2>3
<1>12. \A s \in Texts, in \in BOOLEAN : Meaning[s][in] = Read(Meaning, s, in)
  BY <1>9
<1>13. \A s \in Texts, in \in BOOLEAN : Meaning[s][in] \in TypedTexts
  BY <1>11
<1> QED
  BY <1>12, <1>13

(* Typed gives every character the type.                                     *)
LEMMA TypedFacts ==
  ASSUME NEW s \in Texts, NEW in \in BOOLEAN
  PROVE  /\ Typed(s, in) \in TypedTexts /\ Len(Typed(s, in)) = Len(s)
         /\ \A j \in 1..Len(s) : Typed(s, in)[j] = <<s[j], in>>
<1>1. Len(s) \in Nat /\ DOMAIN s = 1..Len(s) /\ \A j \in 1..Len(s) : s[j] \in Characters
  BY DEF Texts
<1>2. Typed(s, in) = [n \in 1..Len(s) |-> <<s[n], in>>]
  BY <1>1 DEF Typed
<1>3. Typed(s, in) \in [1..Len(s) -> Characters \X BOOLEAN]
  BY <1>1, <1>2
<1>4. Typed(s, in) \in TypedTexts
  BY <1>1, <1>3 DEF TypedTexts
<1>5. Len(Typed(s, in)) = Len(s)
  BY <1>1, <1>2
<1> QED
  BY <1>2, <1>4, <1>5

(* One more character.                                                       *)
LEMMA UptoNext ==
  ASSUME NEW s \in Texts, NEW k \in 1..Len(s), NEW in \in BOOLEAN
  PROVE  Typed(Upto(s, k + 1), in) = Typed(Upto(s, k), in) \o <<<<s[k], in>>>>
<1> DEFINE a == Typed(Upto(s, k + 1), in)
           b == Typed(Upto(s, k), in)
           c == <<<<s[k], in>>>>
<1>1. Len(s) \in Nat /\ k \in Nat /\ k >= 1 /\ k \in 1..Len(s) + 1 /\ k + 1 \in 1..Len(s) + 1 /\ s[k] \in Characters
  BY DEF Texts
<1>2. /\ Upto(s, k) \in Texts /\ Len(Upto(s, k)) = k - 1
      /\ \A j \in 1..k - 1 : Upto(s, k)[j] = s[j]
  BY <1>1, FromUpto
<1>3. /\ Upto(s, k + 1) \in Texts /\ Len(Upto(s, k + 1)) = k + 1 - 1
      /\ \A j \in 1..k + 1 - 1 : Upto(s, k + 1)[j] = s[j]
  <2>1. \A n \in 1..Len(s) + 1 :
           Upto(s, n) \in Texts /\ Len(Upto(s, n)) = n - 1 /\ \A j \in 1..n - 1 : Upto(s, n)[j] = s[j]
    BY FromUpto
  <2>2. PICK m : m = k + 1
    OBVIOUS
  <2>3. m \in 1..Len(s) + 1
    BY <1>1, <2>2
  <2>4. Upto(s, m) \in Texts /\ Len(Upto(s, m)) = m - 1 /\ \A j \in 1..m - 1 : Upto(s, m)[j] = s[j]
    BY <2>1, <2>3
  <2> QED
    BY <2>2, <2>4
<1>4. a \in TypedTexts /\ Len(a) = k /\ \A j \in 1..k : a[j] = <<s[j], in>>
  <2>1. /\ a \in TypedTexts /\ Len(a) = Len(Upto(s, k + 1))
        /\ \A j \in 1..Len(Upto(s, k + 1)) : a[j] = <<Upto(s, k + 1)[j], in>>
    BY <1>3, TypedFacts
  <2>2. k + 1 - 1 = k
    BY <1>1
  <2> HIDE DEF a
  <2> QED
    BY <1>3, <2>1, <2>2
<1>5. b \in TypedTexts /\ Len(b) = k - 1 /\ \A j \in 1..k - 1 : b[j] = <<s[j], in>>
  <2>1. /\ b \in TypedTexts /\ Len(b) = Len(Upto(s, k))
        /\ \A j \in 1..Len(Upto(s, k)) : b[j] = <<Upto(s, k)[j], in>>
    BY <1>2, TypedFacts
  <2> HIDE DEF b
  <2> QED
    BY <1>2, <2>1
<1>6. c \in TypedTexts /\ Len(c) = 1 /\ c[1] = <<s[k], in>>
  BY <1>1 DEF TypedTexts
<1> HIDE DEF a, b, c
<1>7. /\ b \o c \in TypedTexts /\ Len(b \o c) = Len(b) + Len(c)
      /\ \A i \in 1..Len(b) + Len(c) : (b \o c)[i] = IF i <= Len(b) THEN b[i] ELSE c[i - Len(b)]
  BY <1>5, <1>6, ConcatProperties DEF TypedTexts
<1>8. Len(b \o c) = k /\ Len(b) + Len(c) = k /\ Len(b) = k - 1
  BY <1>1, <1>5, <1>6, <1>7
<1>9. ASSUME NEW j \in 1..k
      PROVE  a[j] = (b \o c)[j]
  <2>1. CASE j <= k - 1
    <3>1. j \in 1..k - 1 /\ j <= Len(b) /\ j \in 1..Len(b) + Len(c)
      BY <1>1, <1>8, <2>1
    <3>2. (b \o c)[j] = b[j]
      BY <1>7, <3>1
    <3>3. b[j] = <<s[j], in>> /\ a[j] = <<s[j], in>>
      BY <1>4, <1>5, <3>1
    <3> QED
      BY <3>2, <3>3
  <2>2. CASE j = k
    <3>1. ~(j <= Len(b)) /\ j - Len(b) = 1 /\ j \in 1..Len(b) + Len(c)
      BY <1>1, <1>8, <2>2
    <3>2. (b \o c)[j] = c[1]
      BY <1>7, <3>1
    <3>3. a[j] = <<s[k], in>>
      BY <1>4, <2>2
    <3> QED
      BY <1>6, <3>2, <3>3
  <2>3. j <= k - 1 \/ j = k
    BY <1>1
  <2> QED
    BY <2>1, <2>2, <2>3
<1>10. a = b \o c
  BY <1>4, <1>7, <1>8, <1>9, SeqEqual DEF TypedTexts
<1> QED
  BY <1>10 DEF a, b, c

(* Characters at which no tag begins are read as they are.                   *)
LEMMA Skipped ==
  ASSUME NEW s \in Texts, NEW in \in BOOLEAN, NEW k \in 1..Len(s) + 1,
         \A n \in 1..Len(s), tag \in Eligible(in) : n < k => ~MatchAt(s, n, tag)
  PROVE  Meaning[s][in] = Typed(Upto(s, k), in) \o Meaning[From(s, k)][in]
<1> DEFINE S == {n \in Nat : n + 1 <= k => Meaning[s][in] = Typed(Upto(s, n + 1), in) \o Meaning[From(s, n + 1)][in]}
<1>0. Len(s) \in Nat /\ k \in Nat /\ k >= 1 /\ k <= Len(s) + 1
  BY DEF Texts
<1>1. 0 \in S
  <2>1. 0 + 1 = 1 /\ 1 \in 1..Len(s) + 1 /\ 1 - 1 = 0
    BY <1>0
  <2>2. Upto(s, 1) \in Texts /\ Len(Upto(s, 1)) = 0
    BY <2>1, FromUpto
  <2>3. Typed(Upto(s, 1), in) \in TypedTexts /\ Len(Typed(Upto(s, 1), in)) = 0
    BY <2>2, TypedFacts
  <2>4. Typed(Upto(s, 1), in) = <<>>
    BY <2>3, EmptySeq DEF TypedTexts
  <2>5. From(s, 1) = s
    BY SubSeqFull DEF From, Texts
  <2>6. Meaning[s][in] \in TypedTexts
    BY MeaningDefined
  <2>7. <<>> \o Meaning[s][in] = Meaning[s][in]
    BY <2>6, ConcatEmptySeq DEF TypedTexts
  <2> QED
    BY <2>1, <2>4, <2>5, <2>7
<1>2. ASSUME NEW n \in Nat, n \in S
      PROVE  n + 1 \in S
  <2> DEFINE m == n + 1
             r == From(s, m)
  <2>0. n + 1 + 1 = m + 1 /\ m \in Nat /\ m >= 1
    OBVIOUS
  <2>1. SUFFICES ASSUME m + 1 <= k
                 PROVE  Meaning[s][in] = Typed(Upto(s, m + 1), in) \o Meaning[From(s, m + 1)][in]
    BY <2>0
  <2>2. m \in 1..Len(s) /\ m < k /\ m <= k /\ m \in 1..Len(s) + 1 /\ m + 1 \in 1..Len(s) + 1
    BY <1>0, <2>0, <2>1
  <2>3. Meaning[s][in] = Typed(Upto(s, m), in) \o Meaning[r][in]
    BY <1>2, <2>2
  <2>4. /\ r \in Texts /\ Len(r) = Len(s) - m + 1 /\ \A j \in 1..Len(s) - m + 1 : r[j] = s[m + j - 1]
    BY <2>2, FromUpto
  <2> HIDE DEF m
  <2>5. r # <<>> /\ r[1] = s[m] /\ 2 \in 1..Len(r) + 1
    <3>1. Len(r) >= 1 /\ 1 \in 1..Len(s) - m + 1 /\ m + 1 - 1 = m
      BY <1>0, <2>0, <2>2, <2>4
    <3> QED
      BY <2>4, <3>1, EmptySeq
  <2>6. \A tag \in Eligible(in) : ~IsPrefix(tag, r)
    <3>1. \A tag \in Eligible(in) : tag \in Texts
      BY TagFacts DEF Eligible
    <3>2. \A tag \in Eligible(in) : ~MatchAt(s, m, tag)
      BY <2>2
    <3> QED
      BY <2>2, <3>1, <3>2, PrefixIsMatch
  <2>7. Meaning[r][in] = <<<<s[m], in>>>> \o Meaning[From(r, 2)][in]
    <3>1. Meaning[r][in] = Read(Meaning, r, in)
      BY <2>4, MeaningDefined
    <3>2. ~IsPrefix(CloseTag, r) /\ ~(~in /\ IsPrefix(OpenTag, r))
      BY <2>6 DEF Eligible
    <3> HIDE DEF r
    <3> QED
      BY <2>5, <3>1, <3>2 DEF Read
  <2>8. From(r, 2) = From(s, m + 1)
    <3>1. /\ From(s, m + 1) \in Texts /\ Len(From(s, m + 1)) = Len(s) - (m + 1) + 1
          /\ \A j \in 1..Len(s) - (m + 1) + 1 : From(s, m + 1)[j] = s[m + 1 + j - 1]
      BY <2>2, FromUpto
    <3>2. /\ From(r, 2) \in Texts /\ Len(From(r, 2)) = Len(r) - 2 + 1
          /\ \A j \in 1..Len(r) - 2 + 1 : From(r, 2)[j] = r[2 + j - 1]
      BY <2>4, <2>5, FromUpto
    <3> HIDE DEF r
    <3>3. Len(From(r, 2)) = Len(From(s, m + 1))
      BY <1>0, <2>0, <2>4, <3>1, <3>2
    <3>4. ASSUME NEW j \in 1..Len(From(r, 2))
          PROVE  From(r, 2)[j] = From(s, m + 1)[j]
      <4>1. j \in 1..Len(r) - 2 + 1 /\ j \in 1..Len(s) - (m + 1) + 1 /\ 2 + j - 1 \in 1..Len(s) - m + 1
        BY <1>0, <2>0, <2>4, <3>1, <3>2
      <4>2. From(r, 2)[j] = r[2 + j - 1] /\ r[2 + j - 1] = s[m + (2 + j - 1) - 1]
        BY <2>4, <3>2, <4>1
      <4>3. m + (2 + j - 1) - 1 = m + 1 + j - 1
        BY <2>0, <4>1
      <4> QED
        BY <3>1, <4>1, <4>2, <4>3
    <3> QED
      BY <3>1, <3>2, <3>3, <3>4, SeqEqual DEF Texts
  <2> DEFINE a == Typed(Upto(s, m), in)
             b == <<<<s[m], in>>>>
             c == Meaning[From(s, m + 1)][in]
  <2>9. a \in TypedTexts /\ b \in TypedTexts /\ c \in TypedTexts
    <3>1. a \in TypedTexts
      BY <2>2, FromUpto, TypedFacts
    <3>2. From(s, m + 1) \in Texts
      BY <2>2, FromUpto
    <3>3. s[m] \in Characters
      BY <2>2 DEF Texts
    <3> QED
      BY <3>1, <3>2, <3>3, MeaningDefined DEF TypedTexts
  <2>10. Typed(Upto(s, m + 1), in) = a \o b
    BY <2>2, UptoNext
  <2>11. Meaning[s][in] = a \o (b \o c)
    BY <2>3, <2>7, <2>8
  <2> HIDE DEF a, b, c, r
  <2>12. (a \o b) \o c = a \o (b \o c)
    BY <2>9, ConcatAssociative DEF TypedTexts
  <2> QED
    BY <2>10, <2>11, <2>12 DEF c
<1>3. \A n \in Nat : n \in S
  <2> HIDE DEF S
  <2> QED
    BY <1>1, <1>2, Induction
<1>4. k - 1 \in Nat /\ k - 1 + 1 = k /\ k - 1 + 1 <= k
  BY <1>0
<1>5. k - 1 \in S
  BY <1>3, <1>4
<1>6. Meaning[s][in] = Typed(Upto(s, k - 1 + 1), in) \o Meaning[From(s, k - 1 + 1)][in]
  BY <1>4, <1>5
<1> QED
  BY <1>4, <1>6

(* A text that grows at its end is cut as it was before.                     *)
LEMMA CutOfConcat ==
  ASSUME NEW h \in Texts, NEW x \in Texts, NEW k \in 1..Len(h) + 1
  PROVE  /\ h \o x \in Texts /\ Len(h \o x) = Len(h) + Len(x) /\ k \in 1..Len(h \o x) + 1
         /\ Upto(h \o x, k) = Upto(h, k) /\ From(h \o x, k) = From(h, k) \o x
<1> DEFINE s == h \o x
<1>1. Len(h) \in Nat /\ Len(x) \in Nat /\ k \in Nat /\ k >= 1 /\ k <= Len(h) + 1
  BY DEF Texts
<1>2. /\ s \in Texts /\ Len(s) = Len(h) + Len(x)
      /\ \A j \in 1..Len(h) + Len(x) : s[j] = IF j <= Len(h) THEN h[j] ELSE x[j - Len(h)]
  BY ConcatProperties DEF Texts
<1>3. k \in 1..Len(s) + 1
  BY <1>1, <1>2
<1> HIDE DEF s
<1>4. /\ From(s, k) \in Texts /\ Len(From(s, k)) = Len(s) - k + 1
      /\ \A j \in 1..Len(s) - k + 1 : From(s, k)[j] = s[k + j - 1]
      /\ Upto(s, k) \in Texts /\ Len(Upto(s, k)) = k - 1
      /\ \A j \in 1..k - 1 : Upto(s, k)[j] = s[j]
  BY <1>2, <1>3, FromUpto
<1>5. /\ From(h, k) \in Texts /\ Len(From(h, k)) = Len(h) - k + 1
      /\ \A j \in 1..Len(h) - k + 1 : From(h, k)[j] = h[k + j - 1]
      /\ Upto(h, k) \in Texts /\ Len(Upto(h, k)) = k - 1
      /\ \A j \in 1..k - 1 : Upto(h, k)[j] = h[j]
  BY <1>1, FromUpto
<1>6. Upto(s, k) = Upto(h, k)
  <2>1. ASSUME NEW j \in 1..k - 1
        PROVE  Upto(s, k)[j] = Upto(h, k)[j]
    <3>1. j <= Len(h) /\ j \in 1..Len(h) + Len(x)
      BY <1>1
    <3> QED
      BY <1>2, <1>4, <1>5, <3>1
  <2> QED
    BY <1>4, <1>5, <2>1, SeqEqual DEF Texts
<1> DEFINE r == From(h, k)
<1>7. /\ r \o x \in Texts /\ Len(r \o x) = Len(r) + Len(x)
      /\ \A j \in 1..Len(r) + Len(x) : (r \o x)[j] = IF j <= Len(r) THEN r[j] ELSE x[j - Len(r)]
  BY <1>5, ConcatProperties DEF Texts
<1> HIDE DEF r
<1>8. Len(r) = Len(h) - k + 1 /\ Len(From(s, k)) = Len(r) + Len(x) /\ Len(s) - k + 1 = Len(r) + Len(x)
  BY <1>1, <1>2, <1>4, <1>5 DEF r
<1>9. ASSUME NEW j \in 1..Len(r) + Len(x)
      PROVE  From(s, k)[j] = (r \o x)[j]
  <2>1. From(s, k)[j] = s[k + j - 1]
    BY <1>4, <1>8
  <2>2. k + j - 1 \in 1..Len(h) + Len(x)
    BY <1>1, <1>8
  <2>3. CASE j <= Len(r)
    <3>1. k + j - 1 <= Len(h) /\ j \in 1..Len(h) - k + 1
      BY <1>1, <1>8, <2>3
    <3>2. s[k + j - 1] = h[k + j - 1]
      BY <1>2, <2>2, <3>1
    <3>3. r[j] = h[k + j - 1]
      BY <1>5, <3>1 DEF r
    <3> QED
      BY <1>7, <2>1, <2>3, <3>2, <3>3
  <2>4. CASE ~(j <= Len(r))
    <3>1. ~(k + j - 1 <= Len(h)) /\ k + j - 1 - Len(h) = j - Len(r)
      BY <1>1, <1>8, <2>4
    <3>2. s[k + j - 1] = x[k + j - 1 - Len(h)]
      BY <1>2, <2>2, <3>1
    <3> QED
      BY <1>7, <2>1, <2>4, <3>1, <3>2
  <2> QED
    BY <2>3, <2>4
<1>10. From(s, k) = r \o x
  BY <1>4, <1>7, <1>8, <1>9, SeqEqual DEF Texts
<1> QED
  BY <1>2, <1>3, <1>6, <1>10 DEF s, r

(* What the tags have in common.                                             *)
LEMMA EligibleFacts ==
  ASSUME NEW in \in BOOLEAN, NEW tag \in Eligible(in)
  PROVE  /\ tag \in Texts /\ Len(tag) \in Nat /\ Len(tag) >= 1 /\ tag[1] = OpenTag[1]
         /\ \A j \in 2..Len(tag) : tag[j] # OpenTag[1]
<1>1. tag = OpenTag \/ tag = CloseTag
  BY DEF Eligible
<1> QED
  BY <1>1, TagFacts DEF Texts

(* When a text grows at its end, a tag that stood in it still does, and one  *)
(* that is new had begun, or is all in what was added.                       *)
LEMMA MatchOfConcat ==
  ASSUME NEW h \in Texts, NEW x \in Texts, NEW n \in 1..Len(h), NEW in \in BOOLEAN, NEW tag \in Eligible(in)
  PROVE  /\ MatchAt(h \o x, n, tag) => MatchAt(h, n, tag) \/ BeginsAt(h, n, tag)
         /\ MatchAt(h, n, tag) => MatchAt(h \o x, n, tag)
<1> DEFINE s == h \o x
<1>1. Len(h) \in Nat /\ Len(x) \in Nat /\ n \in Nat /\ n >= 1 /\ n <= Len(h) /\ Len(tag) \in Nat /\ Len(tag) >= 1
  BY EligibleFacts DEF Texts
<1>2. Len(s) = Len(h) + Len(x) /\ \A j \in 1..Len(h) : s[j] = h[j]
  <2>1. /\ Len(s) = Len(h) + Len(x)
        /\ \A j \in 1..Len(h) + Len(x) : s[j] = IF j <= Len(h) THEN h[j] ELSE x[j - Len(h)]
    BY ConcatProperties DEF Texts
  <2>2. \A j \in 1..Len(h) : j \in 1..Len(h) + Len(x) /\ j <= Len(h)
    BY <1>1
  <2> HIDE DEF s
  <2> QED
    BY <2>1, <2>2
<1> HIDE DEF s
<1>3. ASSUME MatchAt(s, n, tag)
      PROVE  MatchAt(h, n, tag) \/ BeginsAt(h, n, tag)
  <2>1. n + Len(tag) - 1 <= Len(s) /\ \A j \in 1..Len(tag) : s[n + j - 1] = tag[j]
    BY <1>3 DEF MatchAt
  <2>2. CASE n + Len(tag) - 1 <= Len(h)
    <3>1. \A j \in 1..Len(tag) : n + j - 1 \in 1..Len(h)
      BY <1>1, <2>2
    <3>2. \A j \in 1..Len(tag) : h[n + j - 1] = tag[j]
      BY <1>2, <2>1, <3>1
    <3> QED
      BY <2>2, <3>2 DEF MatchAt
  <2>3. CASE ~(n + Len(tag) - 1 <= Len(h))
    <3>1. Len(h) - n + 1 < Len(tag)
      BY <1>1, <2>3
    <3>2. \A j \in 1..Len(h) - n + 1 : n + j - 1 \in 1..Len(h) /\ j \in 1..Len(tag)
      BY <1>1, <3>1
    <3>3. \A j \in 1..Len(h) - n + 1 : h[n + j - 1] = tag[j]
      BY <1>2, <2>1, <3>2
    <3> QED
      BY <3>1, <3>3 DEF BeginsAt
  <2> QED
    BY <2>2, <2>3
<1>4. ASSUME MatchAt(h, n, tag)
      PROVE  MatchAt(s, n, tag)
  <2>1. n + Len(tag) - 1 <= Len(h) /\ \A j \in 1..Len(tag) : h[n + j - 1] = tag[j]
    BY <1>4 DEF MatchAt
  <2>2. \A j \in 1..Len(tag) : n + j - 1 \in 1..Len(h)
    BY <1>1, <2>1
  <2>3. \A j \in 1..Len(tag) : s[n + j - 1] = tag[j]
    BY <1>2, <2>1, <2>2
  <2>4. n + Len(tag) - 1 <= Len(s)
    BY <1>1, <1>2, <2>1
  <2> QED
    BY <2>3, <2>4 DEF MatchAt
<1> QED
  BY <1>3, <1>4 DEF s

(* Of two tags at one place one would begin with the other. *)
LEMMA OneTag ==
  ASSUME NEW s \in Texts, NEW n \in 1..Len(s)
  PROVE  ~(MatchAt(s, n, OpenTag) /\ MatchAt(s, n, CloseTag))
<1> SUFFICES ASSUME MatchAt(s, n, OpenTag), MatchAt(s, n, CloseTag)
             PROVE  FALSE
  OBVIOUS
<1>1. \A j \in 1..Len(OpenTag) : s[n + j - 1] = OpenTag[j]
  BY DEF MatchAt
<1>2. \A j \in 1..Len(CloseTag) : s[n + j - 1] = CloseTag[j]
  BY DEF MatchAt
<1>3. ASSUME NEW a \in Texts, NEW b \in Texts, Len(a) <= Len(b),
             \A j \in 1..Len(a) : s[n + j - 1] = a[j], \A j \in 1..Len(b) : s[n + j - 1] = b[j]
      PROVE  IsPrefix(a, b)
  <2>1. Len(a) \in Nat /\ Len(b) \in Nat /\ 0 <= Len(a)
    BY DEF Texts
  <2>2. \A j \in 1..Len(a) : a[j] = b[j]
    BY <1>3, <2>1
  <2>3. /\ SubSeq(a, 1, Len(a)) \in Texts /\ Len(SubSeq(a, 1, Len(a))) = Len(a)
        /\ \A j \in 1..Len(a) : SubSeq(a, 1, Len(a))[j] = a[j]
    BY <2>1, FirstOnes DEF Texts
  <2>4. /\ SubSeq(b, 1, Len(a)) \in Texts /\ Len(SubSeq(b, 1, Len(a))) = Len(a)
        /\ \A j \in 1..Len(a) : SubSeq(b, 1, Len(a))[j] = b[j]
    BY <1>3, <2>1, FirstOnes DEF Texts
  <2>5. SubSeq(a, 1, Len(a)) = SubSeq(b, 1, Len(a))
    BY <2>2, <2>3, <2>4, SeqEqual DEF Texts
  <2> QED
    BY <1>3, <2>5 DEF IsPrefix
<1>4. Len(OpenTag) <= Len(CloseTag) \/ Len(CloseTag) <= Len(OpenTag)
  BY TagFacts DEF Texts
<1> QED
  BY <1>1, <1>2, <1>3, <1>4, TagFacts, TagAssumption

(* A buffer that is empty or the beginning of a tag: no round changes it.    *)
Stuck(h, in) == h = <<>> \/ \E tag \in Eligible(in) : BeginsAt(h, 1, tag)

(* In the beginning of a tag there is no tag. *)
LEMMA StuckHasNoTag ==
  ASSUME NEW h \in Texts, NEW in \in BOOLEAN, Stuck(h, in), NEW n \in 1..Len(h), NEW tag \in Eligible(in)
  PROVE  ~MatchAt(h, n, tag)
<1> SUFFICES ASSUME MatchAt(h, n, tag)
             PROVE  FALSE
  OBVIOUS
<1>1. Len(h) \in Nat /\ n \in Nat /\ n >= 1 /\ n <= Len(h) /\ Len(h) - 1 + 1 = Len(h)
  BY DEF Texts
<1>2. PICK t \in Eligible(in) : BeginsAt(h, 1, t)
  <2>1. h # <<>>
    BY <1>1
  <2> QED
    BY <2>1 DEF Stuck
<1>3. Len(h) < Len(t) /\ \A j \in 1..Len(h) : h[j] = t[j]
  BY <1>1, <1>2 DEF BeginsAt
<1>4. n + Len(tag) - 1 <= Len(h) /\ \A j \in 1..Len(tag) : h[n + j - 1] = tag[j]
  BY DEF MatchAt
<1>5. /\ tag \in Texts /\ Len(tag) \in Nat /\ Len(tag) >= 1 /\ tag[1] = OpenTag[1]
      /\ t \in Texts /\ Len(t) \in Nat /\ \A j \in 2..Len(t) : t[j] # OpenTag[1]
  BY EligibleFacts
<1>6. h[n] = OpenTag[1]
  <2>1. 1 \in 1..Len(tag) /\ n + 1 - 1 = n
    BY <1>1, <1>5
  <2> QED
    BY <1>4, <1>5, <2>1
<1>7. CASE n # 1
  <2>1. n \in 2..Len(t)
    BY <1>1, <1>3, <1>5, <1>7
  <2> QED
    BY <1>3, <1>5, <1>6, <2>1
<1>8. CASE n = 1
  <2>1. Len(tag) <= Len(h) /\ Len(tag) < Len(t) /\ tag # t
    BY <1>1, <1>3, <1>4, <1>5, <1>8
  <2>2. \A j \in 1..Len(tag) : j \in 1..Len(h) /\ 1 + j - 1 = j
    BY <1>1, <1>5, <2>1
  <2>3. \A j \in 1..Len(tag) : tag[j] = t[j]
    BY <1>3, <1>4, <1>8, <2>2
  <2>4. MatchAt(t, 1, tag) /\ MatchAt(t, 1, t)
    <3>1. 1 + Len(tag) - 1 <= Len(t) /\ 1 + Len(t) - 1 <= Len(t)
      BY <1>5, <2>1
    <3>2. \A j \in 1..Len(t) : 1 + j - 1 = j
      BY <1>5
    <3> QED
      BY <2>2, <2>3, <3>1, <3>2 DEF MatchAt
  <2>5. {tag, t} = {OpenTag, CloseTag}
    BY <2>1 DEF Eligible
  <2>6. 1 \in 1..Len(t)
    BY <1>5, <2>1
  <2> QED
    BY <1>5, <2>4, <2>5, <2>6, OneTag
<1> QED
  BY <1>7, <1>8

(* The first tag in what is held is the next one, whatever follows.          *)
LEMMA Found ==
  ASSUME NEW h \in Texts, NEW x \in Texts, NEW in \in BOOLEAN, NEW tag \in Eligible(in),
         NEW f \in 1..Len(h), MatchAt(h, f, tag),
         \A n \in 1..Len(h), t \in Eligible(in) : n < f => ~MatchAt(h, n, t)
  PROVE  /\ f + Len(tag) \in 1..Len(h) + 1
         /\ Meaning[h \o x][in] =
               Typed(Upto(h, f), in) \o Meaning[From(h, f + Len(tag)) \o x][tag = OpenTag]
<1> DEFINE s == h \o x
           r == From(s, f)
           g == f + Len(tag)
<1>1. /\ Len(h) \in Nat /\ f \in Nat /\ f >= 1 /\ f <= Len(h) /\ f \in 1..Len(h) + 1
      /\ tag \in Texts /\ Len(tag) \in Nat /\ Len(tag) >= 1 /\ tag[1] = OpenTag[1]
  BY EligibleFacts DEF Texts
<1>2. f + Len(tag) - 1 <= Len(h) /\ \A j \in 1..Len(tag) : h[f + j - 1] = tag[j]
  BY DEF MatchAt
<1>3. g \in 1..Len(h) + 1
  BY <1>1, <1>2
<1>4. /\ s \in Texts /\ f \in 1..Len(s) + 1 /\ g \in 1..Len(s) + 1 /\ f \in 1..Len(s)
      /\ Upto(s, f) = Upto(h, f) /\ From(s, g) = From(h, g) \o x
  <2>1. s \in Texts /\ f \in 1..Len(s) + 1 /\ Upto(s, f) = Upto(h, f) /\ Len(s) = Len(h) + Len(x)
    BY <1>1, CutOfConcat
  <2> HIDE DEF g
  <2>2. g \in 1..Len(s) + 1 /\ From(s, g) = From(h, g) \o x
    BY <1>3, CutOfConcat
  <2>3. Len(x) \in Nat
    BY DEF Texts
  <2>4. f <= Len(s)
    BY <1>1, <2>1, <2>3
  <2> QED
    BY <1>1, <2>1, <2>2, <2>4
<1>5. MatchAt(s, f, tag)
  BY MatchOfConcat
<1>6. ASSUME NEW n \in 1..Len(s), NEW t \in Eligible(in), n < f
      PROVE  ~MatchAt(s, n, t)
  <2> SUFFICES ASSUME MatchAt(s, n, t)
               PROVE  FALSE
    OBVIOUS
  <2>1. n \in 1..Len(h) /\ n \in Nat
    BY <1>1, <1>6
  <2>2. BeginsAt(h, n, t)
    BY <1>6, <2>1, MatchOfConcat
  <2>3. Len(h) - n + 1 < Len(t) /\ \A j \in 1..Len(h) - n + 1 : h[n + j - 1] = t[j]
    BY <2>2 DEF BeginsAt
  <2>4. Len(t) \in Nat /\ \A j \in 2..Len(t) : t[j] # OpenTag[1]
    BY EligibleFacts
  <2>5. f - n + 1 \in 1..Len(h) - n + 1 /\ n + (f - n + 1) - 1 = f /\ f - n + 1 \in 2..Len(t)
    BY <1>1, <1>6, <2>1, <2>3, <2>4
  <2>6. h[n + (f - n + 1) - 1] = t[f - n + 1]
    BY <2>3, <2>5
  <2>7. h[f] = OpenTag[1]
    <3>1. 1 \in 1..Len(tag) /\ f + 1 - 1 = f
      BY <1>1
    <3> QED
      BY <1>1, <1>2, <3>1
  <2> QED
    BY <2>4, <2>5, <2>6, <2>7
<1> HIDE DEF s
<1>7. Meaning[s][in] = Typed(Upto(s, f), in) \o Meaning[r][in]
  <2>1. \A n \in 1..Len(s), t \in Eligible(in) : n < f => ~MatchAt(s, n, t)
    BY <1>6
  <2> QED
    BY <1>4, <2>1, Skipped
<1>8. /\ r \in Texts /\ Len(r) = Len(s) - f + 1 /\ \A j \in 1..Len(s) - f + 1 : r[j] = s[f + j - 1]
  BY <1>4, FromUpto
<1>9. r # <<>> /\ IsPrefix(tag, r)
  <2>1. IsPrefix(tag, r)
    BY <1>1, <1>4, <1>5, PrefixIsMatch
  <2>2. Len(r) \in Nat /\ Len(r) >= 1
    BY <1>1, <1>4, <1>8 DEF Texts
  <2> HIDE DEF r
  <2> QED
    BY <2>1, <2>2
<1>10. tag = OpenTag => ~IsPrefix(CloseTag, r)
  BY <1>4, <1>5, OneTag, PrefixIsMatch, TagFacts
<1>11. Meaning[r][in] = Meaning[From(r, Len(tag) + 1)][tag = OpenTag]
  <2>1. Meaning[r][in] = Read(Meaning, r, in)
    BY <1>8, MeaningDefined
  <2> HIDE DEF r
  <2>2. CASE tag = CloseTag
    <3>1. CloseTag # OpenTag
      BY <1>4, <1>5, <2>2, OneTag
    <3>2. (tag = OpenTag) = FALSE
      BY <2>2, <3>1
    <3> QED
      BY <1>9, <2>1, <2>2, <3>2 DEF Read
  <2>3. CASE tag = OpenTag /\ tag # CloseTag
    <3>1. ~in
      BY <2>3 DEF Eligible
    <3>2. (tag = OpenTag) = TRUE
      BY <2>3
    <3> QED
      BY <1>9, <1>10, <2>1, <2>3, <3>1, <3>2 DEF Read
  <2> QED
    BY <2>2, <2>3 DEF Eligible
<1>12. From(r, Len(tag) + 1) = From(s, g)
  <2>1. /\ From(s, g) \in Texts /\ Len(From(s, g)) = Len(s) - g + 1
        /\ \A j \in 1..Len(s) - g + 1 : From(s, g)[j] = s[g + j - 1]
    <3> HIDE DEF g
    <3> QED
      BY <1>4, FromUpto
  <2>2. PICK m : m = Len(tag) + 1
    OBVIOUS
  <2>3. m \in 1..Len(r) + 1 /\ Len(s) \in Nat /\ Len(r) \in Nat
    BY <1>1, <1>4, <1>8, <2>2 DEF Texts
  <2>4. /\ From(r, m) \in Texts /\ Len(From(r, m)) = Len(r) - m + 1
        /\ \A j \in 1..Len(r) - m + 1 : From(r, m)[j] = r[m + j - 1]
    <3> HIDE DEF r
    <3> QED
      BY <1>8, <2>3, FromUpto
  <2> HIDE DEF r
  <2>5. Len(From(r, m)) = Len(From(s, g)) /\ Len(r) - m + 1 = Len(s) - g + 1
    BY <1>1, <1>8, <2>1, <2>2, <2>3, <2>4
  <2>6. ASSUME NEW j \in 1..Len(From(r, m))
        PROVE  From(r, m)[j] = From(s, g)[j]
    <3>1. j \in 1..Len(r) - m + 1 /\ j \in 1..Len(s) - g + 1
      BY <2>1, <2>4, <2>5
    <3>2. m + j - 1 \in 1..Len(s) - f + 1 /\ f + (m + j - 1) - 1 = g + j - 1
      BY <1>1, <1>8, <2>2, <2>3, <3>1
    <3>3. r[m + j - 1] = s[f + (m + j - 1) - 1]
      BY <1>8, <3>2
    <3> QED
      BY <2>1, <2>4, <3>1, <3>2, <3>3
  <2>7. From(r, m) = From(s, g)
    BY <2>1, <2>4, <2>5, <2>6, SeqEqual DEF Texts
  <2> QED
    BY <2>2, <2>7
<1> QED
  <2> HIDE DEF r
  <2> QED
    BY <1>3, <1>4, <1>7, <1>11, <1>12 DEF s

(* Without a tag in what is held, all of it can be handed out but the part   *)
(* that may begin one.                                                       *)
LEMMA NotFound ==
  ASSUME NEW h \in Texts, NEW x \in Texts, NEW in \in BOOLEAN,
         \A n \in 1..Len(h), t \in Eligible(in) : ~MatchAt(h, n, t),
         NEW k \in Nat, k = HoldFrom(h, Eligible(in))
  PROVE  /\ k \in 1..Len(h) + 1 /\ Stuck(From(h, k), in)
         /\ Meaning[h \o x][in] = Typed(Upto(h, k), in) \o Meaning[From(h, k) \o x][in]
<1> DEFINE s == h \o x
<1>1. /\ Len(h) \in Nat /\ k \in 1..Len(h) + 1
      /\ k <= Len(h) => \E tag \in Eligible(in) : BeginsAt(h, k, tag)
      /\ \A n \in 1..Len(h), tag \in Eligible(in) : n < k => ~BeginsAt(h, n, tag)
  BY HoldFacts DEF Texts
<1>2. /\ s \in Texts /\ k \in 1..Len(s) + 1 /\ Upto(s, k) = Upto(h, k) /\ From(s, k) = From(h, k) \o x
  BY <1>1, CutOfConcat
<1>3. ASSUME NEW n \in 1..Len(s), NEW t \in Eligible(in), n < k
      PROVE  ~MatchAt(s, n, t)
  <2>1. n \in 1..Len(h)
    BY <1>1, <1>3
  <2> QED
    BY <1>1, <1>3, <2>1, MatchOfConcat
<1> HIDE DEF s
<1>4. Meaning[s][in] = Typed(Upto(s, k), in) \o Meaning[From(s, k)][in]
  <2>1. \A n \in 1..Len(s), t \in Eligible(in) : n < k => ~MatchAt(s, n, t)
    BY <1>3
  <2> QED
    BY <1>2, <2>1, Skipped
<1>5. Stuck(From(h, k), in)
  <2> DEFINE r == From(h, k)
  <2>1. /\ r \in Texts /\ Len(r) = Len(h) - k + 1 /\ \A j \in 1..Len(h) - k + 1 : r[j] = h[k + j - 1]
    BY <1>1, FromUpto
  <2> HIDE DEF r
  <2>2. CASE k <= Len(h)
    <3>1. PICK tag \in Eligible(in) : BeginsAt(h, k, tag)
      BY <1>1, <2>2
    <3>2. Len(h) - k + 1 < Len(tag) /\ \A j \in 1..Len(h) - k + 1 : h[k + j - 1] = tag[j]
      BY <3>1 DEF BeginsAt
    <3>3. Len(r) - 1 + 1 = Len(h) - k + 1 /\ \A j \in 1..Len(h) - k + 1 : 1 + j - 1 = j
      BY <1>1, <2>1
    <3>4. Len(r) - 1 + 1 < Len(tag)
      BY <3>2, <3>3
    <3>5. \A j \in 1..Len(r) - 1 + 1 : r[1 + j - 1] = tag[j]
      <4>1. TAKE j \in 1..Len(r) - 1 + 1
      <4>2. j \in 1..Len(h) - k + 1 /\ 1 + j - 1 = j
        BY <3>3
      <4> QED
        BY <2>1, <3>2, <4>2
    <3>6. BeginsAt(r, 1, tag)
      BY <3>4, <3>5 DEF BeginsAt
    <3> QED
      BY <3>6 DEF Stuck, r
  <2>3. CASE ~(k <= Len(h))
    <3>1. Len(r) = 0
      BY <1>1, <2>1, <2>3
    <3>2. r = <<>>
      BY <2>1, <3>1, EmptySeq DEF Texts
    <3> QED
      BY <3>2 DEF Stuck, r
  <2> QED
    BY <2>2, <2>3
<1> QED
  BY <1>1, <1>2, <1>4, <1>5 DEF s

(* The parser's state during feed, and one turn of its loop.                 *)
Parsing == [held : Texts, inside : BOOLEAN, parsed : TypedTexts]
Round(p) == IF p.inside THEN Inside(p) ELSE Outside(p)
State(h, in, p) == [held |-> h, inside |-> in, parsed |-> p]

(* A round takes the first tag, or hands out what cannot begin one. *)
Takes(p, q, tag, f) ==
  /\ tag \in Eligible(p.inside) /\ f \in 1..Len(p.held) /\ MatchAt(p.held, f, tag)
  /\ \A n \in 1..Len(p.held), t \in Eligible(p.inside) : n < f => ~MatchAt(p.held, n, t)
  /\ q = State(From(p.held, f + Len(tag)), tag = OpenTag, p.parsed \o Typed(Upto(p.held, f), p.inside))
Holds(p, q, k) ==
  /\ k = HoldFrom(p.held, Eligible(p.inside))
  /\ \A n \in 1..Len(p.held), t \in Eligible(p.inside) : ~MatchAt(p.held, n, t)
  /\ q = State(From(p.held, k), p.inside, p.parsed \o Typed(Upto(p.held, k), p.inside))

(* Every round is one of the two.                                            *)
LEMMA RoundShape ==
  ASSUME NEW p \in Parsing
  PROVE  (\E tag, f : Takes(p, Round(p), tag, f)) \/ (\E k : Holds(p, Round(p), k))
<1> DEFINE h == p.held
           open == Find(h, OpenTag)
           close == Find(h, CloseTag)
<1>1. /\ h \in Texts /\ p.inside \in BOOLEAN /\ Len(h) \in Nat
      /\ p = State(h, p.inside, p.parsed)
  BY DEF Parsing, Texts, State
<1>2. /\ open \in 1..Len(h) + 1 /\ open <= Len(h) => MatchAt(h, open, OpenTag)
      /\ \A n \in 1..Len(h) : n < open => ~MatchAt(h, n, OpenTag)
  BY <1>1, TagFacts, FindFacts
<1>3. /\ close \in 1..Len(h) + 1 /\ close <= Len(h) => MatchAt(h, close, CloseTag)
      /\ \A n \in 1..Len(h) : n < close => ~MatchAt(h, n, CloseTag)
  BY <1>1, TagFacts, FindFacts
<1>9. open \in 1..Len(h) + 1 /\ close \in 1..Len(h) + 1
  <2>1. open \in 1..Len(h) + 1
    BY <1>1, TagFacts, FindFacts
  <2>2. close \in 1..Len(h) + 1
    BY <1>1, TagFacts, FindFacts
  <2> QED
    BY <2>1, <2>2
<1>10. /\ open \in Nat /\ 1 <= open /\ open <= Len(h) + 1
       /\ close \in Nat /\ 1 <= close /\ close <= Len(h) + 1
  <2> HIDE DEF open, close, h
  <2> QED
    BY <1>1, <1>9
<1>4. OpenTag # CloseTag /\ (OpenTag = OpenTag) = TRUE /\ (CloseTag = OpenTag) = FALSE
  <2>1. OpenTag # CloseTag
    <3>1. SubSeq(OpenTag, 1, Len(OpenTag)) = SubSeq(OpenTag, 1, Len(OpenTag)) /\ Len(OpenTag) <= Len(OpenTag)
      BY TagFacts DEF Texts
    <3>2. IsPrefix(OpenTag, OpenTag)
      BY <3>1 DEF IsPrefix
    <3> QED
      BY <3>2, TagAssumption
  <2> QED
    BY <2>1
<1>5. CASE p.inside
  <2>1. Round(p) = Inside(p) /\ Eligible(p.inside) = {CloseTag} /\ p.inside = TRUE
    BY <1>1, <1>5 DEF Round, Eligible
  <2>2. CASE close > Len(h)
    <3>1. Inside(p) = State(From(h, HoldFrom(h, {CloseTag})), TRUE, p.parsed \o Typed(Upto(h, HoldFrom(h, {CloseTag})), TRUE))
      BY <2>1, <2>2, <1>1 DEF Inside, State, Parsing
    <3>2. \A n \in 1..Len(h), t \in {CloseTag} : ~MatchAt(h, n, t)
      <4> HIDE DEF close, open, h
      <4>1. \A n \in 1..Len(h) : n < close
        BY <1>1, <1>10, <2>2
      <4> QED
        BY <1>3, <4>1
    <3> HIDE DEF close, open
    <3>3. Holds(p, Round(p), HoldFrom(h, {CloseTag}))
      BY <2>1, <3>1, <3>2 DEF Holds
    <3> QED
      BY <3>3
  <2>3. CASE ~(close > Len(h))
    <3>1. Inside(p) = State(From(h, close + Len(CloseTag)), FALSE, p.parsed \o Typed(Upto(h, close), TRUE))
      BY <2>1, <2>3, <1>1 DEF Inside, State, Parsing
    <3> HIDE DEF close, open, h
    <3>0. close <= Len(h)
      BY <1>1, <1>10, <2>3
    <3>2. close \in 1..Len(h) /\ MatchAt(h, close, CloseTag)
      BY <1>1, <1>10, <1>3, <3>0
    <3>3. \A n \in 1..Len(h), t \in {CloseTag} : n < close => ~MatchAt(h, n, t)
      BY <1>3
    <3>4. Takes(p, Round(p), CloseTag, close)
      BY <1>4, <2>1, <3>1, <3>2, <3>3 DEF Takes, h
    <3> QED
      BY <3>4
  <2> QED
    BY <2>2, <2>3
<1>6. CASE ~p.inside
  <2>1. Round(p) = Outside(p) /\ Eligible(p.inside) = {OpenTag, CloseTag} /\ p.inside = FALSE
    BY <1>1, <1>6 DEF Round, Eligible
  <2>2. CASE close < open
    <3>1. Outside(p) = State(From(h, close + Len(CloseTag)), FALSE, p.parsed \o Typed(Upto(h, close), FALSE))
      BY <2>1, <2>2, <1>1 DEF Outside, State, Parsing
    <3> HIDE DEF close, open, h
    <3>0. close <= Len(h) /\ \A n \in 1..Len(h) : n < close => n < open
      BY <1>1, <1>10, <2>2
    <3>2. close \in 1..Len(h) /\ MatchAt(h, close, CloseTag)
      BY <1>1, <1>10, <1>3, <3>0
    <3>3. \A n \in 1..Len(h), t \in {OpenTag, CloseTag} : n < close => ~MatchAt(h, n, t)
      BY <1>2, <1>3, <3>0
    <3>4. Takes(p, Round(p), CloseTag, close)
      BY <1>4, <2>1, <3>1, <3>2, <3>3 DEF Takes, h
    <3> QED
      BY <3>4
  <2>3. CASE ~(close < open) /\ open > Len(h)
    <3>1. Outside(p) = State(From(h, HoldFrom(h, {OpenTag, CloseTag})), FALSE,
                             p.parsed \o Typed(Upto(h, HoldFrom(h, {OpenTag, CloseTag})), FALSE))
      BY <2>1, <2>3, <1>1 DEF Outside, State, Parsing
    <3> HIDE DEF close, open
    <3>2. \A n \in 1..Len(h), t \in {OpenTag, CloseTag} : ~MatchAt(h, n, t)
      <4> HIDE DEF h
      <4>1. \A n \in 1..Len(h) : n < open /\ n < close
        BY <1>1, <1>10, <2>3
      <4> QED
        BY <1>2, <1>3, <4>1
    <3>3. Holds(p, Round(p), HoldFrom(h, {OpenTag, CloseTag}))
      BY <2>1, <3>1, <3>2 DEF Holds
    <3> QED
      BY <3>3
  <2>4. CASE ~(close < open) /\ ~(open > Len(h))
    <3>1. Outside(p) = State(From(h, open + Len(OpenTag)), TRUE, p.parsed \o Typed(Upto(h, open), FALSE))
      BY <2>1, <2>4, <1>1 DEF Outside, State, Parsing
    <3> HIDE DEF close, open
    <3> HIDE DEF h
    <3>0. open <= close /\ open <= Len(h)
      BY <1>1, <1>10, <2>4
    <3>2. open \in 1..Len(h) /\ MatchAt(h, open, OpenTag)
      BY <1>1, <1>10, <1>2, <3>0
    <3>3. \A n \in 1..Len(h), t \in {OpenTag, CloseTag} : n < open => ~MatchAt(h, n, t)
      <4>1. \A n \in 1..Len(h) : n < open => n < close
        BY <1>10, <3>0
      <4> QED
        BY <1>2, <1>3, <4>1
    <3>4. Takes(p, Round(p), OpenTag, open)
      BY <1>4, <2>1, <3>1, <3>2, <3>3 DEF Takes, h
    <3> QED
      BY <3>4
  <2> QED
    BY <2>2, <2>3, <2>4
<1> QED
  BY <1>5, <1>6

(* All that was and will be handed out of p, whatever follows, is that of q. *)
SameMeaning(p, q) ==
  \A x \in Texts : p.parsed \o Meaning[p.held \o x][p.inside] = q.parsed \o Meaning[q.held \o x][q.inside]
StuckIn(p) == Stuck(p.held, p.inside)

(* Concatenation is associative, for what is handed out.                     *)
LEMMA PiecesAssociative ==
  ASSUME NEW a \in TypedTexts, NEW b \in TypedTexts, NEW c \in TypedTexts
  PROVE  (a \o b) \o c = a \o (b \o c)
  BY ConcatAssociative DEF TypedTexts

(* A round changes nothing in the meaning, and shortens the buffer until it  *)
(* is stuck.                                                                 *)
LEMMA RoundFacts ==
  ASSUME NEW p \in Parsing
  PROVE  /\ Round(p) \in Parsing /\ SameMeaning(p, Round(p))
         /\ StuckIn(Round(p)) \/ Len(Round(p).held) < Len(p.held)
         /\ StuckIn(p) => StuckIn(Round(p))
         /\ Len(Round(p).held) <= Len(p.held)
<1> DEFINE h == p.held
           in == p.inside
           q == Round(p)
<1>1. h \in Texts /\ in \in BOOLEAN /\ p.parsed \in TypedTexts /\ Len(h) \in Nat
  BY DEF Parsing, Texts
<1>2. ASSUME NEW k \in 1..Len(h) + 1, NEW r \in Texts, NEW b \in BOOLEAN,
             q = State(r, b, p.parsed \o Typed(Upto(h, k), in)),
             \A x \in Texts : Meaning[h \o x][in] = Typed(Upto(h, k), in) \o Meaning[r \o x][b]
      PROVE  q \in Parsing /\ SameMeaning(p, q)
  <2> DEFINE d == Typed(Upto(h, k), in)
  <2>1. d \in TypedTexts
    BY <1>1, FromUpto, TypedFacts
  <2>2. p.parsed \o d \in TypedTexts
    BY <1>1, <2>1, ConcatProperties DEF TypedTexts
  <2>0. q = State(r, b, p.parsed \o d)
    BY <1>2
  <2> HIDE DEF q, d
  <2>3. q.held = r /\ q.inside = b /\ q.parsed = p.parsed \o d
    BY <2>0 DEF State
  <2>4. q \in Parsing
    BY <2>0, <2>2 DEF State, Parsing
  <2>5. ASSUME NEW x \in Texts
        PROVE  p.parsed \o Meaning[h \o x][in] = q.parsed \o Meaning[q.held \o x][q.inside]
    <3> DEFINE m == Meaning[r \o x][b]
    <3>1. r \o x \in Texts
      BY <1>2, ConcatProperties DEF Texts
    <3>2. m \in TypedTexts
      BY <3>1, MeaningDefined
    <3>3. Meaning[h \o x][in] = d \o m
      BY <1>2 DEF d, q
    <3> HIDE DEF m
    <3>4. (p.parsed \o d) \o m = p.parsed \o (d \o m)
      BY <1>1, <2>1, <3>2, PiecesAssociative
    <3> QED
      BY <2>3, <3>3, <3>4 DEF m
  <2> QED
    BY <2>4, <2>5 DEF SameMeaning
<1>3. CASE \E tag, f : Takes(p, q, tag, f)
  <2>1. PICK tag, f : Takes(p, q, tag, f)
    BY <1>3
  <2>2. /\ tag \in Eligible(in) /\ f \in 1..Len(h) /\ MatchAt(h, f, tag)
        /\ \A n \in 1..Len(h), t \in Eligible(in) : n < f => ~MatchAt(h, n, t)
        /\ q = State(From(h, f + Len(tag)), tag = OpenTag, p.parsed \o Typed(Upto(h, f), in))
    BY <2>1 DEF Takes
  <2> HIDE DEF h, in, q
  <2> DEFINE r == From(h, f + Len(tag))
             b == tag = OpenTag
  <2>3. \A x \in Texts : /\ f + Len(tag) \in 1..Len(h) + 1
                        /\ Meaning[h \o x][in] = Typed(Upto(h, f), in) \o Meaning[r \o x][b]
    BY <1>1, <2>2, Found
  <2>4. <<>> \in Texts
    BY EmptySeq DEF Texts
  <2>5. f + Len(tag) \in 1..Len(h) + 1 /\ Len(tag) \in Nat /\ Len(tag) >= 1 /\ f \in 1..Len(h) + 1 /\ f \in Nat /\ f >= 1
    BY <1>1, <2>2, <2>3, <2>4, EligibleFacts
  <2>6. r \in Texts /\ Len(r) = Len(h) - (f + Len(tag)) + 1
    <3>1. PICK g : g = f + Len(tag)
      OBVIOUS
    <3>2. From(h, g) \in Texts /\ Len(From(h, g)) = Len(h) - g + 1
      BY <1>1, <2>5, <3>1, FromUpto
    <3> QED
      BY <3>1, <3>2
  <2>7. b \in BOOLEAN
    OBVIOUS
  <2>8. q = State(r, b, p.parsed \o Typed(Upto(h, f), in))
    BY <2>2
  <2>9. \A x \in Texts : Meaning[h \o x][in] = Typed(Upto(h, f), in) \o Meaning[r \o x][b]
    BY <2>3
  <2>10. q.held = r
    BY <2>8 DEF State
  <2> HIDE DEF r, b
  <2>11. q \in Parsing /\ SameMeaning(p, q)
    BY <1>2, <2>5, <2>6, <2>7, <2>8, <2>9
  <2>12. Len(q.held) < Len(h)
    BY <1>1, <2>5, <2>6, <2>10
  <2>13. ~Stuck(h, in)
    BY <1>1, <2>2, StuckHasNoTag
  <2>14. Len(q.held) <= Len(h)
    <3>1. PICK l : l = Len(q.held)
      OBVIOUS
    <3>2. l = Len(h) - (f + Len(tag)) + 1
      BY <2>6, <2>10, <3>1
    <3>3. l <= Len(h)
      BY <1>1, <2>5, <3>2
    <3> QED
      BY <3>1, <3>3
  <2> QED
    BY <2>11, <2>12, <2>13, <2>14 DEF h, in, q, StuckIn
<1>4. CASE \E k : Holds(p, q, k)
  <2>1. PICK k : Holds(p, q, k)
    BY <1>4
  <2>2. /\ k = HoldFrom(h, Eligible(in))
        /\ \A n \in 1..Len(h), t \in Eligible(in) : ~MatchAt(h, n, t)
        /\ q = State(From(h, k), in, p.parsed \o Typed(Upto(h, k), in))
    BY <2>1 DEF Holds
  <2> HIDE DEF h, in, q
  <2>3. \A x \in Texts : /\ k \in 1..Len(h) + 1 /\ Stuck(From(h, k), in)
                        /\ Meaning[h \o x][in] = Typed(Upto(h, k), in) \o Meaning[From(h, k) \o x][in]
    <3>1. \A n \in 1..Len(h), t \in Eligible(in) : ~MatchAt(h, n, t)
      BY <2>2
    <3>2. k = HoldFrom(h, Eligible(in))
      BY <2>2
    <3>3. k \in Nat
      <4>1. HoldFrom(h, Eligible(in)) \in 1..Len(h) + 1
        BY <1>1, HoldFacts
      <4> QED
        BY <1>1, <3>2, <4>1
    <3> QED
      BY <1>1, <3>1, <3>2, <3>3, NotFound
  <2>4. <<>> \in Texts
    BY EmptySeq DEF Texts
  <2>5. k \in 1..Len(h) + 1 /\ Stuck(From(h, k), in)
    BY <2>3, <2>4
  <2>6. From(h, k) \in Texts
    BY <1>1, <2>5, FromUpto
  <2>7. q \in Parsing /\ SameMeaning(p, q)
    BY <1>1, <1>2, <2>2, <2>3, <2>5, <2>6
  <2>8. q.held = From(h, k) /\ q.inside = in
    BY <2>2 DEF State
  <2>9. Len(q.held) <= Len(h)
    <3>1. Len(From(h, k)) = Len(h) - k + 1
      BY <1>1, <2>5, FromUpto
    <3>2. Len(h) - k + 1 <= Len(h)
      BY <1>1, <2>5
    <3> QED
      BY <2>8, <3>1, <3>2
  <2> QED
    BY <2>5, <2>7, <2>8, <2>9 DEF h, in, q, StuckIn
<1> QED
  BY <1>3, <1>4, RoundShape

(* The rounds of the loop end with a buffer that no round changes.           *)
LEMMA ParseFacts ==
  ASSUME NEW p \in Parsing, Len(p.held) <= MaxText
  PROVE  Parse(p) \in Parsing /\ SameMeaning(p, Parse(p)) /\ StuckIn(Parse(p)) /\ Len(Parse(p).held) <= Len(p.held)
<1> DEFINE R == 0..MaxText + 1
           IsLoop(f) == f = [n \in R |-> IF n = 0 THEN p ELSE Round(f[n - 1])]
           rounds == CHOOSE f : IsLoop(f)
<1>1. MaxText \in Nat
  BY TagAssumption
<1>2. Parse(p) = rounds[MaxText + 1]
  BY DEF Parse, Round
<1>3. \E f : IsLoop(f)
  <2> DEFINE st == [n \in Nat |-> [q \in Parsing |-> Round(q)]]
  <2>1. st \in [Nat -> [Parsing -> Parsing]]
    BY RoundFacts
  <2>2. PICK f : Iterates(f, Parsing, p, st)
    <3> HIDE DEF st
    <3> QED
      BY <2>1, Iteration
  <2>3. f \in [Nat -> Parsing] /\ f[0] = p /\ \A n \in Nat : f[n + 1] = st[n][f[n]]
    BY <2>2 DEF Iterates
  <2>4. \A n \in Nat : f[n + 1] = Round(f[n])
    BY <2>3
  <2> DEFINE g == [n \in R |-> f[n]]
  <2>5. ASSUME NEW n \in R
        PROVE  g[n] = IF n = 0 THEN p ELSE Round(g[n - 1])
    <3>1. CASE n = 0
      BY <1>1, <2>3, <3>1
    <3>2. CASE n # 0
      <4>1. n - 1 \in R /\ n - 1 \in Nat /\ n - 1 + 1 = n
        BY <1>1, <3>2
      <4> QED
        BY <2>4, <3>2, <4>1
    <3> QED
      BY <3>1, <3>2
  <2>6. g = [n \in R |-> g[n]]
    OBVIOUS
  <2> HIDE DEF g
  <2>7. IsLoop(g)
    BY <2>5, <2>6
  <2> QED
    BY <2>7
<1>4. IsLoop(rounds)
  <2> HIDE DEF IsLoop
  <2> QED
    BY <1>3
<1> HIDE DEF rounds
<1>5. rounds[0] = p /\ \A n \in Nat : n <= MaxText => rounds[n + 1] = Round(rounds[n])
  <2>1. 0 \in R /\ \A n \in Nat : n <= MaxText => n + 1 \in R /\ n + 1 # 0 /\ n + 1 - 1 = n
    BY <1>1
  <2>2. \A n \in R : rounds[n] = IF n = 0 THEN p ELSE Round(rounds[n - 1])
    BY <1>4
  <2> QED
    BY <2>1, <2>2
<1> DEFINE Fine(n) == /\ rounds[n] \in Parsing /\ SameMeaning(p, rounds[n]) /\ Len(rounds[n].held) <= Len(p.held)
                      /\ StuckIn(rounds[n]) \/ Len(rounds[n].held) + n <= MaxText
           S == {n \in Nat : n <= MaxText + 1 => Fine(n)}
<1>6. 0 \in S
  <2>1. Len(p.held) \in Nat /\ Len(p.held) + 0 <= MaxText
    <3>1. Len(p.held) \in Nat
      BY DEF Parsing, Texts
    <3>2. Len(p.held) + 0 = Len(p.held)
      BY <3>1
    <3> QED
      BY <3>1, <3>2
  <2>2. SameMeaning(p, p)
    BY DEF SameMeaning
  <2> QED
    BY <1>5, <2>1, <2>2
<1>7. ASSUME NEW n \in Nat, n \in S
      PROVE  n + 1 \in S
  <2> HIDE DEF Fine
  <2>1. SUFFICES ASSUME n + 1 <= MaxText + 1 PROVE Fine(n + 1)
    OBVIOUS
  <2> USE DEF Fine
  <2>2. n <= MaxText /\ n <= MaxText + 1
    BY <1>1, <2>1
  <2>3. Fine(n) /\ rounds[n + 1] = Round(rounds[n])
    BY <1>5, <1>7, <2>2
  <2>4. /\ Round(rounds[n]) \in Parsing /\ SameMeaning(rounds[n], Round(rounds[n]))
        /\ StuckIn(Round(rounds[n])) \/ Len(Round(rounds[n]).held) < Len(rounds[n].held)
        /\ StuckIn(rounds[n]) => StuckIn(Round(rounds[n]))
        /\ Len(Round(rounds[n]).held) <= Len(rounds[n].held)
    BY <2>3, RoundFacts
  <2>5. SameMeaning(p, Round(rounds[n]))
    BY <2>3, <2>4 DEF SameMeaning
  <2>6. Len(rounds[n].held) \in Nat /\ Len(Round(rounds[n]).held) \in Nat
    BY <2>3, <2>4 DEF Parsing, Texts
  <2>7. StuckIn(Round(rounds[n])) \/ Len(Round(rounds[n]).held) + (n + 1) <= MaxText
    <3> DEFINE a == Len(rounds[n].held)
               b == Len(Round(rounds[n]).held)
    <3>1. a \in Nat /\ b \in Nat
      BY <2>6
    <3>2. CASE StuckIn(rounds[n])
      BY <2>4, <3>2
    <3>3. CASE ~StuckIn(rounds[n])
      <4>1. a + n <= MaxText
        BY <2>3, <3>3
      <4>2. StuckIn(Round(rounds[n])) \/ b < a
        BY <2>4
      <4> HIDE DEF a, b
      <4>3. b < a => b + (n + 1) <= MaxText
        BY <1>1, <3>1, <4>1
      <4> QED
        BY <4>2, <4>3 DEF b
    <3> QED
      BY <3>2, <3>3
  <2>8. Len(Round(rounds[n]).held) <= Len(p.held)
    <3> DEFINE a == Len(rounds[n].held)
               b == Len(Round(rounds[n]).held)
               c == Len(p.held)
    <3>1. a \in Nat /\ b \in Nat /\ c \in Nat
      BY <2>6 DEF Parsing, Texts
    <3>2. a <= c /\ b <= a
      BY <2>3, <2>4
    <3> HIDE DEF a, b, c
    <3>3. b <= c
      BY <3>1, <3>2
    <3> QED
      BY <3>3 DEF b, c
  <2> QED
    BY <2>3, <2>4, <2>5, <2>7, <2>8
<1>8. \A n \in Nat : n \in S
  <2> HIDE DEF S
  <2> QED
    BY <1>6, <1>7, Induction
<1>9. Fine(MaxText + 1)
  <2>1. MaxText + 1 \in Nat /\ MaxText + 1 <= MaxText + 1
    BY <1>1
  <2> HIDE DEF Fine
  <2> QED
    BY <1>8, <2>1
<1>10. StuckIn(rounds[MaxText + 1])
  <2> DEFINE last == rounds[MaxText + 1]
  <2>1. Len(last.held) \in Nat
    BY <1>9 DEF Parsing, Texts
  <2>2. StuckIn(last) \/ Len(last.held) + (MaxText + 1) <= MaxText
    BY <1>9
  <2> DEFINE l == Len(last.held)
  <2>3. ~(l + (MaxText + 1) <= MaxText)
    <3>1. l \in Nat
      BY <2>1
    <3> HIDE DEF l
    <3> QED
      BY <1>1, <3>1
  <2> HIDE DEF last
  <2> QED
    BY <2>2, <2>3 DEF last
<1> QED
  BY <1>2, <1>9, <1>10

(* The parser's state stands for what it was fed: whatever follows, what is   *)
(* read from the beginning is what was handed out and what is read of the    *)
(* rest, which is empty or the beginning of a tag.                           *)
ThinkInv ==
  /\ said \in Texts /\ Len(said) <= MaxText
  /\ held \in Texts /\ inside \in BOOLEAN /\ parsed \in TypedTexts
  /\ Len(held) <= Len(said)
  /\ Stuck(held, inside)
  /\ \A x \in Texts : Meaning[said \o x][FALSE] = parsed \o Meaning[held \o x][inside]

(* An empty parser stands for the empty text.                                *)
LEMMA ThinkInitially == ThinkInit => ThinkInv
<1> SUFFICES ASSUME ThinkInit PROVE ThinkInv
  OBVIOUS
<1>1. said = <<>> /\ held = <<>> /\ inside = FALSE /\ parsed = <<>>
  BY DEF ThinkInit
<1>2. <<>> \in Texts /\ <<>> \in TypedTexts /\ Len(<<>>) = 0 /\ MaxText \in Nat
  BY EmptySeq, TagAssumption DEF Texts, TypedTexts
<1>3. ASSUME NEW x \in Texts
      PROVE  Meaning[<<>> \o x][FALSE] = <<>> \o Meaning[<<>> \o x][FALSE]
  <2>1. <<>> \o x = x
    BY ConcatEmptySeq DEF Texts
  <2>2. Meaning[x][FALSE] \in TypedTexts
    BY MeaningDefined
  <2>3. <<>> \o Meaning[x][FALSE] = Meaning[x][FALSE]
    BY <2>2, ConcatEmptySeq DEF TypedTexts
  <2> QED
    BY <2>1, <2>3
<1>4. Stuck(<<>>, FALSE)
  BY DEF Stuck
<1>5. 0 <= MaxText
  BY <1>2
<1>6. \A x \in Texts : Meaning[said \o x][FALSE] = parsed \o Meaning[held \o x][inside]
  BY <1>1, <1>3
<1>7. /\ said \in Texts /\ held \in Texts /\ inside \in BOOLEAN /\ parsed \in TypedTexts
      /\ Len(said) = 0 /\ Len(held) = 0 /\ Stuck(held, inside)
  BY <1>1, <1>2, <1>4
<1>8. Len(said) <= MaxText /\ Len(held) <= Len(said)
  BY <1>5, <1>7
<1> QED
  BY <1>6, <1>7, <1>8, Zenon DEF ThinkInv

(* Concatenation is associative, for texts.                                  *)
LEMMA TextAssociative ==
  ASSUME NEW a \in Texts, NEW b \in Texts, NEW c \in Texts
  PROVE  (a \o b) \o c = a \o (b \o c)
  BY ConcatAssociative DEF Texts

(* Feeding a piece keeps the invariant.                                      *)
LEMMA ThinkStep ==
  ASSUME ThinkInv, NEW piece \in Texts, Feed(piece)
  PROVE  ThinkInv'
<1> DEFINE p == [held |-> held \o piece, inside |-> inside, parsed |-> parsed]
           q == Parse(p)
<1>1. /\ Len(said) + Len(piece) <= MaxText /\ said' = said \o piece
      /\ held' = q.held /\ inside' = q.inside /\ parsed' = q.parsed
  BY DEF Feed
<1>2. /\ said \in Texts /\ held \in Texts /\ inside \in BOOLEAN /\ parsed \in TypedTexts /\ Len(held) <= Len(said)
      /\ \A x \in Texts : Meaning[said \o x][FALSE] = parsed \o Meaning[held \o x][inside]
  BY DEF ThinkInv
<1>3. Len(said) \in Nat /\ Len(held) \in Nat /\ Len(piece) \in Nat /\ MaxText \in Nat
  BY <1>2, TagAssumption DEF Texts
<1>4. /\ held \o piece \in Texts /\ Len(held \o piece) = Len(held) + Len(piece)
      /\ said \o piece \in Texts /\ Len(said \o piece) = Len(said) + Len(piece)
  BY <1>2, ConcatProperties DEF Texts
<1>5. p \in Parsing /\ p.held = held \o piece /\ p.inside = inside /\ p.parsed = parsed
  BY <1>2, <1>4 DEF Parsing
<1>6. Len(p.held) <= MaxText
  BY <1>1, <1>2, <1>3, <1>4, <1>5
<1> HIDE DEF p
<1>7. q \in Parsing /\ SameMeaning(p, q) /\ StuckIn(q) /\ Len(q.held) <= Len(p.held)
  BY <1>5, <1>6, ParseFacts
<1> HIDE DEF q
<1>8. q.held \in Texts /\ q.inside \in BOOLEAN /\ q.parsed \in TypedTexts
  BY <1>7 DEF Parsing
<1>9. ASSUME NEW x \in Texts
      PROVE  Meaning[(said \o piece) \o x][FALSE] = q.parsed \o Meaning[q.held \o x][q.inside]
  <2>1. piece \o x \in Texts
    BY ConcatProperties DEF Texts
  <2>2. (said \o piece) \o x = said \o (piece \o x) /\ (held \o piece) \o x = held \o (piece \o x)
    BY <1>2, TextAssociative
  <2>3. Meaning[said \o (piece \o x)][FALSE] = parsed \o Meaning[held \o (piece \o x)][inside]
    BY <1>2, <2>1
  <2>4. p.parsed \o Meaning[p.held \o x][p.inside] = q.parsed \o Meaning[q.held \o x][q.inside]
    BY <1>7 DEF SameMeaning
  <2> QED
    BY <1>5, <2>2, <2>3, <2>4
<1>10. Len(q.held) <= Len(said \o piece) /\ Len(said \o piece) <= MaxText
  <2> DEFINE l == Len(q.held)
  <2>1. l \in Nat /\ l <= Len(held) + Len(piece)
    BY <1>4, <1>5, <1>7, <1>8 DEF Texts
  <2> HIDE DEF l
  <2>2. l <= Len(said) + Len(piece) /\ Len(said) + Len(piece) <= MaxText
    BY <1>1, <1>2, <1>3, <2>1
  <2> QED
    BY <1>4, <2>2 DEF l
<1> QED
  BY <1>1, <1>4, <1>7, <1>8, <1>9, <1>10 DEF ThinkInv, StuckIn

(* The invariant holds in every state.                                       *)
LEMMA ThinkInvHolds == ThinkSpec => []ThinkInv
<1>1. ThinkInv /\ [ThinkNext]_thinkVars => ThinkInv'
  <2> SUFFICES ASSUME ThinkInv, [ThinkNext]_thinkVars
               PROVE  ThinkInv'
    OBVIOUS
  <2>1. CASE ThinkNext
    <3>1. PICK n \in 1..2 : \E piece \in [1..n -> Characters] : Feed(piece)
      BY <2>1 DEF ThinkNext
    <3>2. PICK piece \in [1..n -> Characters] : Feed(piece)
      BY <3>1
    <3>3. piece \in Texts
      BY SeqDef DEF Texts
    <3> QED
      BY <3>2, <3>3, ThinkStep
  <2>2. CASE UNCHANGED thinkVars
    BY <2>2 DEF thinkVars, ThinkInv
  <2> QED
    BY <2>1, <2>2
<1> QED
  BY <1>1, ThinkInitially, PTL DEF ThinkSpec

(* PiecesDoNotMatter (ThinkTagParser.feed and flush): however the text is    *)
(* cut into pieces, what was handed out and what flush would hand out of the *)
(* buffer is what the whole text means.                                      *)
THEOREM PiecesDoNotMatterHolds == ThinkSpec => []PiecesDoNotMatter
<1>1. ThinkInv => PiecesDoNotMatter
  <2> SUFFICES ASSUME ThinkInv PROVE PiecesDoNotMatter
    OBVIOUS
  <2>1. /\ said \in Texts /\ held \in Texts /\ inside \in BOOLEAN /\ parsed \in TypedTexts /\ Stuck(held, inside)
        /\ \A x \in Texts : Meaning[said \o x][FALSE] = parsed \o Meaning[held \o x][inside]
    BY DEF ThinkInv
  <2>2. <<>> \in Texts /\ said \o <<>> = said /\ held \o <<>> = held
    BY <2>1, EmptySeq, ConcatEmptySeq DEF Texts
  <2>3. Meaning[said][FALSE] = parsed \o Meaning[held][inside]
    BY <2>1, <2>2
  <2>4. Meaning[held][inside] = Typed(held, inside)
    <3> DEFINE k == Len(held) + 1
    <3>1. k \in 1..Len(held) + 1 /\ Len(held) \in Nat
      BY <2>1 DEF Texts
    <3>2. \A n \in 1..Len(held), tag \in Eligible(inside) : ~MatchAt(held, n, tag)
      BY <2>1, StuckHasNoTag
    <3> HIDE DEF k
    <3>3. Meaning[held][inside] = Typed(Upto(held, k), inside) \o Meaning[From(held, k)][inside]
      BY <2>1, <3>1, <3>2, Skipped
    <3>4. Upto(held, k) = held
      <4>1. Len(held) + 1 - 1 = Len(held)
        BY <3>1
      <4> QED
        BY <2>1, <4>1, SubSeqFull DEF Upto, Texts, k
    <3>5. From(held, k) = <<>>
      <4>1. From(held, k) \in Texts /\ Len(From(held, k)) = Len(held) - k + 1
        BY <2>1, <3>1, FromUpto
      <4>2. Len(held) - k + 1 = 0
        BY <3>1 DEF k
      <4> QED
        BY <4>1, <4>2, EmptySeq DEF Texts
    <3>6. Meaning[<<>>][inside] = <<>>
      BY <2>1, <2>2, MeaningDefined DEF Read
    <3>7. Typed(held, inside) \o <<>> = Typed(held, inside)
      BY <2>1, TypedFacts, ConcatEmptySeq DEF TypedTexts
    <3> QED
      BY <3>3, <3>4, <3>5, <3>6, <3>7
  <2> QED
    BY <2>3, <2>4 DEF PiecesDoNotMatter
<1> QED
  BY <1>1, ThinkInvHolds, PTL
===============================================================================
