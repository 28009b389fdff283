--------------------------- MODULE ConversionProofs ---------------------------
(*****************************************************************************)
(* What the proxy rewrites for an upstream says the same after as before,    *)
(* whatever the conversation.                                                *)
(*                                                                           *)
(* The builder of DeepSeek's request takes blocks out of messages and        *)
(* changes others.  The core of a message, its texts, calls and results, is  *)
(* an image of what is left when all other blocks are removed, and removing  *)
(* and changing commute (WithoutTwice), so each of the builder's passes      *)
(* leaves the core as it is.                                                 *)
(*                                                                           *)
(* The conversion for OpenAI chat holds back what an assistant said after    *)
(* its first call.  What is told and what is held back is counted together:  *)
(* a message adds each of its texts and results once, and what was held      *)
(* back a second time only if a user answers a call again (LostInv).  If     *)
(* every message answers the calls before it, what is told so far is what    *)
(* the messages give, one after the other, and what is held back is what     *)
(* the last of them said after its calls (OrderInv).                         *)
(*                                                                           *)
(* NVIDIA NIM's request merges neighbours; that a retry tells each text and  *)
(* result of the first body as often as that did is proved by induction on   *)
(* the conversation that is merged (RemadeIsWell).                           *)
(*****************************************************************************)
EXTENDS DeepSeekRequest, NimRequest, DataLemmas, SequenceTheorems

(* What stripping and normalizing make of a block, what the core keeps of it  *)
(* and which blocks the core passes over.                                    *)
StripOf == [b \in TurnBlocks |-> StripResult(b)]
NormalOf == [b \in TurnBlocks |-> IF b.kind = "tool_result" THEN [b EXCEPT !.form = "string"] ELSE b]
TextsOf(contents) == Without(contents, ToSet(contents) \ {"text"})
CoreOf == [b \in TurnBlocks |-> <<b.kind, b.id, TextsOf(b.contents)>>]
Inessential == {b \in TurnBlocks : b.kind \notin {"text", "tool_use", "tool_result"} \/ b.id = Omitted}

(* What the type of a block says of its fields.                              *)
LEMMA BlockFields ==
  ASSUME NEW b \in TurnBlocks
  PROVE  /\ b.kind \in BlockKinds /\ b.id \in BlockIds \cup {Omitted} /\ b.form \in {"string", "list"} /\ b.contents \in Seq(PartKinds)
         /\ b = [kind |-> b.kind, id |-> b.id, form |-> b.form, contents |-> b.contents]
  BY DEF TurnBlocks, PartKinds

(* A sequence of one element.                                                *)
LEMMA OneElement ==
  ASSUME NEW M, NEW x \in M
  PROVE  /\ <<x>> \in Seq(M) /\ <<x>> # <<>>
         /\ DOMAIN <<x>> = {1} /\ <<x>>[1] = x /\ ToSet(<<x>>) = {x}
<1>1. <<x>> \in Seq(M) /\ Len(<<x>>) = 1 /\ <<x>>[1] = x
  OBVIOUS
<1>2. DOMAIN <<x>> = 1 .. 1
  BY <1>1
<1>3. DOMAIN <<x>> = {1}
  BY <1>2
<1>4. ToSet(<<x>>) = {x}
  BY <1>1, <1>3 DEF ToSet
<1>5. <<x>> # <<>>
  <2>1. Len(<<>>) = 0
    BY EmptySeq
  <2> QED
    BY <1>1, <2>1
<1> QED
  BY <1>1, <1>3, <1>4, <1>5

(* The remark that something was omitted.                                    *)
LEMMA OmittedFields ==
  /\ OmittedBlock \in TurnBlocks /\ OmittedBlock.kind = "text" /\ OmittedBlock.id = Omitted
  /\ OmittedBlock.contents = <<>> /\ OmittedBlock \in Inessential
<1>1. <<>> \in Seq(PartKinds) /\ Omitted \in PartKinds /\ Omitted = "attachment omitted"
  BY EmptySeq DEF Omitted, PartKinds
<1>2. OmittedBlock = [kind |-> "text", id |-> Omitted, form |-> "string", contents |-> <<>>]
  BY DEF OmittedBlock
<1> HIDE DEF OmittedBlock
<1>3. OmittedBlock \in TurnBlocks
  BY <1>1, <1>2 DEF TurnBlocks, BlockKinds, PartKinds
<1>4. OmittedBlock.kind = "text" /\ OmittedBlock.id = Omitted /\ OmittedBlock.contents = <<>>
  BY <1>2
<1> QED
  BY <1>3, <1>4 DEF Inessential

(* What a result keeps of its texts.                                         *)
LEMMA TextsKept ==
  ASSUME NEW c \in Seq(PartKinds)
  PROVE  /\ TextsOf(Without(c, Attachments)) = TextsOf(c)
         /\ Without(c, Attachments) = <<>> => TextsOf(<<Omitted>>) = TextsOf(c)
<1> DEFINE others == PartKinds \ {"text"}
           rest == Without(c, Attachments)
<1>1. ASSUME NEW d \in Seq(PartKinds)
      PROVE  TextsOf(d) = Without(d, others)
  <2>1. \A i \in DOMAIN d : d[i] \in PartKinds /\ d[i] \in ToSet(d)
    BY DEF ToSet
  <2>2. \A i \in DOMAIN d : d[i] \in ToSet(d) \ {"text"} <=> d[i] \in others
    BY <2>1
  <2> HIDE DEF others
  <2> QED
    BY <2>2, WithoutSame DEF TextsOf
<1>2. rest \in Seq(PartKinds)
  BY WithoutIsSeq
<1>3. Without(Without(c, Attachments), others) = Without(c, others)
  <2>1. \A x \in PartKinds : x \in Attachments => x \in others
    BY DEF Attachments
  <2> HIDE DEF others, rest
  <2> QED
    BY <2>1, WithoutMore
<1> HIDE DEF rest
<1>4. ASSUME rest = <<>>
      PROVE  TextsOf(<<Omitted>>) = TextsOf(c)
  <2>1. Without(<<>>, others) = <<>>
    BY WithoutNone
  <2>0. Omitted \in PartKinds /\ Omitted \in others
    BY DEF Omitted, PartKinds
  <2>2. <<Omitted>> \in Seq(PartKinds) /\ DOMAIN <<Omitted>> = {1} /\ <<Omitted>>[1] = Omitted
    BY <2>0, OneElement
  <2>3. \A i \in DOMAIN <<Omitted>> : <<Omitted>>[i] \in others
    BY <2>0, <2>2
  <2> HIDE DEF others
  <2>4. Without(<<Omitted>>, others) = <<>>
    BY <2>2, <2>3, WithoutEmpty
  <2> QED
    BY <1>1, <1>3, <1>4, <2>1, <2>2, <2>4 DEF rest
<1> HIDE DEF others
<1> QED
  BY <1>1, <1>2, <1>3, <1>4 DEF rest

(* Stripping a result changes its contents only.                             *)
LEMMA StripFacts ==
  ASSUME NEW b \in TurnBlocks
  PROVE  /\ StripResult(b) \in TurnBlocks
         /\ StripResult(b).kind = b.kind /\ StripResult(b).id = b.id /\ StripResult(b).form = b.form
         /\ b.kind = "tool_result" /\ b.form = "list" =>
              /\ StripResult(b).contents # <<>>
              /\ \A k \in ToSet(StripResult(b).contents) : k = Omitted \/ k \in ToSet(b.contents) \ Attachments
         /\ b.kind # "tool_result" \/ b.form # "list" => StripResult(b) = b
         /\ TextsOf(StripResult(b).contents) = TextsOf(b.contents)
<1> DEFINE rest == Without(b.contents, Attachments)
<1>1. /\ b.contents \in Seq(PartKinds) /\ rest \in Seq(PartKinds)
      /\ \A i \in DOMAIN rest : rest[i] \notin Attachments /\ \E j \in DOMAIN b.contents : rest[i] = b.contents[j]
  BY BlockFields, WithoutIsSeq
<1>2. TextsOf(rest) = TextsOf(b.contents) /\ (rest = <<>> => TextsOf(<<Omitted>>) = TextsOf(b.contents))
  BY <1>1, TextsKept
<1>3. StripResult(b) = IF b.kind = "tool_result" /\ b.form = "list"
                       THEN [b EXCEPT !.contents = IF rest = <<>> THEN <<Omitted>> ELSE rest] ELSE b
  BY DEF StripResult
<1>4. <<Omitted>> \in Seq(PartKinds) /\ <<Omitted>> # <<>> /\ ToSet(<<Omitted>>) = {Omitted}
  <2>1. Omitted \in PartKinds
    BY DEF PartKinds
  <2> QED
    BY <2>1, OneElement
<1>5. \A k \in ToSet(rest) : k \in ToSet(b.contents) \ Attachments
  BY <1>1 DEF ToSet
<1> HIDE DEF rest
<1>6. CASE b.kind = "tool_result" /\ b.form = "list"
  <2> DEFINE c == IF rest = <<>> THEN <<Omitted>> ELSE rest
  <2>1. /\ c \in Seq(PartKinds) /\ c # <<>> /\ TextsOf(c) = TextsOf(b.contents)
        /\ \A k \in ToSet(c) : k = Omitted \/ k \in ToSet(b.contents) \ Attachments
    BY <1>1, <1>2, <1>4, <1>5
  <2>2. StripResult(b) = [b EXCEPT !.contents = c]
    BY <1>3, <1>6
  <2> HIDE DEF c
  <2>3. /\ StripResult(b) = [kind |-> b.kind, id |-> b.id, form |-> b.form, contents |-> c]
        /\ StripResult(b) \in TurnBlocks
    BY <2>1, <2>2 DEF TurnBlocks, PartKinds
  <2> QED
    BY <1>6, <2>1, <2>3
<1>7. CASE ~(b.kind = "tool_result" /\ b.form = "list")
  BY <1>3, <1>7
<1> QED
  BY <1>6, <1>7

(* Normalizing a block changes the form of a result only.                    *)
LEMMA NormalFacts ==
  ASSUME NEW b \in TurnBlocks
  PROVE  /\ NormalOf[b] \in TurnBlocks
         /\ NormalOf[b].kind = b.kind /\ NormalOf[b].id = b.id /\ NormalOf[b].contents = b.contents
         /\ b.kind # "tool_result" \/ b.form = "string" => NormalOf[b] = b
         /\ b.kind = "tool_result" => NormalOf[b].form = "string"
<1>1. NormalOf[b] = IF b.kind = "tool_result" THEN [b EXCEPT !.form = "string"] ELSE b
  BY DEF NormalOf
<1>2. CASE b.kind = "tool_result"
  <2>1. NormalOf[b] = [kind |-> b.kind, id |-> b.id, form |-> "string", contents |-> b.contents]
    BY <1>1, <1>2 DEF TurnBlocks
  <2>2. b.form = "string" => NormalOf[b] = b
    BY <2>1, BlockFields
  <2> QED
    BY <1>2, <2>1, <2>2, BlockFields DEF TurnBlocks
<1>3. CASE b.kind # "tool_result"
  BY <1>1, <1>3
<1> QED
  BY <1>2, <1>3

(* Core, said of blocks that are functions of blocks.                        *)
CoreIn(q) == Image(CoreOf, Without(q, Inessential))
CoreSet == BlockKinds \X (BlockIds \cup {Omitted}) \X Seq(PartKinds)

(* What the core keeps of a block.                                           *)
LEMMA CoreOfType == CoreOf \in Maps(TurnBlocks, CoreSet)
<1>1. ASSUME NEW b \in TurnBlocks
      PROVE  CoreOf[b] \in CoreSet
  <2>1. TextsOf(b.contents) \in Seq(PartKinds)
    BY BlockFields, WithoutIsSeq DEF TextsOf
  <2>2. CoreOf[b] = <<b.kind, b.id, TextsOf(b.contents)>>
    BY DEF CoreOf
  <2> QED
    BY <2>1, <2>2, BlockFields DEF CoreSet
<1> QED
  BY <1>1 DEF Maps, CoreOf

(* The core of a message is that of its blocks.                              *)
LEMMA CoreIs ==
  ASSUME NEW m, m.blocks \in Seq(TurnBlocks)
  PROVE  Core(m) = CoreIn(m.blocks)
<1> DEFINE q == m.blocks
           w == Without(q, Inessential)
<1>1. \A i \in DOMAIN q : q[i] \in TurnBlocks /\ q[i] \in ToSet(q)
  BY DEF ToSet
<1>2. \A i \in DOMAIN q : q[i] \in Unessential(m) <=> q[i] \in Inessential
  BY <1>1 DEF Unessential, Inessential
<1>3. Without(q, Unessential(m)) = w
  <2> HIDE DEF q
  <2> QED
    BY <1>2, WithoutSame
<1>4. w \in Seq(TurnBlocks)
  BY WithoutIsSeq
<1>5. \A i \in DOMAIN w : w[i] \in TurnBlocks
  BY <1>4
<1>6. Core(m) = [i \in DOMAIN w |-> <<w[i].kind, w[i].id, TextsOf(w[i].contents)>>]
  BY <1>3 DEF Core, TextsOf
<1> HIDE DEF w
<1>7. \A i \in DOMAIN w : CoreOf[w[i]] = <<w[i].kind, w[i].id, TextsOf(w[i].contents)>>
  BY <1>5 DEF CoreOf
<1>8. Core(m) = [i \in DOMAIN w |-> CoreOf[w[i]]]
  BY <1>6, <1>7
<1> QED
  BY <1>8 DEF CoreIn, Image, w

(* Removing what is not essential and changing what Core does not see leaves *)
(* the core as it is.                                                        *)
LEMMA CoreUnchanged ==
  ASSUME NEW q \in Seq(TurnBlocks), NEW f \in Maps(TurnBlocks, TurnBlocks), NEW S,
         \A b \in TurnBlocks : b \in Inessential <=> b \in S \/ f[b] \in Inessential,
         \A b \in TurnBlocks : CoreOf[f[b]] = CoreOf[b]
  PROVE  CoreIn(Image(f, Without(q, S))) = CoreIn(q)
<1>1. Without(Image(f, Without(q, S)), Inessential) = Image(f, Without(q, Inessential))
  BY WithoutTwice
<1>2. Without(q, Inessential) \in Seq(TurnBlocks)
  BY WithoutIsSeq
<1>3. PICK w \in Seq(TurnBlocks) : w = Without(q, Inessential)
  BY <1>2
<1>4. Image(CoreOf, Image(f, w)) = Image(CoreOf, w)
  BY CoreOfType, ImageTwice
<1> QED
  BY <1>1, <1>3, <1>4 DEF CoreIn

(* Stripping does not touch what the core keeps.                             *)
LEMMA StripOfFacts ==
  /\ StripOf \in Maps(TurnBlocks, TurnBlocks)
  /\ \A b \in TurnBlocks : StripOf[b] = StripResult(b) /\ CoreOf[StripOf[b]] = CoreOf[b]
                           /\ (b \in Inessential <=> StripOf[b] \in Inessential)
<1>1. \A b \in TurnBlocks : StripOf[b] = StripResult(b)
  BY DEF StripOf
<1>2. ASSUME NEW b \in TurnBlocks
      PROVE  StripOf[b] \in TurnBlocks /\ CoreOf[StripOf[b]] = CoreOf[b]
             /\ (b \in Inessential <=> StripOf[b] \in Inessential)
  <2>1. PICK c \in TurnBlocks : c = StripOf[b]
    BY <1>1, StripFacts
  <2>2. c.kind = b.kind /\ c.id = b.id /\ TextsOf(c.contents) = TextsOf(b.contents)
    BY <1>1, <2>1, StripFacts
  <2>3. CoreOf[c] = CoreOf[b]
    BY <2>2 DEF CoreOf
  <2>4. b \in Inessential <=> c \in Inessential
    BY <2>2 DEF Inessential
  <2> QED
    BY <2>1, <2>3, <2>4
<1>3. StripOf \in Maps(TurnBlocks, TurnBlocks)
  BY <1>2 DEF Maps, StripOf
<1> QED
  BY <1>1, <1>2, <1>3

(* Normalizing does not touch what the core keeps.                           *)
LEMMA NormalOfFacts ==
  /\ NormalOf \in Maps(TurnBlocks, TurnBlocks)
  /\ \A b \in TurnBlocks : CoreOf[NormalOf[b]] = CoreOf[b] /\ (b \in Inessential <=> NormalOf[b] \in Inessential)
<1>2. ASSUME NEW b \in TurnBlocks
      PROVE  NormalOf[b] \in TurnBlocks /\ CoreOf[NormalOf[b]] = CoreOf[b]
             /\ (b \in Inessential <=> NormalOf[b] \in Inessential)
  <2>1. PICK c \in TurnBlocks : c = NormalOf[b]
    BY NormalFacts
  <2>2. c.kind = b.kind /\ c.id = b.id /\ c.contents = b.contents
    BY <2>1, NormalFacts
  <2>3. CoreOf[c] = CoreOf[b]
    BY <2>2 DEF CoreOf
  <2>4. b \in Inessential <=> c \in Inessential
    BY <2>2 DEF Inessential
  <2> QED
    BY <2>1, <2>3, <2>4
<1>3. NormalOf \in Maps(TurnBlocks, TurnBlocks)
  BY <1>2 DEF Maps, NormalOf
<1> QED
  BY <1>2, <1>3

(* A message of a conversation as the client sends it.                       *)
Sent(m) == m \in TurnMessages /\ \A i \in DOMAIN m.blocks : Promised(m, m.blocks[i])

(* A message without its attachments, and what stays of its blocks.          *)
StripOne(m) == IF m.form = "list" THEN StripMessage(m) ELSE m
Showing == {b \in TurnBlocks : b.kind \in Attachments}
KeptBlocks(m) ==
  LET rest == Without(m.blocks, Showing)
  IN  IF rest = <<>> /\ m.blocks # <<>> THEN <<OmittedBlock>> ELSE rest

(* What the type of a message says of its fields.                            *)
LEMMA MessageFields ==
  ASSUME NEW m \in TurnMessages
  PROVE  /\ m.role \in {"user", "assistant"} /\ m.form \in {"string", "list"} /\ m.reasoning \in BOOLEAN
         /\ m.blocks \in Seq(TurnBlocks) /\ \A i \in DOMAIN m.blocks : m.blocks[i] \in TurnBlocks
         /\ m = [role |-> m.role, form |-> m.form, reasoning |-> m.reasoning, blocks |-> m.blocks]
<1>1. m.blocks \in Seq(TurnBlocks)
  BY DEF TurnMessages
<1>2. \A i \in DOMAIN m.blocks : m.blocks[i] \in TurnBlocks
  BY <1>1
<1> QED
  BY <1>1, <1>2 DEF TurnMessages

(* What is removed of a message, as one set of blocks.                       *)
LEMMA OfKindsIs ==
  ASSUME NEW m \in TurnMessages, NEW kinds
  PROVE  Without(m.blocks, OfKinds(m, kinds)) = Without(m.blocks, {b \in TurnBlocks : b.kind \in kinds})
<1> DEFINE q == m.blocks
<1>1. \A i \in DOMAIN q : q[i] \in TurnBlocks /\ q[i] \in ToSet(q)
  BY MessageFields DEF ToSet
<1>2. \A i \in DOMAIN q : q[i] \in OfKinds(m, kinds) <=> q[i] \in {b \in TurnBlocks : b.kind \in kinds}
  BY <1>1 DEF OfKinds
<1> HIDE DEF q
<1>3. Without(q, OfKinds(m, kinds)) = Without(q, {b \in TurnBlocks : b.kind \in kinds})
  BY <1>2, WithoutSame
<1> QED
  BY <1>3 DEF q

(* What stays of the blocks: each that is no attachment, and nothing else    *)
(* but the remark that something was omitted.                                *)
LEMMA KeptFacts ==
  ASSUME NEW m \in TurnMessages
  PROVE  /\ KeptBlocks(m) \in Seq(TurnBlocks)
         /\ \A i \in DOMAIN KeptBlocks(m) :
              \/ KeptBlocks(m)[i] = OmittedBlock
              \/ \E j \in DOMAIN m.blocks : KeptBlocks(m)[i] = m.blocks[j] /\ m.blocks[j].kind \notin Attachments
         /\ \A j \in DOMAIN m.blocks : m.blocks[j].kind \notin Attachments =>
              \E i \in DOMAIN KeptBlocks(m) : KeptBlocks(m)[i] = m.blocks[j]
         /\ KeptBlocks(m) = <<>> => m.blocks = <<>>
<1> DEFINE q == m.blocks
           rest == Without(q, Showing)
           kept == KeptBlocks(m)
<1>1. q \in Seq(TurnBlocks) /\ \A i \in DOMAIN q : q[i] \in TurnBlocks
  BY MessageFields
<1>2. kept = IF rest = <<>> /\ q # <<>> THEN <<OmittedBlock>> ELSE rest
  BY DEF KeptBlocks
<1> HIDE DEF q, kept
<1>3. rest \in Seq(TurnBlocks) /\ \A i \in DOMAIN rest : rest[i] \notin Showing /\ \E j \in DOMAIN q : rest[i] = q[j]
  BY <1>1, WithoutIsSeq
<1>4. \A j \in DOMAIN q : q[j] \notin Showing => \E i \in DOMAIN rest : rest[i] = q[j]
  BY <1>1, WithoutKeeps
<1>5. \A j \in DOMAIN q : q[j] \in Showing <=> q[j].kind \in Attachments
  BY <1>1 DEF Showing
<1>6. <<OmittedBlock>> \in Seq(TurnBlocks) /\ <<OmittedBlock>> # <<>> /\ DOMAIN <<OmittedBlock>> = {1}
      /\ <<OmittedBlock>>[1] = OmittedBlock
  BY OmittedFields, OneElement
<1> HIDE DEF rest
<1>7. DOMAIN <<>> = {}
  BY EmptySeq
<1>8. CASE rest = <<>> /\ q # <<>>
  <2>1. kept = <<OmittedBlock>>
    BY <1>2, <1>8
  <2>2. DOMAIN rest = {}
    BY <1>7, <1>8
  <2>3. \A j \in DOMAIN q : q[j].kind \in Attachments
    BY <1>4, <1>5, <2>2
  <2>4. kept \in Seq(TurnBlocks) /\ kept # <<>> /\ \A i \in DOMAIN kept : kept[i] = OmittedBlock
    BY <1>6, <2>1
  <2> QED
    BY <2>3, <2>4 DEF kept, q
<1>9. CASE ~(rest = <<>> /\ q # <<>>)
  <2>1. kept = rest
    BY <1>2, <1>9
  <2>2. \A i \in DOMAIN kept : \E j \in DOMAIN q : kept[i] = q[j] /\ q[j].kind \notin Attachments
    BY <1>3, <1>5, <2>1
  <2>3. \A j \in DOMAIN q : q[j].kind \notin Attachments => \E i \in DOMAIN kept : kept[i] = q[j]
    BY <1>4, <1>5, <2>1
  <2>4. kept = <<>> => q = <<>>
    BY <1>9, <2>1
  <2>5. kept \in Seq(TurnBlocks)
    BY <1>3, <2>1
  <2> QED
    BY <2>2, <2>3, <2>4, <2>5 DEF kept, q
<1> QED
  BY <1>8, <1>9

(* Taking out the attachments leaves the core as it is.                      *)
LEMMA KeptCore ==
  ASSUME NEW m \in TurnMessages
  PROVE  CoreIn(Image(StripOf, KeptBlocks(m))) = CoreIn(m.blocks)
<1> DEFINE rest == Without(m.blocks, Showing)
<1>0. PICK q \in Seq(TurnBlocks) : q = m.blocks
  BY MessageFields
<1>1. \A b \in TurnBlocks : b \in Inessential <=> b \in Showing \/ StripOf[b] \in Inessential
  BY StripOfFacts DEF Showing, Inessential, Attachments
<1>2. CoreIn(Image(StripOf, Without(q, Showing))) = CoreIn(q)
  BY <1>1, StripOfFacts, CoreUnchanged
<1>3. CASE rest = <<>> /\ m.blocks # <<>>
  <2>1. KeptBlocks(m) = <<OmittedBlock>>
    BY <1>3 DEF KeptBlocks
  <2>2. PICK o \in TurnBlocks : o = OmittedBlock
    BY OmittedFields
  <2>3. o \in Inessential
    BY <2>2, OmittedFields
  <2>4. StripOf[o] \in TurnBlocks /\ StripOf[o] \in Inessential
    BY <2>3, StripOfFacts DEF Maps
  <2>5. PICK p \in TurnBlocks : p = StripOf[o]
    BY <2>4
  <2>6. Image(StripOf, <<o>>) = <<p>>
    <3>1. DOMAIN <<o>> = {1} /\ <<o>>[1] = o
      BY OneElement
    <3>2. DOMAIN <<p>> = {1} /\ <<p>>[1] = p /\ <<p>> \in Seq(TurnBlocks)
      BY OneElement
    <3>3. DOMAIN Image(StripOf, <<o>>) = {1} /\ Image(StripOf, <<o>>)[1] = p
      BY <2>5, <3>1 DEF Image
    <3>4. <<p>> = [i \in {1} |-> p]
      BY <3>2
    <3>5. Image(StripOf, <<o>>) = [i \in {1} |-> p]
      BY <2>5, <3>1 DEF Image
    <3> QED
      BY <3>4, <3>5
  <2>7. <<p>> \in Seq(TurnBlocks) /\ \A i \in DOMAIN <<p>> : <<p>>[i] \in Inessential
    BY <2>4, <2>5, OneElement
  <2>8. Without(<<p>>, Inessential) = <<>>
    BY <2>7, WithoutEmpty
  <2>9. Without(Image(StripOf, Without(q, Showing)), Inessential) = <<>>
    <3>1. Without(q, Showing) = <<>>
      BY <1>0, <1>3
    <3> QED
      BY <3>1, ImageNone, WithoutNone
  <2>10. CoreIn(Image(StripOf, KeptBlocks(m))) = Image(CoreOf, <<>>)
    BY <2>1, <2>2, <2>6, <2>8 DEF CoreIn
  <2>11. CoreIn(Image(StripOf, Without(q, Showing))) = Image(CoreOf, <<>>)
    BY <2>9 DEF CoreIn
  <2> QED
    BY <1>0, <1>2, <2>10, <2>11
<1>4. CASE ~(rest = <<>> /\ m.blocks # <<>>)
  <2>1. KeptBlocks(m) = rest
    BY <1>4 DEF KeptBlocks
  <2> QED
    BY <1>0, <1>2, <2>1
<1> QED
  BY <1>3, <1>4

(* Stripping the attachments of a message.                                   *)
LEMMA StripMessageIs ==
  ASSUME NEW m \in TurnMessages
  PROVE  /\ StripMessage(m) = [role |-> m.role, form |-> m.form, reasoning |-> m.reasoning,
                               blocks |-> Image(StripOf, KeptBlocks(m))]
         /\ Image(StripOf, KeptBlocks(m)) \in Seq(TurnBlocks)
<1> DEFINE kept == KeptBlocks(m)
<1>1. kept \in Seq(TurnBlocks)
  BY KeptFacts
<1>2. kept = IF Without(m.blocks, OfKinds(m, Attachments)) = <<>> /\ m.blocks # <<>> THEN <<OmittedBlock>>
             ELSE Without(m.blocks, OfKinds(m, Attachments))
  BY OfKindsIs DEF KeptBlocks, Showing
<1>3. StripMessage(m) = EachBlock([m EXCEPT !.blocks = kept], StripResult)
  BY <1>2 DEF StripMessage
<1> HIDE DEF kept
<1>4. [m EXCEPT !.blocks = kept] = [role |-> m.role, form |-> m.form, reasoning |-> m.reasoning, blocks |-> kept]
  BY DEF TurnMessages
<1>5. EachBlock([m EXCEPT !.blocks = kept], StripResult) =
        [role |-> m.role, form |-> m.form, reasoning |-> m.reasoning,
         blocks |-> [i \in DOMAIN kept |-> StripResult(kept[i])]]
  <2> DEFINE v == [i \in DOMAIN kept |-> StripResult(kept[i])]
  <2>1. PICK k : k = [m EXCEPT !.blocks = kept]
    OBVIOUS
  <2>2. k = [role |-> m.role, form |-> m.form, reasoning |-> m.reasoning, blocks |-> kept] /\ k.blocks = kept
    BY <1>4, <2>1
  <2>3. EachBlock(k, StripResult) = [k EXCEPT !.blocks = [i \in DOMAIN k.blocks |-> StripResult(k.blocks[i])]]
    BY DEF EachBlock
  <2>4. EachBlock(k, StripResult) = [k EXCEPT !.blocks = v]
    BY <2>2, <2>3
  <2> HIDE DEF v
  <2>5. EachBlock(k, StripResult) = [role |-> m.role, form |-> m.form, reasoning |-> m.reasoning, blocks |-> v]
    BY <2>2, <2>4
  <2> QED
    BY <2>1, <2>5 DEF v
<1>6. \A i \in DOMAIN kept : kept[i] \in TurnBlocks
  BY <1>1
<1>7. \A i \in DOMAIN kept : StripResult(kept[i]) = StripOf[kept[i]]
  BY <1>6, StripOfFacts
<1>8. [i \in DOMAIN kept |-> StripResult(kept[i])] = Image(StripOf, kept)
  BY <1>7 DEF Image
<1>9. Image(StripOf, kept) \in Seq(TurnBlocks)
  BY <1>1, StripOfFacts, ImageFacts
<1> QED
  BY <1>3, <1>5, <1>8, <1>9 DEF kept

(* What stripping makes of a block is what it makes of one of the client's,  *)
(* or the remark.                                                            *)
LEMMA StrippedFacts ==
  ASSUME NEW m \in TurnMessages
  PROVE  /\ StripOne(m) \in TurnMessages
         /\ StripOne(m).role = m.role /\ StripOne(m).form = m.form
         /\ CoreIn(StripOne(m).blocks) = CoreIn(m.blocks)
         /\ m.form = "string" => StripOne(m) = m
         /\ m.form = "list" => \A i \in DOMAIN StripOne(m).blocks :
              \/ StripOne(m).blocks[i] = OmittedBlock
              \/ \E j \in DOMAIN m.blocks : StripOne(m).blocks[i] = StripResult(m.blocks[j])
                                            /\ m.blocks[j].kind \notin Attachments
         /\ \A j \in DOMAIN m.blocks : m.blocks[j].kind \notin Attachments =>
              \E i \in DOMAIN StripOne(m).blocks : StripOne(m).blocks[i].kind = m.blocks[j].kind
         /\ StripOne(m).blocks = <<>> => m.blocks = <<>>
<1> DEFINE q == m.blocks
           kept == KeptBlocks(m)
           s == StripOne(m)
<1>1. CASE m.form = "string"
  <2>1. s = m
    BY <1>1 DEF StripOne
  <2> QED
    BY <1>1, <2>1
<1>2. CASE m.form = "list"
  <2>1. /\ s = [role |-> m.role, form |-> m.form, reasoning |-> m.reasoning, blocks |-> Image(StripOf, kept)]
        /\ Image(StripOf, kept) \in Seq(TurnBlocks)
    BY <1>2, StripMessageIs DEF StripOne
  <2>2. s \in TurnMessages /\ s.role = m.role /\ s.form = m.form /\ s.blocks = Image(StripOf, kept)
    BY <2>1, MessageFields DEF TurnMessages
  <2> HIDE DEF s
  <2>3. CoreIn(s.blocks) = CoreIn(m.blocks)
    BY <2>2, KeptCore
  <2>4. /\ kept \in Seq(TurnBlocks)
        /\ \A i \in DOMAIN kept :
              kept[i] = OmittedBlock \/ \E j \in DOMAIN q : kept[i] = q[j] /\ q[j].kind \notin Attachments
        /\ \A j \in DOMAIN q : q[j].kind \notin Attachments => \E i \in DOMAIN kept : kept[i] = q[j]
        /\ kept = <<>> => q = <<>>
    BY KeptFacts
  <2> HIDE DEF kept, q
  <2>5. DOMAIN s.blocks = DOMAIN kept /\ Len(s.blocks) = Len(kept)
    BY <2>2, <2>4, StripOfFacts, ImageFacts
  <2>6. \A i \in DOMAIN kept : kept[i] \in TurnBlocks
    BY <2>4
  <2>7. \A i \in DOMAIN kept : s.blocks[i] = StripResult(kept[i]) /\ s.blocks[i].kind = kept[i].kind
    <3>1. TAKE i \in DOMAIN kept
    <3>2. s.blocks[i] = StripOf[kept[i]]
      BY <2>2 DEF Image
    <3>3. StripOf[kept[i]] = StripResult(kept[i])
      BY <2>6, StripOfFacts
    <3>4. StripResult(kept[i]).kind = kept[i].kind
      BY <2>6, StripFacts
    <3> QED
      BY <3>2, <3>3, <3>4
  <2>8. StripResult(OmittedBlock) = OmittedBlock
    BY OmittedFields, StripFacts
  <2>9. \A i \in DOMAIN s.blocks :
          s.blocks[i] = OmittedBlock \/ \E j \in DOMAIN q : s.blocks[i] = StripResult(q[j]) /\ q[j].kind \notin Attachments
    BY <2>4, <2>5, <2>7, <2>8
  <2>10. \A j \in DOMAIN q : q[j].kind \notin Attachments => \E i \in DOMAIN s.blocks : s.blocks[i].kind = q[j].kind
    BY <2>4, <2>5, <2>7
  <2>11. s.blocks = <<>> => q = <<>>
    <3>1. HAVE s.blocks = <<>>
    <3>2. Len(kept) = 0
      BY <2>5, <3>1
    <3> QED
      BY <2>4, <3>2, EmptySeq
  <2> QED
    BY <1>2, <2>2, <2>3, <2>9, <2>10, <2>11 DEF s, q
<1> QED
  BY <1>1, <1>2, MessageFields

(* What is dropped of a message, and the message of the body.                *)
DroppedKinds(m, thinking) ==
  IF m.role # "assistant" THEN {} ELSE IF thinking THEN {"redacted_thinking"} ELSE {"thinking", "redacted_thinking"}
DroppedBlocks(m, thinking) == {b \in TurnBlocks : b.kind \in DroppedKinds(m, thinking)}
SanitizeOne(m, thinking) == IF m.form = "list" THEN SanitizeMessage(m, thinking) ELSE m
NormalOne(m) == IF m.form = "list" THEN NormalizeMessage(m) ELSE m
FinalOne(m, thinking) == [NormalOne(SanitizeOne(m, thinking)) EXCEPT !.reasoning = FALSE]

(* Sanitizing a list of blocks.                                              *)
LEMMA SanitizeIs ==
  ASSUME NEW m \in TurnMessages, m.form = "list", NEW thinking \in BOOLEAN
  PROVE  LET rest == Without(m.blocks, DroppedBlocks(m, thinking))
         IN  /\ rest \in Seq(TurnBlocks)
             /\ SanitizeOne(m, thinking) = [role |-> m.role, reasoning |-> m.reasoning, blocks |-> rest,
                    form |-> IF m.role = "assistant" /\ rest = <<>> THEN "string" ELSE "list"]
<1> DEFINE rest == Without(m.blocks, DroppedBlocks(m, thinking))
<1>1. m.blocks \in Seq(TurnBlocks)
  BY MessageFields
<1>2. rest \in Seq(TurnBlocks)
  BY <1>1, WithoutIsSeq
<1>3. SanitizeOne(m, thinking) = SanitizeMessage(m, thinking)
  BY DEF SanitizeOne
<1>4. CASE m.role # "assistant"
  <2>1. DroppedBlocks(m, thinking) = {}
    BY <1>4 DEF DroppedBlocks, DroppedKinds
  <2>2. PICK q \in Seq(TurnBlocks) : q = m.blocks
    BY <1>1
  <2>3. rest = m.blocks
    BY <2>1, <2>2, WithoutNothing
  <2>4. SanitizeOne(m, thinking) = m
    BY <1>3, <1>4 DEF SanitizeMessage
  <2> HIDE DEF rest
  <2> QED
    BY <1>2, <1>4, <2>3, <2>4, MessageFields DEF rest
<1>5. CASE m.role = "assistant"
  <2>1. DroppedBlocks(m, thinking) = {b \in TurnBlocks :
           b.kind \in IF thinking THEN {"redacted_thinking"} ELSE {"thinking", "redacted_thinking"}}
    BY <1>5 DEF DroppedBlocks, DroppedKinds
  <2>2. Without(m.blocks, OfKinds(m, IF thinking THEN {"redacted_thinking"} ELSE {"thinking", "redacted_thinking"})) = rest
    <3> DEFINE kinds == IF thinking THEN {"redacted_thinking"} ELSE {"thinking", "redacted_thinking"}
    <3>1. Without(m.blocks, OfKinds(m, kinds)) = Without(m.blocks, {b \in TurnBlocks : b.kind \in kinds})
      <4> HIDE DEF kinds
      <4> QED
        BY OfKindsIs
    <3> QED
      BY <2>1, <3>1
  <2>3. SanitizeOne(m, thinking) = [m EXCEPT !.blocks = rest, !.form = IF rest = <<>> THEN "string" ELSE "list"]
    BY <1>3, <1>5, <2>2 DEF SanitizeMessage
  <2> HIDE DEF rest
  <2>4. SanitizeOne(m, thinking) = [role |-> m.role, reasoning |-> m.reasoning, blocks |-> rest,
                                    form |-> IF m.role = "assistant" /\ rest = <<>> THEN "string" ELSE "list"]
    BY <1>5, <2>3 DEF TurnMessages
  <2> QED
    BY <1>2, <2>4 DEF rest
<1> QED
  BY <1>4, <1>5

(* Every block of a list of blocks normalized.                               *)
LEMMA NormalizeIs ==
  ASSUME NEW m, NEW q \in Seq(TurnBlocks), NEW role, NEW form, NEW reasoning,
         m = [role |-> role, reasoning |-> reasoning, blocks |-> q, form |-> form]
  PROVE  NormalizeMessage(m) = [role |-> role, reasoning |-> reasoning, blocks |-> Image(NormalOf, q), form |-> form]
<1> DEFINE Normal(b) == IF b.kind = "tool_result" THEN [b EXCEPT !.form = "string"] ELSE b
           v == [i \in DOMAIN q |-> Normal(q[i])]
<1>1. m.blocks = q
  OBVIOUS
<1>2. NormalizeMessage(m) = [m EXCEPT !.blocks = [i \in DOMAIN m.blocks |-> Normal(m.blocks[i])]]
  BY DEF NormalizeMessage, EachBlock
<1>3. NormalizeMessage(m) = [m EXCEPT !.blocks = v]
  BY <1>1, <1>2
<1>4. \A i \in DOMAIN q : q[i] \in TurnBlocks
  OBVIOUS
<1>5. \A i \in DOMAIN q : Normal(q[i]) = NormalOf[q[i]]
  BY <1>4 DEF NormalOf
<1>6. v = Image(NormalOf, q)
  <2> HIDE DEF Normal
  <2> QED
    BY <1>5 DEF Image
<1> HIDE DEF v
<1>7. [m EXCEPT !.blocks = v] = [role |-> role, reasoning |-> reasoning, blocks |-> v, form |-> form]
  OBVIOUS
<1> QED
  BY <1>3, <1>6, <1>7

(* A message without its reasoning_content.                                  *)
LEMMA Unreasoned ==
  ASSUME NEW m, NEW role, NEW reasoning, NEW q, NEW form,
         m = [role |-> role, reasoning |-> reasoning, blocks |-> q, form |-> form]
  PROVE  [m EXCEPT !.reasoning = FALSE] = [role |-> role, reasoning |-> FALSE, blocks |-> q, form |-> form]
<1>1. DOMAIN m = {"role", "reasoning", "blocks", "form"}
  OBVIOUS
<1>2. PICK r : r = [role |-> role, reasoning |-> FALSE, blocks |-> q, form |-> form]
  OBVIOUS
<1>3. PICK s : s = [m EXCEPT !.reasoning = FALSE]
  OBVIOUS
<1>4. DOMAIN r = {"role", "reasoning", "blocks", "form"} /\ r = [x \in {"role", "reasoning", "blocks", "form"} |-> r[x]]
  BY <1>2
<1>5. s = [x \in DOMAIN m |-> IF x = "reasoning" THEN FALSE ELSE m[x]]
  BY <1>3
<1>6. s["role"] = role /\ s["blocks"] = q /\ s["form"] = form
  BY <1>1, <1>5
<1>7. s["reasoning"] = FALSE
  BY <1>1, <1>5
<1>8. r["reasoning"] = FALSE
  BY <1>2
<1>9. r["role"] = role /\ r["blocks"] = q /\ r["form"] = form
  BY <1>2
<1>10. \A x \in DOMAIN m : s[x] = r[x]
  BY <1>1, <1>6, <1>7, <1>8, <1>9
<1>11. s = [x \in DOMAIN m |-> s[x]]
  BY <1>5
<1>12. s = r
  BY <1>1, <1>4, <1>10, <1>11
<1> QED
  BY <1>2, <1>3, <1>12

(* A message of the body.                                                    *)
LEMMA FinalIs ==
  ASSUME NEW m \in TurnMessages, NEW thinking \in BOOLEAN
  PROVE  /\ m.form = "string" => FinalOne(m, thinking) =
              [role |-> m.role, reasoning |-> FALSE, blocks |-> m.blocks, form |-> "string"]
         /\ m.form = "list" => FinalOne(m, thinking) =
              [role |-> m.role, reasoning |-> FALSE,
               blocks |-> Image(NormalOf, Without(m.blocks, DroppedBlocks(m, thinking))),
               form |-> IF m.role = "assistant" /\ Without(m.blocks, DroppedBlocks(m, thinking)) = <<>>
                        THEN "string" ELSE "list"]
<1>1. ASSUME m.form = "string"
      PROVE  FinalOne(m, thinking) = [role |-> m.role, reasoning |-> FALSE, blocks |-> m.blocks, form |-> "string"]
  <2>1. SanitizeOne(m, thinking) = m /\ NormalOne(m) = m
    BY <1>1 DEF SanitizeOne, NormalOne
  <2>2. FinalOne(m, thinking) = [m EXCEPT !.reasoning = FALSE]
    BY <2>1 DEF FinalOne
  <2> QED
    BY <1>1, <2>2, MessageFields
<1>2. ASSUME m.form = "list"
      PROVE  FinalOne(m, thinking) =
              [role |-> m.role, reasoning |-> FALSE,
               blocks |-> Image(NormalOf, Without(m.blocks, DroppedBlocks(m, thinking))),
               form |-> IF m.role = "assistant" /\ Without(m.blocks, DroppedBlocks(m, thinking)) = <<>>
                        THEN "string" ELSE "list"]
  <2> DEFINE rest == Without(m.blocks, DroppedBlocks(m, thinking))
             form == IF m.role = "assistant" /\ rest = <<>> THEN "string" ELSE "list"
             r == Image(NormalOf, rest)
  <2>1. rest \in Seq(TurnBlocks)
        /\ SanitizeOne(m, thinking) = [role |-> m.role, reasoning |-> m.reasoning, blocks |-> rest, form |-> form]
    BY <1>2, SanitizeIs
  <2>2. PICK s : s = SanitizeOne(m, thinking)
    OBVIOUS
  <2>3. form = "string" => r = rest
    BY ImageNone
  <2>4. form \in {"string", "list"}
    OBVIOUS
  <2> HIDE DEF rest, form
  <2>5. s = [role |-> m.role, reasoning |-> m.reasoning, blocks |-> rest, form |-> form] /\ s.form = form
    BY <2>1, <2>2
  <2>6. NormalizeMessage(s) = [role |-> m.role, reasoning |-> m.reasoning, blocks |-> r, form |-> form]
    BY <2>1, <2>5, NormalizeIs
  <2>7. NormalOne(s) = [role |-> m.role, reasoning |-> m.reasoning, blocks |-> r, form |-> form]
    <3> HIDE DEF r
    <3> QED
      BY <2>3, <2>4, <2>5, <2>6 DEF NormalOne
  <2>8. FinalOne(m, thinking) = [NormalOne(s) EXCEPT !.reasoning = FALSE]
    BY <2>2 DEF FinalOne
  <2>9. FinalOne(m, thinking) = [role |-> m.role, reasoning |-> FALSE, blocks |-> r, form |-> form]
    <3> HIDE DEF r
    <3>1. PICK k : k = NormalOne(s)
      OBVIOUS
    <3>2. [k EXCEPT !.reasoning = FALSE] = [role |-> m.role, reasoning |-> FALSE, blocks |-> r, form |-> form]
      BY <2>7, <3>1, Unreasoned
    <3> QED
      BY <2>8, <3>1, <3>2
  <2> QED
    BY <2>9 DEF rest, form
<1> QED
  BY <1>1, <1>2

(* The blocks that are neither thinking nor calls.                           *)
NotThought == {b \in TurnBlocks : b.kind \notin {"thinking", "tool_use"}}

(* The thinking and the calls, by one set of blocks for all messages.        *)
LEMMA ThinkingAndCallsIs ==
  ASSUME NEW m, m.blocks \in Seq(TurnBlocks)
  PROVE  ThinkingAndCalls(m) = Without(m.blocks, NotThought)
<1> DEFINE q == m.blocks
<1>1. \A i \in DOMAIN q : q[i] \in TurnBlocks /\ q[i] \in ToSet(q)
  BY DEF ToSet
<1>2. \A i \in DOMAIN q : q[i] \in ToSet(q) \ OfKinds(m, {"thinking", "tool_use"}) <=> q[i] \in NotThought
  BY <1>1 DEF OfKinds, NotThought
<1> HIDE DEF q
<1>3. Without(q, ToSet(q) \ OfKinds(m, {"thinking", "tool_use"})) = Without(q, NotThought)
  BY <1>2, WithoutSame
<1> QED
  BY <1>3 DEF ThinkingAndCalls, q

(* The blocks of the body are what normalizing makes of those that are not   *)
(* dropped.                                                                  *)
LEMMA FinalBlocks ==
  ASSUME NEW m \in TurnMessages, m.form = "list", NEW thinking \in BOOLEAN
  PROVE  LET rest == Without(m.blocks, DroppedBlocks(m, thinking))  f == FinalOne(m, thinking)
         IN  /\ rest \in Seq(TurnBlocks) /\ f.blocks = Image(NormalOf, rest) /\ f.blocks \in Seq(TurnBlocks)
             /\ f.role = m.role /\ f.reasoning = FALSE
             /\ f.form = IF m.role = "assistant" /\ rest = <<>> THEN "string" ELSE "list"
             /\ CoreIn(f.blocks) = CoreIn(m.blocks)
<1> DEFINE rest == Without(m.blocks, DroppedBlocks(m, thinking))
           f == FinalOne(m, thinking)
<1>1. PICK q \in Seq(TurnBlocks) : q = m.blocks
  BY MessageFields
<1>2. rest \in Seq(TurnBlocks)
  BY <1>1, WithoutIsSeq
<1>3. Image(NormalOf, rest) \in Seq(TurnBlocks)
  <2> HIDE DEF rest
  <2> QED
    BY <1>2, NormalOfFacts, ImageFacts
<1>4. f = [role |-> m.role, reasoning |-> FALSE, blocks |-> Image(NormalOf, rest),
           form |-> IF m.role = "assistant" /\ rest = <<>> THEN "string" ELSE "list"]
  BY FinalIs
<1>5. \A b \in TurnBlocks : b \in Inessential <=> b \in DroppedBlocks(m, thinking) \/ NormalOf[b] \in Inessential
  BY NormalOfFacts DEF DroppedBlocks, DroppedKinds, Inessential
<1>6. CoreIn(Image(NormalOf, Without(q, DroppedBlocks(m, thinking)))) = CoreIn(q)
  BY <1>5, NormalOfFacts, CoreUnchanged
<1>7. CoreIn(Image(NormalOf, rest)) = CoreIn(m.blocks)
  BY <1>1, <1>6
<1> HIDE DEF rest, f
<1>8. f.role = m.role /\ f.reasoning = FALSE /\ f.blocks = Image(NormalOf, rest)
      /\ f.form = IF m.role = "assistant" /\ rest = <<>> THEN "string" ELSE "list"
  BY <1>4
<1> QED
  BY <1>2, <1>3, <1>7, <1>8 DEF rest, f

(* A message of the body and the message it is made of.                      *)
LEMMA FinalFacts ==
  ASSUME NEW m \in TurnMessages, NEW thinking \in BOOLEAN
  PROVE  LET f == FinalOne(m, thinking)
         IN  /\ f.role = m.role /\ f.reasoning = FALSE /\ (f.form = "list" => m.form = "list")
             /\ f.blocks \in Seq(TurnBlocks) /\ CoreIn(f.blocks) = CoreIn(m.blocks)
             /\ m.form = "string" => f.blocks = m.blocks
             /\ m.form = "list" =>
                  /\ \A i \in DOMAIN f.blocks : \E j \in DOMAIN m.blocks :
                        f.blocks[i] = NormalOf[m.blocks[j]] /\ m.blocks[j].kind \notin DroppedKinds(m, thinking)
                  /\ f.blocks = <<>> => \A j \in DOMAIN m.blocks : m.blocks[j].kind \in DroppedKinds(m, thinking)
<1> DEFINE f == FinalOne(m, thinking)
           rest == Without(m.blocks, DroppedBlocks(m, thinking))
<1>1. m.blocks \in Seq(TurnBlocks) /\ m.form \in {"string", "list"} /\ \A j \in DOMAIN m.blocks : m.blocks[j] \in TurnBlocks
  BY MessageFields
<1>2. CASE m.form = "string"
  <2>1. f = [role |-> m.role, reasoning |-> FALSE, blocks |-> m.blocks, form |-> "string"]
    BY <1>2, FinalIs
  <2> HIDE DEF f
  <2>2. f.role = m.role /\ f.reasoning = FALSE /\ f.blocks = m.blocks /\ f.form = "string"
    BY <2>1
  <2> QED
    BY <1>1, <1>2, <2>2 DEF f
<1>3. CASE m.form = "list"
  <2>1. /\ rest \in Seq(TurnBlocks) /\ f.blocks = Image(NormalOf, rest) /\ f.blocks \in Seq(TurnBlocks)
        /\ f.role = m.role /\ f.reasoning = FALSE /\ CoreIn(f.blocks) = CoreIn(m.blocks)
    BY <1>3, FinalBlocks
  <2>2. \A j \in DOMAIN m.blocks :
          m.blocks[j] \in DroppedBlocks(m, thinking) <=> m.blocks[j].kind \in DroppedKinds(m, thinking)
    BY <1>1 DEF DroppedBlocks
  <2>3. \A i \in DOMAIN rest : rest[i] \notin DroppedBlocks(m, thinking) /\ \E j \in DOMAIN m.blocks : rest[i] = m.blocks[j]
    BY <1>1, WithoutIsSeq
  <2>4. rest = <<>> => \A j \in DOMAIN m.blocks : m.blocks[j] \in DroppedBlocks(m, thinking)
    BY <1>1, WithoutEmpty
  <2> HIDE DEF rest, f
  <2>5. DOMAIN f.blocks = DOMAIN rest /\ Len(f.blocks) = Len(rest)
    BY <2>1, NormalOfFacts, ImageFacts
  <2>6. \A i \in DOMAIN f.blocks : f.blocks[i] = NormalOf[rest[i]]
    BY <2>1, <2>5 DEF Image
  <2>7. \A i \in DOMAIN f.blocks : \E j \in DOMAIN m.blocks :
           f.blocks[i] = NormalOf[m.blocks[j]] /\ m.blocks[j].kind \notin DroppedKinds(m, thinking)
    BY <2>2, <2>3, <2>5, <2>6
  <2>8. f.blocks = <<>> => \A j \in DOMAIN m.blocks : m.blocks[j].kind \in DroppedKinds(m, thinking)
    <3>1. HAVE f.blocks = <<>>
    <3>2. rest = <<>>
      BY <2>1, <2>5, <3>1, EmptySeq
    <3> QED
      BY <2>2, <2>4, <3>2
  <2> QED
    BY <1>3, <2>1, <2>7, <2>8 DEF f
<1> QED
  BY <1>1, <1>2, <1>3

(* Thinking that led to a call is still there in the body.                   *)
LEMMA ReplayableStays ==
  ASSUME NEW m \in TurnMessages, Replayable(m)
  PROVE  Replayable(FinalOne(m, TRUE))
<1> DEFINE f == FinalOne(m, TRUE)
           rest == Without(m.blocks, DroppedBlocks(m, TRUE))
           t == ThinkingAndCalls(m)
           u == ThinkingAndCalls(f)
<1>1. m.role = "assistant" /\ m.form = "list"
  BY DEF Replayable
<1>2. PICK q \in Seq(TurnBlocks) : q = m.blocks
  BY MessageFields
<1>3. /\ rest \in Seq(TurnBlocks) /\ f.blocks = Image(NormalOf, rest) /\ f.blocks \in Seq(TurnBlocks)
      /\ f.role = "assistant" /\ f.form = IF rest = <<>> THEN "string" ELSE "list"
  BY <1>1, FinalBlocks
<1>4. t = Without(q, NotThought) /\ t \in Seq(TurnBlocks)
  BY <1>2, ThinkingAndCallsIs, WithoutIsSeq
<1>5. \A b \in TurnBlocks : b \in NotThought <=> b \in DroppedBlocks(m, TRUE) \/ NormalOf[b] \in NotThought
  BY <1>1, NormalFacts DEF DroppedBlocks, DroppedKinds, NotThought
<1>6. Without(Image(NormalOf, Without(q, DroppedBlocks(m, TRUE))), NotThought) = Image(NormalOf, Without(q, NotThought))
  <2>1. PICK dropped : dropped = DroppedBlocks(m, TRUE)
    OBVIOUS
  <2>2. \A b \in TurnBlocks : b \in NotThought <=> b \in dropped \/ NormalOf[b] \in NotThought
    BY <1>5, <2>1
  <2>3. Without(Image(NormalOf, Without(q, dropped)), NotThought) = Image(NormalOf, Without(q, NotThought))
    BY <2>2, NormalOfFacts, WithoutTwice
  <2> QED
    BY <2>1, <2>3
<1>7. u = Image(NormalOf, t)
  <2>1. u = Without(f.blocks, NotThought)
    <3> HIDE DEF f
    <3> QED
      BY <1>3, ThinkingAndCallsIs
  <2> QED
    BY <1>2, <1>3, <1>4, <1>6, <2>1
<1>8. PICK call \in 2 .. Len(t) : /\ t[call].kind = "tool_use" /\ t[call - 1].contents # <<>>
                                  /\ \A i \in 1 .. call - 1 : t[i].kind = "thinking"
  BY DEF Replayable
<1>9. rest # <<>>
  <2>1. SUFFICES ASSUME rest = <<>> PROVE FALSE
    OBVIOUS
  <2>2. u = <<>>
    <3>1. Without(Image(NormalOf, rest), NotThought) = <<>>
      BY <2>1, ImageNone, WithoutNone
    <3> QED
      BY <1>2, <1>4, <1>6, <1>7, <3>1
  <2> HIDE DEF t, u, f, rest
  <2>3. Len(t) = 0
    <3>1. Len(u) = Len(t)
      BY <1>4, <1>7, NormalOfFacts, ImageFacts
    <3> QED
      BY <2>2, <3>1, EmptySeq
  <2> QED
    BY <1>8, <2>3
<1> HIDE DEF t, u, rest, f
<1>10. Len(u) = Len(t) /\ DOMAIN u = DOMAIN t /\ DOMAIN t = 1 .. Len(t) /\ Len(t) \in Nat
  BY <1>4, <1>7, NormalOfFacts, ImageFacts
<1>11. \A i \in 1 .. Len(t) : u[i].kind = t[i].kind /\ u[i].contents = t[i].contents
  <2>1. TAKE i \in 1 .. Len(t)
  <2>2. t[i] \in TurnBlocks
    BY <1>4
  <2>3. u[i] = NormalOf[t[i]]
    BY <1>7, <1>10 DEF Image
  <2> QED
    BY <2>2, <2>3, NormalFacts
<1>12. call \in 1 .. Len(t) /\ call - 1 \in 1 .. Len(t) /\ call \in 2 .. Len(u)
       /\ \A i \in 1 .. call - 1 : i \in 1 .. Len(t)
  BY <1>8, <1>10
<1>13. /\ u[call].kind = "tool_use" /\ u[call - 1].contents # <<>>
       /\ \A i \in 1 .. call - 1 : u[i].kind = "thinking"
  BY <1>8, <1>11, <1>12
<1>14. f.form = "list"
  BY <1>3, <1>9
<1> QED
  BY <1>3, <1>12, <1>13, <1>14 DEF Replayable, u, f

(* What the builder makes of a conversation.                                 *)
Outcome(messages) ==
  IF Rejected(StripAttachments(messages)) THEN Refusal ELSE Body(StripAttachments(messages))

(* The conversation is one of the client's, and what came of it is nothing   *)
(* yet, or what the builder makes of it.                                     *)
DeepSeekInv ==
  /\ asked \in [foreign : BOOLEAN, enabled : BOOLEAN, thinking : BOOLEAN, hints : {{}, Hints}, messages : Seq(Turns)]
  /\ built = NotBuilt \/ built = Outcome(asked.messages)

(* The invariant holds at the beginning.                                     *)
LEMMA DeepSeekStarts == DeepSeekInit => DeepSeekInv
<1>1. HAVE DeepSeekInit
<1>2. <<>> \in Seq(Turns)
  BY EmptySeq
<1>3. {<<>>} \in SUBSET Seq(Turns)
  BY <1>2
<1> QED
  BY <1>1, <1>3 DEF DeepSeekInit, DeepSeekInv

(* Every step keeps the invariant.                                           *)
LEMMA DeepSeekStep == DeepSeekInv /\ [DeepSeekNext]_deepSeekVars => DeepSeekInv'
<1>1. SUFFICES ASSUME DeepSeekInv, [DeepSeekNext]_deepSeekVars
               PROVE  DeepSeekInv'
  OBVIOUS
<1>2. ASSUME Build
      PROVE  DeepSeekInv'
  <2>1. asked' = asked /\ built' = Outcome(asked.messages)
    BY <1>2 DEF Build, Outcome
  <2>2. Outcome(asked.messages)' = Outcome(asked.messages)
    BY <2>1 DEF Outcome, Rejected, Body, EachList
  <2> QED
    BY <1>1, <2>1, <2>2 DEF DeepSeekInv
<1>3. ASSUME NEW m \in Turns, Speak(m)
      PROVE  DeepSeekInv'
  <2>1. asked' = [asked EXCEPT !.messages = Append(@, m)] /\ built' = NotBuilt
    BY <1>3 DEF Speak
  <2>2. Append(asked.messages, m) \in Seq(Turns)
    BY <1>1 DEF DeepSeekInv
  <2>3. asked' \in [foreign : BOOLEAN, enabled : BOOLEAN, thinking : BOOLEAN, hints : {{}, Hints}, messages : Seq(Turns)]
    BY <1>1, <2>1, <2>2 DEF DeepSeekInv
  <2> QED
    BY <2>1, <2>3 DEF DeepSeekInv, NotBuilt
<1>4. ASSUME UNCHANGED deepSeekVars
      PROVE  DeepSeekInv'
  <2>1. asked' = asked /\ built' = built
    BY <1>4 DEF deepSeekVars
  <2>2. Outcome(asked.messages)' = Outcome(asked.messages)
    BY <2>1  DEF Outcome, Rejected, Body, EachList
  <2>3. NotBuilt' = NotBuilt
    BY DEF NotBuilt
  <2> QED
    BY <1>1, <2>1, <2>2, <2>3 DEF DeepSeekInv
<1> QED
  BY <1>1, <1>2, <1>3, <1>4 DEF DeepSeekNext

(* What the conversation, the stripped one and the body have in common.      *)
LEMMA Conversation ==
  ASSUME DeepSeekInv
  PROVE  /\ DOMAIN StripAttachments(asked.messages) = DOMAIN asked.messages
         /\ \A n \in DOMAIN asked.messages : /\ asked.messages[n] \in TurnMessages /\ Sent(asked.messages[n])
                                             /\ StripAttachments(asked.messages)[n] = StripOne(asked.messages[n])
<1> DEFINE old == asked.messages
<1>1. old \in Seq(Turns)
  BY DEF DeepSeekInv
<1>2. \A n \in DOMAIN old : old[n] \in Turns
  BY <1>1
<1>3. \A n \in DOMAIN old : old[n] \in TurnMessages /\ Sent(old[n])
  BY <1>2, TurnsAssumption DEF Sent
<1>4. StripAttachments(old) = [n \in DOMAIN old |-> StripOne(old[n])]
  BY DEF StripAttachments, EachList, StripOne
<1> QED
  BY <1>3, <1>4

(* The body, and each of its messages.                                       *)
LEMMA BodyIs ==
  ASSUME NEW s
  PROVE  LET unsafe == HasToolHistory(s) /\ \A n \in DOMAIN s : ~Replayable(s[n])
             effective == asked.enabled /\ ~unsafe
         IN  /\ Body(s).outcome = "built" /\ Body(s).thinking = (effective /\ asked.thinking)
             /\ Body(s).hints = IF asked.enabled /\ unsafe THEN asked.hints \ ThinkingHints ELSE asked.hints
             /\ DOMAIN Body(s).messages = DOMAIN s
             /\ \A n \in DOMAIN s : Body(s).messages[n] = FinalOne(s[n], effective)
<1> DEFINE unsafe == HasToolHistory(s) /\ \A n \in DOMAIN s : ~Replayable(s[n])
           effective == asked.enabled /\ ~unsafe
           hints == IF asked.enabled /\ unsafe THEN asked.hints \ ThinkingHints ELSE asked.hints
           thinking == effective /\ asked.thinking
           Sanitize(m) == SanitizeMessage(m, effective)
           sanitized == EachList(s, Sanitize)
           messages == WithoutReasoningContent(EachList(sanitized, NormalizeMessage))
<1>1. Body(s) = [outcome |-> "built", thinking |-> thinking, hints |-> hints, messages |-> messages]
  BY DEF Body
<1>2. sanitized = [n \in DOMAIN s |-> SanitizeOne(s[n], effective)]
  BY DEF EachList, SanitizeOne
<1> HIDE DEF sanitized, effective, hints, thinking
<1>3. EachList(sanitized, NormalizeMessage) = [n \in DOMAIN s |-> NormalOne(SanitizeOne(s[n], effective))]
  BY <1>2 DEF EachList, NormalOne
<1>4. messages = [n \in DOMAIN s |-> FinalOne(s[n], effective)]
  BY <1>3 DEF WithoutReasoningContent, FinalOne
<1> HIDE DEF messages
<1>5. Body(s).outcome = "built" /\ Body(s).hints = hints /\ Body(s).messages = messages
  BY <1>1
<1>6. Body(s).thinking = thinking
  BY <1>1
<1> QED
  BY <1>4, <1>5, <1>6 DEF effective, hints, thinking

(* What the interface promises of the blocks of a message.                   *)
LEMMA PromisedFacts ==
  ASSUME NEW m, Sent(m), NEW i \in DOMAIN m.blocks
  PROVE  LET b == m.blocks[i]
         IN  /\ b \in TurnBlocks
             /\ m.form = "string" => b.kind = "text"
             /\ b.kind \in {"thinking", "redacted_thinking"} => m.role = "assistant"
             /\ b.kind \in Attachments => m.role = "user"
             /\ ~(b.kind = "tool_result" /\ b.form = "list") => ToSet(b.contents) \cap (Unsupported \cup {"redacted_thinking"}) = {}
<1> DEFINE b == m.blocks[i]
<1>1. Promised(m, b) /\ b \in TurnBlocks
  BY MessageFields DEF Sent
<1>2. ASSUME ~(b.kind = "tool_result" /\ b.form = "list")
      PROVE  ToSet(b.contents) \cap (Unsupported \cup {"redacted_thinking"}) = {}
  <2>1. CASE b.kind = "thinking"
    <3>1. ToSet(b.contents) \subseteq {"text"}
      BY <1>1, <2>1 DEF Promised
    <3> QED
      BY <3>1 DEF Unsupported, Attachments
  <2>2. CASE b.kind # "thinking"
    <3>1. b.contents = <<>>
      BY <1>1, <1>2, <2>2 DEF Promised
    <3>2. ToSet(b.contents) = {}
      BY <3>1, EmptySeq DEF ToSet
    <3> QED
      BY <3>2
  <2> QED
    BY <2>1, <2>2
<1> HIDE DEF b
<1>3. /\ m.form = "string" => b.kind = "text"
      /\ b.kind \in {"thinking", "redacted_thinking"} => m.role = "assistant"
      /\ b.kind \in Attachments => m.role = "user"
  BY <1>1 DEF Promised
<1> QED
  BY <1>1, <1>2, <1>3 DEF b

(* A kind that is found in a message at any depth.                           *)
KindsIn(m) == ToSet([i \in DOMAIN m.blocks |-> m.blocks[i].kind])
                \cup UNION {ToSet(m.blocks[i].contents) : i \in DOMAIN m.blocks}

(* A kind is somewhere in a conversation if a block of it has or holds it.   *)
LEMMA EverywhereIs ==
  ASSUME NEW messages, NEW kind
  PROVE  kind \in Everywhere(messages) <=>
           \E n \in DOMAIN messages : \E i \in DOMAIN messages[n].blocks :
              kind = messages[n].blocks[i].kind \/ kind \in ToSet(messages[n].blocks[i].contents)
<1>1. Everywhere(messages) = UNION {KindsIn(messages[n]) : n \in DOMAIN messages}
  BY DEF Everywhere, KindsIn
<1>2. \A n \in DOMAIN messages : kind \in KindsIn(messages[n]) <=>
        \E i \in DOMAIN messages[n].blocks :
           kind = messages[n].blocks[i].kind \/ kind \in ToSet(messages[n].blocks[i].contents)
  <2>1. TAKE n \in DOMAIN messages
  <2>2. kind \in ToSet([i \in DOMAIN messages[n].blocks |-> messages[n].blocks[i].kind]) <=>
          \E i \in DOMAIN messages[n].blocks : kind = messages[n].blocks[i].kind
    BY DEF ToSet
  <2> QED
    BY <2>2 DEF KindsIn
<1> QED
  BY <1>1, <1>2

(* A request is refused only for what the client itself sent.                *)
LEMMA RefusedRightly ==
  ASSUME DeepSeekInv, Rejected(StripAttachments(asked.messages))
  PROVE  asked.foreign \/ Everywhere(asked.messages) \cap ServerKinds # {}
<1> DEFINE old == asked.messages
           s == StripAttachments(old)
<1>1. SUFFICES ASSUME ~asked.foreign
               PROVE  \E kind \in ServerKinds : kind \in Everywhere(old)
  OBVIOUS
<1>2. PICK n \in DOMAIN s : s[n].form = "list" /\ \E i \in DOMAIN s[n].blocks :
        \/ s[n].blocks[i].kind \in Unsupported
        \/ /\ s[n].blocks[i].kind = "tool_result" /\ s[n].blocks[i].form = "list"
           /\ ToSet(s[n].blocks[i].contents) \cap Unsupported # {}
  BY <1>1 DEF Rejected
<1>3. PICK i \in DOMAIN s[n].blocks :
        \/ s[n].blocks[i].kind \in Unsupported
        \/ /\ s[n].blocks[i].kind = "tool_result" /\ s[n].blocks[i].form = "list"
           /\ ToSet(s[n].blocks[i].contents) \cap Unsupported # {}
  BY <1>2
<1>4. n \in DOMAIN old /\ old[n] \in TurnMessages /\ s[n] = StripOne(old[n])
  BY Conversation
<1> HIDE DEF s, old
<1>5. PICK m \in TurnMessages : m = old[n]
  BY <1>4
<1>6. PICK t : t = StripOne(m)
  OBVIOUS
<1>7. t.form = m.form /\ (m.form = "list" => \A k \in DOMAIN t.blocks :
        t.blocks[k] = OmittedBlock \/ \E j \in DOMAIN m.blocks :
           t.blocks[k] = StripResult(m.blocks[j]) /\ m.blocks[j].kind \notin Attachments)
  BY <1>6, StrippedFacts
<1>8. t = s[n] /\ m.form = "list" /\ i \in DOMAIN t.blocks
  BY <1>2, <1>3, <1>4, <1>5, <1>6, <1>7
<1>9. OmittedBlock.kind \notin Unsupported /\ OmittedBlock.kind # "tool_result"
  BY OmittedFields DEF Unsupported, Attachments
<1>10. PICK j \in DOMAIN m.blocks : t.blocks[i] = StripResult(m.blocks[j]) /\ m.blocks[j].kind \notin Attachments
  BY <1>3, <1>7, <1>8, <1>9
<1>11. PICK b \in TurnBlocks : b = m.blocks[j]
  BY MessageFields
<1>12. t.blocks[i].kind = b.kind /\ t.blocks[i].form = b.form
  BY <1>10, <1>11, StripFacts
<1>13. CASE b.kind \in Unsupported
  <2>1. b.kind \in ServerKinds
    BY <1>10, <1>11, <1>13 DEF ServerKinds
  <2>2. b.kind \in Everywhere(old)
    BY <1>4, <1>5, <1>11, EverywhereIs
  <2> QED
    BY <2>1, <2>2 DEF old
<1>14. CASE b.kind \notin Unsupported
  <2>1. b.kind = "tool_result" /\ b.form = "list" /\ ToSet(t.blocks[i].contents) \cap Unsupported # {}
    BY <1>3, <1>8, <1>12, <1>14
  <2>2. PICK kind \in ToSet(t.blocks[i].contents) : kind \in Unsupported
    BY <2>1
  <2>3. \A k \in ToSet(StripResult(b).contents) : k = Omitted \/ k \in ToSet(b.contents) \ Attachments
    BY <2>1, StripFacts
  <2>4. kind = Omitted \/ kind \in ToSet(b.contents) \ Attachments
    BY <1>10, <1>11, <2>2, <2>3
  <2>5. Omitted \notin Unsupported
    BY DEF Omitted, Unsupported, Attachments
  <2>6. kind \in ServerKinds /\ kind \in ToSet(b.contents)
    BY <2>2, <2>4, <2>5 DEF ServerKinds
  <2>7. kind \in Everywhere(old)
    BY <1>4, <1>5, <1>11, <2>6, EverywhereIs
  <2> QED
    BY <2>6, <2>7 DEF old
<1> QED
  BY <1>13, <1>14

(* Nothing in a message that a rejection looks for.                          *)
Acceptable(m) ==
  m.form = "list" => \A i \in DOMAIN m.blocks :
     /\ m.blocks[i].kind \notin Unsupported
     /\ m.blocks[i].kind = "tool_result" /\ m.blocks[i].form = "list" => ToSet(m.blocks[i].contents) \cap Unsupported = {}

(* Results do not hold redacted thinking.                                    *)
LEMMA PartsOf ==
  ASSUME NEW b \in TurnBlocks
  PROVE  "redacted_thinking" \notin ToSet(b.contents)
<1>1. b.contents \in Seq(PartKinds)
  BY BlockFields
<1>2. \A i \in DOMAIN b.contents : b.contents[i] \in PartKinds
  BY <1>1
<1>3. "redacted_thinking" \notin PartKinds
  BY DEF PartKinds, Unsupported, Attachments, Omitted
<1> QED
  BY <1>2, <1>3 DEF ToSet

(* Where a block of the body comes from.                                     *)
LEMMA Origin ==
  ASSUME NEW m, Sent(m), m.form = "list", NEW thinking \in BOOLEAN,
         NEW i \in DOMAIN FinalOne(StripOne(m), thinking).blocks
  PROVE  \E k \in DOMAIN StripOne(m).blocks :
            /\ FinalOne(StripOne(m), thinking).blocks[i] = NormalOf[StripOne(m).blocks[k]]
            /\ StripOne(m).blocks[k] \in TurnBlocks /\ StripOne(m).blocks[k].kind \notin DroppedKinds(m, thinking)
            /\ \/ StripOne(m).blocks[k] = OmittedBlock
               \/ \E j \in DOMAIN m.blocks : StripOne(m).blocks[k] = StripResult(m.blocks[j])
<1>1. m \in TurnMessages
  BY DEF Sent
<1>2. PICK s \in TurnMessages : s = StripOne(m)
  BY <1>1, StrippedFacts
<1>3. s.form = "list" /\ s.role = m.role
  BY <1>1, <1>2, StrippedFacts
<1>4. \E k \in DOMAIN s.blocks :
        FinalOne(s, thinking).blocks[i] = NormalOf[s.blocks[k]] /\ s.blocks[k].kind \notin DroppedKinds(s, thinking)
  BY <1>2, <1>3, FinalFacts
<1>5. PICK k \in DOMAIN s.blocks :
        FinalOne(s, thinking).blocks[i] = NormalOf[s.blocks[k]] /\ s.blocks[k].kind \notin DroppedKinds(s, thinking)
  BY <1>4
<1>6. DroppedKinds(s, thinking) = DroppedKinds(m, thinking)
  BY <1>3 DEF DroppedKinds
<1>7. s.blocks[k] = OmittedBlock \/ \E j \in DOMAIN m.blocks : s.blocks[k] = StripResult(m.blocks[j])
  BY <1>1, <1>2, StrippedFacts
<1>8. s.blocks[k] \in TurnBlocks
  BY MessageFields
<1> QED
  BY <1>2, <1>5, <1>6, <1>7, <1>8

(* No kind that DeepSeek does not know is left in a message.                 *)
LEMMA OnlyKnownKinds ==
  ASSUME NEW m, Sent(m), NEW thinking \in BOOLEAN, Acceptable(StripOne(m)),
         NEW i \in DOMAIN FinalOne(StripOne(m), thinking).blocks
  PROVE  LET b == FinalOne(StripOne(m), thinking).blocks[i]
         IN  /\ b.kind \notin Unsupported \cup {"redacted_thinking"}
             /\ ToSet(b.contents) \cap (Unsupported \cup {"redacted_thinking"}) = {}
<1>1. m \in TurnMessages /\ m.form \in {"string", "list"}
  BY MessageFields DEF Sent
<1>2. CASE m.form = "string"
  <2>1. StripOne(m) = m
    BY <1>2 DEF StripOne
  <2>2. FinalOne(m, thinking).blocks = m.blocks
    <3>1. FinalOne(m, thinking) = [role |-> m.role, reasoning |-> FALSE, blocks |-> m.blocks, form |-> "string"]
      BY <1>1, <1>2, FinalIs
    <3> QED
      BY <3>1
  <2>3. PICK b \in TurnBlocks : b = m.blocks[i] /\ i \in DOMAIN m.blocks
    BY <2>1, <2>2, PromisedFacts
  <2>4. b.kind = "text"
    BY <1>2, <2>3, PromisedFacts
  <2>5. ToSet(b.contents) \cap (Unsupported \cup {"redacted_thinking"}) = {}
    BY <2>3, <2>4, PromisedFacts
  <2>6. b.kind \notin Unsupported \cup {"redacted_thinking"}
    BY <2>4 DEF Unsupported, Attachments
  <2> QED
    BY <2>1, <2>2, <2>3, <2>5, <2>6
<1>3. CASE m.form = "list"
  <2>1. PICK k \in DOMAIN StripOne(m).blocks :
            /\ FinalOne(StripOne(m), thinking).blocks[i] = NormalOf[StripOne(m).blocks[k]]
            /\ StripOne(m).blocks[k] \in TurnBlocks /\ StripOne(m).blocks[k].kind \notin DroppedKinds(m, thinking)
            /\ \/ StripOne(m).blocks[k] = OmittedBlock
               \/ \E j \in DOMAIN m.blocks : StripOne(m).blocks[k] = StripResult(m.blocks[j])
    BY <1>3, Origin
  <2>2. PICK x \in TurnBlocks : x = StripOne(m).blocks[k]
    BY <2>1
  <2>3. PICK y \in TurnBlocks : y = NormalOf[x]
    BY NormalFacts
  <2>4. y.kind = x.kind /\ y.contents = x.contents
    BY <2>3, NormalFacts
  <2>5. StripOne(m).form = "list"
    BY <1>1, <1>3, StrippedFacts
  <2>6. x.kind \notin Unsupported /\ (x.kind = "tool_result" /\ x.form = "list" => ToSet(x.contents) \cap Unsupported = {})
    BY <2>1, <2>2, <2>5 DEF Acceptable
  <2>7. "redacted_thinking" \notin ToSet(x.contents)
    BY PartsOf
  <2>8. CASE x = OmittedBlock
    <3>1. ToSet(x.contents) = {}
      BY <2>8, OmittedFields, EmptySeq DEF ToSet
    <3>2. x.kind \notin Unsupported \cup {"redacted_thinking"}
      BY <2>8, OmittedFields DEF Unsupported, Attachments
    <3> QED
      BY <2>1, <2>2, <2>3, <2>4, <3>1, <3>2
  <2>9. ASSUME NEW j \in DOMAIN m.blocks, x = StripResult(m.blocks[j])
        PROVE  /\ x.kind # "redacted_thinking"
               /\ ToSet(x.contents) \cap Unsupported = {}
    <3>1. PICK b \in TurnBlocks : b = m.blocks[j]
      BY PromisedFacts
    <3>2. x.kind = b.kind /\ x.form = b.form
      BY <2>9, <3>1, StripFacts
    <3>3. b.kind \in {"thinking", "redacted_thinking"} => m.role = "assistant"
      BY <3>1, PromisedFacts
    <3>4. x.kind # "redacted_thinking"
      BY <2>1, <2>2, <3>2, <3>3 DEF DroppedKinds
    <3>5. CASE b.kind = "tool_result" /\ b.form = "list"
      BY <2>6, <3>2, <3>4, <3>5
    <3>6. CASE ~(b.kind = "tool_result" /\ b.form = "list")
      <4>1. x = b
        BY <2>9, <3>1, <3>6, StripFacts
      <4>2. ToSet(b.contents) \cap (Unsupported \cup {"redacted_thinking"}) = {}
        BY <3>1, <3>6, PromisedFacts
      <4> QED
        BY <3>4, <4>1, <4>2
    <3> QED
      BY <3>5, <3>6
  <2>10. CASE x # OmittedBlock
    <3>1. PICK j \in DOMAIN m.blocks : x = StripResult(m.blocks[j])
      BY <2>1, <2>2, <2>10
    <3>2. x.kind # "redacted_thinking" /\ ToSet(x.contents) \cap Unsupported = {}
      BY <2>9, <3>1
    <3>3. y.kind \notin Unsupported \cup {"redacted_thinking"}
      BY <2>4, <2>6, <3>2
    <3>4. ToSet(y.contents) \cap (Unsupported \cup {"redacted_thinking"}) = {}
      BY <2>4, <2>7, <3>2
    <3> QED
      BY <2>1, <2>2, <2>3, <3>3, <3>4
  <2> QED
    BY <2>8, <2>10
<1> QED
  BY <1>1, <1>2, <1>3

(* A message of the body is the client's message.                            *)
LEMMA MessageKept ==
  ASSUME NEW m, Sent(m), NEW thinking \in BOOLEAN
  PROVE  LET f == FinalOne(StripOne(m), thinking)
         IN  /\ f.role = m.role /\ Core(f) = Core(m) /\ f.reasoning = FALSE
             /\ f.blocks = <<>> => \A i \in DOMAIN m.blocks : m.blocks[i].kind \in {"thinking", "redacted_thinking"}
             /\ \A i \in DOMAIN f.blocks : f.blocks[i].kind = "tool_result" =>
                   /\ f.blocks[i].form = "string"
                   /\ f.blocks[i].contents = <<>> => f.blocks[i] \in ToSet(m.blocks)
<1> DEFINE f == FinalOne(StripOne(m), thinking)
<1>1. m \in TurnMessages /\ m.form \in {"string", "list"} /\ m.blocks \in Seq(TurnBlocks)
  BY MessageFields DEF Sent
<1>2. PICK s \in TurnMessages : s = StripOne(m)
  BY <1>1, StrippedFacts
<1>3. s.role = m.role /\ s.form = m.form /\ CoreIn(s.blocks) = CoreIn(m.blocks) /\ (s.blocks = <<>> => m.blocks = <<>>)
      /\ \A j \in DOMAIN m.blocks : m.blocks[j].kind \notin Attachments =>
              \E i \in DOMAIN s.blocks : s.blocks[i].kind = m.blocks[j].kind
  BY <1>1, <1>2, StrippedFacts
<1>4. /\ f.role = s.role /\ f.reasoning = FALSE /\ f.blocks \in Seq(TurnBlocks) /\ CoreIn(f.blocks) = CoreIn(s.blocks)
      /\ s.form = "string" => f.blocks = s.blocks
      /\ s.form = "list" /\ f.blocks = <<>> => \A j \in DOMAIN s.blocks : s.blocks[j].kind \in DroppedKinds(s, thinking)
  BY <1>2, FinalFacts
<1>5. Core(f) = Core(m)
  <2>1. Core(m) = CoreIn(m.blocks)
    BY <1>1, CoreIs
  <2>2. PICK g : g = f
    OBVIOUS
  <2>3. Core(g) = CoreIn(g.blocks)
    <3> HIDE DEF f
    <3> QED
      BY <1>4, <2>2, CoreIs
  <2> HIDE DEF f
  <2> QED
    BY <1>3, <1>4, <2>1, <2>2, <2>3
<1>6. ASSUME f.blocks = <<>>, NEW i \in DOMAIN m.blocks
      PROVE  m.blocks[i].kind \in {"thinking", "redacted_thinking"}
  <2> HIDE DEF f
  <2>1. DOMAIN <<>> = {}
    BY EmptySeq
  <2>2. m.blocks # <<>>
    BY <1>6, <2>1
  <2>3. m.form = "list"
    <3>1. CASE m.form = "string"
      BY <1>2, <1>3, <1>4, <1>6, <2>2, <3>1
    <3> QED
      BY <1>1, <3>1
  <2>4. s.blocks # <<>> /\ s.blocks \in Seq(TurnBlocks)
    BY <1>3, <2>2, MessageFields
  <2>5. \E j \in DOMAIN s.blocks : TRUE
    <3>1. s.blocks = <<>> \/ 1 \in DOMAIN s.blocks
      <4>1. PICK q \in Seq(TurnBlocks) : q = s.blocks
        BY <2>4
      <4>2. Len(q) \in Nat /\ DOMAIN q = 1 .. Len(q) /\ (Len(q) = 0 => q = <<>>)
        BY EmptySeq
      <4> QED
        BY <4>1, <4>2
    <3> QED
      BY <2>4, <3>1
  <2>6. \A j \in DOMAIN s.blocks : s.blocks[j].kind \in DroppedKinds(s, thinking)
    BY <1>3, <1>4, <1>6, <2>3
  <2>7. s.role = "assistant" /\ DroppedKinds(s, thinking) \subseteq {"thinking", "redacted_thinking"}
    BY <2>5, <2>6 DEF DroppedKinds
  <2>8. m.blocks[i].kind \notin Attachments
    <3>1. m.role = "assistant"
      BY <1>3, <2>7
    <3>2. m.blocks[i].kind \in Attachments => m.role = "user"
      BY PromisedFacts
    <3> QED
      BY <3>1, <3>2
  <2>9. PICK j \in DOMAIN s.blocks : s.blocks[j].kind = m.blocks[i].kind
    BY <1>3, <2>8
  <2> QED
    BY <2>6, <2>7, <2>9
<1>7. ASSUME NEW i \in DOMAIN f.blocks, f.blocks[i].kind = "tool_result"
      PROVE  /\ f.blocks[i].form = "string"
             /\ f.blocks[i].contents = <<>> => f.blocks[i] \in ToSet(m.blocks)
  <2>1. CASE m.form = "string"
    <3>1. f.blocks = m.blocks
      BY <1>2, <1>3, <1>4, <2>1 DEF StripOne
    <3> HIDE DEF f
    <3>2. m.blocks[i].kind = "text"
      BY <2>1, <3>1, <1>7, PromisedFacts
    <3> QED
      BY <1>7, <3>1, <3>2
  <2>2. CASE m.form = "list"
    <3>1. PICK k \in DOMAIN StripOne(m).blocks :
            /\ f.blocks[i] = NormalOf[StripOne(m).blocks[k]]
            /\ StripOne(m).blocks[k] \in TurnBlocks
            /\ \/ StripOne(m).blocks[k] = OmittedBlock
               \/ \E j \in DOMAIN m.blocks : StripOne(m).blocks[k] = StripResult(m.blocks[j])
      BY <1>7, <2>2, Origin
    <3>2. PICK x \in TurnBlocks : x = StripOne(m).blocks[k]
      BY <3>1
    <3> HIDE DEF f
    <3>3. PICK y \in TurnBlocks : y = NormalOf[x]
      BY NormalFacts
    <3>4. y = f.blocks[i] /\ y.kind = x.kind /\ y.contents = x.contents
          /\ (x.form = "string" => y = x) /\ (x.kind = "tool_result" => y.form = "string")
      BY <3>1, <3>2, <3>3, NormalFacts
    <3>5. x.kind = "tool_result" /\ y.form = "string"
      BY <1>7, <3>4
    <3>6. x # OmittedBlock
      BY <3>5, OmittedFields
    <3>7. PICK j \in DOMAIN m.blocks : x = StripResult(m.blocks[j])
      BY <3>1, <3>2, <3>6
    <3>8. PICK b \in TurnBlocks : b = m.blocks[j]
      BY PromisedFacts
    <3>9. x.kind = b.kind /\ x.form = b.form /\ (b.kind = "tool_result" /\ b.form = "list" => x.contents # <<>>)
          /\ (b.form # "list" => x = b)
      BY <3>7, <3>8, StripFacts
    <3>10. b.form \in {"string", "list"} /\ b \in ToSet(m.blocks)
      BY <3>8, BlockFields DEF ToSet
    <3>11. y.contents = <<>> => y \in ToSet(m.blocks)
      BY <3>4, <3>5, <3>9, <3>10
    <3> QED
      BY <3>4, <3>5, <3>11
  <2> QED
    BY <1>1, <2>1, <2>2
<1> HIDE DEF f
<1> QED
  BY <1>3, <1>4, <1>5, <1>6, <1>7 DEF f

(* What came of a conversation, message by message.                          *)
LEMMA BuiltIs ==
  ASSUME DeepSeekInv, built.outcome = "built"
  PROVE  LET s == StripAttachments(asked.messages)
             unsafe == HasToolHistory(s) /\ \A n \in DOMAIN s : ~Replayable(s[n])
             effective == asked.enabled /\ ~unsafe
         IN  /\ ~Rejected(s) /\ asked.messages \in Seq(Turns)
             /\ built.thinking = (effective /\ asked.thinking)
             /\ built.hints = IF asked.enabled /\ unsafe THEN asked.hints \ ThinkingHints ELSE asked.hints
             /\ DOMAIN built.messages = DOMAIN asked.messages
             /\ \A n \in DOMAIN asked.messages :
                   /\ asked.messages[n] \in TurnMessages /\ Sent(asked.messages[n])
                   /\ s[n] = StripOne(asked.messages[n]) /\ s[n] \in TurnMessages
                   /\ built.messages[n] = FinalOne(s[n], effective)
                   /\ Acceptable(s[n])
<1> DEFINE s == StripAttachments(asked.messages)
           unsafe == HasToolHistory(s) /\ \A n \in DOMAIN s : ~Replayable(s[n])
           effective == asked.enabled /\ ~unsafe
<1>1. built # NotBuilt
  BY DEF NotBuilt
<1>2. built = Outcome(asked.messages)
  BY <1>1 DEF DeepSeekInv
<1>3. ~Rejected(s) /\ built = Body(s)
  <2>1. Refusal.outcome # "built"
    BY DEF Refusal
  <2> QED
    BY <1>2, <2>1 DEF Outcome
<1>4. /\ built.thinking = (effective /\ asked.thinking)
      /\ built.hints = IF asked.enabled /\ unsafe THEN asked.hints \ ThinkingHints ELSE asked.hints
      /\ DOMAIN built.messages = DOMAIN s
      /\ \A n \in DOMAIN s : built.messages[n] = FinalOne(s[n], effective)
  BY <1>3, BodyIs
<1> HIDE DEF s, effective
<1>5. /\ DOMAIN s = DOMAIN asked.messages
      /\ \A n \in DOMAIN asked.messages : /\ asked.messages[n] \in TurnMessages /\ Sent(asked.messages[n])
                                          /\ s[n] = StripOne(asked.messages[n])
  BY Conversation DEF s
<1>6. \A n \in DOMAIN asked.messages : s[n] \in TurnMessages
  BY <1>5, StrippedFacts
<1>7. \A n \in DOMAIN s : Acceptable(s[n])
  BY <1>3 DEF Rejected, Acceptable
<1>8. asked.messages \in Seq(Turns)
  BY DEF DeepSeekInv
<1> QED
  BY <1>3, <1>4, <1>5, <1>6, <1>7, <1>8 DEF s, effective

(* The invariant implies that the conversation is kept.                      *)
LEMMA KeptInv == DeepSeekInv => ConversationKept
<1>1. SUFFICES ASSUME DeepSeekInv PROVE ConversationKept
  OBVIOUS
<1>2. ASSUME built = Refusal
      PROVE  asked.foreign \/ Everywhere(asked.messages) \cap ServerKinds # {}
  <2>1. built # NotBuilt /\ \A messages : Body(messages) # built
    <3>1. \A messages : Body(messages).outcome = "built"
      BY BodyIs
    <3>2. NotBuilt.outcome = "none" /\ Refusal.outcome = "refused"
      BY DEF NotBuilt, Refusal
    <3> QED
      BY <1>2, <3>1, <3>2
  <2>2. Rejected(StripAttachments(asked.messages))
    BY <1>1, <2>1 DEF DeepSeekInv, Outcome
  <2> QED
    BY <1>1, <2>2, RefusedRightly
<1>3. ASSUME built.outcome = "built"
      PROVE  /\ Everywhere(built.messages) \cap (Unsupported \cup {"redacted_thinking"}) = {}
             /\ Len(built.messages) = Len(asked.messages)
             /\ \A n \in DOMAIN built.messages :
                   LET old == asked.messages[n]  new == built.messages[n]
                   IN  /\ new.role = old.role /\ Core(new) = Core(old) /\ ~new.reasoning
                       /\ new.blocks = <<>> => \A i \in DOMAIN old.blocks :
                                              old.blocks[i].kind \in {"thinking", "redacted_thinking"}
                       /\ \A i \in DOMAIN new.blocks : new.blocks[i].kind = "tool_result" =>
                             /\ new.blocks[i].form = "string"
                             /\ new.blocks[i].contents = <<>> => new.blocks[i] \in ToSet(old.blocks)
  <2> DEFINE s == StripAttachments(asked.messages)
             unsafe == HasToolHistory(s) /\ \A n \in DOMAIN s : ~Replayable(s[n])
             effective == asked.enabled /\ ~unsafe
  <2>1. /\ asked.messages \in Seq(Turns) /\ DOMAIN built.messages = DOMAIN asked.messages
        /\ \A n \in DOMAIN asked.messages :
              /\ Sent(asked.messages[n]) /\ s[n] = StripOne(asked.messages[n])
              /\ built.messages[n] = FinalOne(s[n], effective) /\ Acceptable(s[n])
    BY <1>1, <1>3, BuiltIs
  <2>2. effective \in BOOLEAN
    BY <1>1 DEF DeepSeekInv
  <2> HIDE DEF s, effective
  <2>3. \A n \in DOMAIN asked.messages : built.messages[n] = FinalOne(StripOne(asked.messages[n]), effective)
    BY <2>1
  <2>4. ASSUME NEW n \in DOMAIN built.messages, NEW i \in DOMAIN built.messages[n].blocks
        PROVE  /\ built.messages[n].blocks[i].kind \notin Unsupported \cup {"redacted_thinking"}
               /\ ToSet(built.messages[n].blocks[i].contents) \cap (Unsupported \cup {"redacted_thinking"}) = {}
    <3>1. PICK m : m = asked.messages[n]
      OBVIOUS
    <3>2. Sent(m) /\ Acceptable(StripOne(m)) /\ built.messages[n] = FinalOne(StripOne(m), effective)
      BY <2>1, <2>3, <3>1
    <3>3. i \in DOMAIN FinalOne(StripOne(m), effective).blocks
      BY <3>2
    <3> QED
      BY <2>2, <3>2, <3>3, OnlyKnownKinds
  <2>5. Everywhere(built.messages) \cap (Unsupported \cup {"redacted_thinking"}) = {}
    <3>1. SUFFICES ASSUME NEW kind \in Unsupported \cup {"redacted_thinking"}, kind \in Everywhere(built.messages)
                   PROVE  FALSE
      OBVIOUS
    <3>2. PICK n \in DOMAIN built.messages : \E i \in DOMAIN built.messages[n].blocks :
            kind = built.messages[n].blocks[i].kind \/ kind \in ToSet(built.messages[n].blocks[i].contents)
      BY <3>1, EverywhereIs
    <3>3. PICK i \in DOMAIN built.messages[n].blocks :
            kind = built.messages[n].blocks[i].kind \/ kind \in ToSet(built.messages[n].blocks[i].contents)
      BY <3>2
    <3> QED
      BY <2>4, <3>1, <3>3
  <2>6. Len(built.messages) = Len(asked.messages)
    <3>1. Len(asked.messages) \in Nat /\ DOMAIN built.messages = 1 .. Len(asked.messages)
      BY <2>1
    <3> QED
      BY <3>1
  <2>7. ASSUME NEW n \in DOMAIN built.messages
        PROVE  LET old == asked.messages[n]  new == built.messages[n]
                   IN  /\ new.role = old.role /\ Core(new) = Core(old) /\ ~new.reasoning
                       /\ new.blocks = <<>> => \A i \in DOMAIN old.blocks :
                                              old.blocks[i].kind \in {"thinking", "redacted_thinking"}
                       /\ \A i \in DOMAIN new.blocks : new.blocks[i].kind = "tool_result" =>
                             /\ new.blocks[i].form = "string"
                             /\ new.blocks[i].contents = <<>> => new.blocks[i] \in ToSet(old.blocks)
    <3>1. PICK m : m = asked.messages[n]
      OBVIOUS
    <3>2. Sent(m) /\ built.messages[n] = FinalOne(StripOne(m), effective)
      BY <2>1, <2>3, <3>1
    <3>3. PICK new : new = built.messages[n]
      OBVIOUS
    <3>4. /\ new.role = m.role /\ Core(new) = Core(m) /\ new.reasoning = FALSE
          /\ new.blocks = <<>> => \A i \in DOMAIN m.blocks : m.blocks[i].kind \in {"thinking", "redacted_thinking"}
          /\ \A i \in DOMAIN new.blocks : new.blocks[i].kind = "tool_result" =>
                   /\ new.blocks[i].form = "string"
                   /\ new.blocks[i].contents = <<>> => new.blocks[i] \in ToSet(m.blocks)
      <4>1. PICK t \in BOOLEAN : t = effective
        BY <2>2
      <4>2. new = FinalOne(StripOne(m), t)
        BY <3>2, <3>3, <4>1
      <4>3. LET f == FinalOne(StripOne(m), t)
            IN  /\ f.role = m.role /\ Core(f) = Core(m) /\ f.reasoning = FALSE
                /\ f.blocks = <<>> => \A i \in DOMAIN m.blocks : m.blocks[i].kind \in {"thinking", "redacted_thinking"}
                /\ \A i \in DOMAIN f.blocks : f.blocks[i].kind = "tool_result" =>
                      /\ f.blocks[i].form = "string"
                      /\ f.blocks[i].contents = <<>> => f.blocks[i] \in ToSet(m.blocks)
        BY <3>2, MessageKept
      <4> QED
        BY <4>2, <4>3
    <3>5. ~new.reasoning
      BY <3>4
    <3>6. new.role = m.role /\ Core(new) = Core(m)
      BY <3>4
    <3> QED
      BY <3>1, <3>3, <3>4, <3>5, <3>6
  <2> QED
    BY <2>5, <2>6, <2>7
<1> QED
  BY <1>2, <1>3 DEF ConversationKept

(* A message of the body is of whoever it was.                               *)
LEMMA FinalRole ==
  ASSUME NEW m \in TurnMessages, NEW thinking \in BOOLEAN
  PROVE  FinalOne(m, thinking).role = m.role
<1>1. CASE m.form = "string"
  <2>1. FinalOne(m, thinking) = [role |-> m.role, reasoning |-> FALSE, blocks |-> m.blocks, form |-> "string"]
    BY <1>1, FinalIs
  <2> QED
    BY <2>1
<1>2. CASE m.form = "list"
  BY <1>2, FinalBlocks
<1> QED
  BY <1>1, <1>2, MessageFields

(* A list of blocks of the body has the kinds of the list it is made of.     *)
LEMMA KindFrom ==
  ASSUME NEW m \in TurnMessages, NEW thinking \in BOOLEAN, FinalOne(m, thinking).form = "list",
         NEW kind, HasKind(FinalOne(m, thinking), kind)
  PROVE  m.form = "list" /\ HasKind(m, kind) /\ kind \notin DroppedKinds(m, thinking)
<1>1. PICK i \in DOMAIN FinalOne(m, thinking).blocks : FinalOne(m, thinking).blocks[i].kind = kind
  BY DEF HasKind
<1>2. m.form = "list"
  BY FinalFacts
<1>3. \E j \in DOMAIN m.blocks :
        FinalOne(m, thinking).blocks[i] = NormalOf[m.blocks[j]] /\ m.blocks[j].kind \notin DroppedKinds(m, thinking)
  BY <1>2, FinalFacts
<1>4. PICK j \in DOMAIN m.blocks :
        FinalOne(m, thinking).blocks[i] = NormalOf[m.blocks[j]] /\ m.blocks[j].kind \notin DroppedKinds(m, thinking)
  BY <1>3
<1>5. m.blocks[j] \in TurnBlocks
  BY MessageFields
<1>6. NormalOf[m.blocks[j]].kind = m.blocks[j].kind
  BY <1>5, NormalFacts
<1> QED
  BY <1>1, <1>2, <1>4, <1>6 DEF HasKind

(* The invariant implies that the body agrees with itself about thinking.    *)
LEMMA ThinkingInv == DeepSeekInv => ThinkingConsistent
<1> DEFINE s == StripAttachments(asked.messages)
           unsafe == HasToolHistory(s) /\ \A n \in DOMAIN s : ~Replayable(s[n])
           effective == asked.enabled /\ ~unsafe
<1>1. SUFFICES ASSUME DeepSeekInv, built.outcome = "built", asked.enabled, HasToolHistory(built.messages)
               PROVE  \/ \E n \in DOMAIN built.messages : Replayable(built.messages[n])
                      \/ /\ ~built.thinking /\ built.hints \cap ThinkingHints = {}
                         /\ \A n \in DOMAIN built.messages :
                               built.messages[n].role = "assistant" => ~HasKind(built.messages[n], "thinking")
  BY DEF ThinkingConsistent
<1>2. /\ built.thinking = (effective /\ asked.thinking)
      /\ built.hints = IF asked.enabled /\ unsafe THEN asked.hints \ ThinkingHints ELSE asked.hints
      /\ DOMAIN built.messages = DOMAIN asked.messages
      /\ \A n \in DOMAIN asked.messages :
            /\ asked.messages[n] \in TurnMessages /\ Sent(asked.messages[n])
            /\ s[n] = StripOne(asked.messages[n]) /\ s[n] \in TurnMessages
            /\ built.messages[n] = FinalOne(s[n], effective)
  BY <1>1, BuiltIs
<1>3. DOMAIN s = DOMAIN asked.messages
  BY <1>1, Conversation
<1>4. unsafe \in BOOLEAN /\ effective = ~unsafe
  BY <1>1
<1>5. unsafe <=> HasToolHistory(s) /\ \A n \in DOMAIN s : ~Replayable(s[n])
  OBVIOUS
<1> HIDE DEF s, unsafe, effective
<1>6. HasToolHistory(s)
  <2>1. PICK n \in DOMAIN built.messages :
          /\ built.messages[n].form = "list"
          /\ HasKind(built.messages[n], IF built.messages[n].role = "assistant" THEN "tool_use" ELSE "tool_result")
    BY <1>1 DEF HasToolHistory
  <2>2. PICK m \in TurnMessages : m = s[n]
    BY <1>2
  <2>3. PICK t \in BOOLEAN : t = effective
    BY <1>4
  <2>4. built.messages[n] = FinalOne(m, t)
    BY <1>2, <2>2, <2>3
  <2>5. FinalOne(m, t).role = m.role
    BY FinalRole
  <2>6. PICK kind : kind = IF m.role = "assistant" THEN "tool_use" ELSE "tool_result"
    OBVIOUS
  <2>7. FinalOne(m, t).form = "list" /\ HasKind(FinalOne(m, t), kind)
    BY <2>1, <2>4, <2>5, <2>6
  <2>8. m.form = "list" /\ HasKind(m, kind)
    BY <2>7, KindFrom
  <2> QED
    BY <1>2, <1>3, <2>2, <2>6, <2>8 DEF HasToolHistory
<1>7. CASE unsafe
  <2>1. effective = FALSE
    BY <1>4, <1>7
  <2>2. ~built.thinking
    BY <1>2, <2>1
  <2>3. built.hints \cap ThinkingHints = {}
    <3>1. built.hints = asked.hints \ ThinkingHints
      BY <1>1, <1>2, <1>7
    <3> QED
      BY <3>1
  <2>4. ASSUME NEW n \in DOMAIN built.messages, built.messages[n].role = "assistant", HasKind(built.messages[n], "thinking")
        PROVE  FALSE
    <3>1. PICK m \in TurnMessages : m = s[n]
      BY <1>2
    <3>2. PICK t \in BOOLEAN : t = effective
      BY <2>1
    <3>3. built.messages[n] = FinalOne(m, t)
      BY <1>2, <3>1, <3>2
    <3>4. FinalOne(m, t).role = m.role
      BY FinalRole
    <3>5. m.role = "assistant"
      BY <2>4, <3>3, <3>4
    <3>6. m.form \in {"string", "list"}
      BY MessageFields
    <3>7. CASE m.form = "list"
      <4>1. PICK i \in DOMAIN FinalOne(m, t).blocks : FinalOne(m, t).blocks[i].kind = "thinking"
        BY <2>4, <3>3 DEF HasKind
      <4>2. \E j \in DOMAIN m.blocks :
              FinalOne(m, t).blocks[i] = NormalOf[m.blocks[j]] /\ m.blocks[j].kind \notin DroppedKinds(m, t)
        BY <3>7, FinalFacts
      <4>3. PICK j \in DOMAIN m.blocks :
              FinalOne(m, t).blocks[i] = NormalOf[m.blocks[j]] /\ m.blocks[j].kind \notin DroppedKinds(m, t)
        BY <4>2
      <4>4. m.blocks[j] \in TurnBlocks
        BY MessageFields
      <4>5. NormalOf[m.blocks[j]].kind = m.blocks[j].kind
        BY <4>4, NormalFacts
      <4>6. "thinking" \in DroppedKinds(m, t)
        BY <2>1, <3>2, <3>5 DEF DroppedKinds
      <4> QED
        BY <4>1, <4>3, <4>5, <4>6
    <3>8. CASE m.form = "string"
      <4>1. FinalOne(m, t) = [role |-> m.role, reasoning |-> FALSE, blocks |-> m.blocks, form |-> "string"]
        BY <3>8, FinalIs
      <4>2. FinalOne(m, t).blocks = m.blocks
        BY <4>1
      <4>3. PICK old : old = asked.messages[n]
        OBVIOUS
      <4>4. old \in TurnMessages /\ Sent(old) /\ m = StripOne(old)
        BY <1>2, <3>1, <4>3
      <4>5. old.form = "string"
        BY <3>8, <4>4, StrippedFacts
      <4>6. m = old
        BY <4>4, <4>5 DEF StripOne
      <4>7. PICK i \in DOMAIN old.blocks : old.blocks[i].kind = "thinking"
        BY <2>4, <3>3, <4>2, <4>6 DEF HasKind
      <4>8. old.blocks[i].kind = "text"
        BY <4>4, <4>5, PromisedFacts
      <4> QED
        BY <4>7, <4>8
    <3> QED
      BY <3>6, <3>7, <3>8
  <2> QED
    BY <2>2, <2>3, <2>4
<1>8. CASE ~unsafe
  <2>1. PICK n \in DOMAIN s : Replayable(s[n])
    BY <1>5, <1>6, <1>8
  <2>2. effective = TRUE
    BY <1>4, <1>8
  <2>3. PICK m \in TurnMessages : m = s[n]
    BY <1>2, <1>3
  <2>4. Replayable(FinalOne(m, TRUE))
    BY <2>1, <2>3, ReplayableStays
  <2>5. built.messages[n] = FinalOne(m, TRUE)
    BY <1>2, <1>3, <2>2, <2>3
  <2> QED
    BY <1>2, <1>3, <2>4, <2>5
<1> QED
  BY <1>4, <1>7, <1>8

(* The body is the client's conversation, in a form that DeepSeek takes, and *)
(* agrees with itself about thinking, whatever the conversation and the      *)
(* settings are.                                                             *)
THEOREM DeepSeekServedHolds == DeepSeekSpec => []DeepSeekServed
<1>1. DeepSeekInv => DeepSeekServed
  BY KeptInv, ThinkingInv DEF DeepSeekServed
<1> QED
  BY DeepSeekStarts, DeepSeekStep, <1>1, PTL DEF DeepSeekSpec

-----------------------------------------------------------------------------

(* Places of texts, and the messages of client and upstream.                 *)
Place == Nat \X Nat
ClientBlocks == [kind : Kinds, id : AnyId, at : Place]
ClientMessages == [role : {"user", "assistant"}, form : {"string", "list"}, own : Seq(Place), blocks : Seq(ClientBlocks)]
UpstreamMessages == [role : {"user", "assistant", "tool", "system"}, text : Seq(Place), calls : Seq(AnyId),
                     reasoning : Seq(Place), for : AnyId]

(* What a message gives the upstream.                                        *)
SpokenOf == [m \in UpstreamMessages |-> Spoken(m.text)]

(* Spoken drops the places of reasoning and nothing else.                  *)
LEMMA SpokenFacts ==
  ASSUME NEW t \in Seq(Place)
  PROVE  /\ Spoken(t) \in Seq(Place)
         /\ (\A i \in DOMAIN t : t[i][2] # 0) => Spoken(t) = t
         /\ \A i \in DOMAIN Spoken(t) : Spoken(t)[i][2] # 0
<1>1. Spoken(t) \in Seq(Place) /\ \A i \in DOMAIN Spoken(t) : Spoken(t)[i] \notin Nat \X {0}
  BY WithoutIsSeq DEF Spoken
<1>2. ASSUME \A i \in DOMAIN t : t[i][2] # 0
      PROVE  Spoken(t) = t
  <2>1. \A i \in DOMAIN t : t[i] \in Nat \X {0} <=> t[i] \in {}
    BY <1>2
  <2>2. Without(t, Nat \X {0}) = Without(t, {})
    BY <2>1, WithoutSame
  <2> QED
    BY <2>2, WithoutNothing DEF Spoken
<1>3. \A i \in DOMAIN Spoken(t) : Spoken(t)[i] \in Place
  BY <1>1
<1>4. \A p \in Place : p \notin Nat \X {0} => p[2] # 0
  BY DEF Place
<1> HIDE DEF Place
<1> QED
  BY <1>1, <1>2, <1>3, <1>4

(* A sequence of one.                                                        *)
LEMMA JustOne ==
  ASSUME NEW A, NEW x \in A
  PROVE  <<x>> = Append(<<>>, x) /\ <<>> \in Seq(A) /\ <<x>> \in Seq(A)
  BY EmptySeq

(* Told is a flattened image, and goes through messages one after the other. *)
LEMMA ToldIs ==
  ASSUME NEW ms \in Seq(UpstreamMessages)
  PROVE  /\ SpokenOf \in Maps(UpstreamMessages, Seq(Place))
         /\ Image(SpokenOf, ms) \in Seq(Seq(Place))
         /\ Told(ms) = FlattenSeq(Image(SpokenOf, ms)) /\ Told(ms) \in Seq(Place)
<1>1. SpokenOf \in Maps(UpstreamMessages, Seq(Place))
  <2>1. \A m \in UpstreamMessages : m.text \in Seq(Place)
    BY DEF UpstreamMessages
  <2>2. \A m \in UpstreamMessages : Spoken(m.text) \in Seq(Place)
    BY <2>1, SpokenFacts
  <2> QED
    BY <2>2 DEF SpokenOf, Maps
<1>2. Image(SpokenOf, ms) \in Seq(Seq(Place))
  BY <1>1, ImageFacts
<1>3. Image(SpokenOf, ms) = [i \in DOMAIN ms |-> Spoken(ms[i].text)]
  <2>1. \A i \in DOMAIN ms : ms[i] \in UpstreamMessages
    OBVIOUS
  <2> QED
    BY <2>1 DEF Image, SpokenOf
<1>4. PICK q \in Seq(Seq(Place)) : q = Image(SpokenOf, ms)
  BY <1>2
<1>5. FlattenSeq(q) \in Seq(Place)
  <2>1. <<>> \in Seq(Place)
    BY EmptySeq
  <2> QED
    BY <2>1, FlattenAppend
<1> QED
  BY <1>1, <1>2, <1>3, <1>4, <1>5 DEF Told

(* What is told in two lists of messages is told in the one, then in the   *)
(* other.                                                                  *)
LEMMA ToldConcat ==
  ASSUME NEW a \in Seq(UpstreamMessages), NEW b \in Seq(UpstreamMessages)
  PROVE  a \o b \in Seq(UpstreamMessages) /\ Told(a \o b) = Told(a) \o Told(b)
<1>1. a \o b \in Seq(UpstreamMessages)
  BY ConcatProperties
<1>2. /\ Told(a) = FlattenSeq(Image(SpokenOf, a)) /\ Told(b) = FlattenSeq(Image(SpokenOf, b))
      /\ Told(a \o b) = FlattenSeq(Image(SpokenOf, a \o b))
  BY <1>1, ToldIs
<1>3. Image(SpokenOf, a \o b) = Image(SpokenOf, a) \o Image(SpokenOf, b)
  BY ToldIs, ImageConcat
<1>4. PICK q, r \in Seq(Seq(Place)) : q = Image(SpokenOf, a) /\ r = Image(SpokenOf, b)
  BY ToldIs
<1>5. FlattenSeq(q \o r) = FlattenSeq(q) \o FlattenSeq(r)
  BY FlattenConcat
<1> QED
  BY <1>1, <1>2, <1>3, <1>4, <1>5

(* No message tells nothing.                                               *)
LEMMA ToldNone == Told(<<>>) = <<>> /\ <<>> \in Seq(UpstreamMessages)
<1>1. <<>> \in Seq(UpstreamMessages)
  BY EmptySeq
<1>2. Told(<<>>) = FlattenSeq(Image(SpokenOf, <<>>))
  BY <1>1, ToldIs
<1> QED
  BY <1>1, <1>2, ImageNone, FlattenNone

(* One message tells what is spoken in its text.                           *)
LEMMA ToldOne ==
  ASSUME NEW m \in UpstreamMessages
  PROVE  <<m>> \in Seq(UpstreamMessages) /\ Told(<<m>>) = Spoken(m.text) /\ Spoken(m.text) \in Seq(Place)
<1>1. <<m>> = Append(<<>>, m) /\ <<>> \in Seq(UpstreamMessages) /\ <<m>> \in Seq(UpstreamMessages)
  BY JustOne
<1>2. Told(<<m>>) = FlattenSeq(Image(SpokenOf, <<m>>)) /\ SpokenOf \in Maps(UpstreamMessages, Seq(Place))
  BY <1>1, ToldIs
<1>3. Image(SpokenOf, <<m>>) = Append(<<>>, SpokenOf[m])
  BY <1>1, <1>2, ImageAppend, ImageNone
<1>4. PICK x \in Seq(Place) : x = SpokenOf[m]
  BY <1>2 DEF Maps
<1>5. <<>> \in Seq(Seq(Place)) /\ <<>> \o x = x
  BY EmptySeq, ConcatEmptySeq
<1>6. FlattenSeq(Append(<<>>, x)) = FlattenSeq(<<>>) \o x
  BY <1>5, FlattenAppend
<1>7. x = Spoken(m.text)
  BY <1>4 DEF SpokenOf
<1> QED
  BY <1>1, <1>2, <1>3, <1>4, <1>5, <1>6, <1>7, FlattenNone

(* One message more.                                                         *)
LEMMA ToldAppend ==
  ASSUME NEW a \in Seq(UpstreamMessages), NEW m \in UpstreamMessages
  PROVE  Append(a, m) \in Seq(UpstreamMessages) /\ Told(Append(a, m)) = Told(a) \o Spoken(m.text)
<1>1. Append(a, m) = a \o <<m>>
  <2>1. Append(a, m) \in Seq(UpstreamMessages) /\ a \o <<m>> \in Seq(UpstreamMessages)
    BY ConcatProperties, AppendProperties
  <2>2. Len(Append(a, m)) = Len(a \o <<m>>) /\ \A i \in 1..Len(Append(a, m)) : Append(a, m)[i] = (a \o <<m>>)[i]
    OBVIOUS
  <2> QED
    BY <2>1, <2>2, SeqEqual
<1>2. <<m>> \in Seq(UpstreamMessages) /\ Told(<<m>>) = Spoken(m.text)
  BY ToldOne
<1> QED
  BY <1>1, <1>2, ToldConcat

(* How often a place is told in two parts of a conversation.                 *)
LEMMA TimesIs ==
  ASSUME NEW p, NEW a \in Seq(UpstreamMessages)
  PROVE  Times(p, a) = Count(p, Told(a)) /\ Times(p, a) \in Nat
<1>1. Told(a) \in Seq(Place)
  BY ToldIs
<1>2. <<>> \in Seq(Place)
  BY EmptySeq
<1>3. Count(p, Told(a)) \in Nat
  BY <1>1, <1>2, CountConcat
<1> QED
  BY <1>3 DEF Times, Count

Holding == [ids : SUBSET AnyId, blocks : Seq(ClientBlocks), own : Seq(Place)]
Folding == [out : Seq(UpstreamMessages), texts : Seq(Place), ids : SUBSET AnyId, injecting : BOOLEAN]

ConversionTypes ==
    /\ mode \in Modes /\ phase \in {"converting", "done", "refused"}
    /\ input \in Seq(ClientMessages) /\ output \in Seq(UpstreamMessages) /\ pending \in Holding

(* The place of each block.                                                  *)
PlaceOf == [b \in ClientBlocks |-> b.at]

(* Places is an image of the blocks.                                       *)
LEMMA PlacesIs ==
  ASSUME NEW q \in Seq(ClientBlocks)
  PROVE  /\ PlaceOf \in Maps(ClientBlocks, Place)
         /\ Places(q) = Image(PlaceOf, q) /\ Places(q) \in Seq(Place) /\ Len(Places(q)) = Len(q)
<1>1. PlaceOf \in Maps(ClientBlocks, Place)
  BY DEF PlaceOf, Maps, ClientBlocks
<1>2. \A i \in DOMAIN q : q[i] \in ClientBlocks
  OBVIOUS
<1>3. Places(q) = Image(PlaceOf, q)
  BY <1>2 DEF Places, Image, PlaceOf
<1> QED
  BY <1>1, <1>3, ImageFacts

(* The blocks of some kinds.                                                 *)
LEMMA OfKindIs ==
  ASSUME NEW q \in Seq(ClientBlocks), NEW kinds
  PROVE  /\ OfKind(q, kinds) \in Seq(ClientBlocks)
         /\ OfKind(q, kinds) = Without(q, {b \in ClientBlocks : b.kind \notin kinds})
<1>1. \A i \in DOMAIN q : q[i] \in ClientBlocks /\ q[i] \in ToSet(q)
  BY DEF ToSet
<1>2. \A i \in DOMAIN q : q[i] \in {b \in ToSet(q) : b.kind \notin kinds} <=> q[i] \in {b \in ClientBlocks : b.kind \notin kinds}
  BY <1>1
<1>3. OfKind(q, kinds) = Without(q, {b \in ClientBlocks : b.kind \notin kinds})
  BY <1>2, WithoutSame DEF OfKind
<1> QED
  BY <1>3, WithoutIsSeq

(* A message that is made is one of the upstream's, with the text and the  *)
(* role it was given.                                                      *)
LEMMA UpstreamFields ==
  ASSUME NEW role \in {"user", "assistant", "tool", "system"}, NEW text \in Seq(Place), NEW calls \in Seq(AnyId),
         NEW reasoning \in Seq(Place)
  PROVE  /\ Message(role, text, calls, reasoning) \in UpstreamMessages
         /\ Message(role, text, calls, reasoning).text = text
         /\ Message(role, text, calls, reasoning).role = role
<1>1. "" \in AnyId
  BY DEF AnyId
<1> QED
  BY <1>1 DEF Message, UpstreamMessages

(* What is made of an assistant's blocks has their shown places for text.  *)
LEMMA AssistantType ==
  ASSUME mode \in Modes, NEW q \in Seq(ClientBlocks), NEW own \in Seq(Place)
  PROVE  /\ Assistant(q, own) \in UpstreamMessages
         /\ Assistant(q, own).text = Places(OfKind(q, ShownKinds))
<1> DEFINE thought == CASE mode # "reasoning_content" -> <<>>
                        [] mode = "reasoning_content" /\ own # <<>> -> own
                        [] mode = "reasoning_content" /\ own = <<>> -> Places(OfKind(q, {"thinking"}))
           shown == Places(OfKind(q, ShownKinds))
<1>1. OfKind(q, ShownKinds) \in Seq(ClientBlocks) /\ OfKind(q, {"thinking"}) \in Seq(ClientBlocks)
  BY OfKindIs
<1>2. shown \in Seq(Place) /\ Places(OfKind(q, {"thinking"})) \in Seq(Place)
  BY <1>1, PlacesIs
<1>3. thought \in Seq(Place)
  BY <1>2, EmptySeq
<1>4. Assistant(q, own) = Message("assistant", shown, <<>>, thought)
  BY DEF Assistant, ShownKinds
<1> HIDE DEF thought, shown
<1>5. <<>> \in Seq(AnyId)
  BY EmptySeq
<1>6. PICK t, r \in Seq(Place), none \in Seq(AnyId) : t = shown /\ r = thought /\ none = <<>>
  BY <1>2, <1>3, <1>5
<1>7. Message("assistant", t, none, r) \in UpstreamMessages /\ Message("assistant", t, none, r).text = t
  BY UpstreamFields
<1> QED
  BY <1>4, <1>6, <1>7 DEF shown

(* What is held back is one message at most and tells its shown blocks.    *)
LEMMA DeferredType ==
  ASSUME mode \in Modes, pending \in Holding
  PROVE  /\ Deferred \in Seq(UpstreamMessages)
         /\ Told(Deferred) = IF Held THEN Spoken(Places(OfKind(pending.blocks, ShownKinds))) ELSE <<>>
<1>1. pending.blocks \in Seq(ClientBlocks) /\ pending.own \in Seq(Place)
  BY DEF Holding
<1>2. PICK m \in UpstreamMessages : m = Assistant(pending.blocks, pending.own)
  BY <1>1, AssistantType
<1>3. m.text = Places(OfKind(pending.blocks, ShownKinds))
  BY <1>1, <1>2, AssistantType
<1>4. <<m>> \in Seq(UpstreamMessages) /\ Told(<<m>>) = Spoken(m.text)
  BY ToldOne
<1> QED
  BY <1>2, <1>3, <1>4, ToldNone DEF Deferred

(* Flushing texts tells them.                                              *)
LEMMA FlushType ==
  ASSUME NEW t \in Seq(Place)
  PROVE  Flush(t) \in Seq(UpstreamMessages) /\ Told(Flush(t)) = Spoken(t)
<1>1. CASE t = <<>>
  <2>1. Spoken(t) = <<>>
    BY <1>1, WithoutNone DEF Spoken
  <2> QED
    BY <1>1, <2>1, ToldNone DEF Flush
<1>2. CASE t # <<>>
  <2>1. <<>> \in Seq(Place) /\ <<>> \in Seq(AnyId)
    BY EmptySeq
  <2>4. PICK none \in Seq(Place), nobody \in Seq(AnyId) : none = <<>> /\ nobody = <<>>
    BY <2>1
  <2>5. Message("user", t, nobody, none) \in UpstreamMessages /\ Message("user", t, nobody, none).text = t
    BY UpstreamFields
  <2>2. PICK m \in UpstreamMessages : m = Message("user", t, <<>>, <<>>)
    BY <2>4, <2>5
  <2>3. m.text = t
    BY <2>2, <2>4, <2>5
  <2> QED
    BY <1>2, <2>2, <2>3, ToldOne DEF Flush
<1> QED
  BY <1>1, <1>2

(* One block of a list.                                                      *)
ResultMessage(b) == [Message("tool", <<b.at>>, <<>>, <<>>) EXCEPT !.for = b.id]
More(acc, b) == IF acc.injecting /\ acc.ids \ {b.id} = {} THEN Deferred ELSE <<>>

(* A result is a message with its place for text.                          *)
LEMMA ResultMessageType ==
  ASSUME NEW b \in ClientBlocks
  PROVE  ResultMessage(b) \in UpstreamMessages /\ ResultMessage(b).text = <<b.at>>
<1>1. b.at \in Place /\ b.id \in AnyId
  BY DEF ClientBlocks
<1>2. <<b.at>> \in Seq(Place) /\ <<>> \in Seq(AnyId) /\ <<>> \in Seq(Place)
  BY <1>1, EmptySeq
<1> HIDE DEF Place
<1> QED
  BY <1>1, <1>2 DEF ResultMessage, Message, UpstreamMessages

(* What one block of a user's list does to each part of what the loop has  *)
(* made.                                                                   *)
LEMMA BlockType ==
  ASSUME mode \in Modes, pending \in Holding, NEW acc \in Folding, NEW b \in ClientBlocks
  PROVE  /\ Block(acc, b) \in Folding
         /\ Block(acc, b).injecting = acc.injecting
         /\ b.kind \notin {"text", "tool_result"} => Block(acc, b) = acc
         /\ b.kind = "text" => /\ Block(acc, b).out = acc.out /\ Block(acc, b).ids = acc.ids
                               /\ Block(acc, b).texts = Append(acc.texts, b.at)
         /\ b.kind = "tool_result" =>
               /\ Block(acc, b).out = acc.out \o Flush(acc.texts) \o <<ResultMessage(b)>> \o More(acc, b)
               /\ Block(acc, b).texts = <<>> /\ Block(acc, b).ids = acc.ids \ {b.id}
<1>1. /\ acc.out \in Seq(UpstreamMessages) /\ acc.texts \in Seq(Place) /\ acc.ids \subseteq AnyId
      /\ acc.injecting \in BOOLEAN
      /\ acc = [out |-> acc.out, texts |-> acc.texts, ids |-> acc.ids, injecting |-> acc.injecting]
  BY DEF Folding
<1>2. b.at \in Place /\ b.id \in AnyId
  BY DEF ClientBlocks
<1>3. CASE b.kind = "text"
  <2>1. Block(acc, b) = [acc EXCEPT !.texts = Append(@, b.at)]
    BY <1>3 DEF Block
  <2>2. Append(acc.texts, b.at) \in Seq(Place)
    BY <1>1, <1>2, AppendProperties
  <2>3. Block(acc, b) = [out |-> acc.out, texts |-> Append(acc.texts, b.at), ids |-> acc.ids, injecting |-> acc.injecting]
    BY <1>1, <2>1
  <2> QED
    BY <1>1, <1>3, <2>2, <2>3 DEF Folding
<1>4. CASE b.kind = "tool_result"
  <2> DEFINE o == acc.out \o Flush(acc.texts) \o <<ResultMessage(b)>> \o More(acc, b)
  <2>1. Block(acc, b) = Result(acc, b)
    BY <1>4 DEF Block
  <2>2. Result(acc, b) = [acc EXCEPT !.out = o, !.texts = <<>>, !.ids = @ \ {b.id}]
    BY DEF Result, AddResult, ResultMessage, More
  <2>3. o \in Seq(UpstreamMessages)
    <3>1. Flush(acc.texts) \in Seq(UpstreamMessages)
      BY <1>1, FlushType
    <3>2. <<ResultMessage(b)>> \in Seq(UpstreamMessages)
      BY ResultMessageType, ToldOne
    <3>3. More(acc, b) \in Seq(UpstreamMessages)
      BY DeferredType, ToldNone DEF More
    <3>4. PICK x, y, z \in Seq(UpstreamMessages) : x = Flush(acc.texts) /\ y = <<ResultMessage(b)>> /\ z = More(acc, b)
      BY <3>1, <3>2, <3>3
    <3>5. acc.out \o x \in Seq(UpstreamMessages)
      BY <1>1, ConcatProperties
    <3>6. acc.out \o x \o y \in Seq(UpstreamMessages)
      BY <3>5, ConcatProperties
    <3>7. acc.out \o x \o y \o z \in Seq(UpstreamMessages)
      BY <3>6, ConcatProperties
    <3> QED
      BY <3>4, <3>7
  <2> HIDE DEF o
  <2>4. Block(acc, b) = [out |-> o, texts |-> <<>>, ids |-> acc.ids \ {b.id}, injecting |-> acc.injecting]
    BY <1>1, <2>1, <2>2
  <2>5. <<>> \in Seq(Place) /\ acc.ids \ {b.id} \subseteq AnyId
    BY <1>1, EmptySeq
  <2>6. Block(acc, b) \in Folding
    BY <1>1, <2>3, <2>4, <2>5 DEF Folding
  <2>7. Block(acc, b).out = o /\ Block(acc, b).texts = <<>> /\ Block(acc, b).ids = acc.ids \ {b.id}
    BY <2>4
  <2>8. Block(acc, b).injecting = acc.injecting
    BY <2>4
  <2> QED
    BY <1>4, <2>6, <2>7, <2>8 DEF o
<1>5. CASE b.kind \notin {"text", "tool_result"}
  <2>1. Block(acc, b) = acc
    BY <1>5 DEF Block
  <2> QED
    BY <1>5, <2>1
<1> QED
  BY <1>3, <1>4, <1>5

(* What the loop over the blocks of a list has after i of them.              *)
IsReplay(f, start, q) ==
    /\ f \in [0..Len(q) -> Folding] /\ f[0] = start /\ AfterBlocks(start, q) = f[Len(q)]
    /\ \A i \in 1..Len(q) : f[i] = Block(f[i - 1], q[i])

(* The loop over the blocks of a list is a function from the number of     *)
(* blocks read.                                                            *)
LEMMA AfterBlocksLoop ==
  ASSUME mode \in Modes, pending \in Holding, NEW start \in Folding, NEW q \in Seq(ClientBlocks)
  PROVE  \E f : IsReplay(f, start, q)
<1> DEFINE n == Len(q)
           IsLoop(f) == f = [i \in 0..n |-> IF i = 0 THEN start ELSE Block(f[i - 1], q[i])]
           loop == CHOOSE f : IsLoop(f)
<1>1. n \in Nat /\ \A i \in 1..n : q[i] \in ClientBlocks
  OBVIOUS
<1>2. AfterBlocks(start, q) = loop[n]
  BY DEF AfterBlocks
<1> HIDE DEF n
<1>3. \E g : IsLoop(g)
  <2> DEFINE st == [i \in Nat |-> [v \in Folding |-> IF i + 1 \in 1..n THEN Block(v, q[i + 1]) ELSE v]]
  <2>1. ASSUME NEW i \in Nat, NEW v \in Folding
        PROVE  (IF i + 1 \in 1..n THEN Block(v, q[i + 1]) ELSE v) \in Folding
    <3>1. CASE i + 1 \in 1..n
      <4>1. PICK b \in ClientBlocks : b = q[i + 1]
        BY <1>1, <3>1
      <4>2. Block(v, b) \in Folding
        BY BlockType
      <4> QED
        BY <3>1, <4>1, <4>2
    <3> QED
      BY <3>1
  <2>2. st \in [Nat -> [Folding -> Folding]]
    BY <2>1
  <2>3. PICK f : Iterates(f, Folding, start, st)
    <3> HIDE DEF st
    <3> QED
      BY <2>2, Iteration
  <2>4. f \in [Nat -> Folding] /\ f[0] = start /\ \A i \in Nat : f[i + 1] = st[i][f[i]]
    BY <2>3 DEF Iterates
  <2>5. \A i \in Nat : i + 1 \in 1..n => f[i + 1] = Block(f[i], q[i + 1])
    BY <2>4
  <2> HIDE DEF st
  <2>6. \A i \in 1..n : f[i] = Block(f[i - 1], q[i])
    <3>1. TAKE i \in 1..n
    <3>2. PICK k \in Nat : k = i - 1
      BY <1>1
    <3>3. k + 1 = i /\ k + 1 \in 1..n
      BY <1>1, <3>2
    <3>4. f[k + 1] = Block(f[k], q[k + 1])
      BY <2>5, <3>3
    <3> QED
      BY <3>2, <3>3, <3>4
  <2> DEFINE g == [i \in 0..n |-> f[i]]
  <2>7. ASSUME NEW i \in 0..n
        PROVE  g[i] = IF i = 0 THEN start ELSE Block(g[i - 1], q[i])
    <3>1. CASE i = 0
      BY <2>4, <3>1
    <3>2. CASE i # 0
      <4>1. i \in 1..n /\ i - 1 \in 0..n
        BY <1>1, <3>2
      <4> QED
        BY <2>6, <3>2, <4>1
    <3> QED
      BY <3>1, <3>2
  <2>8. g = [i \in 0..n |-> g[i]]
    OBVIOUS
  <2> HIDE DEF g
  <2>9. g = [i \in 0..n |-> IF i = 0 THEN start ELSE Block(g[i - 1], q[i])]
    BY <2>7, <2>8
  <2> QED
    BY <2>9
<1>4. IsLoop(loop)
  <2> HIDE DEF IsLoop
  <2> QED
    BY <1>3
<1> HIDE DEF loop
<1>5. \A i \in 0..n : loop[i] = IF i = 0 THEN start ELSE Block(loop[i - 1], q[i])
  BY <1>4
<1>6. loop[0] = start
  <2>1. 0 \in 0..n
    BY <1>1
  <2> QED
    BY <1>5, <2>1
<1>7. ASSUME NEW i \in 1..n
      PROVE  loop[i] = Block(loop[i - 1], q[i])
  <2>1. i \in 0..n /\ i # 0
    BY <1>1
  <2> QED
    BY <1>5, <2>1
<1>8. \A i \in 0..n : loop[i] \in Folding
  <2> DEFINE S == {i \in Nat : i \in 0..n => loop[i] \in Folding}
  <2>1. 0 \in S
    BY <1>6
  <2>2. ASSUME NEW i \in Nat, i \in S
        PROVE  i + 1 \in S
    <3>1. SUFFICES ASSUME i + 1 \in 0..n PROVE loop[i + 1] \in Folding
      OBVIOUS
    <3>2. PICK k \in 1..n : k = i + 1
      BY <1>1, <3>1
    <3>3. k - 1 = i /\ i \in 0..n
      BY <1>1, <3>2
    <3>4. loop[k] = Block(loop[k - 1], q[k])
      BY <1>7
    <3>5. PICK v \in Folding, b \in ClientBlocks : v = loop[k - 1] /\ b = q[k]
      BY <1>1, <2>2, <3>3
    <3>6. Block(v, b) \in Folding
      BY BlockType
    <3> QED
      BY <3>2, <3>4, <3>5, <3>6
  <2>3. \A i \in Nat : i \in S
    <3> HIDE DEF S
    <3> QED
      BY <2>1, <2>2, Induction
  <2>4. TAKE i \in 0..n
  <2>5. i \in Nat
    BY <1>1
  <2> QED
    BY <2>3, <2>5
<1>9. loop \in [0..n -> Folding]
  <2>1. loop = [i \in 0..n |-> loop[i]]
    <3>1. DOMAIN loop = 0..n
      BY <1>4
    <3>2. loop = [i \in 0..n |-> IF i = 0 THEN start ELSE Block(loop[i - 1], q[i])]
      BY <1>4
    <3> QED
      BY <1>5, <3>2
  <2> QED
    BY <1>8, <2>1
<1> QED
  BY <1>2, <1>6, <1>7, <1>9 DEF IsReplay, n

(* Removing twice.                                                           *)
LEMMA WithoutBoth ==
  ASSUME NEW A, NEW q \in Seq(A), NEW S, NEW T
  PROVE  Without(Without(q, S), T) = Without(q, S \cup T)
<1>1. Without(q, S) \in Seq(A) /\ \A i \in DOMAIN Without(q, S) : Without(q, S)[i] \notin S
  BY WithoutIsSeq
<1>2. PICK r \in Seq(A) : r = Without(q, S)
  BY <1>1
<1>3. \A i \in DOMAIN r : r[i] \in T <=> r[i] \in S \cup T
  BY <1>1, <1>2
<1>4. Without(r, T) = Without(r, S \cup T)
  BY <1>3, WithoutSame
<1>5. \A x \in A : x \in S => x \in S \cup T
  OBVIOUS
<1>6. Without(Without(q, S), S \cup T) = Without(q, S \cup T)
  BY <1>5, WithoutMore
<1> QED
  BY <1>2, <1>4, <1>6

(* The message that the n-th turn of the loop sees.                          *)
Numbered(msg, n) ==
    [role |-> msg.role, form |-> msg.form, own |-> IF msg.reasoning THEN <<<<n, 0>>>> ELSE <<>>,
     blocks |-> [i \in DOMAIN msg.blocks |-> [kind |-> msg.blocks[i].kind, id |-> msg.blocks[i].id, at |-> <<n, i>>]]]
Received(m, n) ==
    /\ m \in ClientMessages
    /\ m.own = <<>> \/ m.own = <<<<n, 0>>>>
    /\ \A i \in DOMAIN m.blocks :
          /\ m.blocks[i].at = <<n, i>>
          /\ m.form = "string" => m.blocks[i].kind = "text"
          /\ m.blocks[i].kind = "tool_use" => m.role = "assistant"
          /\ m.blocks[i].kind = "tool_result" => m.role = "user"

(* A message of the client, once its blocks have their places, is as       *)
(* Received says.                                                          *)
LEMMA NumberedFacts ==
  ASSUME NEW msg \in MessageSet, NEW n \in Nat
  PROVE  Received(Numbered(msg, n), n)
<1> DEFINE m == Numbered(msg, n)
           l == Len(msg.blocks)
<1>1. /\ msg.role \in {"user", "assistant"} /\ msg.form \in {"string", "list"}
      /\ msg.blocks \in Seq([kind : Kinds, id : AnyId])
  BY MessagesAssumption
<1>2. \A i \in DOMAIN msg.blocks :
          LET kind == msg.blocks[i].kind
          IN  /\ msg.form = "string" => kind = "text"
              /\ kind = "tool_use" => msg.role = "assistant"
              /\ kind = "tool_result" => msg.role = "user"
  BY MessagesAssumption
<1>3. l \in Nat /\ DOMAIN msg.blocks = 1..l /\ \A i \in 1..l : msg.blocks[i].kind \in Kinds /\ msg.blocks[i].id \in AnyId
  <2> DEFINE B == [kind : Kinds, id : AnyId]
  <2>1. PICK q \in Seq(B) : q = msg.blocks
    BY <1>1
  <2>2. \A b \in B : b.kind \in Kinds /\ b.id \in AnyId
    OBVIOUS
  <2> HIDE DEF B
  <2>3. Len(q) \in Nat /\ DOMAIN q = 1..Len(q) /\ \A i \in 1..Len(q) : q[i] \in B
    OBVIOUS
  <2> QED
    BY <2>1, <2>2, <2>3
<1>4. m.role = msg.role /\ m.form = msg.form /\ (m.own = <<>> \/ m.own = <<<<n, 0>>>>)
      /\ m = [role |-> m.role, form |-> m.form, own |-> m.own, blocks |-> m.blocks]
  BY DEF Numbered
<1>5. DOMAIN m.blocks = 1..l
      /\ \A i \in 1..l : /\ m.blocks[i].kind = msg.blocks[i].kind /\ m.blocks[i].at = <<n, i>>
                         /\ m.blocks[i] = [kind |-> msg.blocks[i].kind, id |-> msg.blocks[i].id, at |-> <<n, i>>]
  BY <1>3 DEF Numbered
<1>6. m.blocks = [i \in 1..l |-> m.blocks[i]]
  BY <1>3 DEF Numbered
<1> HIDE DEF m, l
<1>7. \A i \in 1..l : m.blocks[i] \in ClientBlocks
  <2>1. TAKE i \in 1..l
  <2>2. <<n, i>> \in Place
    BY <1>3 DEF Place
  <2>3. PICK k \in Kinds, d \in AnyId, p \in Place : k = msg.blocks[i].kind /\ d = msg.blocks[i].id /\ p = <<n, i>>
    BY <1>3, <2>2
  <2>4. m.blocks[i] = [kind |-> k, id |-> d, at |-> p]
    BY <1>5, <2>3
  <2> HIDE DEF Place
  <2> QED
    BY <2>4 DEF ClientBlocks
<1>8. m.blocks \in Seq(ClientBlocks)
  BY <1>3, <1>6, <1>7
<1>9. m.own \in Seq(Place)
  <2>1. <<n, 0>> \in Place
    BY DEF Place
  <2> HIDE DEF Place
  <2>2. <<<<n, 0>>>> \in Seq(Place) /\ <<>> \in Seq(Place)
    BY <2>1, EmptySeq
  <2> QED
    BY <1>4, <2>2
<1>10. m \in ClientMessages
  BY <1>1, <1>4, <1>8, <1>9 DEF ClientMessages
<1> QED
  BY <1>2, <1>3, <1>4, <1>5, <1>10 DEF Received, m

(* Which step is taken for it.                                               *)
LEMMA ConvertIs ==
  ASSUME ConversionTypes, NEW msg \in MessageSet, Convert(msg)
  PROVE  \E m \in ClientMessages :
            /\ Received(m, Len(input) + 1)
            /\ phase = "converting" /\ mode' = mode /\ input' = Append(input, m)
            /\ \/ phase' = "refused" /\ UNCHANGED <<output, pending>>
               \/ phase' = phase /\ (ConvertAssistant(m) \/ ConvertString(m) \/ ConvertUser(m))
<1>1. Len(input) + 1 \in Nat
  BY DEF ConversionTypes
<1>2. PICK n \in Nat : n = Len(input) + 1
  BY <1>1
<1>3. PICK m : m = Numbered(msg, n)
  OBVIOUS
<1>4. Received(m, n)
  BY <1>3, NumberedFacts
<1>5. m \in ClientMessages
  BY <1>4 DEF Received
<1>6. /\ phase = "converting" /\ input' = Append(input, m)
      /\ IF Refused(m) THEN phase' = "refused" /\ UNCHANGED <<output, pending>>
         ELSE UNCHANGED phase /\ (ConvertAssistant(m) \/ ConvertString(m) \/ ConvertUser(m))
      /\ UNCHANGED mode
  BY <1>2, <1>3 DEF Convert, Numbered
<1>7. /\ phase = "converting" /\ mode' = mode /\ input' = Append(input, m)
      /\ \/ phase' = "refused" /\ UNCHANGED <<output, pending>>
         \/ phase' = phase /\ (ConvertAssistant(m) \/ ConvertString(m) \/ ConvertUser(m))
  BY <1>6
<1> QED
  BY <1>2, <1>4, <1>5, <1>7

(* The shown blocks before and after the first call of a message, and what   *)
(* of its blocks is in S.                                                    *)
Earlier(m) == {b \in ClientBlocks : b.kind \in ShownKinds /\ \A i \in DOMAIN m.blocks : IsCall(m.blocks[i]) => b.at[2] < i}
Later(m) == {b \in ClientBlocks : b.kind \in ShownKinds /\ ~ \A i \in DOMAIN m.blocks : IsCall(m.blocks[i]) => b.at[2] < i}
Only(m, S) == Without(m.blocks, ClientBlocks \ S)

(* Filtering by kind what is left.                                           *)
LEMMA OnlyIs ==
  ASSUME NEW m \in ClientMessages, NEW T, NEW kinds, NEW S,
         \A i \in DOMAIN m.blocks : m.blocks[i] \in S <=> m.blocks[i] \notin T /\ m.blocks[i].kind \in kinds
  PROVE  OfKind(Without(m.blocks, T), kinds) = Only(m, S)
<1> DEFINE K == {b \in ClientBlocks : b.kind \notin kinds}
<1>1. m.blocks \in Seq(ClientBlocks)
  BY DEF ClientMessages
<1>2. PICK q \in Seq(ClientBlocks) : q = m.blocks
  BY <1>1
<1>3. Without(q, T) \in Seq(ClientBlocks)
  BY WithoutIsSeq
<1>4. OfKind(Without(q, T), kinds) = Without(Without(q, T), K)
  BY <1>3, OfKindIs
<1>5. Without(Without(q, T), K) = Without(q, T \cup K)
  BY WithoutBoth
<1>6. \A i \in DOMAIN q : q[i] \in ClientBlocks
  OBVIOUS
<1>7. \A i \in DOMAIN q : q[i] \in T \cup K <=> q[i] \in ClientBlocks \ S
  BY <1>2, <1>6
<1>8. Without(q, T \cup K) = Without(q, ClientBlocks \ S)
  BY <1>7, WithoutSame
<1> QED
  BY <1>2, <1>4, <1>5, <1>8 DEF Only

(* Blocks of some kinds are those that are in a set.                       *)
LEMMA OnlyKinds ==
  ASSUME NEW m \in ClientMessages, NEW kinds
  PROVE  OfKind(m.blocks, kinds) = Only(m, {b \in ClientBlocks : b.kind \in kinds})
<1>1. m.blocks \in Seq(ClientBlocks)
  BY DEF ClientMessages
<1>2. PICK q \in Seq(ClientBlocks) : q = m.blocks
  BY <1>1
<1>3. OfKind(q, kinds) = Without(q, {b \in ClientBlocks : b.kind \notin kinds})
  BY OfKindIs
<1>4. {b \in ClientBlocks : b.kind \notin kinds} = ClientBlocks \ {b \in ClientBlocks : b.kind \in kinds}
  OBVIOUS
<1> QED
  BY <1>2, <1>3, <1>4 DEF Only

(* Blocks in a set are blocks, and have places.                            *)
LEMMA OnlyType ==
  ASSUME NEW m \in ClientMessages, NEW S
  PROVE  Only(m, S) \in Seq(ClientBlocks) /\ Places(Only(m, S)) \in Seq(Place)
<1>1. m.blocks \in Seq(ClientBlocks)
  BY DEF ClientMessages
<1>2. Only(m, S) \in Seq(ClientBlocks)
  BY <1>1, WithoutIsSeq DEF Only
<1> QED
  BY <1>2, PlacesIs

(* The first call is there, and has no other before it.                      *)
HasCall(m) == \E i \in DOMAIN m.blocks : IsCall(m.blocks[i])
(* The first call is a call, and no call is before it.                     *)
LEMMA FirstCallIs ==
  ASSUME NEW m \in ClientMessages, HasCall(m)
  PROVE  LET f == FirstCall(m.blocks)
         IN  f \in DOMAIN m.blocks /\ IsCall(m.blocks[f]) /\ \A j \in DOMAIN m.blocks : IsCall(m.blocks[j]) => f <= j
<1> DEFINE T == {i \in DOMAIN m.blocks : IsCall(m.blocks[i])}
<1>1. m.blocks \in Seq(ClientBlocks)
  BY DEF ClientMessages
<1>2. T \in SUBSET Nat /\ T # {}
  BY <1>1 DEF HasCall
<1>3. PICK i \in T : \A j \in T : i <= j
  <2> HIDE DEF T
  <2> QED
    BY <1>2, LeastNatural
<1>4. \E k \in DOMAIN m.blocks : IsCall(m.blocks[k]) /\ \A j \in DOMAIN m.blocks : IsCall(m.blocks[j]) => k <= j
  BY <1>3
<1> QED
  BY <1>4 DEF FirstCall

(* Calls and results are no text; text always is.                          *)
LEMMA ToolsNotShown == "tool_use" \notin ShownKinds /\ "text" \in ShownKinds /\ "tool_result" \notin ShownKinds
  BY DEF ShownKinds

(* How the two parts of a message are computed, and what they are.           *)
LEMMA EarlyIs ==
  ASSUME NEW n, NEW m \in ClientMessages, Received(m, n)
  PROVE  /\ OfKind(Without(m.blocks, ToSet(m.blocks) \ Early(m)), ShownKinds) = Only(m, Earlier(m))
         /\ OfKind(Without(m.blocks, Early(m)), ShownKinds) = Only(m, Later(m))
<1>1. m.blocks \in Seq(ClientBlocks)
  BY DEF ClientMessages
<1>2. \A i \in DOMAIN m.blocks : m.blocks[i] \in ClientBlocks /\ m.blocks[i] \in ToSet(m.blocks)
  BY <1>1 DEF ToSet
<1> DEFINE before(b) == \A i \in DOMAIN m.blocks : IsCall(m.blocks[i]) => b.at[2] < i
<1>3. /\ Early(m) = {b \in ToSet(m.blocks) : before(b)}
      /\ Earlier(m) = {b \in ClientBlocks : b.kind \in ShownKinds /\ before(b)}
      /\ Later(m) = {b \in ClientBlocks : b.kind \in ShownKinds /\ ~before(b)}
  BY DEF Early, Earlier, Later
<1> HIDE DEF before
<1>4. \A i \in DOMAIN m.blocks :
          m.blocks[i] \in Earlier(m) <=> m.blocks[i] \notin ToSet(m.blocks) \ Early(m) /\ m.blocks[i].kind \in ShownKinds
  BY <1>2, <1>3
<1>5. \A i \in DOMAIN m.blocks :
          m.blocks[i] \in Later(m) <=> m.blocks[i] \notin Early(m) /\ m.blocks[i].kind \in ShownKinds
  BY <1>2, <1>3
<1>6. OfKind(Without(m.blocks, ToSet(m.blocks) \ Early(m)), ShownKinds) = Only(m, Earlier(m))
  <2>1. PICK t, k, e : t = ToSet(m.blocks) \ Early(m) /\ k = ShownKinds /\ e = Earlier(m)
    OBVIOUS
  <2>2. \A i \in DOMAIN m.blocks : m.blocks[i] \in e <=> m.blocks[i] \notin t /\ m.blocks[i].kind \in k
    BY <1>4, <2>1
  <2>3. OfKind(Without(m.blocks, t), k) = Only(m, e)
    BY <2>2, OnlyIs
  <2> QED
    BY <2>1, <2>3
<1>7. OfKind(Without(m.blocks, Early(m)), ShownKinds) = Only(m, Later(m))
  BY <1>5, OnlyIs
<1> QED
  BY <1>6, <1>7

(* A message that calls is split at its first call into what was said      *)
(* before and after.                                                       *)
LEMMA SplitIs ==
  ASSUME NEW n, NEW m \in ClientMessages, Received(m, n), HasCall(m)
  PROVE  LET f == FirstCall(m.blocks)
         IN  /\ SubSeq(m.blocks, 1, f - 1) \in Seq(ClientBlocks)
             /\ OfKind(SubSeq(m.blocks, 1, f - 1), ShownKinds) = Only(m, Earlier(m))
             /\ AfterFirstCall(m.blocks) \in Seq(ClientBlocks)
             /\ OfKind(AfterFirstCall(m.blocks), ShownKinds) = Only(m, Later(m))
<1> DEFINE f == FirstCall(m.blocks)
           l == Len(m.blocks)
<1>1. m.blocks \in Seq(ClientBlocks) /\ l \in Nat /\ DOMAIN m.blocks = 1..l
  BY DEF ClientMessages
<1>2. f \in 1..l /\ IsCall(m.blocks[f]) /\ \A j \in 1..l : IsCall(m.blocks[j]) => f <= j
  BY <1>1, FirstCallIs
<1>3. \A i \in 1..l : m.blocks[i] \in ClientBlocks /\ m.blocks[i] \in ToSet(m.blocks) /\ m.blocks[i].at[2] = i
  <2>1. \A i \in 1..l : m.blocks[i] \in ClientBlocks
    BY <1>1
  <2>2. \A i \in DOMAIN m.blocks : m.blocks[i] \in ToSet(m.blocks)
    BY DEF ToSet
  <2>3. \A i \in DOMAIN m.blocks : m.blocks[i].at = <<n, i>>
    BY DEF Received
  <2> QED
    BY <1>1, <2>1, <2>2, <2>3
<1> HIDE DEF f, l
<1> DEFINE before(b) == \A i \in DOMAIN m.blocks : IsCall(m.blocks[i]) => b.at[2] < i
<1>4. \A i \in 1..l : before(m.blocks[i]) <=> i <= f - 1
  BY <1>1, <1>2, <1>3
<1>5. /\ Earlier(m) = {b \in ClientBlocks : b.kind \in ShownKinds /\ before(b)}
      /\ Later(m) = {b \in ClientBlocks : b.kind \in ShownKinds /\ ~before(b)}
  BY DEF Earlier, Later
<1> HIDE DEF before
<1> DEFINE S == {b \in ClientBlocks : ~before(b)}
<1>6. SubSeq(m.blocks, 1, f - 1) = Without(m.blocks, S)
  <2>1. \A i \in DOMAIN m.blocks : m.blocks[i] \notin S <=> 1 <= i /\ i <= f - 1
    BY <1>1, <1>3, <1>4
  <2>2. 1 \in 1..l + 1 /\ f - 1 \in 0..l /\ 1 <= f - 1 + 1
    BY <1>1, <1>2
  <2> QED
    BY <1>1, <2>1, <2>2, WithoutMiddle DEF l
<1>7. OfKind(Without(m.blocks, S), ShownKinds) = Only(m, Earlier(m))
  <2>1. \A i \in DOMAIN m.blocks : m.blocks[i] \in Earlier(m) <=> m.blocks[i] \notin S /\ m.blocks[i].kind \in ShownKinds
    BY <1>1, <1>3, <1>5
  <2> QED
    BY <2>1, OnlyIs
<1> DEFINE R == {b \in ClientBlocks : b.at[2] <= f}
           C == {b \in ToSet(m.blocks) : IsCall(b)}
<1>8. SubSeq(m.blocks, f + 1, Len(m.blocks)) = Without(m.blocks, R)
  <2>1. \A i \in DOMAIN m.blocks : m.blocks[i] \notin R <=> f + 1 <= i /\ i <= l
    BY <1>1, <1>2, <1>3
  <2>2. f + 1 \in 1..l + 1 /\ l \in 0..l /\ f + 1 <= l + 1
    BY <1>1, <1>2
  <2> QED
    BY <1>1, <2>1, <2>2, WithoutMiddle DEF l
<1>9. AfterFirstCall(m.blocks) = Without(m.blocks, R \cup C)
  <2>1. AfterFirstCall(m.blocks) = Without(Without(m.blocks, R), C)
    BY <1>8 DEF AfterFirstCall, f
  <2> QED
    BY <1>1, <2>1, WithoutBoth
<1>10. OfKind(Without(m.blocks, R \cup C), ShownKinds) = Only(m, Later(m))
  <2>1. ASSUME NEW i \in DOMAIN m.blocks
        PROVE  m.blocks[i] \in Later(m) <=> m.blocks[i] \notin R \cup C /\ m.blocks[i].kind \in ShownKinds
    <3>1. i \in 1..l /\ m.blocks[i] \in ClientBlocks /\ m.blocks[i].at[2] = i /\ m.blocks[i] \in ToSet(m.blocks)
      BY <1>1, <1>3
    <3>2. m.blocks[i] \in Later(m) <=> m.blocks[i].kind \in ShownKinds /\ ~ (i <= f - 1)
      BY <1>4, <1>5, <3>1
    <3>3. m.blocks[i] \in R <=> i <= f
      BY <3>1
    <3>4. m.blocks[i] \in C <=> m.blocks[i].kind = "tool_use"
      BY <3>1 DEF IsCall
    <3>5. i = f => m.blocks[i].kind = "tool_use"
      BY <1>2 DEF IsCall
    <3>6. i \in Int /\ f \in Int
      BY <1>1, <1>2, <3>1
    <3>7. i <= f <=> i <= f - 1 \/ i = f
      BY <3>6
    <3> QED
      BY <3>2, <3>3, <3>4, <3>5, <3>7, ToolsNotShown
  <2>2. PICK t, k, e : t = R \cup C /\ k = ShownKinds /\ e = Later(m)
    OBVIOUS
  <2>3. \A i \in DOMAIN m.blocks : m.blocks[i] \in e <=> m.blocks[i] \notin t /\ m.blocks[i].kind \in k
    BY <2>1, <2>2
  <2>4. OfKind(Without(m.blocks, t), k) = Only(m, e)
    BY <2>3, OnlyIs
  <2> QED
    BY <2>2, <2>4
<1>11. SubSeq(m.blocks, 1, f - 1) \in Seq(ClientBlocks) /\ AfterFirstCall(m.blocks) \in Seq(ClientBlocks)
  <2>1. PICK q \in Seq(ClientBlocks) : q = m.blocks
    BY <1>1
  <2>2. \A T : Without(q, T) \in Seq(ClientBlocks)
    BY WithoutIsSeq
  <2> QED
    BY <1>6, <1>9, <2>1, <2>2
<1> QED
  BY <1>6, <1>7, <1>9, <1>10, <1>11 DEF f

(* A message that calls nothing says nothing after a call.                 *)
LEMMA UnsplitIs ==
  ASSUME NEW m \in ClientMessages, ~HasCall(m)
  PROVE  /\ OfKind(m.blocks, ShownKinds) = Only(m, Earlier(m))
         /\ Only(m, Later(m)) = <<>>
<1>1. m.blocks \in Seq(ClientBlocks)
  BY DEF ClientMessages
<1>2. \A i \in DOMAIN m.blocks : m.blocks[i] \in ClientBlocks
  BY <1>1
<1>3. Earlier(m) = {b \in ClientBlocks : b.kind \in ShownKinds} /\ Later(m) = {}
  BY DEF Earlier, Later, HasCall
<1>4. OfKind(m.blocks, ShownKinds) = Only(m, Earlier(m))
  BY <1>3, OnlyKinds
<1>5. \A i \in DOMAIN m.blocks : m.blocks[i] \in ClientBlocks \ Later(m)
  BY <1>2, <1>3
<1>6. Only(m, Later(m)) = <<>>
  BY <1>1, <1>5, WithoutEmpty DEF Only
<1> QED
  BY <1>4, <1>6

(* What ConvertAssistant may hold back, and nothing at all, are of their   *)
(* type.                                                                   *)
LEMMA HoldingFields ==
  ASSUME NEW ids \in SUBSET AnyId, NEW blocks \in Seq(ClientBlocks), NEW own \in Seq(Place)
  PROVE  /\ [ids |-> ids, blocks |-> blocks, own |-> own] \in Holding
         /\ NoPending \in Holding /\ NoPending.blocks = <<>> /\ NoPending.ids = {}
<1>1. <<>> \in Seq(ClientBlocks) /\ <<>> \in Seq(Place) /\ {} \in SUBSET AnyId
  BY EmptySeq
<1> QED
  BY <1>1 DEF Holding, NoPending

(* The calls of a message.                                                   *)
LEMMA CallsIs ==
  ASSUME NEW m \in ClientMessages
  PROVE  LET calls == OfKind(m.blocks, {"tool_use"})
         IN  /\ calls \in Seq(ClientBlocks)
             /\ calls = <<>> <=> ~HasCall(m)
             /\ {calls[i].id : i \in DOMAIN calls} = Calls(m)
             /\ Calls(m) \subseteq AnyId
<1> DEFINE K == {b \in ClientBlocks : b.kind \notin {"tool_use"}}
<1>1. PICK q \in Seq(ClientBlocks) : q = m.blocks
  BY DEF ClientMessages
<1>2. PICK calls \in Seq(ClientBlocks) : calls = OfKind(m.blocks, {"tool_use"})
  BY <1>1, OfKindIs
<1>3. calls = Without(q, K)
  BY <1>1, <1>2, OfKindIs
<1>4. \A i \in DOMAIN q : q[i] \in ClientBlocks /\ (q[i] \in K <=> ~IsCall(q[i]))
  BY DEF IsCall
<1> HIDE DEF K
<1>5. calls = <<>> <=> ~HasCall(m)
  <2>1. calls = <<>> <=> \A i \in DOMAIN q : q[i] \in K
    BY <1>3, WithoutEmpty
  <2> QED
    BY <1>1, <1>4, <2>1 DEF HasCall
<1>6. /\ \A i \in DOMAIN calls : calls[i] \notin K /\ \E j \in DOMAIN q : calls[i] = q[j]
      /\ \A j \in DOMAIN q : q[j] \notin K => \E i \in DOMAIN calls : calls[i] = q[j]
  BY <1>3, WithoutIsSeq, WithoutKeeps
<1>7. Calls(m) = {q[i].id : i \in {j \in DOMAIN q : IsCall(q[j])}}
  BY <1>1 DEF Calls
<1>8. {calls[i].id : i \in DOMAIN calls} = Calls(m)
  <2>1. ASSUME NEW i \in DOMAIN calls
        PROVE  calls[i].id \in Calls(m)
    <3>1. PICK j \in DOMAIN q : calls[i] = q[j]
      BY <1>6
    <3>2. IsCall(q[j])
      BY <1>4, <1>6, <3>1
    <3> QED
      BY <1>7, <3>1, <3>2
  <2>2. ASSUME NEW j \in DOMAIN q, IsCall(q[j])
        PROVE  \E i \in DOMAIN calls : calls[i].id = q[j].id
    BY <1>4, <1>6, <2>2
  <2> QED
    BY <1>7, <2>1, <2>2
<1>9. Calls(m) \subseteq AnyId
  <2>1. \A i \in DOMAIN q : q[i].id \in AnyId
    BY <1>4 DEF ClientBlocks
  <2> QED
    BY <1>7, <2>1
<1> QED
  BY <1>2, <1>5, <1>8, <1>9

(* What an assistant's list becomes.                                         *)
AssistantGives(m, x) ==
    /\ x \in UpstreamMessages /\ x.text = Places(Only(m, Earlier(m)))
    /\ output' = output \o Deferred \o <<x>>
    /\ pending' \in Holding /\ OfKind(pending'.blocks, ShownKinds) = Only(m, Later(m))
    /\ pending' = NoPending \/ (HasCall(m) /\ pending'.blocks # <<>> /\ pending'.ids = Calls(m) \ {""})

(* No blocks have none of any kind.                                        *)
LEMMA OfKindNone ==
  ASSUME NEW kinds
  PROVE  OfKind(<<>>, kinds) = <<>>
  BY WithoutNone DEF OfKind

(* The step of an assistant's list, in terms of what it said before and    *)
(* after its first call.                                                   *)
LEMMA AssistantStep ==
  ASSUME ConversionTypes, NEW n, NEW m \in ClientMessages, Received(m, n), ConvertAssistant(m)
  PROVE  \E x : AssistantGives(m, x)
<1> DEFINE calls == OfKind(m.blocks, {"tool_use"})
           held == IF calls = <<>> THEN <<>> ELSE AfterFirstCall(m.blocks)
           y == IF calls = <<>> THEN Assistant(m.blocks, m.own) ELSE WithCalls(m.blocks, m.own)
<1>1. /\ calls \in Seq(ClientBlocks) /\ (calls = <<>> <=> ~HasCall(m))
      /\ {calls[i].id : i \in DOMAIN calls} = Calls(m) /\ Calls(m) \subseteq AnyId
  BY CallsIs
<1>2. /\ output' = output \o Deferred \o <<y>>
      /\ pending' = IF held = <<>> THEN NoPending
                    ELSE [ids |-> {calls[i].id : i \in DOMAIN calls} \ {""}, blocks |-> held, own |-> m.own]
  BY DEF ConvertAssistant
<1>3. m.blocks \in Seq(ClientBlocks) /\ m.own \in Seq(Place) /\ mode \in Modes
  BY DEF ClientMessages, ConversionTypes
<1>4. CASE ~HasCall(m)
  <2>1. y = Assistant(m.blocks, m.own) /\ pending' = NoPending
    BY <1>1, <1>2, <1>4
  <2>2. y \in UpstreamMessages /\ y.text = Places(OfKind(m.blocks, ShownKinds))
    BY <1>3, <2>1, AssistantType
  <2>3. OfKind(m.blocks, ShownKinds) = Only(m, Earlier(m)) /\ Only(m, Later(m)) = <<>>
    BY <1>4, UnsplitIs
  <2>4. NoPending \in Holding /\ NoPending.blocks = <<>>
    BY HoldingFields, EmptySeq
  <2>5. OfKind(pending'.blocks, ShownKinds) = Only(m, Later(m))
    BY <2>1, <2>3, <2>4, OfKindNone
  <2> HIDE DEF y
  <2>6. AssistantGives(m, y)
    BY <1>2, <2>1, <2>2, <2>3, <2>4, <2>5 DEF AssistantGives
  <2> QED
    BY <2>6
<1>5. CASE HasCall(m)
  <2> DEFINE f == FirstCall(m.blocks)
             before == SubSeq(m.blocks, 1, f - 1)
  <2>1. /\ before \in Seq(ClientBlocks) /\ OfKind(before, ShownKinds) = Only(m, Earlier(m))
        /\ AfterFirstCall(m.blocks) \in Seq(ClientBlocks)
        /\ OfKind(AfterFirstCall(m.blocks), ShownKinds) = Only(m, Later(m))
    BY <1>5, SplitIs
  <2>2. calls # <<>> /\ y = WithCalls(m.blocks, m.own) /\ held = AfterFirstCall(m.blocks)
    BY <1>1, <1>5
  <2> HIDE DEF before
  <2>3. y \in UpstreamMessages /\ y.text = Places(Only(m, Earlier(m)))
    <3> DEFINE z == Assistant(before, m.own)
               ids == [i \in DOMAIN calls |-> calls[i].id]
    <3>1. z \in UpstreamMessages /\ z.text = Places(Only(m, Earlier(m)))
      BY <1>3, <2>1, AssistantType
    <3>2. ids \in Seq(AnyId)
      <4>1. PICK c \in Seq(ClientBlocks) : c = calls
        BY <1>1
      <4>2. Len(c) \in Nat /\ DOMAIN c = 1..Len(c) /\ \A i \in 1..Len(c) : c[i].id \in AnyId
        <5>1. \A b \in ClientBlocks : b.id \in AnyId
          BY DEF ClientBlocks
        <5> QED
          BY <5>1
      <4>3. ids = [i \in 1..Len(c) |-> c[i].id]
        BY <4>1, <4>2
      <4> HIDE DEF ids
      <4>4. PICK k \in Nat : k = Len(c)
        BY <4>2
      <4>5. ids \in [1..k -> AnyId]
        BY <4>2, <4>3, <4>4
      <4> QED
        BY <4>4, <4>5
    <3>3. y = [z EXCEPT !.calls = ids]
      BY <2>2 DEF WithCalls, before
    <3> HIDE DEF z, ids
    <3> QED
      BY <3>1, <3>2, <3>3 DEF UpstreamMessages
  <2>4. ASSUME held # <<>>
        PROVE  /\ pending' \in Holding /\ pending'.ids = Calls(m) \ {""} /\ pending'.blocks = held
    <3>1. pending' = [ids |-> Calls(m) \ {""}, blocks |-> held, own |-> m.own]
      BY <1>1, <1>2, <2>4
    <3>2. PICK i \in SUBSET AnyId, b \in Seq(ClientBlocks), o \in Seq(Place) : i = Calls(m) \ {""} /\ b = held /\ o = m.own
      BY <1>1, <1>3, <2>1, <2>2
    <3>3. [ids |-> i, blocks |-> b, own |-> o] \in Holding
      BY HoldingFields
    <3> QED
      BY <3>1, <3>2, <3>3
  <2>5. ASSUME held = <<>>
        PROVE  pending' = NoPending /\ pending' \in Holding /\ pending'.blocks = held
    <3>1. NoPending \in Holding /\ NoPending.blocks = <<>>
      BY HoldingFields, EmptySeq
    <3> QED
      BY <1>2, <2>5, <3>1
  <2> HIDE DEF y, held, calls
  <2>6. OfKind(pending'.blocks, ShownKinds) = Only(m, Later(m))
    BY <2>1, <2>2, <2>4, <2>5
  <2>7. AssistantGives(m, y)
    BY <1>2, <1>5, <2>3, <2>4, <2>5, <2>6 DEF AssistantGives
  <2> QED
    BY <2>7
<1> QED
  BY <1>4, <1>5

(* What a string becomes.                                                    *)
StringGives(m, x) ==
    /\ x \in UpstreamMessages /\ Spoken(x.text) = Places(m.blocks)
    /\ output' = output \o (IF m.role = "user" THEN Deferred ELSE <<>>) \o <<x>>
    /\ pending' = IF m.role = "user" THEN NoPending ELSE pending

(* Blocks that have a number are spoken.                                   *)
LEMMA PlacesAt ==
  ASSUME NEW q \in Seq(ClientBlocks), \A i \in DOMAIN q : q[i].at[2] # 0
  PROVE  Spoken(Places(q)) = Places(q)
<1>1. Places(q) \in Seq(Place) /\ \A i \in DOMAIN Places(q) : Places(q)[i] = q[i].at /\ i \in DOMAIN q
  BY PlacesIs DEF Places
<1> QED
  BY <1>1, SpokenFacts

(* Whatever is removed from a message that came numbered, the rest is      *)
(* spoken.                                                                 *)
LEMMA ReceivedPlaces ==
  ASSUME NEW n, NEW m \in ClientMessages, Received(m, n), NEW S
  PROVE  Spoken(Places(Without(m.blocks, S))) = Places(Without(m.blocks, S))
<1>1. m.blocks \in Seq(ClientBlocks)
  BY DEF ClientMessages
<1>2. \A i \in DOMAIN m.blocks : m.blocks[i].at[2] # 0
  <2>1. \A i \in DOMAIN m.blocks : m.blocks[i].at = <<n, i>> /\ i # 0
    BY <1>1 DEF Received
  <2> QED
    BY <2>1
<1>3. PICK w \in Seq(ClientBlocks) : w = Without(m.blocks, S)
  BY <1>1, WithoutIsSeq
<1>4. \A i \in DOMAIN w : \E j \in DOMAIN m.blocks : w[i] = m.blocks[j]
  BY <1>1, <1>3, WithoutIsSeq
<1>5. \A i \in DOMAIN w : w[i].at[2] # 0
  BY <1>2, <1>4
<1> QED
  BY <1>3, <1>5, PlacesAt

(* The step of a string.                                                   *)
LEMMA StringStep ==
  ASSUME ConversionTypes, NEW n \in Nat, NEW m \in ClientMessages, Received(m, n), ConvertString(m)
  PROVE  \E x : StringGives(m, x)
<1> DEFINE own == IF m.role = "assistant" THEN m.own ELSE <<>>
           shown == IF mode = "think_tags" THEN own ELSE <<>>
           x == Message(m.role, shown \o Places(m.blocks), <<>>, IF mode = "reasoning_content" THEN own ELSE <<>>)
<1>1. m.blocks \in Seq(ClientBlocks) /\ m.own \in Seq(Place) /\ m.role \in {"user", "assistant"}
  BY DEF ClientMessages
<1>2. own \in Seq(Place) /\ shown \in Seq(Place) /\ Places(m.blocks) \in Seq(Place) /\ <<>> \in Seq(AnyId) /\ <<>> \in Seq(Place)
  BY <1>1, PlacesIs, EmptySeq
<1>3. shown \o Places(m.blocks) \in Seq(Place)
  BY <1>2, ConcatProperties
<1>4. x \in UpstreamMessages /\ x.text = shown \o Places(m.blocks)
  <2>1. PICK t \in Seq(Place), c \in Seq(AnyId), r \in Seq(Place), role \in {"user", "assistant", "tool", "system"} :
             /\ t = shown \o Places(m.blocks) /\ c = <<>> /\ role = m.role
             /\ r = IF mode = "reasoning_content" THEN own ELSE <<>>
    BY <1>1, <1>2, <1>3
  <2>2. Message(role, t, c, r) \in UpstreamMessages /\ Message(role, t, c, r).text = t
    BY UpstreamFields
  <2> QED
    BY <2>1, <2>2
<1>5. Spoken(shown) = <<>>
  <2>1. shown = <<>> \/ shown = <<<<n, 0>>>>
    BY DEF Received
  <2>2. CASE shown = <<>>
    BY <2>2, WithoutNone DEF Spoken
  <2>3. CASE shown = <<<<n, 0>>>>
    <3>1. \A i \in DOMAIN shown : shown[i] \in Nat \X {0}
      BY <2>3
    <3> HIDE DEF shown
    <3> QED
      BY <1>2, <3>1, WithoutEmpty DEF Spoken
  <2> QED
    BY <2>1, <2>2, <2>3
<1>6. Spoken(Places(m.blocks)) = Places(m.blocks)
  <2>1. Without(m.blocks, {}) = m.blocks
    BY <1>1, WithoutNothing
  <2> QED
    BY <2>1, ReceivedPlaces
<1>7. Spoken(shown \o Places(m.blocks)) = Places(m.blocks)
  <2>1. PICK a, b \in Seq(Place) : a = shown /\ b = Places(m.blocks)
    BY <1>2
  <2>2. Spoken(a \o b) = Spoken(a) \o Spoken(b)
    BY WithoutConcat DEF Spoken
  <2>3. <<>> \o b = b
    BY ConcatEmptySeq
  <2> QED
    BY <1>5, <1>6, <2>1, <2>2, <2>3
<1>8. /\ output' = output \o (IF m.role = "user" THEN Deferred ELSE <<>>) \o <<x>>
      /\ pending' = IF m.role = "user" THEN NoPending ELSE pending
  BY DEF ConvertString
<1> HIDE DEF x, own, shown
<1>9. StringGives(m, x)
  BY <1>4, <1>7, <1>8 DEF StringGives
<1> QED
  BY <1>9

(* What a user's list becomes.                                               *)
Injecting == Held /\ pending.ids # {}
Beginning == [out |-> IF Injecting THEN <<>> ELSE Deferred, texts |-> <<>>, ids |-> pending.ids, injecting |-> Injecting]
UserGives(m, f) ==
    /\ IsReplay(f, Beginning, m.blocks)
    /\ LET end == f[Len(m.blocks)]
       IN  /\ output' = output \o end.out \o Flush(end.texts)
           /\ pending' = IF Injecting /\ end.ids # {} THEN [pending EXCEPT !.ids = end.ids] ELSE NoPending

(* What the loop over a user's blocks begins with.                         *)
LEMMA BeginningType ==
  ASSUME mode \in Modes, pending \in Holding
  PROVE  /\ Beginning \in Folding
         /\ Beginning.out = IF Injecting THEN <<>> ELSE Deferred
         /\ Beginning.texts = <<>> /\ Beginning.ids = pending.ids /\ Beginning.injecting = Injecting
<1>1. Deferred \in Seq(UpstreamMessages) /\ <<>> \in Seq(UpstreamMessages) /\ <<>> \in Seq(Place)
  BY DeferredType, EmptySeq
<1>2. pending.ids \in SUBSET AnyId
  BY DEF Holding
<1>3. Injecting \in BOOLEAN
  BY DEF Injecting, Held
<1>4. PICK t \in BOOLEAN : t = Injecting
  BY <1>3
<1>5. PICK o \in Seq(UpstreamMessages) : o = IF Injecting THEN <<>> ELSE Deferred
  BY <1>1
<1>6. Beginning = [out |-> o, texts |-> <<>>, ids |-> pending.ids, injecting |-> t]
  BY <1>4, <1>5 DEF Beginning
<1>7. Beginning \in Folding
  BY <1>1, <1>2, <1>6 DEF Folding
<1> QED
  BY <1>4, <1>5, <1>6, <1>7

(* The step of a user's list, in terms of the loop over its blocks.        *)
LEMMA UserStep ==
  ASSUME ConversionTypes, NEW n, NEW m \in ClientMessages, Received(m, n), ConvertUser(m)
  PROVE  m.role = "user" /\ \E f : UserGives(m, f)
<1>1. m.blocks \in Seq(ClientBlocks) /\ mode \in Modes /\ pending \in Holding
  BY DEF ClientMessages, ConversionTypes
<1>2. Beginning \in Folding
  BY <1>1, BeginningType
<1>3. PICK f : IsReplay(f, Beginning, m.blocks)
  BY <1>1, <1>2, AfterBlocksLoop
<1>4. AfterBlocks(Beginning, m.blocks) = f[Len(m.blocks)]
  BY <1>3 DEF IsReplay
<1>5. LET end == AfterBlocks(Beginning, m.blocks)
      IN  /\ m.role = "user"
          /\ output' = output \o end.out \o Flush(end.texts)
          /\ pending' = IF Injecting /\ end.ids # {} THEN [pending EXCEPT !.ids = end.ids] ELSE NoPending
  BY DEF ConvertUser, Beginning, Injecting
<1>6. UserGives(m, f)
  BY <1>3, <1>4, <1>5 DEF UserGives
<1> QED
  BY <1>5, <1>6

(* An assistant's message keeps the types.                                   *)
LEMMA AssistantTypes ==
  ASSUME ConversionTypes, NEW m, NEW x, AssistantGives(m, x)
  PROVE  output' \in Seq(UpstreamMessages) /\ pending' \in Holding
<1>1. Deferred \in Seq(UpstreamMessages)
  BY DeferredType DEF ConversionTypes
<1>2. x \in UpstreamMessages /\ <<x>> \in Seq(UpstreamMessages)
  BY ToldOne DEF AssistantGives
<1>3. output \o Deferred \in Seq(UpstreamMessages)
  BY <1>1, ToldConcat DEF ConversionTypes
<1>4. (output \o Deferred) \o <<x>> \in Seq(UpstreamMessages)
  BY <1>2, <1>3, ToldConcat
<1> QED
  BY <1>4 DEF AssistantGives

(* So does a string.                                                         *)
LEMMA StringTypes ==
  ASSUME ConversionTypes, NEW m, NEW x, StringGives(m, x)
  PROVE  output' \in Seq(UpstreamMessages) /\ pending' \in Holding
<1>1. Deferred \in Seq(UpstreamMessages) /\ <<>> \in Seq(UpstreamMessages) /\ NoPending \in Holding
  <2>1. <<>> \in Seq(UpstreamMessages) /\ Deferred \in Seq(UpstreamMessages)
    BY DeferredType, EmptySeq DEF ConversionTypes
  <2>2. \E ids \in SUBSET AnyId, blocks \in Seq(ClientBlocks), own \in Seq(Place) : TRUE
    BY EmptySeq
  <2> QED
    BY <2>1, <2>2, HoldingFields
<1>2. x \in UpstreamMessages /\ <<x>> \in Seq(UpstreamMessages)
  BY ToldOne DEF StringGives
<1>3. PICK d \in Seq(UpstreamMessages) : d = IF m.role = "user" THEN Deferred ELSE <<>>
  BY <1>1
<1>4. output \o d \in Seq(UpstreamMessages)
  BY ToldConcat DEF ConversionTypes
<1>5. (output \o d) \o <<x>> \in Seq(UpstreamMessages)
  BY <1>2, <1>4, ToldConcat
<1> QED
  BY <1>1, <1>3, <1>5 DEF StringGives, ConversionTypes

(* So does a user's list.                                                    *)
LEMMA UserTypes ==
  ASSUME ConversionTypes, NEW m, m \in ClientMessages, NEW f, UserGives(m, f)
  PROVE  output' \in Seq(UpstreamMessages) /\ pending' \in Holding /\ f[Len(m.blocks)] \in Folding
<1>1. m.blocks \in Seq(ClientBlocks) /\ Len(m.blocks) \in Nat
  BY DEF ClientMessages
<1>2. f[Len(m.blocks)] \in Folding
  BY <1>1 DEF UserGives, IsReplay
<1>3. PICK end \in Folding : end = f[Len(m.blocks)]
  BY <1>2
<1>4. end.out \in Seq(UpstreamMessages) /\ end.texts \in Seq(Place) /\ end.ids \in SUBSET AnyId
  BY DEF Folding
<1>5. output \o end.out \in Seq(UpstreamMessages) /\ Flush(end.texts) \in Seq(UpstreamMessages)
  BY <1>4, ToldConcat, FlushType DEF ConversionTypes
<1>6. (output \o end.out) \o Flush(end.texts) \in Seq(UpstreamMessages)
  BY <1>5, ToldConcat
<1>7. output' \in Seq(UpstreamMessages)
  BY <1>3, <1>6 DEF UserGives
<1>8. pending' \in Holding
  <2>1. pending' = [pending EXCEPT !.ids = end.ids] \/ pending' = NoPending
    BY <1>3 DEF UserGives
  <2>2. [pending EXCEPT !.ids = end.ids] \in Holding
    BY <1>4 DEF ConversionTypes, Holding
  <2>3. \E ids \in SUBSET AnyId, blocks \in Seq(ClientBlocks), own \in Seq(Place) : TRUE
    BY EmptySeq
  <2> QED
    BY <2>1, <2>2, <2>3, HoldingFields
<1> QED
  BY <1>2, <1>7, <1>8

(* One of the three ways a message is taken, or the error.                   *)
Taken(m, n) ==
    /\ m \in ClientMessages /\ Received(m, n)
    /\ phase = "converting" /\ mode' = mode /\ input' = Append(input, m)
    /\ \/ phase' = "refused" /\ UNCHANGED <<output, pending>>
       \/ phase' = phase /\ m.role = "assistant" /\ \E x : AssistantGives(m, x)
       \/ phase' = phase /\ m.form = "string" /\ \E x : StringGives(m, x)
       \/ phase' = phase /\ m.role = "user" /\ \E f : UserGives(m, f)

(* Every turn of the loop takes a message, and refuses it or does one of   *)
(* the three steps.                                                        *)
LEMMA ConvertGives ==
  ASSUME ConversionTypes, NEW msg \in MessageSet, Convert(msg)
  PROVE  \E m : Taken(m, Len(input) + 1)
<1>1. PICK m \in ClientMessages :
            /\ Received(m, Len(input) + 1)
            /\ phase = "converting" /\ mode' = mode /\ input' = Append(input, m)
            /\ \/ phase' = "refused" /\ UNCHANGED <<output, pending>>
               \/ phase' = phase /\ (ConvertAssistant(m) \/ ConvertString(m) \/ ConvertUser(m))
  BY ConvertIs
<1>2. PICK n \in Nat : n = Len(input) + 1
  BY DEF ConversionTypes
<1>3. CASE ConvertAssistant(m)
  <2>1. \E x : AssistantGives(m, x)
    BY <1>1, <1>2, <1>3, AssistantStep
  <2>2. m.role = "assistant"
    BY <1>3 DEF ConvertAssistant
  <2> QED
    BY <1>1, <1>2, <2>1, <2>2 DEF Taken
<1>4. CASE ConvertString(m)
  <2>1. \E x : StringGives(m, x)
    BY <1>1, <1>2, <1>4, StringStep
  <2>2. m.form = "string"
    BY <1>4 DEF ConvertString
  <2> QED
    BY <1>1, <1>2, <2>1, <2>2 DEF Taken
<1>5. CASE ConvertUser(m)
  <2>1. m.role = "user" /\ \E f : UserGives(m, f)
    BY <1>1, <1>2, <1>5, UserStep
  <2> QED
    BY <1>1, <1>2, <2>1 DEF Taken
<1>6. CASE phase' = "refused" /\ UNCHANGED <<output, pending>>
  BY <1>1, <1>6 DEF Taken
<1> QED
  BY <1>1, <1>3, <1>4, <1>5, <1>6

(* The end of the conversation.                                              *)
LEMMA FinishGives ==
  ASSUME ConversionTypes, Finish
  PROVE  /\ output' = output \o Deferred /\ output' \in Seq(UpstreamMessages)
         /\ phase' = "done" /\ phase = "converting" /\ UNCHANGED <<mode, input, pending>>
<1>1. Deferred \in Seq(UpstreamMessages)
  BY DeferredType DEF ConversionTypes
<1>2. output \o Deferred \in Seq(UpstreamMessages)
  BY <1>1, ToldConcat DEF ConversionTypes
<1> QED
  BY <1>2 DEF Finish

(* The types hold at first.                                                *)
LEMMA TypesAtFirst == ConversionInit => ConversionTypes
<1> SUFFICES ASSUME ConversionInit PROVE ConversionTypes
  OBVIOUS
<1>1. <<>> \in Seq(ClientMessages) /\ <<>> \in Seq(UpstreamMessages)
  BY EmptySeq
<1>2. \E ids \in SUBSET AnyId, blocks \in Seq(ClientBlocks), own \in Seq(Place) : TRUE
  BY EmptySeq
<1>3. NoPending \in Holding
  BY <1>2, HoldingFields
<1> QED
  BY <1>1, <1>3 DEF ConversionInit, ConversionTypes

(* They hold after any message.                                            *)
LEMMA TakenTypes ==
  ASSUME ConversionTypes, NEW m, NEW n, Taken(m, n)
  PROVE  ConversionTypes'
<1>1. input' \in Seq(ClientMessages) /\ mode' \in Modes /\ phase' \in {"converting", "done", "refused"}
  BY AppendProperties DEF ConversionTypes, Taken
<1>2. output' \in Seq(UpstreamMessages) /\ pending' \in Holding
  <2>1. CASE UNCHANGED <<output, pending>>
    BY <2>1 DEF ConversionTypes
  <2>2. ASSUME NEW x, AssistantGives(m, x)
        PROVE  output' \in Seq(UpstreamMessages) /\ pending' \in Holding
    BY <2>2, AssistantTypes
  <2>3. ASSUME NEW x, StringGives(m, x)
        PROVE  output' \in Seq(UpstreamMessages) /\ pending' \in Holding
    BY <2>3, StringTypes
  <2>4. ASSUME NEW f, UserGives(m, f)
        PROVE  output' \in Seq(UpstreamMessages) /\ pending' \in Holding
    BY <2>4, UserTypes DEF Taken
  <2> QED
    BY <2>1, <2>2, <2>3, <2>4 DEF Taken
<1> QED
  BY <1>1, <1>2 DEF ConversionTypes

(* And so after any step.                                                  *)
LEMMA TypesStay == ConversionTypes /\ [ConversionNext]_conversionVars => ConversionTypes'
<1> SUFFICES ASSUME ConversionTypes, [ConversionNext]_conversionVars PROVE ConversionTypes'
  OBVIOUS
<1>1. ASSUME NEW msg \in MessageSet, Convert(msg)
      PROVE  ConversionTypes'
  <2>1. PICK m : Taken(m, Len(input) + 1)
    BY <1>1, ConvertGives
  <2> QED
    BY <2>1, TakenTypes
<1>2. CASE Finish
  BY <1>2, FinishGives DEF ConversionTypes
<1>3. CASE UNCHANGED conversionVars
  BY <1>3 DEF conversionVars, ConversionTypes
<1> QED
  BY <1>1, <1>2, <1>3 DEF ConversionNext

-----------------------------------------------------------------------------
(* NVIDIA NIM: what is sent of the conversation, and what a retry leaves   *)
(* out.                                                                    *)

Numbers(n) == [i \in 1..n |-> i]
TakenIn(messages) == {i \in 1..Len(messages) : i > 1 /\ UserAfterTool(messages, i - 1)}
Left(messages) == Without(Numbers(Len(messages)), TakenIn(messages))
Making(messages) == [i \in 1..Len(messages) |-> MergedMessage(messages, i)]
Remade(messages) == Image(Making(messages), Left(messages))

(* The positions that are left after one more message.                       *)
LEMMA LeftAppend ==
  ASSUME NEW ms \in Seq(UpstreamMessages), NEW x \in UpstreamMessages, NEW n \in Nat, n = Len(ms)
  PROVE  /\ Left(ms) \in Seq(1..n)
         /\ Left(Append(ms, x)) = IF n > 0 /\ UserAfterTool(Append(ms, x), n) THEN Left(ms) ELSE Append(Left(ms), n + 1)
<1> DEFINE all == Append(ms, x)
<1>1. all \in Seq(UpstreamMessages) /\ Len(all) = n + 1 /\ \A i \in 1..n : all[i] = ms[i]
  BY AppendProperties
<1>2. Numbers(n) \in Seq(1..n) /\ Numbers(n) \in Seq(1..n + 1) /\ DOMAIN Numbers(n) = 1..n /\ Len(Numbers(n)) = n
  BY DEF Numbers
<1>3. Numbers(n + 1) = Append(Numbers(n), n + 1)
  <2>1. Numbers(n + 1) = [i \in 1..n + 1 |-> i]
    BY DEF Numbers
  <2>2. \A i \in 1..n : Numbers(n)[i] = i
    BY DEF Numbers
  <2>3. PICK q \in Seq(1..n + 1) : q = Numbers(n)
    BY <1>2
  <2>4. n + 1 \in 1..n + 1
    OBVIOUS
  <2>5. Append(q, n + 1) \in Seq(1..n + 1) /\ Len(Append(q, n + 1)) = n + 1 /\ \A i \in 1..n + 1 : Append(q, n + 1)[i] = i
    <3>1. Append(q, n + 1) \in Seq(1..n + 1) /\ Len(Append(q, n + 1)) = n + 1
      BY <1>2, <2>3, <2>4, AppendProperties
    <3>2. Append(q, n + 1)[n + 1] = n + 1 /\ \A i \in 1..n : Append(q, n + 1)[i] = q[i]
      BY <1>2, <2>3, <2>4, AppendProperties
    <3> QED
      BY <2>2, <2>3, <3>1, <3>2
  <2> QED
    BY <2>1, <2>3, <2>5
<1>4. Left(ms) \in Seq(1..n)
  BY <1>2, WithoutIsSeq DEF Left
<1>5. \A i \in 1..n : i \in TakenIn(all) <=> i \in TakenIn(ms)
  <2> SUFFICES ASSUME NEW i \in 1..n PROVE i \in TakenIn(all) <=> i \in TakenIn(ms)
    OBVIOUS
  <2>1. CASE i > 1
    <3>1. PICK j \in 1..n : j = i - 1 /\ j < n /\ j + 1 = i
      BY <2>1
    <3>2. all[j] = ms[j] /\ all[j + 1] = ms[j + 1]
      BY <1>1, <3>1
    <3>3. UserAfterTool(all, j) <=> UserAfterTool(ms, j)
      BY <1>1, <3>1, <3>2 DEF UserAfterTool
    <3> QED
      BY <1>1, <3>1, <3>3, <2>1 DEF TakenIn
  <2> QED
    BY <2>1 DEF TakenIn
<1>6. n + 1 \in TakenIn(all) <=> n > 0 /\ UserAfterTool(all, n)
  BY <1>1 DEF TakenIn
<1> HIDE DEF all
<1>7. Without(Numbers(n), TakenIn(all)) = Left(ms)
  <2>1. \A i \in DOMAIN Numbers(n) : Numbers(n)[i] \in TakenIn(all) <=> Numbers(n)[i] \in TakenIn(ms)
    BY <1>2, <1>5 DEF Numbers
  <2> QED
    BY <2>1, WithoutSame DEF Left
<1>8. Left(all) = Without(Append(Numbers(n), n + 1), TakenIn(all))
  BY <1>1, <1>3 DEF Left
<1>9. PICK q \in Seq(1..n + 1), k \in 1..n + 1 : q = Numbers(n) /\ k = n + 1
  BY <1>2
<1>10. Without(Append(q, k), TakenIn(all)) = IF k \in TakenIn(all) THEN Without(q, TakenIn(all)) ELSE Append(Without(q, TakenIn(all)), k)
  BY WithoutAppend
<1> QED
  BY <1>4, <1>6, <1>7, <1>8, <1>9, <1>10 DEF all

(* What a message becomes with one more message after it.                    *)
LEMMA MergedAppend ==
  ASSUME NEW ms \in Seq(UpstreamMessages), NEW x \in UpstreamMessages, NEW n \in Nat, n = Len(ms)
  PROVE  /\ \A i \in 1..n - 1 : MergedMessage(Append(ms, x), i) = MergedMessage(ms, i)
         /\ n > 0 /\ ~UserAfterTool(Append(ms, x), n) => MergedMessage(Append(ms, x), n) = MergedMessage(ms, n)
<1> DEFINE all == Append(ms, x)
<1>1. all \in Seq(UpstreamMessages) /\ Len(all) = n + 1 /\ \A i \in 1..n : all[i] = ms[i]
  BY AppendProperties
<1> HIDE DEF all
<1>2. \A i \in 1..n - 1 : all[i] = ms[i] /\ all[i + 1] = ms[i + 1]
  BY <1>1
<1>3. \A i \in 1..n - 1 : UserAfterTool(all, i) <=> UserAfterTool(ms, i)
  BY <1>1, <1>2 DEF UserAfterTool
<1>4. \A i \in 1..n - 1 : MergedMessage(all, i) = MergedMessage(ms, i)
  <2> SUFFICES ASSUME NEW i \in 1..n - 1 PROVE MergedMessage(all, i) = MergedMessage(ms, i)
    OBVIOUS
  <2>1. (\E j \in 1..i : UserAfterTool(all, j)) <=> (\E j \in 1..i : UserAfterTool(ms, j))
    BY <1>3
  <2> QED
    BY <1>2, <1>3, <2>1 DEF MergedMessage
<1>5. ASSUME n > 0, ~UserAfterTool(all, n)
      PROVE  MergedMessage(all, n) = MergedMessage(ms, n)
  <2>1. ~UserAfterTool(ms, n)
    BY DEF UserAfterTool
  <2>2. all[n] = ms[n]
    BY <1>1, <1>5
  <2>3. \A j \in 1..n : UserAfterTool(all, j) <=> UserAfterTool(ms, j)
    <3>1. \A j \in 1..n : j = n \/ j \in 1..n - 1
      OBVIOUS
    <3> QED
      BY <1>3, <1>5, <2>1, <3>1
  <2>4. (\E j \in 1..n : UserAfterTool(all, j)) <=> (\E j \in 1..n : UserAfterTool(ms, j))
    BY <2>3
  <2> QED
    BY <1>5, <2>1, <2>2, <2>4 DEF MergedMessage
<1> QED
  BY <1>4, <1>5 DEF all

(* A message that takes nothing in has its role and its text still.          *)
LEMMA MergedKeeps ==
  ASSUME NEW ms \in Seq(UpstreamMessages), NEW i \in 1..Len(ms)
  PROVE  /\ MergedMessage(ms, i) \in UpstreamMessages
         /\ ~UserAfterTool(ms, i) =>
               /\ MergedMessage(ms, i).role = ms[i].role /\ MergedMessage(ms, i).text = ms[i].text
               /\ ms[i].role # "assistant" => MergedMessage(ms, i) = ms[i]
         /\ UserAfterTool(ms, i) =>
               /\ MergedMessage(ms, i).role = "user"
               /\ MergedMessage(ms, i).text = ms[i + 1].text \o ms[i].text
<1>1. PICK m \in UpstreamMessages : m = ms[i]
  OBVIOUS
<1>2. CASE UserAfterTool(ms, i)
  <2>1. PICK u \in UpstreamMessages : u = ms[i + 1] /\ u.role = "user"
    BY <1>2 DEF UserAfterTool
  <2>2. u.text \in Seq(Place) /\ m.text \in Seq(Place)
    BY DEF UpstreamMessages
  <2>3. PICK t \in Seq(Place) : t = u.text \o m.text
    BY <2>2, ConcatProperties
  <2>4. MergedMessage(ms, i) = [u EXCEPT !.text = t]
    BY <1>1, <1>2, <2>1, <2>3 DEF MergedMessage
  <2>5. [u EXCEPT !.text = t] \in UpstreamMessages /\ [u EXCEPT !.text = t].text = t /\ [u EXCEPT !.text = t].role = u.role
    BY DEF UpstreamMessages
  <2> QED
    BY <1>1, <1>2, <2>1, <2>3, <2>4, <2>5
<1>3. CASE ~UserAfterTool(ms, i)
  <2>1. MergedMessage(ms, i) = m \/ (m.role = "assistant" /\ MergedMessage(ms, i) = [m EXCEPT !.calls = <<>>])
    BY <1>1, <1>3 DEF MergedMessage
  <2>2. <<>> \in Seq(AnyId)
    BY EmptySeq
  <2>3. PICK c \in Seq(AnyId) : c = <<>>
    BY <2>2
  <2>4. [m EXCEPT !.calls = c] \in UpstreamMessages /\ [m EXCEPT !.calls = c].role = m.role /\ [m EXCEPT !.calls = c].text = m.text
    BY DEF UpstreamMessages
  <2> QED
    BY <1>1, <1>3, <2>1, <2>3, <2>4
<1> QED
  BY <1>2, <1>3

Several(messages) == \E i \in 2..Len(messages) : UserAfterTool(messages, i) /\ messages[i - 1].role = "tool"

(* The result at the end is still open to the next message: what is before   *)
(* it stays as it is.                                                        *)
EndsWithResult(ms, F) ==
    /\ F \in Seq(UpstreamMessages) /\ Remade(ms) = Append(F, ms[Len(ms)])
    /\ F # <<>> => Len(ms) > 1 /\ F[Len(F)].role = ms[Len(ms) - 1].role

RemadeWell(ms) ==
    /\ Remade(ms) \in Seq(UpstreamMessages)
    /\ Len(ms) = 0 => Remade(ms) = <<>>
    /\ Len(ms) > 0 => Remade(ms) # <<>> /\ Remade(ms)[Len(Remade(ms))].role = ms[Len(ms)].role
    /\ Len(ms) > 0 /\ ms[Len(ms)].role = "tool" => \E F : EndsWithResult(ms, F)
    /\ \A p : Count(p, Told(Remade(ms))) = Count(p, Told(ms))
    /\ \A k \in DOMAIN Remade(ms) : UserAfterTool(Remade(ms), k) => Several(ms)

(* One more message that is not taken in.                                    *)
LEMMA RemadeLonger ==
  ASSUME NEW ms \in Seq(UpstreamMessages), RemadeWell(ms), NEW x \in UpstreamMessages,
         ~(Len(ms) > 0 /\ UserAfterTool(Append(ms, x), Len(ms)))
  PROVE  RemadeWell(Append(ms, x))
<1> DEFINE all == Append(ms, x)
<1>1. PICK n \in Nat : n = Len(ms)
  OBVIOUS
<1>2. /\ all \in Seq(UpstreamMessages) /\ Len(all) = n + 1 /\ all[n + 1] = x
      /\ \A i \in 1..n : all[i] = ms[i]
  BY <1>1, AppendProperties
<1>3. Left(ms) \in Seq(1..n) /\ Left(all) = Append(Left(ms), n + 1)
  BY <1>1, LeftAppend
<1> HIDE DEF all
<1>4. PICK L \in Seq(1..n) : L = Left(ms)
  BY <1>3
<1>5. Making(all) \in Maps(1..n + 1, UpstreamMessages)
  BY <1>2, MergedKeeps DEF Making, Maps
<1>6. PICK f \in Maps(1..n + 1, UpstreamMessages) : f = Making(all)
  BY <1>5
<1>7. L \in Seq(1..n + 1) /\ n + 1 \in 1..n + 1
  <2>1. Len(L) \in Nat /\ L \in [1..Len(L) -> 1..n + 1]
    OBVIOUS
  <2> QED
    BY <2>1
<1>8. Remade(all) = Append(Image(f, L), f[n + 1])
  <2>1. PICK k \in 1..n + 1 : k = n + 1
    BY <1>7
  <2>2. Image(f, Append(L, k)) = Append(Image(f, L), f[k])
    BY <1>7, ImageAppend
  <2> QED
    BY <1>3, <1>4, <1>6, <2>1, <2>2 DEF Remade
<1>9. Image(f, L) = Remade(ms)
  <2>1. \A i \in 1..n : f[i] = Making(ms)[i]
    <3> SUFFICES ASSUME NEW i \in 1..n PROVE f[i] = Making(ms)[i]
      OBVIOUS
    <3>1. f[i] = MergedMessage(all, i) /\ Making(ms)[i] = MergedMessage(ms, i)
      BY <1>1, <1>2, <1>6 DEF Making
    <3>2. i \in 1..n - 1 \/ i = n
      OBVIOUS
    <3>3. i \in 1..n - 1 => MergedMessage(all, i) = MergedMessage(ms, i)
      BY <1>1, MergedAppend DEF all
    <3>4. i = n => MergedMessage(all, i) = MergedMessage(ms, i)
      BY <1>1, MergedAppend DEF all
    <3> QED
      BY <3>1, <3>2, <3>3, <3>4
  <2>2. \A k \in DOMAIN L : L[k] \in 1..n
    OBVIOUS
  <2> QED
    BY <1>4, <2>1, <2>2 DEF Remade, Image
<1>10. PICK y \in UpstreamMessages :
          /\ y = f[n + 1] /\ y.role = x.role /\ y.text = x.text /\ (x.role # "assistant" => y = x)
  <2>1. f[n + 1] = MergedMessage(all, n + 1)
    BY <1>2, <1>6 DEF Making
  <2>2. ~UserAfterTool(all, n + 1)
    BY <1>2 DEF UserAfterTool
  <2>3. PICK k \in 1..Len(all) : k = n + 1
    BY <1>2
  <2>4. /\ MergedMessage(all, k) \in UpstreamMessages
        /\ MergedMessage(all, k).role = all[k].role /\ MergedMessage(all, k).text = all[k].text
        /\ all[k].role # "assistant" => MergedMessage(all, k) = all[k]
    BY <1>2, <2>2, <2>3, MergedKeeps
  <2> QED
    BY <1>2, <2>1, <2>3, <2>4
<1>11. PICK M \in Seq(UpstreamMessages) : M = Remade(ms)
  BY DEF RemadeWell
<1>12. Remade(all) = Append(M, y)
  BY <1>8, <1>9, <1>10, <1>11
<1>13. /\ Append(M, y) \in Seq(UpstreamMessages) /\ Len(Append(M, y)) = Len(M) + 1 /\ Append(M, y)[Len(M) + 1] = y
       /\ \A i \in 1..Len(M) : Append(M, y)[i] = M[i]
  BY AppendProperties
<1>14. Remade(all) # <<>> /\ Remade(all)[Len(Remade(all))].role = all[Len(all)].role
  <2>1. Len(M) + 1 # 0 /\ Len(Append(M, y)) # 0
    BY <1>13
  <2>2. Append(M, y) # <<>>
    BY <2>1, EmptySeq
  <2>3. PICK k \in Nat : k = Len(M) + 1
    OBVIOUS
  <2>4. Append(M, y)[k].role = all[n + 1].role
    BY <1>2, <1>10, <1>13, <2>3
  <2> QED
    BY <1>2, <1>12, <1>13, <2>2, <2>3, <2>4
<1>15. ASSUME x.role = "tool"
       PROVE  EndsWithResult(all, M)
  <2>1. y = x
    BY <1>10, <1>15
  <2>2. M # <<>> => n > 0 /\ M[Len(M)].role = ms[n].role
    BY <1>1, <1>11 DEF RemadeWell
  <2>3. n > 0 => all[n] = ms[n] /\ Len(all) - 1 = n
    BY <1>2
  <2> QED
    BY <1>2, <1>12, <2>1, <2>2, <2>3 DEF EndsWithResult
<1>16. \A p : Count(p, Told(Remade(all))) = Count(p, Told(all))
  <2> SUFFICES ASSUME NEW p PROVE Count(p, Told(Remade(all))) = Count(p, Told(all))
    OBVIOUS
  <2>1. Told(Append(M, y)) = Told(M) \o Spoken(x.text) /\ Told(all) = Told(ms) \o Spoken(x.text)
    BY <1>10, ToldAppend DEF all
  <2>2. PICK a \in Seq(Place), b \in Seq(Place), c \in Seq(Place) : a = Told(M) /\ b = Told(ms) /\ c = Spoken(x.text)
    <3>1. x.text \in Seq(Place)
      BY DEF UpstreamMessages
    <3> QED
      BY <3>1, ToldIs, SpokenFacts
  <2>3. Count(p, a \o c) = Count(p, a) + Count(p, c) /\ Count(p, b \o c) = Count(p, b) + Count(p, c)
    BY CountConcat
  <2>4. Count(p, a) = Count(p, b)
    BY <1>11, <2>2 DEF RemadeWell
  <2> QED
    BY <1>12, <2>1, <2>2, <2>3, <2>4
<1>17. ASSUME NEW k \in DOMAIN Remade(all), UserAfterTool(Remade(all), k)
       PROVE  Several(all)
  <2>1. k \in 1..Len(M) /\ M[k].role = "tool" /\ Append(M, y)[k + 1].role = "user"
    <3>1. k < Len(M) + 1 /\ k \in 1..Len(M) + 1
      BY <1>12, <1>13, <1>17 DEF UserAfterTool
    <3>2. k \in 1..Len(M)
      BY <3>1
    <3> QED
      BY <1>12, <1>13, <1>17, <3>2 DEF UserAfterTool
  <2>2. CASE k < Len(M)
    <3>1. Append(M, y)[k + 1] = M[k + 1]
      BY <1>13, <2>1, <2>2
    <3>2. UserAfterTool(M, k) /\ k \in DOMAIN M
      BY <2>1, <2>2, <3>1 DEF UserAfterTool
    <3>3. Several(ms)
      BY <1>11, <3>2 DEF RemadeWell
    <3>4. PICK i \in 2..n : UserAfterTool(ms, i) /\ ms[i - 1].role = "tool"
      BY <1>1, <3>3 DEF Several
    <3>5. i < n
      BY <1>1, <3>4 DEF UserAfterTool
    <3>6. all[i] = ms[i] /\ all[i + 1] = ms[i + 1] /\ all[i - 1] = ms[i - 1]
      BY <1>2, <3>5
    <3> QED
      BY <1>1, <1>2, <3>4, <3>5, <3>6 DEF Several, UserAfterTool
  <2>3. CASE k = Len(M)
    <3>1. M # <<>>
      BY <2>1
    <3>2. n > 0 /\ ms[n].role = "tool"
      BY <1>1, <1>11, <2>1, <2>3, <3>1 DEF RemadeWell
    <3>3. x.role = "user"
      BY <1>10, <1>13, <2>1, <2>3
    <3>4. UserAfterTool(all, n)
      BY <1>2, <3>2, <3>3 DEF UserAfterTool
    <3> QED
      BY <1>1, <3>2, <3>4 DEF all
  <2> QED
    BY <2>1, <2>2, <2>3
<1>18. all[Len(all)] = x /\ Len(all) # 0
  BY <1>2
<1>19. Remade(all) \in Seq(UpstreamMessages)
  BY <1>12, <1>13
<1>20. RemadeWell(all)
  BY <1>14, <1>15, <1>16, <1>17, <1>18, <1>19 DEF RemadeWell
<1> QED
  BY <1>20 DEF all

(* One more message, which the result before it takes in.                    *)
LEMMA RemadeTakesIn ==
  ASSUME NEW ms \in Seq(UpstreamMessages), RemadeWell(ms), NEW x \in UpstreamMessages,
         Len(ms) > 0, UserAfterTool(Append(ms, x), Len(ms))
  PROVE  RemadeWell(Append(ms, x))
<1> DEFINE all == Append(ms, x)
<1>1. PICK n \in Nat : n = Len(ms) /\ n > 0
  OBVIOUS
<1>2. /\ all \in Seq(UpstreamMessages) /\ Len(all) = n + 1 /\ all[n + 1] = x
      /\ \A i \in 1..n : all[i] = ms[i]
  BY <1>1, AppendProperties
<1>3. Left(all) = Left(ms)
  BY <1>1, LeftAppend
<1> HIDE DEF all
<1>4. UserAfterTool(all, n)
  BY <1>1 DEF all
<1>5. ms[n].role = "tool" /\ x.role = "user"
  BY <1>1, <1>2, <1>4 DEF UserAfterTool
<1>6. PICK F : EndsWithResult(ms, F)
  BY <1>1, <1>5 DEF RemadeWell
<1>7. \E L \in Seq(1..n - 1) : Left(ms) = Append(L, n)
  <2> DEFINE front == SubSeq(ms, 1, n - 1)
  <2>1. front \in Seq(UpstreamMessages) /\ Len(front) = n - 1 /\ ms = Append(front, ms[n]) /\ ms[n] \in UpstreamMessages
    <3>1. ms # <<>>
      BY <1>1
    <3>2. front \in Seq(UpstreamMessages) /\ Len(front) = n - 1
      BY <1>1, SubSeqProperties
    <3>3. \A i \in 1..n - 1 : front[i] = ms[i]
      BY <1>1, SubSeqProperties
    <3>4. ms[n] \in UpstreamMessages
      BY <1>1
    <3> HIDE DEF front
    <3>5. PICK z \in Seq(UpstreamMessages) : z = Append(front, ms[n])
      BY <3>2, <3>4, AppendProperties
    <3>6. Len(z) = n /\ \A i \in 1..n : z[i] = ms[i]
      <4>1. Len(z) = n /\ z[n] = ms[n] /\ \A i \in 1..n - 1 : z[i] = front[i]
        BY <1>1, <3>2, <3>4, <3>5, AppendProperties
      <4>2. \A i \in 1..n : i = n \/ i \in 1..n - 1
        OBVIOUS
      <4> QED
        BY <3>3, <4>1, <4>2
    <3>7. z = ms
      BY <1>1, <3>6, SeqEqual
    <3> QED
      BY <3>2, <3>4, <3>5, <3>7
  <2> HIDE DEF front
  <2>2. PICK k \in Nat : k = n - 1
    BY <1>1
  <2>3. /\ Left(front) \in Seq(1..k)
        /\ Left(ms) = IF k > 0 /\ UserAfterTool(ms, k) THEN Left(front) ELSE Append(Left(front), k + 1)
    <3>1. PICK fr \in Seq(UpstreamMessages), z \in UpstreamMessages : fr = front /\ z = ms[n] /\ Append(fr, z) = ms /\ k = Len(fr)
      BY <2>1, <2>2
    <3>2. /\ Left(fr) \in Seq(1..k)
          /\ Left(Append(fr, z)) = IF k > 0 /\ UserAfterTool(Append(fr, z), k) THEN Left(fr) ELSE Append(Left(fr), k + 1)
      <4>1. k = Len(fr)
        BY <3>1
      <4> QED
        BY <4>1, LeftAppend
    <3> QED
      BY <3>1, <3>2
  <2>4. ~UserAfterTool(ms, k)
    <3>1. ms[k + 1].role = "tool"
      BY <1>5, <2>2
    <3> QED
      BY <3>1 DEF UserAfterTool
  <2>5. k + 1 = n /\ Left(ms) = Append(Left(front), k + 1)
    <3>1. k + 1 = n
      BY <1>1, <2>2
    <3>2. PICK c \in BOOLEAN : c = (k > 0 /\ UserAfterTool(ms, k))
      OBVIOUS
    <3>3. ~c
      BY <2>4, <3>2
    <3>4. Left(ms) = IF c THEN Left(front) ELSE Append(Left(front), k + 1)
      BY <2>3, <3>2
    <3> QED
      BY <3>1, <3>3, <3>4
  <2>6. Left(front) \in Seq(1..n - 1)
    BY <2>2, <2>3
  <2> QED
    BY <2>5, <2>6
<1>8. PICK L \in Seq(1..n - 1) : Left(ms) = Append(L, n)
  BY <1>7
<1>9. L \in Seq(1..n) /\ L \in Seq(1..n + 1) /\ n \in 1..n /\ n \in 1..n + 1 /\ \A k \in DOMAIN L : L[k] \in 1..n - 1
  <2>1. Len(L) \in Nat /\ L \in [1..Len(L) -> 1..n] /\ L \in [1..Len(L) -> 1..n + 1]
    OBVIOUS
  <2> QED
    BY <1>1, <2>1
<1>10. Making(all) \in Maps(1..n + 1, UpstreamMessages) /\ Making(ms) \in Maps(1..n, UpstreamMessages)
  BY <1>1, <1>2, MergedKeeps DEF Making, Maps
<1>11. PICK f \in Maps(1..n + 1, UpstreamMessages), g \in Maps(1..n, UpstreamMessages) : f = Making(all) /\ g = Making(ms)
  BY <1>10
<1>12. Remade(all) = Append(Image(f, L), f[n]) /\ Remade(ms) = Append(Image(g, L), g[n])
  <2>1. Image(f, Append(L, n)) = Append(Image(f, L), f[n])
    BY <1>9, ImageAppend
  <2>2. Image(g, Append(L, n)) = Append(Image(g, L), g[n])
    BY <1>9, ImageAppend
  <2> QED
    BY <1>3, <1>8, <1>11, <2>1, <2>2 DEF Remade
<1>13. Image(f, L) = Image(g, L)
  <2>1. \A i \in 1..n - 1 : f[i] = g[i]
    <3> SUFFICES ASSUME NEW i \in 1..n - 1 PROVE f[i] = g[i]
      OBVIOUS
    <3>1. f[i] = MergedMessage(all, i) /\ g[i] = MergedMessage(ms, i)
      BY <1>1, <1>2, <1>11 DEF Making
    <3>2. MergedMessage(all, i) = MergedMessage(ms, i)
      BY <1>1, MergedAppend DEF all
    <3> QED
      BY <3>1, <3>2
  <2> QED
    BY <1>9, <2>1 DEF Image
<1>14. Image(g, L) = F
  <2>1. PICK a \in Seq(UpstreamMessages), b \in UpstreamMessages, c \in UpstreamMessages :
             a = Image(g, L) /\ b = g[n] /\ c = ms[n]
    <3>1. Image(g, L) \in Seq(UpstreamMessages)
      BY <1>9, ImageFacts
    <3>2. g[n] \in UpstreamMessages
      BY <1>9 DEF Maps
    <3>3. ms[n] \in UpstreamMessages
      BY <1>1
    <3> QED
      BY <3>1, <3>2, <3>3
  <2>2. Append(a, b) = Append(F, c) /\ F \in Seq(UpstreamMessages)
    BY <1>1, <1>6, <1>12, <2>1 DEF EndsWithResult
  <2>3. Len(a) + 1 = Len(F) + 1 /\ \A i \in 1..Len(a) : a[i] = Append(a, b)[i]
    BY <2>2, AppendProperties
  <2>4. Len(a) = Len(F)
    <3>1. Len(a) \in Nat /\ Len(F) \in Nat
      BY <2>2
    <3> QED
      BY <2>3, <3>1
  <2>5. \A i \in 1..Len(F) : Append(F, c)[i] = F[i]
    BY <2>2, AppendProperties
  <2>6. \A i \in 1..Len(a) : a[i] = F[i]
    <3>1. PICK z : z = Append(a, b) /\ z = Append(F, c)
      BY <2>2
    <3>2. \A i \in 1..Len(a) : a[i] = z[i]
      BY <2>3, <3>1
    <3>3. \A i \in 1..Len(F) : z[i] = F[i]
      BY <2>5, <3>1
    <3> QED
      BY <2>4, <3>2, <3>3
  <2> QED
    BY <2>1, <2>2, <2>4, <2>6, SeqEqual
<1>15. PICK y \in UpstreamMessages : y = f[n] /\ y.role = "user" /\ y.text = x.text \o ms[n].text
  <2>1. PICK k \in 1..Len(all) : k = n
    BY <1>1, <1>2
  <2>2. f[n] = MergedMessage(all, k)
    BY <1>2, <1>11, <2>1 DEF Making
  <2>3. MergedMessage(all, k) \in UpstreamMessages /\ MergedMessage(all, k).role = "user"
        /\ MergedMessage(all, k).text = all[k + 1].text \o all[k].text
    BY <1>2, <1>4, <2>1, MergedKeeps
  <2>4. all[k + 1] = x /\ all[k] = ms[n]
    BY <1>1, <1>2, <2>1
  <2> QED
    BY <2>2, <2>3, <2>4
<1>16. Remade(all) = Append(F, y) /\ F \in Seq(UpstreamMessages)
  BY <1>6, <1>12, <1>13, <1>14, <1>15 DEF EndsWithResult
<1>17. /\ Append(F, y) \in Seq(UpstreamMessages) /\ Len(Append(F, y)) = Len(F) + 1 /\ Append(F, y)[Len(F) + 1] = y
       /\ \A i \in 1..Len(F) : Append(F, y)[i] = F[i]
  BY <1>16, AppendProperties
<1>18. Remade(all) # <<>> /\ Remade(all)[Len(Remade(all))].role = all[Len(all)].role
  <2>1. Len(F) + 1 # 0 /\ Len(Append(F, y)) # 0
    BY <1>16, <1>17
  <2>2. Append(F, y) # <<>>
    BY <2>1, EmptySeq
  <2>3. PICK k \in Nat : k = Len(F) + 1
    BY <1>16
  <2>4. Append(F, y)[k].role = all[n + 1].role
    BY <1>2, <1>5, <1>15, <1>17, <2>3
  <2> QED
    BY <1>2, <1>16, <1>17, <2>2, <2>3, <2>4
<1>19. \A p : Count(p, Told(Remade(all))) = Count(p, Told(all))
  <2> SUFFICES ASSUME NEW p PROVE Count(p, Told(Remade(all))) = Count(p, Told(all))
    OBVIOUS
  <2>1. PICK r \in UpstreamMessages : r = ms[n]
    BY <1>1
  <2>2. x.text \in Seq(Place) /\ r.text \in Seq(Place)
    BY DEF UpstreamMessages
  <2>3. PICK s \in Seq(Place), t \in Seq(Place) : s = x.text /\ t = r.text
    BY <2>2
  <2>4. Spoken(s \o t) = Spoken(s) \o Spoken(t)
    BY WithoutConcat DEF Spoken
  <2>5. /\ Told(Append(F, y)) = Told(F) \o Spoken(y.text)
        /\ Told(all) = Told(ms) \o Spoken(x.text)
        /\ Told(Append(F, r)) = Told(F) \o Spoken(r.text)
    BY <1>16, ToldAppend DEF all
  <2>6. PICK a \in Seq(Place), b \in Seq(Place), c \in Seq(Place), d \in Seq(Place) :
             a = Told(F) /\ b = Told(ms) /\ c = Spoken(s) /\ d = Spoken(t)
    BY <1>16, ToldIs, SpokenFacts
  <2>7. c \o d \in Seq(Place)
    BY ConcatProperties
  <2>8. /\ Count(p, a \o d) = Count(p, a) + Count(p, d) /\ Count(p, b \o c) = Count(p, b) + Count(p, c)
        /\ Count(p, c \o d) = Count(p, c) + Count(p, d)
        /\ Count(p, a) \in Nat /\ Count(p, b) \in Nat /\ Count(p, c) \in Nat /\ Count(p, d) \in Nat
    BY CountConcat
  <2>9. Count(p, a \o (c \o d)) = Count(p, a) + Count(p, c \o d)
    <3>1. PICK e \in Seq(Place) : e = c \o d
      BY <2>7
    <3>2. Count(p, a \o e) = Count(p, a) + Count(p, e)
      BY CountConcat
    <3> QED
      BY <3>1, <3>2
  <2>10. Told(Remade(ms)) = a \o d
    BY <1>1, <1>6, <2>1, <2>3, <2>5, <2>6 DEF EndsWithResult
  <2>11. Count(p, a \o d) = Count(p, b)
    BY <2>6, <2>10 DEF RemadeWell
  <2>12. Told(Remade(all)) = a \o (c \o d) /\ Told(all) = b \o c
    BY <1>15, <1>16, <2>1, <2>3, <2>4, <2>5, <2>6
  <2> QED
    BY <2>8, <2>9, <2>11, <2>12
<1>20. ASSUME NEW k \in DOMAIN Remade(all), UserAfterTool(Remade(all), k)
       PROVE  Several(all)
  <2>1. k \in 1..Len(F) /\ F[k].role = "tool" /\ Append(F, y)[k + 1].role = "user"
    <3>1. k < Len(F) + 1 /\ k \in 1..Len(F) + 1
      BY <1>16, <1>17, <1>20 DEF UserAfterTool
    <3>2. k \in 1..Len(F)
      BY <1>16, <3>1
    <3> QED
      BY <1>16, <1>17, <1>20, <3>2 DEF UserAfterTool
  <2>2. CASE k < Len(F)
    <3>1. k + 1 \in 1..Len(F)
      BY <1>16, <2>1, <2>2
    <3>2. Append(F, y)[k + 1] = F[k + 1]
      BY <1>17, <3>1
    <3>3. PICK r \in UpstreamMessages : r = ms[n]
      BY <1>1
    <3>4. Remade(ms) = Append(F, r) /\ Len(Append(F, r)) = Len(F) + 1 /\ \A i \in 1..Len(F) : Append(F, r)[i] = F[i]
      BY <1>1, <1>6, <1>16, <3>3, AppendProperties DEF EndsWithResult
    <3>5. Remade(ms)[k] = F[k] /\ Remade(ms)[k + 1] = F[k + 1] /\ k < Len(Remade(ms)) /\ k \in DOMAIN Remade(ms)
      <4>1. Append(F, r) \in Seq(UpstreamMessages)
        BY <1>16, AppendProperties
      <4> QED
        BY <1>16, <2>1, <3>1, <3>4, <4>1
    <3>6. UserAfterTool(Remade(ms), k)
      BY <2>1, <3>2, <3>5 DEF UserAfterTool
    <3>7. Several(ms)
      BY <3>5, <3>6 DEF RemadeWell
    <3>8. PICK i \in 2..n : UserAfterTool(ms, i) /\ ms[i - 1].role = "tool"
      BY <1>1, <3>7 DEF Several
    <3>9. i < n
      BY <1>1, <3>8 DEF UserAfterTool
    <3>10. all[i] = ms[i] /\ all[i + 1] = ms[i + 1] /\ all[i - 1] = ms[i - 1]
      BY <1>2, <3>9
    <3> QED
      BY <1>1, <1>2, <3>8, <3>9, <3>10 DEF Several, UserAfterTool
  <2>3. CASE k = Len(F)
    <3>1. F # <<>>
      BY <2>1
    <3>2. n > 1 /\ ms[n - 1].role = "tool"
      BY <1>1, <1>6, <2>1, <2>3, <3>1 DEF EndsWithResult
    <3>3. n \in 2..Len(all) /\ all[n - 1] = ms[n - 1]
      BY <1>2, <3>2
    <3> QED
      BY <1>4, <3>2, <3>3 DEF Several
  <2> QED
    BY <1>16, <2>1, <2>2, <2>3
<1>21. all[Len(all)].role # "tool" /\ Len(all) # 0
  BY <1>2, <1>5
<1>22. Remade(all) \in Seq(UpstreamMessages)
  BY <1>16, <1>17
<1>23. RemadeWell(all)
  BY <1>18, <1>19, <1>20, <1>21, <1>22 DEF RemadeWell
<1> QED
  BY <1>23 DEF all

(* Of no message nothing is remade.                                        *)
LEMMA RemadeNone == RemadeWell(<<>>)
<1>1. Left(<<>>) = <<>>
  <2>1. Numbers(Len(<<>>)) = <<>>
    BY DEF Numbers
  <2> QED
    BY <2>1, WithoutNone DEF Left
<1>2. Remade(<<>>) = <<>>
  BY <1>1, ImageNone DEF Remade
<1>3. <<>> \in Seq(UpstreamMessages) /\ Len(<<>>) = 0
  BY EmptySeq
<1>4. \A k \in DOMAIN Remade(<<>>) : FALSE
  BY <1>2
<1>5. \A p : Count(p, Told(Remade(<<>>))) = Count(p, Told(<<>>))
  BY <1>2
<1>6. ~(Len(<<>>) > 0)
  BY <1>3
<1>7. Remade(<<>>) \in Seq(UpstreamMessages)
  BY <1>2, <1>3
<1> QED
  BY <1>2, <1>4, <1>5, <1>6, <1>7 DEF RemadeWell

(* So it is for every conversation.                                          *)
LEMMA RemadeIsWell == \A ms \in Seq(UpstreamMessages) : RemadeWell(ms)
<1> DEFINE P == {ms \in Seq(UpstreamMessages) : RemadeWell(ms)}
<1>1. <<>> \in P
  BY RemadeNone, EmptySeq
<1>2. \A q \in Seq(UpstreamMessages), x \in UpstreamMessages : q \in P => Append(q, x) \in P
  <2> SUFFICES ASSUME NEW q \in Seq(UpstreamMessages), NEW x \in UpstreamMessages, RemadeWell(q)
               PROVE  Append(q, x) \in Seq(UpstreamMessages) /\ RemadeWell(Append(q, x))
    OBVIOUS
  <2>1. Append(q, x) \in Seq(UpstreamMessages)
    BY AppendProperties
  <2> QED
    BY <2>1, RemadeLonger, RemadeTakesIn
<1> HIDE DEF P
<1>3. \A q \in Seq(UpstreamMessages) : q \in P
  BY <1>1, <1>2, SequencesFromTheEnd
<1> QED
  BY <1>3 DEF P

Bodies == [extras : SUBSET Extras, messages : Seq(UpstreamMessages)]

(* The merge in terms of the positions it leaves.                            *)
LEMMA MergedIs ==
  ASSUME NEW b \in Bodies
  PROVE  Merged(b) = IF Len(b.messages) < 3 THEN b ELSE [b EXCEPT !.messages = Remade(b.messages)]
<1>1. PICK ms \in Seq(UpstreamMessages) : ms = b.messages
  BY DEF Bodies
<1>2. PICK n \in Nat : n = Len(ms)
  OBVIOUS
<1> DEFINE left == Without([i \in 1..n |-> i], {i \in 1..n : i > 1 /\ UserAfterTool(ms, i - 1)})
<1>3. left = Left(ms)
  BY <1>2 DEF Left, Numbers, TakenIn
<1>4. Left(ms) \in Seq(1..n)
  <2>1. [i \in 1..n |-> i] \in Seq(1..n)
    OBVIOUS
  <2>2. PICK q \in Seq(1..n) : q = [i \in 1..n |-> i]
    BY <2>1
  <2>3. Without(q, {i \in 1..n : i > 1 /\ UserAfterTool(ms, i - 1)}) \in Seq(1..n)
    BY WithoutIsSeq
  <2> QED
    BY <1>3, <2>2, <2>3
<1>5. Merged(b) = IF n < 3 THEN b ELSE [b EXCEPT !.messages = [k \in DOMAIN left |-> MergedMessage(ms, left[k])]]
  BY <1>1, <1>2 DEF Merged
<1> HIDE DEF left
<1>6. [k \in DOMAIN left |-> MergedMessage(ms, left[k])] = Remade(ms)
  <2>1. \A k \in DOMAIN left : left[k] \in 1..n
    BY <1>3, <1>4
  <2>2. \A k \in DOMAIN left : Making(ms)[left[k]] = MergedMessage(ms, left[k])
    BY <1>2, <2>1 DEF Making
  <2> QED
    BY <1>3, <2>2 DEF Remade, Image
<1> QED
  BY <1>1, <1>2, <1>5, <1>6

(* A body without the reasoning tells the same.                              *)
LEMMA WithoutReasoningIs ==
  ASSUME NEW b \in Bodies
  PROVE  /\ WithoutReasoning(b).extras = b.extras
         /\ Told(WithoutReasoning(b).messages) = Told(b.messages)
         /\ \A i \in DOMAIN WithoutReasoning(b).messages : WithoutReasoning(b).messages[i].reasoning = <<>>
<1>1. PICK ms \in Seq(UpstreamMessages) : ms = b.messages
  BY DEF Bodies
<1> DEFINE new == [i \in DOMAIN ms |-> [ms[i] EXCEPT !.reasoning = <<>>]]
<1>2. WithoutReasoning(b) = [b EXCEPT !.messages = new]
  BY <1>1 DEF WithoutReasoning
<1>3. DOMAIN new = DOMAIN ms /\ \A i \in DOMAIN ms : new[i].text = ms[i].text /\ new[i].reasoning = <<>>
  <2>1. \A m \in UpstreamMessages : [m EXCEPT !.reasoning = <<>>].text = m.text /\ [m EXCEPT !.reasoning = <<>>].reasoning = <<>>
    BY DEF UpstreamMessages
  <2>2. \A i \in DOMAIN ms : ms[i] \in UpstreamMessages
    OBVIOUS
  <2>3. DOMAIN new = DOMAIN ms /\ \A i \in DOMAIN ms : new[i] = [ms[i] EXCEPT !.reasoning = <<>>]
    OBVIOUS
  <2> HIDE DEF new
  <2> QED
    BY <2>1, <2>2, <2>3
<1> HIDE DEF new
<1>4. [i \in DOMAIN new |-> Spoken(new[i].text)] = [i \in DOMAIN ms |-> Spoken(ms[i].text)]
  BY <1>3
<1>5. Told(new) = Told(ms)
  BY <1>4 DEF Told
<1>6. WithoutReasoning(b).extras = b.extras /\ WithoutReasoning(b).messages = new
  BY <1>2 DEF Bodies
<1> QED
  BY <1>1, <1>3, <1>5, <1>6

Downgrades(b, d) ==
    /\ \A p : Count(p, Told(d.messages)) = Count(p, Told(b.messages))
    /\ d.extras \subseteq b.extras
    /\ d # b =>
          CASE ActedOn = "budget" -> d.extras \cap Budgets = {}
            [] ActedOn = "template" -> "chat_template" \notin d.extras
            [] ActedOn = "reasoning" -> "reasoning_content" \notin Offences(d)
            [] ActedOn = "roles" -> "unexpected role" \in Offences(d) => Several(b.messages)

(* Exactly one of the downgrades is made.                                    *)
LEMMA ActedOnIs ==
  ASSUME NEW b \in Bodies, complaints \subseteq Offences(b)
  PROVE  ActedOn \in {"budget", "template", "reasoning", "roles", "none"}
<1>1. complaints \subseteq Extras \cup {"reasoning_content", "unexpected role"}
  BY DEF Offences, Bodies
<1>2. CASE complaints \cap Budgets # {}
  BY <1>2 DEF ActedOn, Budgets, Extras
<1>3. CASE complaints \cap Budgets = {} /\ complaints \cap {"chat_template", "chat_template_kwargs"} # {}
  BY <1>3 DEF ActedOn, Budgets, Extras
<1>4. CASE complaints \cap Extras = {} /\ "reasoning_content" \in complaints
  BY <1>4 DEF ActedOn, Budgets, Extras
<1>5. CASE complaints \cap Extras = {} /\ "reasoning_content" \notin complaints
  <2>1. complaints = {} \/ complaints = {"unexpected role"}
    BY <1>1, <1>5
  <2> QED
    BY <2>1 DEF ActedOn, Budgets, Extras
<1> QED
  BY <1>2, <1>3, <1>4, <1>5 DEF Extras

(* The body that is sent after an error of the upstream is that of the     *)
(* same conversation.                                                      *)
LEMMA DowngradedWell ==
  ASSUME NEW b \in Bodies, complaints \subseteq Offences(b)
  PROVE  Downgrades(b, Downgraded(b))
<1>1. b.extras \subseteq Extras /\ b.messages \in Seq(UpstreamMessages)
  BY DEF Bodies
<1>2. "reasoning_content" \notin Extras /\ "unexpected role" \notin Extras
  BY DEF Extras, Budgets
<1>3. CASE ActedOn = "budget"
  <2>1. Downgraded(b) = [b EXCEPT !.extras = @ \ Budgets]
    BY <1>3 DEF Downgraded
  <2>2. Downgraded(b).extras = b.extras \ Budgets /\ Downgraded(b).messages = b.messages
    BY <2>1 DEF Bodies
  <2> QED
    BY <1>3, <2>2 DEF Downgrades
<1>4. CASE ActedOn = "template"
  <2>1. Downgraded(b) = [b EXCEPT !.extras = @ \ {"chat_template"}]
    BY <1>4 DEF Downgraded
  <2>2. Downgraded(b).extras = b.extras \ {"chat_template"} /\ Downgraded(b).messages = b.messages
    BY <2>1 DEF Bodies
  <2> QED
    BY <1>4, <2>2 DEF Downgrades
<1>5. CASE ActedOn = "reasoning"
  <2>1. Downgraded(b) = WithoutReasoning(b)
    BY <1>5 DEF Downgraded
  <2>2. /\ Downgraded(b).extras = b.extras /\ Told(Downgraded(b).messages) = Told(b.messages)
        /\ \A i \in DOMAIN Downgraded(b).messages : Downgraded(b).messages[i].reasoning = <<>>
    BY <2>1, WithoutReasoningIs
  <2>3. "reasoning_content" \notin Offences(Downgraded(b))
    BY <1>1, <1>2, <2>2 DEF Offences
  <2> QED
    BY <1>5, <2>2, <2>3 DEF Downgrades
<1>6. CASE ActedOn = "roles"
  <2>1. Downgraded(b) = Merged(b)
    BY <1>6 DEF Downgraded
  <2>2. CASE Len(b.messages) < 3
    <3>1. Downgraded(b) = b
      BY <2>1, <2>2, MergedIs
    <3> QED
      BY <3>1 DEF Downgrades
  <2>3. CASE ~(Len(b.messages) < 3)
    <3>1. Downgraded(b) = [b EXCEPT !.messages = Remade(b.messages)]
      BY <2>1, <2>3, MergedIs
    <3>2. Downgraded(b).extras = b.extras /\ Downgraded(b).messages = Remade(b.messages)
      BY <3>1 DEF Bodies
    <3>3. RemadeWell(b.messages)
      BY <1>1, RemadeIsWell
    <3>4. \A p : Count(p, Told(Downgraded(b).messages)) = Count(p, Told(b.messages))
      BY <3>2, <3>3 DEF RemadeWell
    <3>5. "unexpected role" \in Offences(Downgraded(b)) => Several(b.messages)
      <4>1. "unexpected role" \in Offences(Downgraded(b)) =>
               \E i \in DOMAIN Remade(b.messages) : UserAfterTool(Remade(b.messages), i)
        BY <1>1, <1>2, <3>2 DEF Offences
      <4> QED
        BY <3>3, <4>1 DEF RemadeWell
    <3> QED
      BY <1>6, <3>2, <3>4, <3>5 DEF Downgrades
  <2> QED
    BY <2>2, <2>3
<1>7. CASE ActedOn = "none"
  <2>1. Downgraded(b) = b
    BY <1>7 DEF Downgraded
  <2> QED
    BY <2>1 DEF Downgrades
<1> QED
  BY <1>3, <1>4, <1>5, <1>6, <1>7, ActedOnIs

-----------------------------------------------------------------------------

NimInv ==
    /\ ConversionTypes /\ firstBody \in Bodies /\ complaints \subseteq Offences(firstBody)
    /\ lastBody = firstBody \/ (lastBody = Downgraded(firstBody) /\ reply \in {"awaited again", "streaming", "error"})
    /\ reply \in {"none", "awaited"} => complaints = {}

(* Nothing has been sent at first.                                         *)
LEMMA NimAtFirst == ConversionInit /\ NimInit => NimInv
<1> SUFFICES ASSUME ConversionInit, NimInit PROVE NimInv
  OBVIOUS
<1>1. <<>> \in Seq(UpstreamMessages)
  BY EmptySeq
<1>2. NoBody \in Bodies
  BY <1>1 DEF NoBody, Bodies
<1> QED
  BY <1>2, TypesAtFirst DEF NimInit, NimInv

(* While nothing is complained of anew, what was a downgrade is one.         *)
LEMMA DowngradedSame ==
  ASSUME UNCHANGED <<firstBody, complaints>>
  PROVE  Downgraded(firstBody)' = Downgraded(firstBody) /\ Offences(firstBody)' = Offences(firstBody)
<1>1. ActedOn' = ActedOn
  BY DEF ActedOn
<1> QED
  BY <1>1 DEF Downgraded, Offences

(* Each request and each retry sends the conversation.                     *)
LEMMA NimStays ==
  NimInv /\ [NimNext \/ (ConversionNext /\ UNCHANGED nimVars)]_<<conversionVars, nimVars>> => NimInv'
<1> SUFFICES ASSUME NimInv, [NimNext \/ (ConversionNext /\ UNCHANGED nimVars)]_<<conversionVars, nimVars>>
             PROVE  NimInv'
  OBVIOUS
<1>1. ConversionTypes'
  BY TypesStay DEF NimInv, NimNext
<1>2. CASE SendFirst
  <2>1. PICK extras \in RequestExtras, system \in {<<>>, <<Message("system", <<>>, <<>>, <<>>)>>} :
             lastBody' = [extras |-> extras, messages |-> system \o output]
    BY <1>2 DEF SendFirst
  <2>2. extras \in SUBSET Extras
    <3> DEFINE more == IF mode = "reasoning_content" THEN {"chat_template_kwargs", "kwargs.reasoning_budget"} ELSE {}
    <3>1. PICK own \in OwnExtras : extras = own \cup more
      BY DEF RequestExtras
    <3>2. own \subseteq Extras
      BY ExtrasAssumption
    <3>3. more \subseteq {"chat_template_kwargs", "kwargs.reasoning_budget"}
      OBVIOUS
    <3>4. {"chat_template_kwargs", "kwargs.reasoning_budget"} \subseteq Extras
      BY DEF Extras, Budgets
    <3> QED
      BY <3>1, <3>2, <3>3, <3>4
  <2>3. system \in Seq(UpstreamMessages)
    <3>1. <<>> \in Seq(Place) /\ <<>> \in Seq(AnyId) /\ <<>> \in Seq(UpstreamMessages)
      BY EmptySeq
    <3>2. Message("system", <<>>, <<>>, <<>>) \in UpstreamMessages
      BY <3>1, UpstreamFields
    <3> QED
      BY <3>1, <3>2, ToldOne
  <2>4. system \o output \in Seq(UpstreamMessages)
    BY <2>3, ToldConcat DEF NimInv, ConversionTypes
  <2>5. lastBody' \in Bodies
    BY <2>1, <2>2, <2>4 DEF Bodies
  <2>6. firstBody' = lastBody' /\ complaints' = {} /\ reply' = "awaited"
    BY <1>2 DEF SendFirst, NimInv
  <2> QED
    BY <1>1, <2>5, <2>6 DEF NimInv
<1>3. CASE Accepted
  <2>1. Downgraded(firstBody)' = Downgraded(firstBody) /\ Offences(firstBody)' = Offences(firstBody)
    BY <1>3, DowngradedSame DEF Accepted
  <2> QED
    BY <1>1, <1>3, <2>1 DEF Accepted, NimInv
<1>4. CASE RejectFirst
  <2>1. lastBody = firstBody /\ reply' = "rejected" /\ UNCHANGED <<firstBody, lastBody>>
    BY <1>4 DEF RejectFirst, NimInv
  <2>2. complaints' \subseteq Offences(firstBody)
    BY <1>4, <2>1 DEF RejectFirst
  <2>3. Offences(firstBody)' = Offences(firstBody)
    BY <2>1 DEF Offences
  <2> QED
    BY <1>1, <2>1, <2>2, <2>3 DEF NimInv
<1>5. CASE SendAgain
  <2>1. lastBody = firstBody /\ lastBody' = Downgraded(firstBody) /\ UNCHANGED <<firstBody, complaints>>
    BY <1>5 DEF SendAgain, NimInv
  <2>2. Downgraded(firstBody)' = Downgraded(firstBody) /\ Offences(firstBody)' = Offences(firstBody)
    BY <2>1, DowngradedSame
  <2>3. reply' \in {"error", "awaited again"}
    BY <1>5 DEF SendAgain
  <2> QED
    BY <1>1, <2>1, <2>2, <2>3 DEF NimInv
<1>6. CASE RejectAgain
  <2>1. Downgraded(firstBody)' = Downgraded(firstBody) /\ Offences(firstBody)' = Offences(firstBody)
    BY <1>6, DowngradedSame DEF RejectAgain
  <2> QED
    BY <1>1, <1>6, <2>1 DEF RejectAgain, NimInv
<1>7. CASE UNCHANGED nimVars
  <2>1. Downgraded(firstBody)' = Downgraded(firstBody) /\ Offences(firstBody)' = Offences(firstBody)
    BY <1>7, DowngradedSame DEF nimVars
  <2> QED
    BY <1>1, <1>7, <2>1 DEF nimVars, NimInv
<1> QED
  BY <1>2, <1>3, <1>4, <1>5, <1>6, <1>7 DEF NimNext, NimStep

(* So no retry changes the conversation.                                   *)
LEMMA NimInvImplies == NimInv => RetryKeepsConversation
<1> SUFFICES ASSUME NimInv PROVE RetryKeepsConversation
  OBVIOUS
<1>1. firstBody \in Bodies /\ complaints \subseteq Offences(firstBody)
  BY DEF NimInv
<1>2. PICK d : d = Downgraded(firstBody) /\ Downgrades(firstBody, d)
  BY <1>1, DowngradedWell
<1>3. Downgrades(firstBody, firstBody)
  BY DEF Downgrades
<1>4. Downgrades(firstBody, lastBody)
  BY <1>2, <1>3 DEF NimInv
<1>5. \A p : Times(p, lastBody.messages) = Times(p, firstBody.messages)
  BY <1>4 DEF Downgrades, Times, Count
<1>6. Several(firstBody.messages) <=> SeveralResultsBeforeUser
  BY DEF Several, SeveralResultsBeforeUser
<1>7. lastBody # firstBody => ActedOn # "none"
  BY DEF NimInv, Downgraded
<1>8. ActedOn \in {"budget", "template", "reasoning", "roles", "none"}
  BY <1>1, ActedOnIs
<1> QED
  BY <1>4, <1>5, <1>6, <1>7, <1>8 DEF Downgrades, RetryKeepsConversation

(* For any extras and any conversation: a retry of NVIDIA NIM's request    *)
(* tells every text and result as often as the body that failed, and is    *)
(* without what the upstream objected to, unless several results came      *)
(* before one user message.                                                *)
THEOREM RetryKeepsConversationHolds == NimSpec => []RetryKeepsConversation
<1>1. NimInv /\ [NimNext \/ (ConversionNext /\ UNCHANGED nimVars)]_<<conversionVars, nimVars>> => NimInv'
  BY NimStays
<1>2. ConversionInit /\ NimInit => NimInv
  BY NimAtFirst
<1>3. NimInv => RetryKeepsConversation
  BY NimInvImplies
<1> QED
  BY <1>1, <1>2, <1>3, PTL DEF NimSpec

-----------------------------------------------------------------------------
(* The conversion loses nothing: what is told and what is held back,       *)
(* counted.                                                                *)

(* The shown places of what is held back.                                    *)
HeldText == Places(OfKind(pending.blocks, ShownKinds))

(* Messages come numbered, and what is held back is text of theirs.          *)
Sound ==
    /\ ConversionTypes
    /\ \A n \in DOMAIN input : Received(input[n], n)
    /\ \A i \in DOMAIN HeldText : HeldText[i][2] # 0

(* What is held back is places, and none if there are no blocks.           *)
LEMMA HeldTextType ==
  ASSUME ConversionTypes
  PROVE  HeldText \in Seq(Place) /\ (~Held => HeldText = <<>>)
<1>1. pending.blocks \in Seq(ClientBlocks)
  BY DEF ConversionTypes, Holding
<1>2. HeldText \in Seq(Place)
  BY <1>1, OfKindIs, PlacesIs DEF HeldText
<1>3. ASSUME ~Held PROVE HeldText = <<>>
  <2>1. OfKind(pending.blocks, ShownKinds) = <<>>
    BY <1>3, OfKindNone DEF Held
  <2> QED
    BY <2>1 DEF HeldText, Places
<1> QED
  BY <1>2, <1>3

(* What is given up is what was held back.                                   *)
LEMMA DeferredTold ==
  ASSUME Sound
  PROVE  Deferred \in Seq(UpstreamMessages) /\ Told(Deferred) = HeldText /\ HeldText \in Seq(Place)
<1>1. /\ Deferred \in Seq(UpstreamMessages)
      /\ Told(Deferred) = IF Held THEN Spoken(HeldText) ELSE <<>>
  BY DeferredType DEF Sound, ConversionTypes, HeldText
<1>2. HeldText \in Seq(Place) /\ (~Held => HeldText = <<>>)
  BY HeldTextType DEF Sound
<1>3. Spoken(HeldText) = HeldText
  BY <1>2, SpokenFacts DEF Sound
<1> QED
  BY <1>1, <1>2, <1>3

(* The three ends of a step: what is told, and what is held back.            *)
LEMMA AssistantTold ==
  ASSUME Sound, NEW n, NEW m, Received(m, n), NEW x, AssistantGives(m, x), mode' = mode
  PROVE  /\ Told(output') = (Told(output) \o HeldText) \o Places(Only(m, Earlier(m)))
         /\ HeldText' = Places(Only(m, Later(m)))
         /\ \A i \in DOMAIN HeldText' : HeldText'[i][2] # 0
<1>1. m \in ClientMessages
  BY DEF Received
<1>2. Deferred \in Seq(UpstreamMessages) /\ Told(Deferred) = HeldText /\ HeldText \in Seq(Place)
  BY DeferredTold
<1>3. x \in UpstreamMessages /\ <<x>> \in Seq(UpstreamMessages) /\ Told(<<x>>) = Spoken(x.text)
  BY ToldOne DEF AssistantGives
<1>4. output \in Seq(UpstreamMessages)
  BY DEF Sound, ConversionTypes
<1>5. output \o Deferred \in Seq(UpstreamMessages) /\ Told(output \o Deferred) = Told(output) \o HeldText
  BY <1>2, <1>4, ToldConcat
<1>6. Told((output \o Deferred) \o <<x>>) = Told(output \o Deferred) \o Told(<<x>>)
  BY <1>3, <1>5, ToldConcat
<1>7. Spoken(x.text) = Places(Only(m, Earlier(m)))
  BY <1>1, ReceivedPlaces DEF AssistantGives, Only
<1>8. output' = (output \o Deferred) \o <<x>>
  BY DEF AssistantGives
<1>9. Told(output') = (Told(output) \o HeldText) \o Places(Only(m, Earlier(m)))
  BY <1>3, <1>5, <1>6, <1>7, <1>8
<1>10. HeldText' = Places(Only(m, Later(m)))
  <2>1. ShownKinds' = ShownKinds
    BY DEF ShownKinds
  <2> QED
    BY <2>1 DEF AssistantGives, HeldText
<1>11. \A i \in DOMAIN HeldText' : HeldText'[i][2] # 0
  <2>1. Only(m, Later(m)) \in Seq(ClientBlocks) /\ Places(Only(m, Later(m))) \in Seq(Place)
    BY <1>1, OnlyType
  <2>2. Spoken(Places(Only(m, Later(m)))) = Places(Only(m, Later(m)))
    BY <1>1, ReceivedPlaces DEF Only
  <2> QED
    BY <1>10, <2>1, <2>2, SpokenFacts
<1> QED
  BY <1>9, <1>10, <1>11

(* A string of the user gives up what is held back, one of the assistant   *)
(* leaves it.                                                              *)
LEMMA StringTold ==
  ASSUME Sound, NEW n, NEW m, Received(m, n), NEW x, StringGives(m, x), mode' = mode
  PROVE  /\ m.role = "user" => /\ Told(output') = (Told(output) \o HeldText) \o Places(m.blocks)
                               /\ HeldText' = <<>> /\ ~Held'
         /\ m.role # "user" => /\ Told(output') = Told(output) \o Places(m.blocks)
                               /\ HeldText' = HeldText /\ pending' = pending
         /\ \A i \in DOMAIN HeldText' : HeldText'[i][2] # 0
<1>1. Deferred \in Seq(UpstreamMessages) /\ Told(Deferred) = HeldText /\ HeldText \in Seq(Place)
  BY DeferredTold
<1>2. x \in UpstreamMessages /\ <<x>> \in Seq(UpstreamMessages) /\ Told(<<x>>) = Places(m.blocks)
  BY ToldOne DEF StringGives
<1>3. output \in Seq(UpstreamMessages)
  BY DEF Sound, ConversionTypes
<1>4. ShownKinds' = ShownKinds
  BY DEF ShownKinds
<1>5. CASE m.role = "user"
  <2>1. output' = (output \o Deferred) \o <<x>> /\ pending' = NoPending
    BY <1>5 DEF StringGives
  <2>2. output \o Deferred \in Seq(UpstreamMessages) /\ Told(output \o Deferred) = Told(output) \o HeldText
    BY <1>1, <1>3, ToldConcat
  <2>3. Told((output \o Deferred) \o <<x>>) = Told(output \o Deferred) \o Told(<<x>>)
    BY <1>2, <2>2, ToldConcat
  <2>4. NoPending.blocks = <<>>
    BY DEF NoPending
  <2>5. ~Held' /\ OfKind(pending'.blocks, ShownKinds') = <<>>
    BY <2>1, <2>4, OfKindNone DEF Held
  <2>6. HeldText' = <<>>
    BY <2>5 DEF HeldText, Places
  <2>7. \A i \in DOMAIN HeldText' : HeldText'[i][2] # 0
    BY <2>6
  <2>8. Told(output') = (Told(output) \o HeldText) \o Places(m.blocks)
    BY <1>2, <2>1, <2>2, <2>3
  <2> QED
    BY <1>5, <2>5, <2>6, <2>7, <2>8
<1>6. CASE m.role # "user"
  <2>1. output' = (output \o <<>>) \o <<x>> /\ pending' = pending
    BY <1>6 DEF StringGives
  <2>2. output \o <<>> = output
    BY <1>3, ConcatEmptySeq
  <2>3. Told(output \o <<x>>) = Told(output) \o Told(<<x>>)
    BY <1>2, <1>3, ToldConcat
  <2>4. HeldText' = HeldText
    BY <1>4, <2>1 DEF HeldText
  <2>5. \A i \in DOMAIN HeldText' : HeldText'[i][2] # 0
    BY <2>4 DEF Sound
  <2>6. Told(output') = Told(output) \o Places(m.blocks)
    BY <1>2, <2>1, <2>2, <2>3
  <2> QED
    BY <1>6, <2>1, <2>4, <2>5, <2>6
<1> QED
  BY <1>5, <1>6

(* The end of the loop gives it up.                                        *)
LEMMA FinishTold ==
  ASSUME Sound, Finish
  PROVE  Told(output') = Told(output) \o HeldText
<1>1. Deferred \in Seq(UpstreamMessages) /\ Told(Deferred) = HeldText
  BY DeferredTold
<1>2. output \in Seq(UpstreamMessages) /\ output' = output \o Deferred
  BY DEF Sound, ConversionTypes, Finish
<1> QED
  BY <1>1, <1>2, ToldConcat

(* After a user's list what was held back is still held, or given up.        *)
LEMMA UserTold ==
  ASSUME Sound, NEW n, NEW m, Received(m, n), NEW f, UserGives(m, f), mode' = mode,
         \A k \in DOMAIN f[Len(m.blocks)].texts : f[Len(m.blocks)].texts[k][2] # 0
  PROVE  /\ Told(output') = (Told(output) \o Told(f[Len(m.blocks)].out)) \o f[Len(m.blocks)].texts
         /\ Injecting /\ f[Len(m.blocks)].ids # {} =>
               /\ HeldText' = HeldText /\ pending'.ids = f[Len(m.blocks)].ids /\ pending'.blocks = pending.blocks
         /\ ~(Injecting /\ f[Len(m.blocks)].ids # {}) => HeldText' = <<>> /\ ~Held'
         /\ \A i \in DOMAIN HeldText' : HeldText'[i][2] # 0
<1>1. f[Len(m.blocks)] \in Folding
  BY UserTypes DEF Sound, Received
<1>2. PICK end \in Folding : end = f[Len(m.blocks)]
  BY <1>1
<1>3. end.out \in Seq(UpstreamMessages) /\ end.texts \in Seq(Place)
  BY DEF Folding
<1>4. output \in Seq(UpstreamMessages) /\ output' = (output \o end.out) \o Flush(end.texts)
  BY <1>2 DEF Sound, ConversionTypes, UserGives
<1>5. output \o end.out \in Seq(UpstreamMessages) /\ Told(output \o end.out) = Told(output) \o Told(end.out)
  BY <1>3, <1>4, ToldConcat
<1>6. Flush(end.texts) \in Seq(UpstreamMessages) /\ Told(Flush(end.texts)) = Spoken(end.texts)
  BY <1>3, FlushType
<1>7. Spoken(end.texts) = end.texts
  BY <1>2, <1>3, SpokenFacts
<1>8. Told((output \o end.out) \o Flush(end.texts)) = Told(output \o end.out) \o Told(Flush(end.texts))
  BY <1>5, <1>6, ToldConcat
<1>9. Told(output') = (Told(output) \o Told(end.out)) \o end.texts
  BY <1>4, <1>5, <1>6, <1>7, <1>8
<1>10. ShownKinds' = ShownKinds
  BY DEF ShownKinds
<1>11. CASE Injecting /\ end.ids # {}
  <2>1. pending' = [pending EXCEPT !.ids = end.ids]
    BY <1>2, <1>11 DEF UserGives
  <2>2. pending'.ids = end.ids /\ pending'.blocks = pending.blocks
    BY <2>1 DEF Sound, ConversionTypes, Holding
  <2>3. HeldText' = HeldText
    BY <1>10, <2>2 DEF HeldText
  <2> QED
    BY <1>2, <1>9, <1>11, <2>2, <2>3 DEF Sound
<1>12. CASE ~(Injecting /\ end.ids # {})
  <2>1. pending' = NoPending
    BY <1>2, <1>12 DEF UserGives
  <2>2. NoPending.blocks = <<>>
    BY DEF NoPending
  <2>3. ~Held' /\ OfKind(pending'.blocks, ShownKinds') = <<>>
    BY <2>1, <2>2, OfKindNone DEF Held
  <2>4. HeldText' = <<>>
    BY <2>3 DEF HeldText, Places
  <2> QED
    BY <1>2, <1>9, <1>12, <2>3, <2>4
<1> QED
  BY <1>11, <1>12

(* The places of one more block.                                             *)
LEMMA PlacesAppend ==
  ASSUME NEW q \in Seq(ClientBlocks), NEW b \in ClientBlocks, NEW kinds
  PROVE  /\ Places(OfKind(q, kinds)) \in Seq(Place) /\ b.at \in Place
         /\ Places(OfKind(Append(q, b), kinds)) =
               IF b.kind \in kinds THEN Append(Places(OfKind(q, kinds)), b.at) ELSE Places(OfKind(q, kinds))
<1> DEFINE S == {c \in ClientBlocks : c.kind \notin kinds}
<1>1. Append(q, b) \in Seq(ClientBlocks)
  BY AppendProperties
<1>2. OfKind(q, kinds) = Without(q, S) /\ OfKind(q, kinds) \in Seq(ClientBlocks) /\ OfKind(Append(q, b), kinds) = Without(Append(q, b), S)
  BY <1>1, OfKindIs
<1>3. b \in S <=> b.kind \notin kinds
  OBVIOUS
<1> HIDE DEF S
<1>4. Without(Append(q, b), S) = IF b \in S THEN Without(q, S) ELSE Append(Without(q, S), b)
  BY WithoutAppend
<1>5. PICK w \in Seq(ClientBlocks) : w = Without(q, S)
  BY <1>2
<1>6. Places(w) = Image(PlaceOf, w) /\ Places(w) \in Seq(Place) /\ PlaceOf \in Maps(ClientBlocks, Place)
  BY PlacesIs
<1>7. Append(w, b) \in Seq(ClientBlocks)
  BY AppendProperties
<1>8. Places(Append(w, b)) = Image(PlaceOf, Append(w, b))
  BY <1>7, PlacesIs
<1>9. Image(PlaceOf, Append(w, b)) = Append(Image(PlaceOf, w), PlaceOf[b])
  BY <1>6, ImageAppend
<1>10. PlaceOf[b] = b.at /\ b.at \in Place
  BY DEF PlaceOf, ClientBlocks
<1> QED
  BY <1>2, <1>3, <1>4, <1>5, <1>6, <1>8, <1>9, <1>10

(* How often p is told in what a fold has made, and is still to be flushed.  *)
Sofar(p, acc) == Count(p, Told(acc.out)) + Count(p, acc.texts)
Adds(p, b) == IF b.kind \in {"text", "tool_result"} /\ b.at = p THEN 1 ELSE 0
Ends(acc, b) == b.kind = "tool_result" /\ acc.injecting /\ acc.ids \ {b.id} = {}
SpokenTexts(acc) == \A k \in DOMAIN acc.texts : acc.texts[k][2] # 0

(* One block adds itself, and what was held back if it ends the results.   *)
LEMMA SofarStep ==
  ASSUME Sound, NEW acc \in Folding, SpokenTexts(acc), NEW b \in ClientBlocks, b.at[2] # 0, NEW p
  PROVE  /\ SpokenTexts(Block(acc, b))
         /\ Sofar(p, acc) \in Nat
         /\ Sofar(p, Block(acc, b)) = Sofar(p, acc) + Adds(p, b) + (IF Ends(acc, b) THEN Count(p, HeldText) ELSE 0)
<1> DEFINE new == Block(acc, b)
<1>1. mode \in Modes /\ pending \in Holding
  BY DEF Sound, ConversionTypes
<1>2. /\ new \in Folding
      /\ b.kind \notin {"text", "tool_result"} => new = acc
      /\ b.kind = "text" => new.out = acc.out /\ new.texts = Append(acc.texts, b.at)
      /\ b.kind = "tool_result" => /\ new.out = ((acc.out \o Flush(acc.texts)) \o <<ResultMessage(b)>>) \o More(acc, b)
                                   /\ new.texts = <<>>
  BY <1>1, BlockType
<1> HIDE DEF new
<1>3. acc.out \in Seq(UpstreamMessages) /\ acc.texts \in Seq(Place) /\ b.at \in Place
  BY DEF Folding, ClientBlocks
<1>4. PICK o \in Seq(Place), t \in Seq(Place), a \in Place : o = Told(acc.out) /\ t = acc.texts /\ a = b.at
  BY <1>3, ToldIs
<1>5. Count(p, o) \in Nat /\ Count(p, t) \in Nat
  BY CountConcat
<1>6. CASE b.kind \notin {"text", "tool_result"}
  BY <1>2, <1>4, <1>5, <1>6 DEF Sofar, Adds, Ends, new
<1>7. CASE b.kind = "text"
  <2>1. new.out = acc.out /\ new.texts = Append(t, a)
    BY <1>2, <1>4, <1>7
  <2>2. Count(p, Append(t, a)) = IF a = p THEN Count(p, t) + 1 ELSE Count(p, t)
    BY CountAppend
  <2>3. SpokenTexts(new)
    <3>1. Len(Append(t, a)) = Len(t) + 1 /\ Append(t, a)[Len(t) + 1] = a /\ \A k \in 1..Len(t) : Append(t, a)[k] = t[k]
      BY AppendProperties
    <3>2. \A k \in 1..Len(t) : t[k][2] # 0
      BY <1>4 DEF SpokenTexts
    <3>3. \A k \in 1..Len(t) + 1 : k = Len(t) + 1 \/ k \in 1..Len(t)
      OBVIOUS
    <3>4. DOMAIN Append(t, a) = 1..Len(t) + 1
      BY <3>1, AppendProperties
    <3> QED
      BY <1>4, <2>1, <3>1, <3>2, <3>3, <3>4 DEF SpokenTexts
  <2>4. Adds(p, b) = (IF a = p THEN 1 ELSE 0) /\ ~Ends(acc, b)
    BY <1>4, <1>7 DEF Adds, Ends
  <2>5. Sofar(p, new) = Count(p, o) + Count(p, Append(t, a)) /\ Sofar(p, acc) = Count(p, o) + Count(p, t)
    BY <1>4, <2>1 DEF Sofar
  <2> QED
    BY <1>5, <2>2, <2>3, <2>4, <2>5 DEF new
<1>8. CASE b.kind = "tool_result"
  <2>1. new.texts = <<>> /\ new.out = ((acc.out \o Flush(acc.texts)) \o <<ResultMessage(b)>>) \o More(acc, b)
    BY <1>2, <1>8
  <2>2. PICK fl \in Seq(UpstreamMessages) : fl = Flush(acc.texts) /\ Told(fl) = Spoken(acc.texts)
    BY <1>3, FlushType
  <2>3. Told(fl) = t
    BY <1>3, <1>4, <2>2, SpokenFacts DEF SpokenTexts
  <2>4. PICK r \in Seq(UpstreamMessages) : r = <<ResultMessage(b)>> /\ Told(r) = <<a>>
    <3>1. ResultMessage(b) \in UpstreamMessages /\ ResultMessage(b).text = <<a>>
      BY <1>4, ResultMessageType
    <3>2. <<ResultMessage(b)>> \in Seq(UpstreamMessages) /\ Told(<<ResultMessage(b)>>) = Spoken(<<a>>)
      BY <3>1, ToldOne
    <3>3. Spoken(<<a>>) = <<a>>
      <4>1. <<a>> \in Seq(Place) /\ \A k \in DOMAIN <<a>> : <<a>>[k][2] # 0
        BY <1>4
      <4> QED
        BY <4>1, SpokenFacts
    <3> QED
      BY <3>2, <3>3
  <2>5. PICK d \in Seq(UpstreamMessages) : d = More(acc, b) /\ Told(d) = IF Ends(acc, b) THEN HeldText ELSE <<>>
    <3>1. CASE Ends(acc, b)
      <4>1. More(acc, b) = Deferred
        BY <3>1 DEF Ends, More
      <4> QED
        BY <3>1, <4>1, DeferredTold
    <3>2. CASE ~Ends(acc, b)
      <4>1. More(acc, b) = <<>>
        BY <1>8, <3>2 DEF Ends, More
      <4> QED
        BY <3>2, <4>1, ToldNone
    <3> QED
      BY <3>1, <3>2
  <2>6. PICK out \in Seq(UpstreamMessages) : out = acc.out
    BY <1>3
  <2>7. out \o fl \in Seq(UpstreamMessages) /\ Told(out \o fl) = o \o t
    BY <1>4, <2>3, <2>6, ToldConcat
  <2>8. (out \o fl) \o r \in Seq(UpstreamMessages) /\ Told((out \o fl) \o r) = (o \o t) \o <<a>>
    BY <2>4, <2>7, ToldConcat
  <2>9. Told(((out \o fl) \o r) \o d) = ((o \o t) \o <<a>>) \o Told(d)
    BY <2>8, ToldConcat
  <2>10. PICK h \in Seq(Place), one \in Seq(Place) : h = Told(d) /\ one = <<a>>
    <3>1. Told(d) \in Seq(Place)
      BY ToldIs
    <3>2. <<a>> \in Seq(Place)
      BY JustOne
    <3> QED
      BY <3>1, <3>2
  <2>11. PICK u \in Seq(Place) : u = o \o t /\ Count(p, u) = Count(p, o) + Count(p, t)
    <3>1. o \o t \in Seq(Place)
      BY ConcatProperties
    <3>2. Count(p, o \o t) = Count(p, o) + Count(p, t)
      BY CountConcat
    <3> QED
      BY <3>1, <3>2
  <2>12. PICK v \in Seq(Place) : v = u \o one /\ Count(p, v) = Count(p, u) + Count(p, one)
    <3>1. u \o one \in Seq(Place)
      BY ConcatProperties
    <3>2. Count(p, u \o one) = Count(p, u) + Count(p, one)
      BY CountConcat
    <3> QED
      BY <3>1, <3>2
  <2>13. Count(p, v \o h) = Count(p, v) + Count(p, h) /\ Count(p, h) \in Nat
    <3>1. Count(p, v \o h) = Count(p, v) + Count(p, h)
      BY CountConcat
    <3>2. Count(p, h) \in Nat
      BY CountConcat
    <3> QED
      BY <3>1, <3>2
  <2>14. Count(p, one) = IF a = p THEN 1 ELSE 0
    <3>1. one = Append(<<>>, a) /\ <<>> \in Seq(Place)
      BY <2>10, JustOne
    <3>2. PICK e \in Seq(Place) : e = <<>>
      BY <3>1
    <3>3. Count(p, Append(e, a)) = IF a = p THEN Count(p, e) + 1 ELSE Count(p, e)
      BY CountAppend
    <3>4. Count(p, e) = 0
      BY <3>2, CountNone
    <3> QED
      BY <3>1, <3>2, <3>3, <3>4
  <2>15. Told(new.out) = v \o h
    BY <2>1, <2>2, <2>4, <2>5, <2>6, <2>9, <2>10, <2>11, <2>12
  <2>16. Count(p, h) = IF Ends(acc, b) THEN Count(p, HeldText) ELSE 0
    BY <2>5, <2>10, CountNone
  <2>17. Adds(p, b) = IF a = p THEN 1 ELSE 0
    BY <1>4, <1>8 DEF Adds
  <2>18. Count(p, new.texts) = 0 /\ SpokenTexts(new)
    BY <2>1, CountNone DEF SpokenTexts
  <2>19. Sofar(p, new) = Count(p, v \o h) /\ Sofar(p, acc) = Count(p, o) + Count(p, t)
    BY <1>4, <2>13, <2>15, <2>18, <1>5, <2>11, <2>12, <2>14 DEF Sofar
  <2>20. Sofar(p, new) = Count(p, o) + Count(p, t) + Count(p, one) + Count(p, h)
    BY <1>5, <2>11, <2>12, <2>13, <2>14, <2>19
  <2> QED
    BY <1>5, <2>14, <2>16, <2>17, <2>18, <2>19, <2>20 DEF new
<1> QED
  BY <1>6, <1>7, <1>8

Own(q, p) == Count(p, Places(OfKind(q, {"text", "tool_result"})))
AnswersIn(q, i) == {q[j].id : j \in {k \in 1..i : q[k].kind = "tool_result"}}

(* A result that comes when what it answers is answered already.             *)
Repeats(f, q, i) == \E j \in 1..i : q[j].kind = "tool_result" /\ q[j].id \notin f[j - 1].ids

FoldCount(f, q, i, p) ==
    /\ ~Injecting => Sofar(p, f[i]) = Own(SubSeq(q, 1, i), p) + Count(p, HeldText)
    /\ Injecting /\ f[i].ids # {} => Sofar(p, f[i]) = Own(SubSeq(q, 1, i), p)
    /\ Injecting /\ f[i].ids = {} =>
          /\ Sofar(p, f[i]) >= Own(SubSeq(q, 1, i), p) + Count(p, HeldText)
          /\ Sofar(p, f[i]) > Own(SubSeq(q, 1, i), p) + Count(p, HeldText) => Count(p, HeldText) > 0 /\ Repeats(f, q, i)

FoldWell(f, q, i) ==
    /\ SpokenTexts(f[i]) /\ f[i].injecting = Injecting /\ f[i].ids = pending.ids \ AnswersIn(q, i)
    /\ \A p : FoldCount(f, q, i, p)

(* One more block counts if it is a text or a result.                      *)
LEMMA OwnAppend ==
  ASSUME NEW q \in Seq(ClientBlocks), NEW b \in ClientBlocks, NEW p
  PROVE  Own(q, p) \in Nat /\ Own(Append(q, b), p) = Own(q, p) + Adds(p, b)
<1> DEFINE kinds == {"text", "tool_result"}
<1>1. PICK w \in Seq(Place), a \in Place : w = Places(OfKind(q, kinds)) /\ a = b.at
  BY PlacesAppend
<1>2. Places(OfKind(Append(q, b), kinds)) = IF b.kind \in kinds THEN Append(w, a) ELSE w
  BY <1>1, PlacesAppend
<1>3. Count(p, w) \in Nat /\ Count(p, Append(w, a)) = IF a = p THEN Count(p, w) + 1 ELSE Count(p, w)
  BY CountAppend
<1> QED
  <2>1. Own(q, p) = Count(p, w) /\ Own(Append(q, b), p) = Count(p, Places(OfKind(Append(q, b), kinds)))
    BY <1>1 DEF Own
  <2>2. CASE b.kind \in kinds
    <3>1. Own(Append(q, b), p) = Count(p, Append(w, a))
      BY <1>2, <2>1, <2>2
    <3>2. Adds(p, b) = IF a = p THEN 1 ELSE 0
      BY <1>1, <2>2 DEF Adds
    <3> QED
      BY <1>3, <2>1, <3>1, <3>2
  <2>3. CASE b.kind \notin kinds
    <3>1. Adds(p, b) = 0
      BY <2>3 DEF Adds
    <3> QED
      BY <1>2, <1>3, <2>1, <2>3, <3>1
  <2> QED
    BY <2>2, <2>3

(* The counts are right before the first block.                            *)
LEMMA FoldBegins ==
  ASSUME Sound, NEW n, NEW m, Received(m, n), NEW f, IsReplay(f, Beginning, m.blocks)
  PROVE  FoldWell(f, m.blocks, 0)
<1>1. mode \in Modes /\ pending \in Holding /\ m.blocks \in Seq(ClientBlocks)
  BY DEF Sound, ConversionTypes, Received, ClientMessages
<1>2. f[0] = Beginning
  BY DEF IsReplay
<1>3. /\ Beginning.out = IF Injecting THEN <<>> ELSE Deferred
      /\ Beginning.texts = <<>> /\ Beginning.ids = pending.ids /\ Beginning.injecting = Injecting
  BY <1>1, BeginningType
<1>4. SpokenTexts(f[0]) /\ f[0].injecting = Injecting
  BY <1>2, <1>3 DEF SpokenTexts
<1>5. f[0].ids = pending.ids \ AnswersIn(m.blocks, 0)
  <2>1. AnswersIn(m.blocks, 0) = {}
    BY DEF AnswersIn
  <2> QED
    BY <1>2, <1>3, <2>1
<1>6. ASSUME NEW p
      PROVE  FoldCount(f, m.blocks, 0, p)
  <2>1. SubSeq(m.blocks, 1, 0) = <<>>
    BY <1>1, SubSeqProperties, EmptySeq
  <2>2. Own(<<>>, p) = 0
    <3>1. Places(OfKind(<<>>, {"text", "tool_result"})) = <<>>
      BY OfKindNone DEF Places
    <3> QED
      BY <3>1, CountNone DEF Own
  <2>3. PICK h \in Nat : h = Count(p, HeldText)
    BY DeferredTold, CountConcat
  <2>4. CASE Injecting
    <3>1. f[0].out = <<>> /\ f[0].texts = <<>> /\ f[0].ids # {}
      BY <1>2, <1>3, <2>4 DEF Injecting
    <3>2. Sofar(p, f[0]) = 0
      BY <3>1, ToldNone, CountNone DEF Sofar
    <3> QED
      BY <2>1, <2>2, <2>4, <3>1, <3>2 DEF FoldCount
  <2>5. CASE ~Injecting
    <3>1. f[0].out = Deferred /\ f[0].texts = <<>>
      BY <1>2, <1>3, <2>5
    <3>2. Sofar(p, f[0]) = h + 0
      BY <2>3, <3>1, DeferredTold, CountNone DEF Sofar
    <3> QED
      <4>1. Own(SubSeq(m.blocks, 1, 0), p) = 0 /\ Sofar(p, f[0]) = 0 + Count(p, HeldText)
        <5>1. Own(SubSeq(m.blocks, 1, 0), p) = 0
          BY <2>1, <2>2
        <5>2. Sofar(p, f[0]) = 0 + h
          BY <3>2
        <5> QED
          BY <2>3, <5>1, <5>2
      <4> QED
        BY <2>5, <4>1 DEF FoldCount
  <2> QED
    BY <2>4, <2>5
<1> QED
  BY <1>4, <1>5, <1>6 DEF FoldWell

(* They stay right with each block: a second telling of what was held back *)
(* needs a result that is answered again.                                  *)
LEMMA FoldGoesOn ==
  ASSUME Sound, NEW n, NEW m, Received(m, n), NEW f, IsReplay(f, Beginning, m.blocks),
         NEW i \in Nat, i < Len(m.blocks), FoldWell(f, m.blocks, i)
  PROVE  FoldWell(f, m.blocks, i + 1)
<1>1. mode \in Modes /\ pending \in Holding /\ m.blocks \in Seq(ClientBlocks)
  BY DEF Sound, ConversionTypes, Received, ClientMessages
<1>2. PICK q \in Seq(ClientBlocks) : q = m.blocks
  BY <1>1
<1>3. PICK j \in 1..Len(q) : j = i + 1 /\ i = j - 1 /\ i \in 0..Len(q)
  BY <1>2
<1>4. PICK b \in ClientBlocks : b = q[j]
  OBVIOUS
<1>5. PICK acc \in Folding, new \in Folding : acc = f[i] /\ new = f[j] /\ new = Block(acc, b)
  <2>0. f \in [0..Len(q) -> Folding] /\ \A k \in 1..Len(q) : f[k] = Block(f[k - 1], q[k])
    BY <1>2 DEF IsReplay
  <2>1. f[i] \in Folding /\ f[j] \in Folding
    <3>1. i \in 0..Len(q) /\ j \in 0..Len(q)
      BY <1>3
    <3> QED
      BY <2>0, <3>1
  <2>2. f[j] = Block(f[j - 1], q[j])
    BY <2>0
  <2>3. f[j] = Block(f[i], b)
    BY <1>3, <1>4, <2>2
  <2> QED
    BY <2>1, <2>3
<1>6. b.at[2] # 0
  <2>1. b.at = <<n, j>> /\ j # 0
    BY <1>2, <1>3, <1>4 DEF Received
  <2> QED
    BY <2>1
<1>7. SpokenTexts(acc) /\ acc.injecting = Injecting /\ acc.ids = pending.ids \ AnswersIn(q, i)
  BY <1>2, <1>5 DEF FoldWell
<1>8. /\ new.injecting = acc.injecting
      /\ b.kind # "tool_result" => new.ids = acc.ids
      /\ b.kind = "tool_result" => new.ids = acc.ids \ {b.id}
  <2>1. /\ Block(acc, b).injecting = acc.injecting
        /\ b.kind \notin {"text", "tool_result"} => Block(acc, b) = acc
        /\ b.kind = "text" => Block(acc, b).ids = acc.ids
        /\ b.kind = "tool_result" => Block(acc, b).ids = acc.ids \ {b.id}
    BY <1>1, BlockType
  <2> QED
    BY <1>5, <2>1
<1>9. SpokenTexts(new)
  BY <1>5, <1>6, <1>7, SofarStep
<1>10. new.ids = pending.ids \ AnswersIn(q, j)
  <2>1. \A k \in 1..j : k = j \/ k \in 1..i
    BY <1>3
  <2>2. \A k \in 1..i : k \in 1..j
    BY <1>3
  <2>3. AnswersIn(q, j) = AnswersIn(q, i) \cup (IF b.kind = "tool_result" THEN {b.id} ELSE {})
    <3>1. ASSUME NEW x
          PROVE  x \in AnswersIn(q, j) <=> x \in AnswersIn(q, i) \/ (b.kind = "tool_result" /\ x = b.id)
      <4>1. x \in AnswersIn(q, j) <=> \E k \in 1..j : q[k].kind = "tool_result" /\ x = q[k].id
        BY DEF AnswersIn
      <4>2. x \in AnswersIn(q, i) <=> \E k \in 1..i : q[k].kind = "tool_result" /\ x = q[k].id
        BY DEF AnswersIn
      <4>3. j \in 1..j
        BY <1>3
      <4> QED
        BY <1>4, <2>1, <2>2, <4>1, <4>2, <4>3
    <3> QED
      BY <3>1
  <2> QED
    BY <1>7, <1>8, <2>3
<1>11. ASSUME NEW p
       PROVE  FoldCount(f, q, j, p)
  <2>1. PICK h \in Nat : h = Count(p, HeldText)
    BY DeferredTold, CountConcat
  <2>2. Sofar(p, acc) \in Nat /\ Sofar(p, new) = Sofar(p, acc) + Adds(p, b) + (IF Ends(acc, b) THEN h ELSE 0)
    BY <1>5, <1>6, <1>7, <2>1, SofarStep
  <2>3. PICK w \in Seq(ClientBlocks) : w = SubSeq(q, 1, i) /\ SubSeq(q, 1, j) = Append(w, b)
    <3>1. i \in 0..Len(q) - 1
      BY <1>3
    <3> QED
      <4>1. SubSeq(q, 1, j) = Append(SubSeq(q, 1, i), q[j]) /\ SubSeq(q, 1, i) \in Seq(ClientBlocks)
        <5>1. SubSeq(q, 1, j) = Append(SubSeq(q, 1, j - 1), q[j]) /\ SubSeq(q, 1, j - 1) \in Seq(ClientBlocks)
          BY PrefixGrows
        <5> QED
          BY <1>3, <5>1
      <4> QED
        BY <1>4, <4>1
  <2>4. Own(w, p) \in Nat /\ Own(SubSeq(q, 1, j), p) = Own(w, p) + Adds(p, b)
    BY <2>3, OwnAppend
  <2>5. PICK s \in Nat, t \in Nat, o \in Nat, x \in Nat, a \in Nat :
             s = Sofar(p, acc) /\ t = Sofar(p, new) /\ o = Own(w, p) /\ x = Own(SubSeq(q, 1, j), p) /\ a = Adds(p, b)
    <3>1. Adds(p, b) \in Nat
      BY DEF Adds
    <3> QED
      BY <2>1, <2>2, <2>4, <3>1
  <2>6. t = s + a + (IF Ends(acc, b) THEN h ELSE 0) /\ x = o + a
    BY <2>2, <2>4, <2>5
  <2>7. FoldCount(f, q, i, p)
    BY <1>2 DEF FoldWell
  <2>8. /\ ~Injecting => s = o + h
        /\ Injecting /\ acc.ids # {} => s = o
        /\ Injecting /\ acc.ids = {} => s >= o + h /\ (s > o + h => h > 0 /\ Repeats(f, q, i))
    BY <1>5, <2>1, <2>3, <2>5, <2>7 DEF FoldCount
  <2>9. Repeats(f, q, i) => Repeats(f, q, j)
    <3>1. \A k \in 1..i : k \in 1..j
      BY <1>3
    <3> QED
      BY <3>1 DEF Repeats
  <2>10. Ends(acc, b) <=> b.kind = "tool_result" /\ Injecting /\ new.ids = {}
    BY <1>7, <1>8 DEF Ends
  <2>11. b.kind = "tool_result" /\ acc.ids = {} => Repeats(f, q, j)
    BY <1>3, <1>4, <1>5 DEF Repeats
  <2>12. CASE ~Injecting
    BY <1>5, <2>1, <2>5, <2>6, <2>8, <2>10, <2>12 DEF FoldCount
  <2>13. CASE Injecting /\ new.ids # {}
    <3>1. acc.ids # {} /\ ~Ends(acc, b)
      BY <1>8, <2>10, <2>13
    <3>2. t = x
      BY <2>6, <2>8, <2>13, <3>1
    <3> QED
      BY <1>5, <2>5, <2>13, <3>2 DEF FoldCount
  <2>14. CASE Injecting /\ new.ids = {}
    <3>1. t >= x + h /\ (t > x + h => h > 0 /\ Repeats(f, q, j))
      <4>1. CASE acc.ids # {}
        <5>1. Ends(acc, b)
          BY <1>8, <2>10, <2>14, <4>1
        <5> QED
          BY <2>6, <2>8, <2>14, <4>1, <5>1
      <4>2. CASE acc.ids = {} /\ Ends(acc, b)
        <5>1. Repeats(f, q, j)
          BY <2>10, <2>11, <4>2
        <5> QED
          BY <2>6, <2>8, <2>14, <4>2, <5>1
      <4>3. CASE acc.ids = {} /\ ~Ends(acc, b)
        BY <2>6, <2>8, <2>9, <2>14, <4>3
      <4> QED
        BY <4>1, <4>2, <4>3
    <3> QED
      BY <1>5, <2>1, <2>5, <2>14, <3>1 DEF FoldCount
  <2> QED
    BY <2>12, <2>13, <2>14
<1>12. FoldWell(f, q, j)
  BY <1>5, <1>7, <1>8, <1>9, <1>10, <1>11 DEF FoldWell
<1> QED
  BY <1>2, <1>3, <1>12

(* So it is after every block.                                               *)
LEMMA FoldCounts ==
  ASSUME Sound, NEW n, NEW m, Received(m, n), NEW f, IsReplay(f, Beginning, m.blocks)
  PROVE  \A i \in 0..Len(m.blocks) : FoldWell(f, m.blocks, i)
<1> DEFINE P == {i \in Nat : i <= Len(m.blocks) => FoldWell(f, m.blocks, i)}
<1>0. Len(m.blocks) \in Nat
  BY DEF Received, ClientMessages
<1>1. 0 \in P
  BY FoldBegins
<1>2. \A i \in Nat : i \in P => i + 1 \in P
  <2> SUFFICES ASSUME NEW i \in Nat, i \in P, i + 1 <= Len(m.blocks)
               PROVE  FoldWell(f, m.blocks, i + 1)
    OBVIOUS
  <2>1. i < Len(m.blocks) /\ FoldWell(f, m.blocks, i)
    BY <1>0
  <2> QED
    BY <2>1, FoldGoesOn
<1> HIDE DEF P
<1>3. \A i \in Nat : i \in P
  BY <1>1, <1>2, Induction
<1> QED
  BY <1>0, <1>3 DEF P

(* Each block that is kept is there once.                                    *)
LEMMA CountPlaces ==
  ASSUME NEW n, NEW m, Received(m, n), NEW S, NEW p
  PROVE  /\ Places(Without(m.blocks, S)) \in Seq(Place)
         /\ (\A i \in DOMAIN m.blocks : m.blocks[i] \in S \/ p # <<n, i>>) => Count(p, Places(Without(m.blocks, S))) = 0
         /\ (\E i \in DOMAIN m.blocks : m.blocks[i] \notin S /\ p = <<n, i>>) => Count(p, Places(Without(m.blocks, S))) = 1
<1>1. PICK q \in Seq(ClientBlocks) : q = m.blocks
  BY DEF Received, ClientMessages
<1>2. \A i \in DOMAIN q : q[i].at = <<n, i>>
  BY <1>1 DEF Received
<1>3. \A i, j \in DOMAIN q : q[i].at = q[j].at => i = j
  BY <1>2
<1>4. PICK w \in Seq(ClientBlocks) : w = Without(q, S)
  BY WithoutIsSeq
<1>5. \A i \in DOMAIN w : w[i] \notin S /\ \E j \in DOMAIN q : w[i] = q[j]
  BY <1>4, WithoutIsSeq
<1>6. /\ \A j \in DOMAIN q : q[j] \notin S => \E i \in DOMAIN w : w[i] = q[j]
      /\ \A i, j \in DOMAIN w : w[i] = w[j] => i = j
  <2>1. \A i, j \in DOMAIN q : q[i] = q[j] => i = j
    BY <1>3
  <2>2. \A j \in DOMAIN q : q[j] \notin S => \E i \in DOMAIN Without(q, S) : Without(q, S)[i] = q[j]
    BY WithoutKeeps
  <2>3. \A i, j \in DOMAIN Without(q, S) : Without(q, S)[i] = Without(q, S)[j] => i = j
    BY <2>1, WithoutKeeps
  <2> QED
    BY <1>4, <2>2, <2>3
<1>7. PICK s \in Seq(Place) : s = Places(w) /\ DOMAIN s = DOMAIN w /\ \A i \in DOMAIN w : s[i] = w[i].at
  BY PlacesIs DEF Places
<1>8. ASSUME \A i \in DOMAIN q : q[i] \in S \/ p # <<n, i>>
      PROVE  Count(p, s) = 0
  <2>1. \A i \in DOMAIN s : s[i] # p
    <3> SUFFICES ASSUME NEW i \in DOMAIN s PROVE s[i] # p
      OBVIOUS
    <3>1. PICK j \in DOMAIN q : w[i] = q[j] /\ q[j] \notin S
      BY <1>5, <1>7
    <3>2. s[i] = <<n, j>>
      BY <1>2, <1>7, <3>1
    <3> QED
      BY <1>8, <3>1, <3>2
  <2> QED
    BY <2>1, CountZero
<1>9. ASSUME NEW i \in DOMAIN q, q[i] \notin S, p = <<n, i>>
      PROVE  Count(p, s) = 1
  <2>1. PICK k \in DOMAIN s : s[k] = p
    BY <1>2, <1>6, <1>7, <1>9
  <2>2. \A j \in DOMAIN s : s[j] = s[k] => j = k
    <3> SUFFICES ASSUME NEW j \in DOMAIN s, s[j] = s[k] PROVE j = k
      OBVIOUS
    <3>1. PICK a \in DOMAIN q, b \in DOMAIN q : w[j] = q[a] /\ w[k] = q[b]
      BY <1>5, <1>7
    <3>2. a = b
      BY <1>3, <1>7, <3>1
    <3> QED
      BY <1>6, <1>7, <3>1, <3>2
  <2> QED
    BY <2>1, <2>2, CountOne
<1> QED
  BY <1>1, <1>4, <1>7, <1>8, <1>9

Says(m, n, p) == \E i \in DOMAIN m.blocks : m.blocks[i].kind \in {"text", "tool_result"} /\ p = <<n, i>>

(* What each kind of message gives: what it says once, and nothing of another.  *)
LEMMA AssistantSays ==
  ASSUME NEW n, NEW m, Received(m, n), m.role = "assistant", NEW p \in Place
  PROVE  LET e == Count(p, Places(Only(m, Earlier(m))))
             l == Count(p, Places(Only(m, Later(m))))
         IN  e \in Nat /\ l \in Nat /\ (p[1] # n => e + l = 0) /\ (Says(m, n, p) => e + l = 1)
<1> DEFINE E == ClientBlocks \ Earlier(m)
           L == ClientBlocks \ Later(m)
<1>1. m.blocks \in Seq(ClientBlocks)
  BY DEF Received, ClientMessages
<1>2. Only(m, Earlier(m)) = Without(m.blocks, E) /\ Only(m, Later(m)) = Without(m.blocks, L)
  BY DEF Only
<1>3. \A i \in DOMAIN m.blocks : m.blocks[i] \in ClientBlocks
  BY <1>1
<1>4. \A b \in ClientBlocks : b.kind = "text" => (b \in E <=> b \notin L)
  BY ToolsNotShown DEF Earlier, Later
<1> HIDE DEF E, L
<1>5. ASSUME p[1] # n
      PROVE  Count(p, Places(Without(m.blocks, E))) = 0 /\ Count(p, Places(Without(m.blocks, L))) = 0
  <2>1. \A i \in DOMAIN m.blocks : p # <<n, i>>
    BY <1>5
  <2> QED
    BY <2>1, CountPlaces
<1>6. ASSUME Says(m, n, p)
      PROVE  Count(p, Places(Without(m.blocks, E))) + Count(p, Places(Without(m.blocks, L))) = 1
  <2>1. PICK i \in DOMAIN m.blocks : m.blocks[i].kind \in {"text", "tool_result"} /\ p = <<n, i>>
    BY <1>6 DEF Says
  <2>2. m.blocks[i].kind = "text"
    BY <2>1 DEF Received
  <2>3. \A j \in DOMAIN m.blocks : p = <<n, j>> => j = i
    BY <2>1
  <2>4. CASE m.blocks[i] \notin E
    <3>1. \A j \in DOMAIN m.blocks : m.blocks[j] \in L \/ p # <<n, j>>
      BY <1>3, <1>4, <2>2, <2>3, <2>4
    <3>2. Count(p, Places(Without(m.blocks, E))) = 1
      BY <2>1, <2>4, CountPlaces
    <3>3. Count(p, Places(Without(m.blocks, L))) = 0
      BY <3>1, CountPlaces
    <3> QED
      BY <3>2, <3>3
  <2>5. CASE m.blocks[i] \in E
    <3>1. \A j \in DOMAIN m.blocks : m.blocks[j] \in E \/ p # <<n, j>>
      BY <2>3, <2>5
    <3>2. m.blocks[i] \notin L
      BY <1>3, <1>4, <2>2, <2>5
    <3>3. Count(p, Places(Without(m.blocks, L))) = 1
      BY <2>1, <3>2, CountPlaces
    <3>4. Count(p, Places(Without(m.blocks, E))) = 0
      BY <3>1, CountPlaces
    <3> QED
      BY <3>3, <3>4
  <2> QED
    BY <2>4, <2>5
<1>7. Count(p, Places(Without(m.blocks, E))) \in Nat /\ Count(p, Places(Without(m.blocks, L))) \in Nat
  <2>1. PICK a \in Seq(Place), b \in Seq(Place) : a = Places(Without(m.blocks, E)) /\ b = Places(Without(m.blocks, L))
    BY CountPlaces
  <2>2. Count(p, a) \in Nat
    BY CountConcat
  <2>3. Count(p, b) \in Nat
    BY CountConcat
  <2> QED
    BY <2>1, <2>2, <2>3
<1> QED
  BY <1>2, <1>5, <1>6, <1>7

(* A string says each of its blocks once, and nothing of another message.  *)
LEMMA StringSays ==
  ASSUME NEW n, NEW m, Received(m, n), NEW p \in Place
  PROVE  /\ Count(p, Places(m.blocks)) \in Nat /\ Places(m.blocks) \in Seq(Place)
         /\ p[1] # n => Count(p, Places(m.blocks)) = 0
         /\ Says(m, n, p) => Count(p, Places(m.blocks)) = 1
<1>1. m.blocks \in Seq(ClientBlocks) /\ Without(m.blocks, {}) = m.blocks
  BY WithoutNothing DEF Received, ClientMessages
<1>2. PICK s \in Seq(Place) : s = Places(m.blocks)
  BY <1>1, PlacesIs
<1>3. Count(p, s) \in Nat
  BY CountConcat
<1>4. p[1] # n => Count(p, s) = 0
  <2>1. p[1] # n => \A i \in DOMAIN m.blocks : p # <<n, i>>
    OBVIOUS
  <2>2. (\A i \in DOMAIN m.blocks : m.blocks[i] \in {} \/ p # <<n, i>>) => Count(p, Places(Without(m.blocks, {}))) = 0
    BY CountPlaces
  <2> QED
    BY <1>1, <1>2, <2>1, <2>2
<1>5. Says(m, n, p) => Count(p, s) = 1
  <2>1. (\E i \in DOMAIN m.blocks : m.blocks[i] \notin {} /\ p = <<n, i>>) => Count(p, Places(Without(m.blocks, {}))) = 1
    BY CountPlaces
  <2> QED
    BY <1>1, <1>2, <2>1 DEF Says
<1> QED
  BY <1>2, <1>3, <1>4, <1>5

(* So does a user's list of its texts and results.                         *)
LEMMA UserSays ==
  ASSUME NEW n, NEW m, Received(m, n), NEW p \in Place
  PROVE  /\ Own(m.blocks, p) \in Nat
         /\ p[1] # n => Own(m.blocks, p) = 0
         /\ Says(m, n, p) => Own(m.blocks, p) = 1
<1> DEFINE kinds == {"text", "tool_result"}
           S == {b \in ClientBlocks : b.kind \notin kinds}
<1>1. m.blocks \in Seq(ClientBlocks) /\ \A i \in DOMAIN m.blocks : m.blocks[i] \in S <=> m.blocks[i].kind \notin kinds
  BY DEF Received, ClientMessages
<1>2. OfKind(m.blocks, kinds) = Without(m.blocks, S)
  BY <1>1, OfKindIs
<1>3. Own(m.blocks, p) = Count(p, Places(Without(m.blocks, S)))
  BY <1>2 DEF Own
<1> HIDE DEF S
<1>4. PICK s \in Seq(Place) : s = Places(Without(m.blocks, S))
  BY CountPlaces
<1>5. Count(p, s) \in Nat
  BY CountConcat
<1>6. p[1] # n => Count(p, s) = 0
  <2>1. p[1] # n => \A i \in DOMAIN m.blocks : p # <<n, i>>
    OBVIOUS
  <2>2. (\A i \in DOMAIN m.blocks : m.blocks[i] \in S \/ p # <<n, i>>) => Count(p, Places(Without(m.blocks, S))) = 0
    BY CountPlaces
  <2> QED
    BY <1>4, <2>1, <2>2
<1>7. Says(m, n, p) => Count(p, s) = 1
  <2>1. (\E i \in DOMAIN m.blocks : m.blocks[i] \notin S /\ p = <<n, i>>) => Count(p, Places(Without(m.blocks, S))) = 1
    BY CountPlaces
  <2> QED
    BY <1>1, <1>4, <2>1 DEF Says
<1> QED
  BY <1>3, <1>4, <1>5, <1>6, <1>7

(* How often p is told, counting what is still held back.                    *)
Total(p) == Count(p, Told(output)) + Count(p, HeldText)

(* A result that comes when no call it could answer is open.                 *)
RepeatsIn(m) ==
    \E j \in 1..Len(m.blocks) : m.blocks[j].kind = "tool_result" /\ m.blocks[j].id \notin pending.ids \ AnswersIn(m.blocks, j - 1)

Grown(m, n, p) ==
    \E g \in Nat : /\ p[1] # n => g = 0
                   /\ Says(m, n, p) => g = 1
                   /\ Total(p)' >= Total(p) + g
                   /\ Total(p)' > Total(p) + g => Count(p, HeldText) > 0 /\ Injecting /\ RepeatsIn(m)

(* How often something is in three sequences, one after the other.         *)
LEMMA CountThree ==
  ASSUME NEW A, NEW a \in Seq(A), NEW b \in Seq(A), NEW c \in Seq(A), NEW p
  PROVE  /\ Count(p, (a \o b) \o c) = Count(p, a) + Count(p, b) + Count(p, c)
         /\ Count(p, a) \in Nat /\ Count(p, b) \in Nat /\ Count(p, c) \in Nat
<1>1. PICK d \in Seq(A) : d = a \o b
  BY ConcatProperties
<1>2. Count(p, a \o b) = Count(p, a) + Count(p, b)
  BY CountConcat
<1>3. Count(p, d \o c) = Count(p, d) + Count(p, c)
  BY CountConcat
<1>4. Count(p, a) \in Nat
  BY CountConcat
<1>5. Count(p, b) \in Nat
  BY CountConcat
<1>6. Count(p, c) \in Nat
  BY CountConcat
<1> QED
  BY <1>1, <1>2, <1>3, <1>4, <1>5, <1>6

(* What is told and what is held back are places, so they can be counted.  *)
LEMMA TotalNow ==
  ASSUME Sound
  PROVE  Told(output) \in Seq(Place) /\ HeldText \in Seq(Place) /\ \A p : Count(p, HeldText) \in Nat /\ Count(p, Told(output)) \in Nat
<1>1. PICK a \in Seq(Place), b \in Seq(Place) : a = Told(output) /\ b = HeldText
  BY ToldIs, DeferredTold DEF Sound, ConversionTypes
<1>2. \A p : Count(p, a) \in Nat
  BY CountConcat
<1>3. \A p : Count(p, b) \in Nat
  BY CountConcat
<1> QED
  BY <1>1, <1>2, <1>3

(* An assistant's list adds its blocks to what is told or held back.       *)
LEMMA TotalAssistant ==
  ASSUME Sound, NEW n, NEW m, Received(m, n), NEW x, AssistantGives(m, x), m.role = "assistant", mode' = mode, NEW p \in Place
  PROVE  Grown(m, n, p)
<1>1. /\ Told(output') = (Told(output) \o HeldText) \o Places(Only(m, Earlier(m)))
      /\ HeldText' = Places(Only(m, Later(m)))
  BY AssistantTold
<1>2. PICK a \in Seq(Place), b \in Seq(Place), c \in Seq(Place) :
           a = Told(output) /\ b = HeldText /\ c = Places(Only(m, Earlier(m)))
  BY TotalNow, OnlyType DEF Received
<1>3. /\ Count(p, (a \o b) \o c) = Count(p, a) + Count(p, b) + Count(p, c)
      /\ Count(p, a) \in Nat /\ Count(p, b) \in Nat /\ Count(p, c) \in Nat
  BY CountThree
<1>4. PICK l \in Nat : /\ l = Count(p, Places(Only(m, Later(m))))
                       /\ p[1] # n => Count(p, c) + l = 0
                       /\ Says(m, n, p) => Count(p, c) + l = 1
  BY <1>2, AssistantSays
<1>5. PICK g \in Nat : g = Count(p, c) + l
  BY <1>3
<1>6. Total(p)' = Total(p) + g
  <2>1. Total(p)' = Count(p, (a \o b) \o c) + l
    BY <1>1, <1>2, <1>4 DEF Total
  <2>2. Total(p) = Count(p, a) + Count(p, b)
    BY <1>2 DEF Total
  <2> QED
    BY <1>3, <1>5, <2>1, <2>2
<1>7. Total(p) \in Nat
  BY <1>2, <1>3 DEF Total
<1>8. Total(p)' >= Total(p) + g /\ ~(Total(p)' > Total(p) + g)
  BY <1>6, <1>7
<1> QED
  BY <1>4, <1>5, <1>8 DEF Grown

(* A string adds its blocks.                                               *)
LEMMA TotalString ==
  ASSUME Sound, NEW n, NEW m, Received(m, n), NEW x, StringGives(m, x), mode' = mode, NEW p \in Place
  PROVE  Grown(m, n, p)
<1>1. PICK a \in Seq(Place), b \in Seq(Place), c \in Seq(Place) :
           a = Told(output) /\ b = HeldText /\ c = Places(m.blocks)
  BY TotalNow, StringSays
<1>2. /\ Count(p, (a \o b) \o c) = Count(p, a) + Count(p, b) + Count(p, c)
      /\ Count(p, a) \in Nat /\ Count(p, b) \in Nat /\ Count(p, c) \in Nat
  BY CountThree
<1>3. Count(p, a \o c) = Count(p, a) + Count(p, c)
  BY CountConcat
<1>4. PICK g \in Nat : g = Count(p, c) /\ (p[1] # n => g = 0) /\ (Says(m, n, p) => g = 1)
  BY <1>1, <1>2, StringSays
<1>5. Total(p) = Count(p, a) + Count(p, b) /\ Total(p) \in Nat
  BY <1>1, <1>2 DEF Total
<1>6. Total(p)' = Total(p) + g
  <2>1. CASE m.role = "user"
    <3>1. Told(output') = (a \o b) \o c /\ HeldText' = <<>>
      BY <1>1, <2>1, StringTold
    <3>2. Total(p)' = Count(p, (a \o b) \o c) + 0
      BY <3>1, CountNone DEF Total
    <3> QED
      BY <1>2, <1>4, <1>5, <3>2
  <2>2. CASE m.role # "user"
    <3>1. Told(output') = a \o c /\ HeldText' = b
      BY <1>1, <2>2, StringTold
    <3>2. Total(p)' = Count(p, a \o c) + Count(p, b)
      BY <3>1 DEF Total
    <3> QED
      BY <1>2, <1>3, <1>4, <1>5, <3>2
  <2> QED
    BY <2>1, <2>2
<1>7. Total(p)' >= Total(p) + g /\ ~(Total(p)' > Total(p) + g)
  BY <1>5, <1>6
<1> QED
  BY <1>4, <1>7 DEF Grown

(* The whole of a list.                                                      *)
LEMMA UserFold ==
  ASSUME Sound, NEW n, NEW m, Received(m, n), NEW f, UserGives(m, f)
  PROVE  /\ FoldWell(f, m.blocks, Len(m.blocks)) /\ SubSeq(m.blocks, 1, Len(m.blocks)) = m.blocks
         /\ Repeats(f, m.blocks, Len(m.blocks)) => RepeatsIn(m)
         /\ f[Len(m.blocks)] \in Folding
<1>1. PICK q \in Seq(ClientBlocks) : q = m.blocks
  BY DEF Received, ClientMessages
<1>2. IsReplay(f, Beginning, q)
  BY <1>1 DEF UserGives
<1>3. \A i \in 0..Len(q) : FoldWell(f, q, i)
  BY <1>1, <1>2, FoldCounts
<1>4. Len(q) \in 0..Len(q)
  BY <1>1
<1>5. SubSeq(q, 1, Len(q)) = q
  BY SubSeqProperties, SeqEqual
<1>6. Repeats(f, q, Len(q)) => RepeatsIn(m)
  <2> SUFFICES ASSUME NEW j \in 1..Len(q), q[j].kind = "tool_result", q[j].id \notin f[j - 1].ids
               PROVE  RepeatsIn(m)
    BY DEF Repeats
  <2>1. PICK i \in 0..Len(q) : i = j - 1
    BY <1>4
  <2>2. f[i].ids = pending.ids \ AnswersIn(q, i)
    BY <1>3 DEF FoldWell
  <2> QED
    BY <1>1, <2>1, <2>2 DEF RepeatsIn
<1>7. f[Len(q)] \in Folding
  BY <1>2, <1>4 DEF IsReplay
<1> QED
  BY <1>1, <1>3, <1>4, <1>5, <1>6, <1>7

(* A user's list adds its blocks; only repeated answers add more.          *)
LEMMA TotalUser ==
  ASSUME Sound, NEW n, NEW m, Received(m, n), NEW f, UserGives(m, f), mode' = mode, NEW p \in Place
  PROVE  Grown(m, n, p)
<1>1. PICK end \in Folding : end = f[Len(m.blocks)]
  BY UserFold
<1>2. /\ SpokenTexts(end) /\ FoldCount(f, m.blocks, Len(m.blocks), p) /\ SubSeq(m.blocks, 1, Len(m.blocks)) = m.blocks
      /\ Repeats(f, m.blocks, Len(m.blocks)) => RepeatsIn(m)
  BY <1>1, UserFold DEF FoldWell
<1>3. \A k \in DOMAIN end.texts : end.texts[k][2] # 0
  BY <1>2 DEF SpokenTexts
<1>4. /\ Told(output') = (Told(output) \o Told(end.out)) \o end.texts
      /\ Injecting /\ end.ids # {} => HeldText' = HeldText
      /\ ~(Injecting /\ end.ids # {}) => HeldText' = <<>>
  BY <1>1, <1>3, UserTold
<1>5. end.out \in Seq(UpstreamMessages) /\ end.texts \in Seq(Place)
  BY DEF Folding
<1>6. PICK a \in Seq(Place), b \in Seq(Place), c \in Seq(Place), d \in Seq(Place) :
           a = Told(output) /\ b = Told(end.out) /\ c = end.texts /\ d = HeldText
  BY <1>5, TotalNow, ToldIs
<1>7. /\ Count(p, (a \o b) \o c) = Count(p, a) + Count(p, b) + Count(p, c)
      /\ Count(p, a) \in Nat /\ Count(p, b) \in Nat /\ Count(p, c) \in Nat
  BY CountThree
<1>8. PICK s \in Nat, h \in Nat : s = Sofar(p, end) /\ s = Count(p, b) + Count(p, c) /\ h = Count(p, HeldText) /\ h = Count(p, d)
  BY <1>6, <1>7, TotalNow DEF Sofar
<1>9. PICK g \in Nat : g = Own(m.blocks, p) /\ (p[1] # n => g = 0) /\ (Says(m, n, p) => g = 1)
  BY UserSays
<1>10. /\ ~Injecting => s = g + h
       /\ Injecting /\ end.ids # {} => s = g
       /\ Injecting /\ end.ids = {} => s >= g + h /\ (s > g + h => h > 0 /\ RepeatsIn(m))
  BY <1>1, <1>2, <1>8, <1>9 DEF FoldCount
<1>11. PICK t \in Nat : t = Count(p, a) /\ Total(p) = t + h
  BY <1>6, <1>7, <1>8 DEF Total
<1>14. Count(p, (a \o b) \o c) = t + s
  <2>1. PICK y \in Nat, z \in Nat : y = Count(p, b) /\ z = Count(p, c)
    BY <1>7
  <2>2. Count(p, (a \o b) \o c) = t + y + z
    BY <1>7, <1>11, <2>1
  <2>3. s = y + z
    BY <1>8, <2>1
  <2> QED
    BY <2>2, <2>3
<1>12. CASE Injecting /\ end.ids # {}
  <2>1. Total(p)' = Count(p, (a \o b) \o c) + h
    BY <1>4, <1>6, <1>8, <1>12 DEF Total
  <2>2. Total(p)' = Total(p) + g
    <3>1. Total(p)' = (t + s) + h /\ s = g
      BY <1>10, <1>12, <1>14, <2>1
    <3> QED
      BY <1>11, <3>1
  <2>3. Total(p)' >= Total(p) + g /\ ~(Total(p)' > Total(p) + g)
    BY <1>11, <2>2
  <2> QED
    BY <1>9, <2>3 DEF Grown
<1>13. CASE ~(Injecting /\ end.ids # {})
  <2>1. Total(p)' = Count(p, (a \o b) \o c) + 0
    BY <1>4, <1>6, <1>13, CountNone DEF Total
  <2>2. Total(p)' = t + s
    BY <1>14, <2>1
  <2>3. CASE ~Injecting
    <3>1. Total(p)' >= Total(p) + g /\ ~(Total(p)' > Total(p) + g)
      BY <1>10, <1>11, <2>2, <2>3
    <3> QED
      BY <1>9, <3>1 DEF Grown
  <2>4. CASE Injecting
    <3>1. s >= g + h /\ (s > g + h => h > 0 /\ RepeatsIn(m))
      BY <1>10, <1>13, <2>4
    <3>2. Total(p)' >= Total(p) + g /\ (Total(p)' > Total(p) + g => h > 0 /\ RepeatsIn(m))
      BY <1>11, <2>2, <3>1
    <3> QED
      BY <1>8, <1>9, <2>4, <3>2 DEF Grown
  <2> QED
    BY <2>3, <2>4
<1> QED
  BY <1>12, <1>13

(* Whatever message is taken.                                                *)
LEMMA TotalGrows ==
  ASSUME Sound, NEW n, NEW m, Taken(m, n), phase' # "refused"
  PROVE  \A p \in Place : Grown(m, n, p)
<1> SUFFICES ASSUME NEW p \in Place PROVE Grown(m, n, p)
  OBVIOUS
<1>1. Received(m, n) /\ mode' = mode
  BY DEF Taken
<1>2. ASSUME NEW x, AssistantGives(m, x), m.role = "assistant"
      PROVE  Grown(m, n, p)
  BY <1>1, <1>2, TotalAssistant
<1>3. ASSUME NEW x, StringGives(m, x)
      PROVE  Grown(m, n, p)
  BY <1>1, <1>3, TotalString
<1>4. ASSUME NEW f, UserGives(m, f)
      PROVE  Grown(m, n, p)
  BY <1>1, <1>4, TotalUser
<1> QED
  BY <1>2, <1>3, <1>4 DEF Taken

(* What a list says when all of it is replayed.                              *)
LEMMA UserEnds ==
  ASSUME Sound, NEW n, NEW m, Received(m, n), NEW f, UserGives(m, f), mode' = mode
  PROVE  LET end == f[Len(m.blocks)]
         IN  /\ end.ids = pending.ids \ AnswersIn(m.blocks, Len(m.blocks))
             /\ Injecting /\ end.ids # {} =>
                   /\ HeldText' = HeldText /\ pending'.ids = end.ids /\ pending'.blocks = pending.blocks
             /\ ~(Injecting /\ end.ids # {}) => HeldText' = <<>> /\ ~Held'
             /\ \A i \in DOMAIN HeldText' : HeldText'[i][2] # 0
<1>1. FoldWell(f, m.blocks, Len(m.blocks))
  BY UserFold
<1>2. \A k \in DOMAIN f[Len(m.blocks)].texts : f[Len(m.blocks)].texts[k][2] # 0
  BY <1>1 DEF FoldWell, SpokenTexts
<1>3. f[Len(m.blocks)].ids = pending.ids \ AnswersIn(m.blocks, Len(m.blocks))
  BY <1>1 DEF FoldWell
<1>4. /\ Injecting /\ f[Len(m.blocks)].ids # {} =>
             /\ HeldText' = HeldText /\ pending'.ids = f[Len(m.blocks)].ids /\ pending'.blocks = pending.blocks
      /\ ~(Injecting /\ f[Len(m.blocks)].ids # {}) => HeldText' = <<>> /\ ~Held'
      /\ \A i \in DOMAIN HeldText' : HeldText'[i][2] # 0
  BY <1>2, UserTold
<1> QED
  BY <1>3, <1>4

(* Messages stay numbered, and what is held back stays text.               *)
LEMMA SoundStays ==
  ASSUME Sound, NEW m, Taken(m, Len(input) + 1)
  PROVE  Sound'
<1>1. PICK n \in Nat : n = Len(input) + 1 /\ n > 0
  BY DEF Sound, ConversionTypes
<1>2. ConversionTypes'
  BY TakenTypes DEF Sound
<1>3. m \in ClientMessages /\ Received(m, n) /\ mode' = mode /\ input' = Append(input, m)
  BY <1>1 DEF Taken
<1>4. \A k \in DOMAIN input' : Received(input'[k], k)
  <2>1. input \in Seq(ClientMessages)
    BY DEF Sound, ConversionTypes
  <2>2. /\ Append(input, m) \in Seq(ClientMessages) /\ Len(Append(input, m)) = n /\ Append(input, m)[n] = m
        /\ \A k \in 1..Len(input) : Append(input, m)[k] = input[k]
    BY <1>1, <1>3, <2>1, AppendProperties
  <2>3. \A k \in 1..n : k = n \/ k \in 1..Len(input)
    BY <1>1, <2>1
  <2>4. \A k \in 1..Len(input) : Received(input[k], k)
    BY <2>1 DEF Sound
  <2> QED
    BY <1>3, <2>2, <2>3, <2>4
<1>5. \A i \in DOMAIN HeldText' : HeldText'[i][2] # 0
  <2>1. CASE UNCHANGED <<output, pending>>
    <3>1. HeldText' = HeldText
      BY <1>3, <2>1 DEF HeldText, ShownKinds
    <3> QED
      BY <3>1 DEF Sound
  <2>2. ASSUME NEW x, AssistantGives(m, x)
        PROVE  \A i \in DOMAIN HeldText' : HeldText'[i][2] # 0
    BY <1>3, <2>2, AssistantTold
  <2>3. ASSUME NEW x, StringGives(m, x)
        PROVE  \A i \in DOMAIN HeldText' : HeldText'[i][2] # 0
    BY <1>3, <2>3, StringTold
  <2>4. ASSUME NEW f, UserGives(m, f)
        PROVE  \A i \in DOMAIN HeldText' : HeldText'[i][2] # 0
    BY <1>3, <2>4, UserEnds
  <2> QED
    BY <2>1, <2>2, <2>3, <2>4 DEF Taken
<1> QED
  BY <1>2, <1>4, <1>5 DEF Sound

(* The counts are numbers after a step, too.                               *)
LEMMA TotalNext ==
  ASSUME ConversionTypes', NEW p
  PROVE  Total(p)' \in Nat
<1>1. output' \in Seq(UpstreamMessages) /\ pending'.blocks \in Seq(ClientBlocks)
  BY DEF ConversionTypes, Holding
<1>2. OfKind(pending'.blocks, ShownKinds') \in Seq(ClientBlocks)
  BY <1>1, OfKindIs
<1>3. HeldText' \in Seq(Place)
  BY <1>2, PlacesIs DEF HeldText
<1>4. Told(output') \in Seq(Place)
  BY <1>1, ToldIs
<1>5. PICK a \in Seq(Place), b \in Seq(Place) : a = Told(output') /\ b = HeldText'
  BY <1>3, <1>4
<1>6. Count(p, a) \in Nat
  BY CountConcat
<1>7. Count(p, b) \in Nat
  BY CountConcat
<1> QED
  BY <1>5, <1>6, <1>7 DEF Total

-----------------------------------------------------------------------------

IsResult(b) == b.kind = "tool_result"
SurplusIn(c, n) ==
    \E k \in n + 1..Len(c) : \E i \in DOMAIN c[k].blocks :
        /\ IsResult(c[k].blocks[i])
        /\ \/ c[k].blocks[i].id \notin Calls(c[n]) \ {""}
           \/ \E h \in n + 1..k : \E j \in DOMAIN c[h].blocks :
                  IsResult(c[h].blocks[j]) /\ c[h].blocks[j].id = c[k].blocks[i].id /\ (h < k \/ j < i)

(* Surplus, with the conversation as a parameter.                          *)
LEMMA SurplusIs ==
  ASSUME NEW n
  PROVE  Surplus(n) <=> SurplusIn(input, n)
  BY DEF Surplus, SurplusIn, IsResult

AnswersSince(c, n) == UNION {AnswersIn(c[k].blocks, Len(c[k].blocks)) : k \in n + 1..Len(c)}

(* A conversation with one more message.                                   *)
LEMMA OneMore ==
  ASSUME NEW c \in Seq(ClientMessages), NEW m \in ClientMessages
  PROVE  /\ Append(c, m) \in Seq(ClientMessages) /\ Len(Append(c, m)) = Len(c) + 1 /\ Append(c, m)[Len(c) + 1] = m
         /\ \A k \in DOMAIN c : Append(c, m)[k] = c[k]
         /\ DOMAIN c = 1..Len(c) /\ DOMAIN Append(c, m) = 1..Len(c) + 1
         /\ \A k \in 1..Len(c) + 1 : k = Len(c) + 1 \/ k \in DOMAIN c
         /\ Len(c) \in Nat
<1>1. /\ Append(c, m) \in Seq(ClientMessages) /\ Len(Append(c, m)) = Len(c) + 1 /\ Append(c, m)[Len(c) + 1] = m
      /\ \A k \in 1..Len(c) : Append(c, m)[k] = c[k]
  BY AppendProperties
<1>2. DOMAIN c = 1..Len(c) /\ Len(c) \in Nat /\ DOMAIN Append(c, m) = 1..Len(c) + 1
  BY <1>1
<1>3. \A k \in 1..Len(c) + 1 : k = Len(c) + 1 \/ k \in 1..Len(c)
  BY <1>2
<1> QED
  BY <1>1, <1>2, <1>3

(* One more message adds its answers.                                      *)
LEMMA AnswersAppend ==
  ASSUME NEW c \in Seq(ClientMessages), NEW m \in ClientMessages, NEW n \in DOMAIN c
  PROVE  AnswersSince(Append(c, m), n) = AnswersSince(c, n) \cup AnswersIn(m.blocks, Len(m.blocks))
<1> DEFINE d == Append(c, m)
<1>1. PICK l \in Nat : /\ l = Len(c) /\ n \in 1..l /\ Len(d) = l + 1 /\ d[l + 1] = m
                       /\ \A k \in 1..l : d[k] = c[k]
  BY OneMore
<1> HIDE DEF d
<1>2. \A k \in n + 1..l + 1 : k = l + 1 \/ k \in n + 1..l
  BY <1>1
<1>3. l + 1 \in n + 1..l + 1 /\ \A k \in n + 1..l : k \in n + 1..l + 1 /\ k \in 1..l
  BY <1>1
<1>4. ASSUME NEW x
      PROVE  x \in AnswersSince(d, n) <=> x \in AnswersSince(c, n) \/ x \in AnswersIn(m.blocks, Len(m.blocks))
  <2>1. x \in AnswersSince(d, n) <=> \E k \in n + 1..l + 1 : x \in AnswersIn(d[k].blocks, Len(d[k].blocks))
    BY <1>1 DEF AnswersSince
  <2>2. x \in AnswersSince(c, n) <=> \E k \in n + 1..l : x \in AnswersIn(c[k].blocks, Len(c[k].blocks))
    BY <1>1 DEF AnswersSince
  <2> QED
    BY <1>1, <1>2, <1>3, <2>1, <2>2
<1> QED
  BY <1>4 DEF d

(* After the last message nothing is answered.                             *)
LEMMA AnswersNone ==
  ASSUME NEW c \in Seq(ClientMessages), NEW n, n = Len(c)
  PROVE  AnswersSince(c, n) = {}
<1>1. PICK l \in Nat : l = Len(c)
  OBVIOUS
<1>2. l + 1..l = {}
  OBVIOUS
<1>3. n + 1..Len(c) = {}
  BY <1>1, <1>2
<1> QED
  BY <1>3 DEF AnswersSince

(* What is surplus stays so.                                                 *)
LEMMA SurplusStays ==
  ASSUME NEW c \in Seq(ClientMessages), NEW m \in ClientMessages, NEW n \in DOMAIN c, SurplusIn(c, n)
  PROVE  SurplusIn(Append(c, m), n)
<1> DEFINE d == Append(c, m)
<1>1. PICK l \in Nat : /\ l = Len(c) /\ n \in 1..l /\ Len(d) = l + 1
                       /\ \A k \in 1..l : d[k] = c[k]
  BY OneMore
<1> HIDE DEF d
<1>2. PICK k \in n + 1..l : \E i \in DOMAIN c[k].blocks :
          /\ IsResult(c[k].blocks[i])
          /\ \/ c[k].blocks[i].id \notin Calls(c[n]) \ {""}
             \/ \E h \in n + 1..k : \E j \in DOMAIN c[h].blocks :
                  IsResult(c[h].blocks[j]) /\ c[h].blocks[j].id = c[k].blocks[i].id /\ (h < k \/ j < i)
  BY <1>1 DEF SurplusIn
<1>3. k \in 1..l /\ \A h \in n + 1..k : h \in 1..l
  <2>1. PICK a \in Nat : a = n /\ a > 0
    BY <1>1
  <2>2. k \in a + 1..l
    BY <1>2, <2>1
  <2>3. k \in 1..l /\ \A h \in a + 1..k : h \in 1..l
    BY <2>1, <2>2
  <2> QED
    BY <2>1, <2>3
<1>4. \A h \in n + 1..k : d[h] = c[h]
  BY <1>1, <1>3
<1>5. d[n] = c[n] /\ d[k] = c[k] /\ k \in n + 1..Len(d)
  <2>1. k \in n + 1..l + 1
    <3>1. PICK a \in Nat : a = n /\ a > 0
      BY <1>1
    <3>2. k \in a + 1..l
      BY <1>2, <3>1
    <3>3. k \in a + 1..l + 1
      BY <3>2
    <3> QED
      BY <3>1, <3>3
  <2> QED
    BY <1>1, <1>3, <2>1
<1>6. \E i \in DOMAIN d[k].blocks :
          /\ IsResult(d[k].blocks[i])
          /\ \/ d[k].blocks[i].id \notin Calls(d[n]) \ {""}
             \/ \E h \in n + 1..k : \E j \in DOMAIN d[h].blocks :
                  IsResult(d[h].blocks[j]) /\ d[h].blocks[j].id = d[k].blocks[i].id /\ (h < k \/ j < i)
  BY <1>2, <1>4, <1>5
<1>7. SurplusIn(d, n)
  BY <1>5, <1>6 DEF SurplusIn
<1> QED
  BY <1>7 DEF d

(* What is held back was said by message n, whose open calls are counted.    *)
HeldFrom(n) ==
    /\ n \in DOMAIN input /\ \A i \in DOMAIN HeldText : HeldText[i][1] = n
    /\ pending.ids = (Calls(input[n]) \ {""}) \ AnswersSince(input, n)

(* What is left of a message has places in it.                             *)
LEMMA PlacesFrom ==
  ASSUME NEW n, NEW m, Received(m, n), NEW S
  PROVE  \A i \in DOMAIN Places(Without(m.blocks, S)) : Places(Without(m.blocks, S))[i][1] = n
<1>1. PICK q \in Seq(ClientBlocks) : q = m.blocks
  BY DEF Received, ClientMessages
<1>2. PICK w \in Seq(ClientBlocks) : w = Without(q, S)
  BY WithoutIsSeq
<1>3. \A i \in DOMAIN w : \E j \in DOMAIN q : w[i] = q[j]
  BY <1>2, WithoutIsSeq
<1>4. \A j \in DOMAIN q : q[j].at = <<n, j>>
  BY <1>1 DEF Received
<1>5. \A i \in DOMAIN w : w[i].at[1] = n
  BY <1>3, <1>4
<1>6. DOMAIN Places(w) = DOMAIN w /\ \A i \in DOMAIN w : Places(w)[i] = w[i].at
  BY DEF Places
<1> QED
  BY <1>1, <1>2, <1>5, <1>6

(* What is held back after a step is still of one message, and waits for   *)
(* what that message called and nobody has answered.                       *)
LEMMA HeldFromStays ==
  ASSUME Sound, NEW m, Taken(m, Len(input) + 1), phase' # "refused",
         Held => \E n : HeldFrom(n), Held'
  PROVE  \E n : HeldFrom(n)'
<1>1. PICK l \in Nat : l = Len(input) + 1 /\ l > 0
  BY DEF Sound, ConversionTypes
<1>2. m \in ClientMessages /\ Received(m, l) /\ mode' = mode /\ input' = Append(input, m) /\ input \in Seq(ClientMessages)
  BY <1>1 DEF Taken, Sound, ConversionTypes
<1>3. input'[l] = m /\ Len(input') = l /\ DOMAIN input' = 1..l /\ \A k \in DOMAIN input : input'[k] = input[k] /\ k \in 1..l
  BY <1>1, <1>2, OneMore
<1>4. \A n \in DOMAIN input : AnswersSince(input', n) = AnswersSince(input, n) \cup AnswersIn(m.blocks, Len(m.blocks))
  BY <1>2, AnswersAppend
<1>5. ASSUME NEW x, AssistantGives(m, x)
      PROVE  \E n : HeldFrom(n)'
  <2>1. NoPending.blocks = <<>>
    BY DEF NoPending
  <2>2. pending'.ids = Calls(m) \ {""}
    BY <1>5, <2>1 DEF AssistantGives, Held
  <2>3. HeldText' = Places(Only(m, Later(m)))
    BY <1>2, <1>5, AssistantTold
  <2>4. \A i \in DOMAIN HeldText' : HeldText'[i][1] = l
    <3>1. HeldText' = Places(Without(m.blocks, ClientBlocks \ Later(m)))
      BY <2>3 DEF Only
    <3>2. \A i \in DOMAIN Places(Without(m.blocks, ClientBlocks \ Later(m))) : Places(Without(m.blocks, ClientBlocks \ Later(m)))[i][1] = l
      BY <1>2, PlacesFrom
    <3> QED
      BY <3>1, <3>2
  <2>5. AnswersSince(input', l) = {}
    <3>1. input' \in Seq(ClientMessages)
      BY <1>2, OneMore
    <3> QED
      BY <1>3, <3>1, AnswersNone
  <2>6. l \in DOMAIN input'
    BY <1>1, <1>3
  <2>7. pending'.ids = (Calls(input'[l]) \ {""}) \ AnswersSince(input', l)
    BY <1>3, <2>2, <2>5
  <2>8. HeldFrom(l)'
    BY <2>4, <2>6, <2>7 DEF HeldFrom
  <2> QED
    BY <2>8
<1>6. ASSUME NEW x, StringGives(m, x), m.form = "string"
      PROVE  \E n : HeldFrom(n)'
  <2>1. m.role # "user" /\ HeldText' = HeldText /\ pending' = pending
    BY <1>2, <1>6, StringTold
  <2>2. Held
    BY <2>1 DEF Held
  <2>3. PICK n : HeldFrom(n)
    BY <2>2
  <2>4. AnswersIn(m.blocks, Len(m.blocks)) = {}
    <3>1. \A i \in DOMAIN m.blocks : m.blocks[i].kind = "text"
      BY <1>2, <1>6 DEF Received
    <3>2. DOMAIN m.blocks = 1..Len(m.blocks)
      BY <1>2 DEF ClientMessages
    <3> QED
      BY <3>1, <3>2 DEF AnswersIn
  <2>5. n \in DOMAIN input
    BY <2>3 DEF HeldFrom
  <2>6. AnswersSince(input', n) = AnswersSince(input, n) /\ input'[n] = input[n] /\ n \in DOMAIN input'
    BY <1>3, <1>4, <2>4, <2>5
  <2>7. HeldFrom(n)'
    BY <2>1, <2>3, <2>6 DEF HeldFrom
  <2> QED
    BY <2>7
<1>7. ASSUME NEW f, UserGives(m, f)
      PROVE  \E n : HeldFrom(n)'
  <2> DEFINE end == f[Len(m.blocks)]
  <2>1. /\ end.ids = pending.ids \ AnswersIn(m.blocks, Len(m.blocks))
        /\ Injecting /\ end.ids # {} => HeldText' = HeldText /\ pending'.ids = end.ids
        /\ ~(Injecting /\ end.ids # {}) => ~Held'
    BY <1>2, <1>7, UserEnds
  <2>2. Injecting /\ HeldText' = HeldText /\ pending'.ids = pending.ids \ AnswersIn(m.blocks, Len(m.blocks))
    BY <2>1
  <2>3. PICK n : HeldFrom(n)
    BY <2>2 DEF Injecting
  <2>4. n \in DOMAIN input
    BY <2>3 DEF HeldFrom
  <2>5. /\ AnswersSince(input', n) = AnswersSince(input, n) \cup AnswersIn(m.blocks, Len(m.blocks))
        /\ input'[n] = input[n] /\ n \in DOMAIN input'
    BY <1>3, <1>4, <2>4
  <2>6. pending'.ids = (Calls(input'[n]) \ {""}) \ AnswersSince(input', n)
    BY <2>2, <2>3, <2>5 DEF HeldFrom
  <2>7. HeldFrom(n)'
    BY <2>2, <2>3, <2>5, <2>6 DEF HeldFrom
  <2> QED
    BY <2>7
<1> QED
  BY <1>5, <1>6, <1>7 DEF Taken

(* A result with no call to answer is surplus.                               *)
LEMMA RepeatsSurplus ==
  ASSUME Sound, NEW m \in ClientMessages, NEW n, HeldFrom(n), RepeatsIn(m)
  PROVE  SurplusIn(Append(input, m), n)
<1> DEFINE d == Append(input, m)
<1>1. input \in Seq(ClientMessages) /\ n \in DOMAIN input
  BY DEF Sound, ConversionTypes, HeldFrom
<1>2. PICK l \in Nat : /\ l = Len(input) /\ n \in 1..l /\ Len(d) = l + 1 /\ d[l + 1] = m
                       /\ \A k \in 1..l : d[k] = input[k]
  BY <1>1, OneMore
<1> HIDE DEF d
<1>3. PICK i \in 1..Len(m.blocks) : m.blocks[i].kind = "tool_result" /\ m.blocks[i].id \notin pending.ids \ AnswersIn(m.blocks, i - 1)
  BY DEF RepeatsIn
<1>4. i \in DOMAIN m.blocks /\ IsResult(d[l + 1].blocks[i]) /\ m.blocks \in Seq(ClientBlocks)
  BY <1>2, <1>3 DEF IsResult, ClientMessages
<1>5. PICK a \in Nat : a = n /\ a \in 1..l
  BY <1>2
<1>6. PICK t \in a + 1..Len(d) : t = l + 1 /\ d[t] = m
  BY <1>2, <1>5
<1>11. i \in DOMAIN d[t].blocks /\ IsResult(d[t].blocks[i]) /\ d[t].blocks[i].id = m.blocks[i].id
  BY <1>4, <1>6
<1>7. pending.ids = (Calls(d[a]) \ {""}) \ AnswersSince(input, a)
  BY <1>2, <1>5 DEF HeldFrom
<1>12. SUFFICES SurplusIn(d, a)
  BY <1>5 DEF d
<1>8. CASE m.blocks[i].id \notin Calls(d[a]) \ {""}
  BY <1>5, <1>8, <1>11 DEF SurplusIn
<1>9. CASE m.blocks[i].id \in AnswersSince(input, a)
  <2>1. PICK h \in a + 1..l : m.blocks[i].id \in AnswersIn(input[h].blocks, Len(input[h].blocks))
    BY <1>2, <1>9 DEF AnswersSince
  <2>2. PICK j \in 1..Len(input[h].blocks) : input[h].blocks[j].kind = "tool_result" /\ input[h].blocks[j].id = m.blocks[i].id
    BY <2>1 DEF AnswersIn
  <2>3. h \in 1..l /\ h \in a + 1..l + 1 /\ h < l + 1
    BY <1>5, <2>1
  <2>4. d[h] = input[h] /\ input[h].blocks \in Seq(ClientBlocks)
    <3>1. h \in DOMAIN input
      BY <1>1, <1>2, <2>3
    <3>2. input[h] \in ClientMessages
      BY <1>1, <3>1
    <3> QED
      BY <1>2, <2>3, <3>2 DEF ClientMessages
  <2>5. j \in DOMAIN d[h].blocks /\ IsResult(d[h].blocks[j]) /\ d[h].blocks[j].id = d[t].blocks[i].id
    BY <1>11, <2>2, <2>4 DEF IsResult
  <2>6. h \in a + 1..t /\ h < t
    BY <1>6, <2>3
  <2> QED
    BY <1>5, <1>11, <2>5, <2>6 DEF SurplusIn
<1>10. CASE m.blocks[i].id \in AnswersIn(m.blocks, i - 1)
  <2>1. PICK j \in 1..i - 1 : m.blocks[j].kind = "tool_result" /\ m.blocks[j].id = m.blocks[i].id
    BY <1>10 DEF AnswersIn
  <2>2. j \in DOMAIN m.blocks /\ j < i /\ l + 1 \in a + 1..l + 1
    BY <1>3, <1>4, <1>5, <2>1
  <2>3. IsResult(d[t].blocks[j]) /\ d[t].blocks[j].id = d[t].blocks[i].id /\ j \in DOMAIN d[t].blocks
    BY <1>6, <2>1, <2>2 DEF IsResult
  <2>4. t \in a + 1..t
    BY <1>5, <1>6
  <2> QED
    BY <1>5, <1>11, <2>2, <2>3, <2>4 DEF SurplusIn
<1> QED
  BY <1>3, <1>7, <1>8, <1>9, <1>10

(* While a conversation is converted everything said is told or held back,   *)
(* and what is so more often than once has a surplus result after it.        *)
CountInv ==
    /\ Held => \E n : HeldFrom(n)
    /\ \A p \in Place : p[1] \notin DOMAIN input => Total(p) = 0
    /\ \A n \in DOMAIN input, p \in Place :
          Says(input[n], n, p) => Total(p) > 0 /\ (Total(p) > 1 => SurplusIn(input, n))

LostInv == Sound /\ (phase = "converting" => CountInv) /\ NothingLost

(* Before the first message nothing is held back.                          *)
LEMMA SoundAtFirst == ConversionInit => Sound /\ HeldText = <<>> /\ ~Held
<1> SUFFICES ASSUME ConversionInit PROVE Sound /\ HeldText = <<>> /\ ~Held
  OBVIOUS
<1>1. ConversionTypes
  BY TypesAtFirst
<1>2. ~Held /\ input = <<>>
  BY DEF ConversionInit, NoPending, Held
<1>3. HeldText = <<>>
  BY <1>1, <1>2, HeldTextType
<1> QED
  BY <1>1, <1>2, <1>3 DEF Sound

(* Before the first message nothing is lost.                               *)
LEMMA LostAtFirst == ConversionInit => LostInv
<1> SUFFICES ASSUME ConversionInit PROVE LostInv
  OBVIOUS
<1>1. Sound /\ HeldText = <<>> /\ ~Held
  BY SoundAtFirst
<1>2. input = <<>> /\ output = <<>> /\ phase = "converting"
  BY DEF ConversionInit
<1>3. \A p : Total(p) = 0
  <2>1. Told(output) = <<>>
    BY <1>2, ToldNone
  <2> QED
    BY <1>1, <2>1, CountNone DEF Total
<1>4. CountInv
  BY <1>1, <1>2, <1>3 DEF CountInv
<1> QED
  BY <1>1, <1>2, <1>4 DEF LostInv, NothingLost

(* Whatever message is taken, each text and result is told or held back,   *)
(* and more than once only after a surplus answer.                         *)
LEMMA CountStays ==
  ASSUME Sound, CountInv, NEW m, Taken(m, Len(input) + 1), phase' # "refused"
  PROVE  CountInv'
<1>1. PICK l \in Nat : l = Len(input) + 1 /\ l > 0
  BY DEF Sound, ConversionTypes
<1>2. m \in ClientMessages /\ Received(m, l) /\ input' = Append(input, m) /\ input \in Seq(ClientMessages)
  BY <1>1 DEF Taken, Sound, ConversionTypes
<1>3. /\ input'[l] = m /\ DOMAIN input' = 1..l /\ DOMAIN input = 1..l - 1
      /\ \A k \in DOMAIN input : input'[k] = input[k]
  BY <1>1, <1>2, OneMore
<1>4. ConversionTypes'
  BY TakenTypes DEF Sound
<1>5. \A p \in Place : Grown(m, l, p)
  BY <1>1, TotalGrows
<1>6. ASSUME NEW p \in Place
      PROVE  \E g \in Nat : /\ p[1] # l => g = 0
                            /\ Says(m, l, p) => g = 1
                            /\ Total(p)' >= Total(p) + g
                            /\ Total(p)' > Total(p) + g =>
                                  /\ Count(p, HeldText) > 0
                                  /\ p[1] \in DOMAIN input /\ SurplusIn(input', p[1])
  <2>1. PICK g \in Nat : /\ p[1] # l => g = 0
                         /\ Says(m, l, p) => g = 1
                         /\ Total(p)' >= Total(p) + g
                         /\ Total(p)' > Total(p) + g => Count(p, HeldText) > 0 /\ Injecting /\ RepeatsIn(m)
    BY <1>5 DEF Grown
  <2>2. ASSUME Total(p)' > Total(p) + g
        PROVE  Count(p, HeldText) > 0 /\ p[1] \in DOMAIN input /\ SurplusIn(input', p[1])
    <3>1. Count(p, HeldText) > 0 /\ Held /\ RepeatsIn(m)
      BY <2>1, <2>2 DEF Injecting
    <3>2. PICK n : HeldFrom(n)
      BY <3>1 DEF CountInv
    <3>3. SurplusIn(input', n)
      BY <1>2, <3>1, <3>2, RepeatsSurplus
    <3>4. p[1] = n
      <4>1. PICK h \in Seq(Place) : h = HeldText
        BY TotalNow
      <4>2. (\A i \in DOMAIN h : h[i] # p) => Count(p, h) = 0
        BY CountZero
      <4>3. PICK i \in DOMAIN h : h[i] = p
        BY <3>1, <4>1, <4>2
      <4> QED
        BY <3>2, <4>1, <4>3 DEF HeldFrom
    <3> QED
      BY <3>1, <3>2, <3>3, <3>4 DEF HeldFrom
  <2> QED
    BY <2>1, <2>2
<1>7. \A p \in Place : Total(p)' \in Nat
  BY <1>4, TotalNext
<1>8. \A p \in Place : Total(p) \in Nat /\ Count(p, HeldText) \in Nat /\ Total(p) >= Count(p, HeldText)
  <2> SUFFICES ASSUME NEW p \in Place
               PROVE  Total(p) \in Nat /\ Count(p, HeldText) \in Nat /\ Total(p) >= Count(p, HeldText)
    OBVIOUS
  <2>1. PICK a \in Nat, b \in Nat : a = Count(p, Told(output)) /\ b = Count(p, HeldText)
    BY TotalNow
  <2> QED
    BY <2>1 DEF Total
<1>9. Held' => \E n : HeldFrom(n)'
  BY HeldFromStays DEF CountInv
<1>10. ASSUME NEW p \in Place, p[1] \notin DOMAIN input'
       PROVE  Total(p)' = 0
  <2>1. p[1] # l /\ p[1] \notin DOMAIN input
    BY <1>1, <1>3, <1>10
  <2>2. Total(p) = 0
    BY <2>1 DEF CountInv
  <2>3. PICK g \in Nat : g = 0 /\ (Total(p)' > Total(p) + g => p[1] \in DOMAIN input)
    BY <1>6, <2>1
  <2> QED
    BY <1>7, <2>1, <2>2, <2>3
<1>11. ASSUME NEW n \in DOMAIN input', NEW p \in Place, Says(input'[n], n, p)
       PROVE  Total(p)' > 0 /\ (Total(p)' > 1 => SurplusIn(input', n))
  <2>0. p[1] = n
    BY <1>11 DEF Says
  <2>1. CASE n = l
    <3>1. Says(m, l, p) /\ p[1] \notin DOMAIN input
      BY <1>1, <1>3, <1>11, <2>0, <2>1
    <3>2. Total(p) = 0
      BY <3>1 DEF CountInv
    <3>3. PICK g \in Nat : g = 1 /\ Total(p)' >= Total(p) + g /\ (Total(p)' > Total(p) + g => p[1] \in DOMAIN input)
      BY <1>6, <3>1
    <3> QED
      BY <1>7, <3>1, <3>2, <3>3
  <2>2. CASE n # l
    <3>1. n \in DOMAIN input /\ Says(input[n], n, p) /\ p[1] # l
      BY <1>1, <1>3, <1>11, <2>0, <2>2
    <3>2. Total(p) > 0 /\ (Total(p) > 1 => SurplusIn(input, n))
      BY <3>1 DEF CountInv
    <3>3. PICK g \in Nat : g = 0 /\ Total(p)' >= Total(p) + g /\ (Total(p)' > Total(p) + g => SurplusIn(input', p[1]))
      BY <1>6, <3>1
    <3>4. SurplusIn(input, n) => SurplusIn(input', n)
      BY <1>2, <3>1, SurplusStays
    <3>5. PICK s \in Nat, t \in Nat : s = Total(p) /\ t = Total(p)'
      BY <1>7, <1>8
    <3>6. t > 0 /\ (t > 1 => s > 1 \/ t > s + g)
      BY <3>2, <3>3, <3>5
    <3> QED
      BY <2>0, <3>2, <3>3, <3>4, <3>5, <3>6
  <2> QED
    BY <2>1, <2>2
<1> QED
  BY <1>9, <1>10, <1>11 DEF CountInv

(* At the end of the loop what was held back is told, so nothing is lost.  *)
LEMMA LostAtEnd ==
  ASSUME Sound, CountInv, Finish
  PROVE  Sound' /\ NothingLost'
<1>1. /\ output' \in Seq(UpstreamMessages) /\ output' = output \o Deferred
      /\ phase' = "done" /\ UNCHANGED <<mode, input, pending>>
  BY FinishGives DEF Sound
<1>2. Told(output') = Told(output) \o HeldText
  BY FinishTold
<1>3. Sound'
  <2>1. HeldText' = HeldText
    BY <1>1 DEF HeldText, ShownKinds
  <2> QED
    BY <1>1, <2>1 DEF Sound, ConversionTypes
<1>4. ASSUME NEW n \in DOMAIN input, NEW i \in DOMAIN input[n].blocks, input[n].blocks[i].kind \in {"text", "tool_result"}
      PROVE  Times(<<n, i>>, output') > 0 /\ (Times(<<n, i>>, output') > 1 => Surplus(n)')
  <2>1. PICK p \in Place : p = <<n, i>>
    <3>1. input \in Seq(ClientMessages)
      BY DEF Sound, ConversionTypes
    <3>2. n \in Nat /\ input[n] \in ClientMessages
      BY <3>1
    <3>3. input[n].blocks \in Seq(ClientBlocks)
      BY <3>2 DEF ClientMessages
    <3>4. i \in Nat
      BY <3>3
    <3> QED
      BY <3>2, <3>4 DEF Place
  <2>2. Says(input[n], n, p)
    BY <1>4, <2>1 DEF Says
  <2>3. Total(p) > 0 /\ (Total(p) > 1 => SurplusIn(input, n))
    BY <2>2 DEF CountInv
  <2>4. Times(p, output') = Total(p)
    <3>1. PICK a \in Seq(Place), b \in Seq(Place) : a = Told(output) /\ b = HeldText
      BY TotalNow
    <3>2. Count(p, a \o b) = Count(p, a) + Count(p, b)
      BY CountConcat
    <3>3. Times(p, output') = Count(p, Told(output'))
      BY <1>1, TimesIs
    <3> QED
      BY <1>2, <3>1, <3>2, <3>3 DEF Total
  <2>5. SurplusIn(input, n) => Surplus(n)'
    BY <1>1 DEF Surplus, SurplusIn, IsResult
  <2> QED
    BY <2>1, <2>3, <2>4, <2>5
<1>5. NothingLost'
  BY <1>1, <1>4 DEF NothingLost
<1> QED
  BY <1>3, <1>5

(* The counting invariant is inductive.                                    *)
LEMMA LostStays == LostInv /\ [ConversionNext]_conversionVars => LostInv'
<1> SUFFICES ASSUME LostInv, [ConversionNext]_conversionVars PROVE LostInv'
  OBVIOUS
<1>1. ASSUME NEW msg \in MessageSet, Convert(msg)
      PROVE  LostInv'
  <2>1. PICK m : Taken(m, Len(input) + 1)
    BY <1>1, ConvertGives DEF LostInv, Sound
  <2>2. Sound'
    BY <2>1, SoundStays DEF LostInv
  <2>3. phase' # "done" /\ phase = "converting"
    BY <2>1 DEF Taken
  <2>4. phase' = "converting" => CountInv'
    <3>1. phase' = "converting" => phase' # "refused"
      OBVIOUS
    <3> QED
      BY <2>1, <2>3, <3>1, CountStays DEF LostInv
  <2> QED
    BY <2>2, <2>3, <2>4 DEF LostInv, NothingLost
<1>2. CASE Finish
  <2>1. Sound /\ CountInv /\ phase' = "done"
    BY <1>2 DEF LostInv, Finish
  <2>2. Sound' /\ NothingLost'
    BY <1>2, <2>1, LostAtEnd
  <2> QED
    BY <2>1, <2>2 DEF LostInv
<1>3. CASE UNCHANGED conversionVars
  <2>1. UNCHANGED <<mode, input, output, pending, phase>>
    BY <1>3 DEF conversionVars
  <2>2. HeldText' = HeldText /\ (\A p : Total(p)' = Total(p)) /\ (Held' <=> Held)
    BY <2>1 DEF HeldText, ShownKinds, Total, Held
  <2>3. Sound'
    BY <2>1, <2>2 DEF LostInv, Sound, ConversionTypes
  <2>4. CountInv => CountInv'
    <3>1. \A n : HeldFrom(n)' <=> HeldFrom(n)
      BY <2>1, <2>2 DEF HeldFrom
    <3> QED
      BY <2>1, <2>2, <3>1 DEF CountInv
  <2>5. NothingLost'
    <3>1. \A n : Surplus(n)' <=> Surplus(n)
      BY <2>1 DEF Surplus
    <3> QED
      BY <2>1, <3>1 DEF LostInv, NothingLost
  <2> QED
    BY <2>1, <2>3, <2>4, <2>5 DEF LostInv
<1> QED
  BY <1>1, <1>2, <1>3 DEF ConversionNext

-----------------------------------------------------------------------------
(* The conversion keeps the order, when each message answers the calls     *)
(* before it.                                                              *)

(* SaidAfter and Contribution for given kinds: the mode is not in them.      *)
SaidIn(kinds, c, n) == IF n \in DOMAIN c THEN Places(OfKind(Without(c[n].blocks, Early(c[n])), kinds)) ELSE <<>>
GivesIn(kinds, c, n) ==
    IF c[n].role = "assistant" THEN Places(OfKind(Without(c[n].blocks, ToSet(c[n].blocks) \ Early(c[n])), kinds))
    ELSE Places(Results(c[n])) \o SaidIn(kinds, c, n - 1) \o Places(OfKind(c[n].blocks, {"text"}))
AllGiven(kinds, c) == FlattenSeq([n \in DOMAIN c |-> GivesIn(kinds, c, n)])

(* They are places.                                                          *)
LEMMA SaidType ==
  ASSUME NEW c \in Seq(ClientMessages), NEW kinds
  PROVE  /\ \A n : SaidIn(kinds, c, n) \in Seq(Place)
         /\ \A n \in DOMAIN c : GivesIn(kinds, c, n) \in Seq(Place)
<1>1. ASSUME NEW m \in ClientMessages, NEW S, NEW ks
      PROVE  Places(OfKind(Without(m.blocks, S), ks)) \in Seq(Place) /\ Places(OfKind(m.blocks, ks)) \in Seq(Place)
  <2>1. m.blocks \in Seq(ClientBlocks)
    BY DEF ClientMessages
  <2>2. PICK w \in Seq(ClientBlocks), u \in Seq(ClientBlocks) : w = Without(m.blocks, S) /\ u = m.blocks
    BY <2>1, WithoutIsSeq
  <2>3. PICK v \in Seq(ClientBlocks), x \in Seq(ClientBlocks) : v = OfKind(w, ks) /\ x = OfKind(u, ks)
    BY OfKindIs
  <2> QED
    BY <2>2, <2>3, PlacesIs
<1>2. ASSUME NEW n
      PROVE  SaidIn(kinds, c, n) \in Seq(Place)
  <2>1. CASE n \in DOMAIN c
    <3>1. c[n] \in ClientMessages
      BY <2>1
    <3> QED
      BY <1>1, <2>1, <3>1 DEF SaidIn
  <2>2. CASE n \notin DOMAIN c
    <3>1. <<>> \in Seq(Place)
      BY EmptySeq
    <3> QED
      BY <2>2, <3>1 DEF SaidIn
  <2> QED
    BY <2>1, <2>2
<1>3. ASSUME NEW n \in DOMAIN c
      PROVE  GivesIn(kinds, c, n) \in Seq(Place)
  <2>1. c[n] \in ClientMessages
    OBVIOUS
  <2>2. CASE c[n].role = "assistant"
    BY <1>1, <2>1, <2>2 DEF GivesIn
  <2>3. CASE c[n].role # "assistant"
    <3>1. PICK a \in Seq(Place), b \in Seq(Place), d \in Seq(Place) :
               a = Places(Results(c[n])) /\ b = SaidIn(kinds, c, n - 1) /\ d = Places(OfKind(c[n].blocks, {"text"}))
      BY <1>1, <1>2, <2>1 DEF Results
    <3>2. a \o b \in Seq(Place)
      BY ConcatProperties
    <3>3. (a \o b) \o d \in Seq(Place)
      BY <3>2, ConcatProperties
    <3> QED
      BY <2>3, <3>1, <3>3 DEF GivesIn
  <2> QED
    BY <2>2, <2>3
<1> QED
  BY <1>2, <1>3

(* What the messages before one more give does not change.                   *)
LEMMA GivenAppend ==
  ASSUME NEW c \in Seq(ClientMessages), NEW m \in ClientMessages, NEW kinds
  PROVE  /\ \A k \in 0..Len(c) : SaidIn(kinds, Append(c, m), k) = SaidIn(kinds, c, k)
         /\ SaidIn(kinds, Append(c, m), Len(c) + 1) = Places(OfKind(Without(m.blocks, Early(m)), kinds))
         /\ GivesIn(kinds, Append(c, m), Len(c) + 1) =
               IF m.role = "assistant" THEN Places(OfKind(Without(m.blocks, ToSet(m.blocks) \ Early(m)), kinds))
               ELSE Places(Results(m)) \o SaidIn(kinds, c, Len(c)) \o Places(OfKind(m.blocks, {"text"}))
         /\ GivesIn(kinds, Append(c, m), Len(c) + 1) \in Seq(Place) /\ AllGiven(kinds, c) \in Seq(Place)
         /\ AllGiven(kinds, Append(c, m)) = AllGiven(kinds, c) \o GivesIn(kinds, Append(c, m), Len(c) + 1)
<1>1. PICK d \in Seq(ClientMessages), l \in Nat, n \in Nat :
           /\ d = Append(c, m) /\ l = Len(c) /\ n = l + 1 /\ n - 1 = l /\ Len(d) = n /\ d[n] = m
           /\ \A k \in 1..l : d[k] = c[k]
           /\ DOMAIN c = 1..l /\ DOMAIN d = 1..n
  <2>1. PICK d \in Seq(ClientMessages) : d = Append(c, m)
    BY OneMore
  <2>2. PICK l \in Nat, n \in Nat : l = Len(c) /\ n = l + 1
    BY OneMore
  <2>3. n - 1 = l
    BY <2>2
  <2>4. Len(d) = n /\ d[n] = m /\ (\A k \in DOMAIN c : d[k] = c[k]) /\ DOMAIN c = 1..l /\ DOMAIN d = 1..n
    BY <2>1, <2>2, OneMore
  <2> QED
    BY <2>1, <2>2, <2>3, <2>4
<1>2. \A k \in 0..l : SaidIn(kinds, d, k) = SaidIn(kinds, c, k)
  <2> SUFFICES ASSUME NEW k \in 0..l PROVE SaidIn(kinds, d, k) = SaidIn(kinds, c, k)
    OBVIOUS
  <2>1. CASE k = 0
    <3>1. k \notin DOMAIN c /\ k \notin DOMAIN d
      BY <1>1, <2>1
    <3> QED
      BY <3>1 DEF SaidIn
  <2>2. CASE k \in 1..l
    <3>1. k \in DOMAIN c /\ k \in DOMAIN d /\ d[k] = c[k]
      BY <1>1, <2>2
    <3> QED
      BY <3>1 DEF SaidIn
  <2> QED
    BY <2>1, <2>2
<1>3. SaidIn(kinds, d, n) = Places(OfKind(Without(m.blocks, Early(m)), kinds))
  <2>1. n \in DOMAIN d
    BY <1>1
  <2> QED
    BY <1>1, <2>1 DEF SaidIn
<1>4. SaidIn(kinds, d, n - 1) = SaidIn(kinds, c, l)
  <2>1. n - 1 \in 0..l
    BY <1>1
  <2> QED
    BY <1>1, <1>2, <2>1
<1>5. GivesIn(kinds, d, n) =
         IF m.role = "assistant" THEN Places(OfKind(Without(m.blocks, ToSet(m.blocks) \ Early(m)), kinds))
         ELSE Places(Results(m)) \o SaidIn(kinds, c, l) \o Places(OfKind(m.blocks, {"text"}))
  BY <1>1, <1>4 DEF GivesIn
<1>6. \A k \in 1..l : GivesIn(kinds, d, k) = GivesIn(kinds, c, k)
  <2> SUFFICES ASSUME NEW k \in 1..l PROVE GivesIn(kinds, d, k) = GivesIn(kinds, c, k)
    OBVIOUS
  <2>1. k - 1 \in 0..l
    BY <1>1
  <2>2. SaidIn(kinds, d, k - 1) = SaidIn(kinds, c, k - 1) /\ d[k] = c[k]
    BY <1>1, <1>2, <2>1
  <2> QED
    BY <2>2 DEF GivesIn
<1>7. PICK e : e = [k \in DOMAIN c |-> GivesIn(kinds, c, k)]
  OBVIOUS
<1>8. e \in Seq(Seq(Place)) /\ Len(e) = l /\ \A k \in 1..l : e[k] = GivesIn(kinds, c, k)
  <2>1. \A k \in 1..l : GivesIn(kinds, c, k) \in Seq(Place)
    BY <1>1, SaidType
  <2> QED
    BY <1>1, <1>7, <2>1
<1>9. PICK g \in Seq(Place) : g = GivesIn(kinds, d, n)
  <2>1. n \in DOMAIN d
    BY <1>1
  <2> QED
    BY <2>1, SaidType
<1>10. PICK x \in Seq(Seq(Place)) : x = Append(e, g)
  BY <1>8, AppendProperties
<1>11. [k \in DOMAIN d |-> GivesIn(kinds, d, k)] = x
  <2>1. Len(x) = n /\ x[n] = g /\ \A k \in 1..l : x[k] = e[k]
    BY <1>1, <1>8, <1>10, AppendProperties
  <2>2. \A k \in 1..n : k = n \/ k \in 1..l
    BY <1>1
  <2>3. \A k \in 1..n : GivesIn(kinds, d, k) = x[k]
    BY <1>6, <1>8, <1>9, <2>1, <2>2
  <2>4. x = [k \in 1..n |-> x[k]]
    BY <2>1
  <2> QED
    BY <1>1, <2>3, <2>4
<1>12. FlattenSeq(e) \in Seq(Place) /\ FlattenSeq(Append(e, g)) = FlattenSeq(e) \o g
  BY <1>8, FlattenAppend
<1>13. AllGiven(kinds, d) = AllGiven(kinds, c) \o g /\ AllGiven(kinds, c) \in Seq(Place)
  BY <1>7, <1>10, <1>11, <1>12 DEF AllGiven
<1> QED
  BY <1>1, <1>2, <1>3, <1>5, <1>9, <1>13

(* What it is for a message to answer the calls of the one before it.        *)
AnswersWell(m, calls) ==
    /\ "" \notin Calls(m)
    /\ Cardinality({Results(m)[i].id : i \in DOMAIN Results(m)}) = Len(Results(m))
    /\ {Results(m)[i].id : i \in DOMAIN Results(m)} = calls
    /\ calls # {} => m.role = "user" /\ \A i \in 1..Len(Results(m)) : m.blocks[i].kind = "tool_result"
CallsBefore(c) == IF Len(c) = 0 THEN {} ELSE Calls(c[Len(c)])

(* A conversation is answered if its beginning is and its last message answers. *)
LEMMA AnsweredAppend ==
  ASSUME NEW c \in Seq(ClientMessages), NEW m \in ClientMessages, Answered(Append(c, m))
  PROVE  Answered(c) /\ AnswersWell(m, CallsBefore(c))
<1>1. PICK d \in Seq(ClientMessages), l \in Nat, n \in Nat :
           /\ d = Append(c, m) /\ l = Len(c) /\ n = l + 1 /\ n - 1 = l /\ Len(d) = n /\ d[n] = m
           /\ \A k \in 1..l : d[k] = c[k]
           /\ DOMAIN c = 1..l /\ DOMAIN d = 1..n
  <2>1. PICK d \in Seq(ClientMessages) : d = Append(c, m)
    BY OneMore
  <2>2. PICK l \in Nat, n \in Nat : l = Len(c) /\ n = l + 1
    BY OneMore
  <2>3. n - 1 = l
    BY <2>2
  <2>4. Len(d) = n /\ d[n] = m /\ (\A k \in DOMAIN c : d[k] = c[k]) /\ DOMAIN c = 1..l /\ DOMAIN d = 1..n
    BY <2>1, <2>2, OneMore
  <2> QED
    BY <2>1, <2>2, <2>3, <2>4
<1>2. ASSUME NEW e
      PROVE  Answered(e) <=> \A k \in DOMAIN e : AnswersWell(e[k], IF k = 1 THEN {} ELSE Calls(e[k - 1]))
  BY DEF Answered, AnswersWell
<1>3. \A k \in 1..n : AnswersWell(d[k], IF k = 1 THEN {} ELSE Calls(d[k - 1]))
  BY <1>1, <1>2
<1>4. \A k \in DOMAIN c : AnswersWell(c[k], IF k = 1 THEN {} ELSE Calls(c[k - 1]))
  <2> SUFFICES ASSUME NEW k \in 1..l PROVE AnswersWell(c[k], IF k = 1 THEN {} ELSE Calls(c[k - 1]))
    BY <1>1
  <2>1. AnswersWell(d[k], IF k = 1 THEN {} ELSE Calls(d[k - 1])) /\ d[k] = c[k]
    BY <1>1, <1>3
  <2>2. k # 1 => d[k - 1] = c[k - 1]
    <3>1. k # 1 => k - 1 \in 1..l
      BY <1>1
    <3> QED
      BY <1>1, <3>1
  <2> QED
    BY <2>1, <2>2
<1>5. AnswersWell(m, CallsBefore(c))
  <2>1. AnswersWell(m, IF n = 1 THEN {} ELSE Calls(d[n - 1]))
    BY <1>1, <1>3
  <2>2. n = 1 <=> Len(c) = 0
    BY <1>1
  <2>3. n # 1 => d[n - 1] = c[Len(c)]
    <3>1. n # 1 => l \in 1..l
      BY <1>1
    <3> QED
      BY <1>1, <3>1
  <2> QED
    BY <2>1, <2>2, <2>3 DEF CallsBefore
<1> QED
  BY <1>2, <1>4, <1>5

(* The results of a message are its first blocks, each for another call.     *)
ResultsLead(m, r) ==
    /\ r \in Nat /\ r <= Len(m.blocks) /\ Results(m) = SubSeq(m.blocks, 1, r)
    /\ \A i \in DOMAIN m.blocks : m.blocks[i].kind = "tool_result" <=> i <= r
    /\ \A i, j \in 1..r : m.blocks[i].id = m.blocks[j].id => i = j

(* A message that answers the calls before it begins with their results:   *)
(* as many as there are ids, and one for each.                             *)
LEMMA ResultsAre ==
  ASSUME NEW m \in ClientMessages, NEW calls, AnswersWell(m, calls)
  PROVE  \E r : ResultsLead(m, r) /\ calls = {m.blocks[i].id : i \in 1..r}
<1> DEFINE S == {b \in ClientBlocks : b.kind \notin {"tool_result"}}
<1>1. PICK q \in Seq(ClientBlocks) : q = m.blocks
  BY DEF ClientMessages
<1>2. Results(m) = Without(q, S) /\ Without(q, S) \in Seq(ClientBlocks)
  BY <1>1, OfKindIs DEF Results
<1>3. \A i \in DOMAIN q : q[i] \notin S <=> q[i].kind = "tool_result"
  OBVIOUS
<1> HIDE DEF S
<1>4. PICK K : K = Staying(q, S) /\ K = {i \in DOMAIN q : q[i].kind = "tool_result"}
  BY <1>3 DEF Staying
<1>5. PICK r \in Nat : r = Len(Without(q, S)) /\ r = Cardinality(K)
  BY <1>4, WithoutAt
<1>6. K \in SUBSET (1..Len(q)) /\ Len(q) \in Nat
  BY <1>4
<1>7. IsFiniteSet(K) /\ r <= Len(q)
  <2>1. IsFiniteSet(1..Len(q)) /\ Cardinality(1..Len(q)) = Len(q)
    <3>1. PICK l \in Nat : l = Len(q)
      BY <1>6
    <3>2. IsFiniteSet(1..l) /\ Cardinality(1..l) = IF 1 > l THEN 0 ELSE l - 1 + 1
      BY FS_Interval
    <3> QED
      BY <3>1, <3>2
  <2> QED
    BY <1>5, <1>6, <2>1, FS_Subset
<1>8. calls = {} => r = 0
  <2>1. calls = {Results(m)[i].id : i \in DOMAIN Results(m)}
    BY DEF AnswersWell
  <2>2. PICK w \in Seq(ClientBlocks) : w = Results(m)
    BY <1>2
  <2>3. Len(w) # 0 => 1 \in DOMAIN w
    OBVIOUS
  <2>4. calls = {} => Len(w) = 0
    BY <2>1, <2>2, <2>3
  <2> QED
    BY <1>2, <1>5, <2>2, <2>4
<1>9. \A i \in 1..r : i \in K
  <2> SUFFICES ASSUME NEW i \in 1..r PROVE i \in K
    OBVIOUS
  <2>1. calls # {}
    BY <1>8
  <2>2. \A j \in 1..Len(Results(m)) : m.blocks[j].kind = "tool_result"
    BY <2>1 DEF AnswersWell
  <2>3. i \in DOMAIN q
    BY <1>6, <1>7
  <2> QED
    BY <1>1, <1>2, <1>4, <1>5, <2>2, <2>3
<1>10. K = 1..r
  <2>1. Cardinality(1..r) = r
    <3>1. Cardinality(1..r) = IF 1 > r THEN 0 ELSE r - 1 + 1
      BY FS_Interval
    <3> QED
      BY <3>1
  <2>2. 1..r \in SUBSET K
    BY <1>9
  <2> QED
    BY <1>5, <1>7, <2>1, <2>2, FS_Subset
<1>11. \A i \in DOMAIN q : q[i].kind = "tool_result" <=> i <= r
  BY <1>4, <1>6, <1>10
<1>12. Without(q, S) = SubSeq(q, 1, r)
  <2>1. \A i \in DOMAIN q : q[i] \notin S <=> 1 <= i /\ i <= r
    BY <1>3, <1>11
  <2>2. 1 \in 1..Len(q) + 1 /\ r \in 0..Len(q) /\ 1 <= r + 1
    BY <1>6, <1>7
  <2> QED
    BY <2>1, <2>2, WithoutMiddle
<1>13. Len(Results(m)) = r /\ \A i \in 1..r : Results(m)[i] = q[i]
  <2>1. r \in Nat /\ 1..r \subseteq 1..Len(q)
    BY <1>6, <1>7
  <2>2. \A i \in 1..r : SubSeq(q, 1, r)[i] = q[i]
    BY <2>1, SubSeqProperties
  <2> QED
    BY <1>2, <1>5, <1>12, <2>2
<1>14. DOMAIN Results(m) = 1..r
  BY <1>2, <1>13
<1>15. calls = {q[i].id : i \in 1..r} /\ Cardinality(calls) = r
  <2>1. {Results(m)[i].id : i \in DOMAIN Results(m)} = {q[i].id : i \in 1..r}
    BY <1>13, <1>14
  <2> QED
    BY <1>13, <2>1 DEF AnswersWell
<1>16. \A i, j \in 1..r : q[i].id = q[j].id => i = j
  <2> DEFINE g == [i \in 1..r |-> q[i].id]
  <2>1. g \in Surjection(1..r, calls)
    BY <1>15 DEF Surjection
  <2>2. IsFiniteSet(1..r) /\ Cardinality(1..r) = Cardinality(calls)
    <3>1. IsFiniteSet(1..r) /\ Cardinality(1..r) = IF 1 > r THEN 0 ELSE r - 1 + 1
      BY FS_Interval
    <3> QED
      BY <1>15, <3>1
  <2> HIDE DEF g
  <2>3. g \in Injection(1..r, calls)
    BY <2>1, <2>2, FS_SurjSameCardinalityImpliesInj
  <2>4. \A i, j \in 1..r : g[i] = g[j] => i = j
    BY <2>3 DEF Injection, IsInjective
  <2> QED
    BY <2>4 DEF g
<1> QED
  <2>1. ResultsLead(m, r)
    BY <1>1, <1>2, <1>7, <1>11, <1>12, <1>16 DEF ResultsLead
  <2> QED
    BY <1>1, <1>15, <2>1

(* What one block adds to what a fold has told.                              *)
LEMMA ToldStep ==
  ASSUME Sound, NEW acc \in Folding, SpokenTexts(acc), NEW b \in ClientBlocks, b.at[2] # 0
  PROVE  /\ b.kind \notin {"text", "tool_result"} => Block(acc, b) = acc
         /\ b.kind = "text" => Block(acc, b).out = acc.out /\ Block(acc, b).texts = Append(acc.texts, b.at)
         /\ b.kind = "tool_result" =>
               /\ Block(acc, b).texts = <<>>
               /\ Told(Block(acc, b).out) =
                     ((Told(acc.out) \o acc.texts) \o <<b.at>>) \o (IF Ends(acc, b) THEN HeldText ELSE <<>>)
<1>1. mode \in Modes /\ pending \in Holding
  BY DEF Sound, ConversionTypes
<1>2. /\ b.kind \notin {"text", "tool_result"} => Block(acc, b) = acc
      /\ b.kind = "text" => Block(acc, b).out = acc.out /\ Block(acc, b).texts = Append(acc.texts, b.at)
      /\ b.kind = "tool_result" =>
            /\ Block(acc, b).out = ((acc.out \o Flush(acc.texts)) \o <<ResultMessage(b)>>) \o More(acc, b)
            /\ Block(acc, b).texts = <<>>
  BY <1>1, BlockType
<1>3. acc.out \in Seq(UpstreamMessages) /\ acc.texts \in Seq(Place) /\ b.at \in Place
  BY DEF Folding, ClientBlocks
<1>4. ASSUME b.kind = "tool_result"
      PROVE  Told(Block(acc, b).out) =
                ((Told(acc.out) \o acc.texts) \o <<b.at>>) \o (IF Ends(acc, b) THEN HeldText ELSE <<>>)
  <2>1. PICK fl \in Seq(UpstreamMessages) : fl = Flush(acc.texts) /\ Told(fl) = Spoken(acc.texts)
    BY <1>3, FlushType
  <2>2. Told(fl) = acc.texts
    BY <1>3, <2>1, SpokenFacts DEF SpokenTexts
  <2>3. PICK r \in Seq(UpstreamMessages) : r = <<ResultMessage(b)>> /\ Told(r) = <<b.at>>
    <3>1. ResultMessage(b) \in UpstreamMessages /\ ResultMessage(b).text = <<b.at>>
      BY ResultMessageType
    <3>2. <<ResultMessage(b)>> \in Seq(UpstreamMessages) /\ Told(<<ResultMessage(b)>>) = Spoken(<<b.at>>)
      BY <3>1, ToldOne
    <3>3. Spoken(<<b.at>>) = <<b.at>>
      <4>1. <<b.at>> \in Seq(Place) /\ \A k \in DOMAIN <<b.at>> : <<b.at>>[k][2] # 0
        BY <1>3
      <4> QED
        BY <4>1, SpokenFacts
    <3> QED
      BY <3>2, <3>3
  <2>4. PICK d \in Seq(UpstreamMessages) : d = More(acc, b) /\ Told(d) = IF Ends(acc, b) THEN HeldText ELSE <<>>
    <3>1. CASE Ends(acc, b)
      <4>1. More(acc, b) = Deferred
        BY <3>1 DEF Ends, More
      <4> QED
        BY <3>1, <4>1, DeferredTold
    <3>2. CASE ~Ends(acc, b)
      <4>1. More(acc, b) = <<>>
        BY <1>4, <3>2 DEF Ends, More
      <4> QED
        BY <3>2, <4>1, ToldNone
    <3> QED
      BY <3>1, <3>2
  <2>5. PICK out \in Seq(UpstreamMessages) : out = acc.out
    BY <1>3
  <2>6. out \o fl \in Seq(UpstreamMessages) /\ Told(out \o fl) = Told(out) \o acc.texts
    BY <2>2, <2>5, ToldConcat
  <2>7. (out \o fl) \o r \in Seq(UpstreamMessages) /\ Told((out \o fl) \o r) = (Told(out) \o acc.texts) \o <<b.at>>
    BY <2>3, <2>6, ToldConcat
  <2>8. Told(((out \o fl) \o r) \o d) = ((Told(out) \o acc.texts) \o <<b.at>>) \o Told(d)
    BY <2>7, ToldConcat
  <2> QED
    BY <1>2, <1>4, <2>1, <2>3, <2>4, <2>5, <2>8
<1> QED
  BY <1>2, <1>4

(* The results come first, then what was held back; the texts wait.          *)
FoldOrder(f, q, r, i) ==
    /\ i < r => Told(f[i].out) = Places(SubSeq(q, 1, i))
    /\ i >= r => Told(f[i].out) = Places(SubSeq(q, 1, r)) \o HeldText
    /\ i <= r => f[i].texts = <<>>
    /\ f[i].texts = Places(OfKind(SubSeq(q, 1, i), {"text"}))

(* What is held back waits for exactly the r results.                        *)
Waiting(m, r) == ResultsLead(m, r) /\ (Held => r > 0 /\ pending.ids = {m.blocks[i].id : i \in 1..r})

(* Before the first block nothing is told if results are to come.          *)
LEMMA OrderBegins ==
  ASSUME Sound, NEW n, NEW m, Received(m, n), NEW f, IsReplay(f, Beginning, m.blocks), NEW r, Waiting(m, r)
  PROVE  FoldOrder(f, m.blocks, r, 0)
<1>1. mode \in Modes /\ pending \in Holding /\ m.blocks \in Seq(ClientBlocks)
  BY DEF Sound, ConversionTypes, Received, ClientMessages
<1>2. f[0] = Beginning
  BY DEF IsReplay
<1>3. /\ Beginning.out = IF Injecting THEN <<>> ELSE Deferred
      /\ Beginning.texts = <<>>
  BY <1>1, BeginningType
<1>4. SubSeq(m.blocks, 1, 0) = <<>>
  BY <1>1, SubSeqProperties, EmptySeq
<1>5. Places(<<>>) = <<>> /\ OfKind(<<>>, {"text"}) = <<>>
  BY OfKindNone DEF Places
<1>6. r \in Nat
  BY DEF Waiting, ResultsLead
<1>7. HeldText \in Seq(Place) /\ (~Held => HeldText = <<>>) /\ Told(Deferred) = HeldText
  BY DeferredTold, HeldTextType DEF Sound
<1>8. Held => Injecting /\ r > 0
  <2> SUFFICES ASSUME Held PROVE Injecting /\ r > 0
    OBVIOUS
  <2>1. r > 0 /\ pending.ids = {m.blocks[i].id : i \in 1..r}
    BY DEF Waiting
  <2>2. 1 \in 1..r
    BY <1>6, <2>1
  <2>3. pending.ids # {}
    BY <2>1, <2>2
  <2> QED
    BY <2>1, <2>3 DEF Injecting
<1>9. Told(f[0].out) = <<>>
  <2>1. CASE Injecting
    BY <1>2, <1>3, <2>1, ToldNone
  <2>2. CASE ~Injecting
    BY <1>2, <1>3, <1>7, <1>8, <2>2
  <2> QED
    BY <2>1, <2>2
<1>10. 0 >= r => r = 0 /\ HeldText = <<>>
  BY <1>6, <1>7, <1>8
<1>11. <<>> \o <<>> = <<>>
  <2>1. <<>> \in Seq(Place)
    BY EmptySeq
  <2> QED
    BY <2>1, ConcatEmptySeq
<1> QED
  BY <1>2, <1>3, <1>4, <1>5, <1>9, <1>10, <1>11 DEF FoldOrder

(* Each result is told where it stands, and after the last of them what    *)
(* was held back.                                                          *)
LEMMA OrderGoesOn ==
  ASSUME Sound, NEW n, NEW m, Received(m, n), NEW f, IsReplay(f, Beginning, m.blocks), NEW r, Waiting(m, r),
         NEW i \in Nat, i < Len(m.blocks), FoldOrder(f, m.blocks, r, i), FoldWell(f, m.blocks, i)
  PROVE  FoldOrder(f, m.blocks, r, i + 1)
<1>1. mode \in Modes /\ pending \in Holding /\ m.blocks \in Seq(ClientBlocks)
  BY DEF Sound, ConversionTypes, Received, ClientMessages
<1>2. PICK q \in Seq(ClientBlocks) : q = m.blocks
  BY <1>1
<1>3. PICK j \in 1..Len(q) : j = i + 1 /\ i = j - 1 /\ i \in 0..Len(q)
  BY <1>2
<1>4. PICK b \in ClientBlocks : b = q[j]
  OBVIOUS
<1>5. PICK acc \in Folding, new \in Folding : acc = f[i] /\ new = f[j] /\ new = Block(acc, b)
  <2>0. f \in [0..Len(q) -> Folding] /\ \A k \in 1..Len(q) : f[k] = Block(f[k - 1], q[k])
    BY <1>2 DEF IsReplay
  <2>1. f[i] \in Folding /\ f[j] \in Folding
    <3>1. i \in 0..Len(q) /\ j \in 0..Len(q)
      BY <1>3
    <3> QED
      BY <2>0, <3>1
  <2>2. f[j] = Block(f[j - 1], q[j])
    BY <2>0
  <2>3. f[j] = Block(f[i], b)
    BY <1>3, <1>4, <2>2
  <2> QED
    BY <2>1, <2>3
<1>6. b.at[2] # 0 /\ b.at \in Place
  <2>1. b.at = <<n, j>> /\ j # 0
    BY <1>2, <1>3, <1>4 DEF Received
  <2> QED
    BY <2>1 DEF ClientBlocks
<1>7. SpokenTexts(acc) /\ acc.injecting = Injecting /\ acc.ids = pending.ids \ AnswersIn(q, i)
  BY <1>2, <1>5 DEF FoldWell
<1>8. /\ b.kind \notin {"text", "tool_result"} => new = acc
      /\ b.kind = "text" => new.out = acc.out /\ new.texts = Append(acc.texts, b.at)
      /\ b.kind = "tool_result" =>
            /\ new.texts = <<>>
            /\ Told(new.out) = ((Told(acc.out) \o acc.texts) \o <<b.at>>) \o (IF Ends(acc, b) THEN HeldText ELSE <<>>)
  BY <1>5, <1>6, <1>7, ToldStep
<1>9. /\ r \in Nat /\ r <= Len(q)
      /\ b.kind = "tool_result" <=> j <= r
      /\ \A k, l \in 1..r : q[k].id = q[l].id => k = l
      /\ \A k \in 1..Len(q) : q[k].kind = "tool_result" <=> k <= r
  BY <1>2, <1>3, <1>4 DEF Waiting, ResultsLead
<1>10. PICK w \in Seq(ClientBlocks), v \in Seq(ClientBlocks) :
            w = SubSeq(q, 1, i) /\ v = SubSeq(q, 1, j) /\ v = Append(w, b)
  <2>1. SubSeq(q, 1, j) = Append(SubSeq(q, 1, j - 1), q[j]) /\ SubSeq(q, 1, j - 1) \in Seq(ClientBlocks)
    BY PrefixGrows
  <2>2. PICK w \in Seq(ClientBlocks) : w = SubSeq(q, 1, i) /\ SubSeq(q, 1, j) = Append(w, b)
    BY <1>3, <1>4, <2>1
  <2>3. Append(w, b) \in Seq(ClientBlocks)
    BY AppendProperties
  <2> QED
    BY <2>2, <2>3
<1>11. Places(OfKind(v, {"text"})) =
          IF b.kind = "text" THEN Append(Places(OfKind(w, {"text"})), b.at) ELSE Places(OfKind(w, {"text"}))
  <2>1. PICK kinds : kinds = {"text"}
    OBVIOUS
  <2>2. Places(OfKind(Append(w, b), kinds)) =
           IF b.kind \in kinds THEN Append(Places(OfKind(w, kinds)), b.at) ELSE Places(OfKind(w, kinds))
    BY PlacesAppend
  <2>3. b.kind \in kinds <=> b.kind = "text"
    BY <2>1
  <2> QED
    BY <1>10, <2>1, <2>2, <2>3
<1>12. /\ i < r => Told(acc.out) = Places(w)
       /\ i >= r => Told(acc.out) = Places(SubSeq(q, 1, r)) \o HeldText
       /\ i <= r => acc.texts = <<>>
       /\ acc.texts = Places(OfKind(w, {"text"}))
  BY <1>2, <1>5, <1>10 DEF FoldOrder
<1>13. CASE j <= r
  <2>1. b.kind = "tool_result" /\ i < r /\ i <= r
    BY <1>3, <1>9, <1>13
  <2>2. acc.texts = <<>> /\ new.texts = <<>> /\ b.kind # "text"
    BY <1>8, <1>12, <2>1
  <2>3. PICK t \in Seq(Place), a \in Place : t = Places(w) /\ a = b.at
    BY <1>6, <1>10, PlacesIs
  <2>4. t \o <<>> = t /\ t \o <<a>> = Append(t, a)
    <3>1. t \o <<>> = t
      BY ConcatEmptySeq
    <3>2. t \o <<a>> = Append(t, a)
      OBVIOUS
    <3> QED
      BY <3>1, <3>2
  <2>5. Places(v) = Append(t, a)
    <3>1. PlaceOf \in Maps(ClientBlocks, Place) /\ Places(w) = Image(PlaceOf, w)
      BY PlacesIs
    <3>2. Places(v) = Image(PlaceOf, v)
      BY PlacesIs
    <3>3. Image(PlaceOf, Append(w, b)) = Append(Image(PlaceOf, w), PlaceOf[b])
      BY <3>1, ImageAppend
    <3>4. PlaceOf[b] = b.at
      BY DEF PlaceOf
    <3> QED
      BY <1>10, <2>3, <3>1, <3>2, <3>3, <3>4
  <2>6. HeldText \in Seq(Place) /\ (~Held => HeldText = <<>>)
    BY HeldTextType DEF Sound
  <2>7. Append(t, a) \o <<>> = Append(t, a)
    <3>1. Append(t, a) \in Seq(Place)
      BY AppendProperties
    <3> QED
      BY <3>1, ConcatEmptySeq
  <2>8. Told(new.out) = Append(t, a) \o (IF Ends(acc, b) THEN HeldText ELSE <<>>)
    BY <1>8, <1>12, <2>1, <2>2, <2>3, <2>4
  <2>9. Held => (Ends(acc, b) <=> j = r)
    <3> SUFFICES ASSUME Held PROVE Ends(acc, b) <=> j = r
      OBVIOUS
    <3>1. r > 0 /\ pending.ids = {q[k].id : k \in 1..r}
      BY <1>2 DEF Waiting
    <3>2. Injecting
      <4>1. 1 \in 1..r
        BY <1>9, <3>1
      <4>2. pending.ids # {}
        BY <3>1, <4>1
      <4> QED
        BY <4>2 DEF Injecting
    <3>3. Ends(acc, b) <=> acc.ids \ {b.id} = {}
      BY <1>7, <2>1, <3>2 DEF Ends
    <3>4. AnswersIn(q, i) = {q[k].id : k \in 1..i}
      <4>1. \A k \in 1..i : q[k].kind = "tool_result"
        <5> SUFFICES ASSUME NEW k \in 1..i PROVE q[k].kind = "tool_result"
          OBVIOUS
        <5>1. k \in 1..Len(q) /\ k <= r
          BY <1>3, <1>9, <2>1
        <5> QED
          BY <1>9, <5>1
      <4> QED
        BY <4>1 DEF AnswersIn
    <3>5. CASE j = r
      <4>1. \A k \in 1..r : k = j \/ k \in 1..i
        BY <1>3, <1>9, <3>5
      <4>2. acc.ids \ {b.id} = {}
        BY <1>4, <1>7, <3>1, <3>4, <4>1
      <4> QED
        BY <3>3, <3>5, <4>2
    <3>6. CASE j # r
      <4>1. r \in 1..r /\ j \in 1..r /\ \A k \in 1..i : k \in 1..r /\ k # r
        BY <1>3, <1>9, <1>13, <3>1, <3>6
      <4>2. q[r].id \in pending.ids /\ q[r].id # b.id /\ q[r].id \notin AnswersIn(q, i)
        BY <1>4, <1>9, <3>1, <3>4, <3>6, <4>1
      <4> QED
        BY <1>7, <3>3, <3>6, <4>2
    <3> QED
      BY <3>5, <3>6
  <2>10. Told(new.out) = IF j = r THEN Append(t, a) \o HeldText ELSE Append(t, a)
    <3>1. CASE Held
      BY <2>7, <2>8, <2>9, <3>1
    <3>2. CASE ~Held
      BY <2>6, <2>7, <2>8, <3>2
    <3> QED
      BY <3>1, <3>2
  <2>11. (j < r => j # r) /\ (j >= r => j = r)
    BY <1>3, <1>9, <1>13
  <2>12. j < r => Told(new.out) = Places(SubSeq(q, 1, j))
    BY <1>10, <2>5, <2>10, <2>11
  <2>13. j >= r => Told(new.out) = Places(SubSeq(q, 1, r)) \o HeldText
    BY <1>10, <2>5, <2>10, <2>11
  <2>14. new.texts = Places(OfKind(v, {"text"}))
    BY <1>11, <1>12, <2>2
  <2> QED
    BY <1>2, <1>3, <1>5, <1>10, <2>2, <2>12, <2>13, <2>14 DEF FoldOrder
<1>14. CASE j > r
  <2>1. b.kind # "tool_result" /\ i >= r /\ ~(j < r) /\ ~(j <= r)
    BY <1>3, <1>9, <1>14
  <2>2. new.out = acc.out /\ new.texts = IF b.kind = "text" THEN Append(acc.texts, b.at) ELSE acc.texts
    BY <1>8, <2>1
  <2>3. Told(new.out) = Places(SubSeq(q, 1, r)) \o HeldText
    BY <1>12, <2>1, <2>2
  <2>4. new.texts = Places(OfKind(v, {"text"}))
    BY <1>11, <1>12, <2>2
  <2> QED
    BY <1>2, <1>3, <1>5, <1>10, <2>1, <2>3, <2>4 DEF FoldOrder
<1> QED
  BY <1>3, <1>9, <1>13, <1>14

(* So a user's list tells its results, what was held back, and its texts.    *)
LEMMA OrderAtEnd ==
  ASSUME Sound, NEW n, NEW m, Received(m, n), NEW f, IsReplay(f, Beginning, m.blocks), NEW r, Waiting(m, r)
  PROVE  FoldOrder(f, m.blocks, r, Len(m.blocks))
<1> DEFINE P == {i \in Nat : i <= Len(m.blocks) => FoldOrder(f, m.blocks, r, i)}
<1>0. Len(m.blocks) \in Nat
  BY DEF Received, ClientMessages
<1>1. 0 \in P
  BY OrderBegins
<1>2. \A i \in Nat : i \in P => i + 1 \in P
  <2> SUFFICES ASSUME NEW i \in Nat, i \in P, i + 1 <= Len(m.blocks)
               PROVE  FoldOrder(f, m.blocks, r, i + 1)
    OBVIOUS
  <2>1. i < Len(m.blocks) /\ FoldOrder(f, m.blocks, r, i) /\ i \in 0..Len(m.blocks)
    BY <1>0
  <2>2. FoldWell(f, m.blocks, i)
    BY <2>1, FoldCounts
  <2> QED
    BY <2>1, <2>2, OrderGoesOn
<1> HIDE DEF P
<1>3. \A i \in Nat : i \in P
  BY <1>1, <1>2, Induction
<1>4. Len(m.blocks) \in P
  BY <1>0, <1>3
<1> QED
  BY <1>0, <1>4 DEF P

(* While a conversation whose calls are answered is converted.               *)
TellsInOrder(kinds, c) ==
    /\ Told(output) = AllGiven(kinds, c)
    /\ HeldText = SaidIn(kinds, c, Len(c))
    /\ Held => c # <<>> /\ pending.ids = Calls(c[Len(c)]) /\ pending.ids # {}

OrderInv ==
    /\ phase = "converting" /\ Answered(input) => TellsInOrder(ShownKinds, input)
    /\ ToldInOrder

(* Nothing is held back when the message before made no call.                *)
LEMMA NotHeld ==
  ASSUME Sound, NEW kinds, TellsInOrder(kinds, input), CallsBefore(input) = {}
  PROVE  ~Held /\ HeldText = <<>>
<1>1. input \in Seq(ClientMessages)
  BY DEF Sound, ConversionTypes
<1>2. ASSUME Held PROVE FALSE
  <2>1. input # <<>> /\ pending.ids = Calls(input[Len(input)]) /\ pending.ids # {}
    BY <1>2 DEF TellsInOrder
  <2>2. Len(input) # 0
    BY <1>1, <2>1, EmptySeq
  <2> QED
    BY <2>1, <2>2 DEF CallsBefore
<1> QED
  BY <1>2, HeldTextType DEF Sound

(* What a message must do to the output for the order to go on.              *)
LEMMA OrderGoesTo ==
  ASSUME Sound, NEW m \in ClientMessages, NEW kinds, TellsInOrder(kinds, input), input' = Append(input, m),
         Told(output') = Told(output) \o GivesIn(kinds, Append(input, m), Len(input) + 1),
         HeldText' = Places(OfKind(Without(m.blocks, Early(m)), kinds)),
         Held' => pending'.ids = Calls(m) /\ pending'.ids # {}
  PROVE  TellsInOrder(kinds, input)'
<1>1. input \in Seq(ClientMessages)
  BY DEF Sound, ConversionTypes
<1>2. PICK d \in Seq(ClientMessages) : d = input' /\ d = Append(input, m)
  BY <1>1, OneMore
<1>3. Len(d) = Len(input) + 1 /\ d[Len(input) + 1] = m
  BY <1>1, <1>2, OneMore
<1>4. d # <<>>
  <2>1. Len(input) + 1 # 0
    BY <1>1
  <2> QED
    BY <1>3, <2>1
<1>5. /\ SaidIn(kinds, Append(input, m), Len(input) + 1) = Places(OfKind(Without(m.blocks, Early(m)), kinds))
      /\ AllGiven(kinds, Append(input, m)) = AllGiven(kinds, input) \o GivesIn(kinds, Append(input, m), Len(input) + 1)
  BY <1>1, GivenAppend
<1>6. Told(output') = AllGiven(kinds, d)
  BY <1>2, <1>5 DEF TellsInOrder
<1>7. HeldText' = SaidIn(kinds, d, Len(d))
  BY <1>2, <1>3, <1>5
<1>8. Held' => d # <<>> /\ pending'.ids = Calls(d[Len(d)]) /\ pending'.ids # {}
  BY <1>3, <1>4
<1>9. Told(output)' = Told(output') /\ input' = d
  BY <1>2 DEF Told, Spoken
<1> QED
  BY <1>6, <1>7, <1>8, <1>9 DEF TellsInOrder

(* An assistant's list, when the calls before it are answered.             *)
LEMMA OrderAssistant ==
  ASSUME Sound, NEW m, Received(m, Len(input) + 1), NEW x, AssistantGives(m, x), m.role = "assistant", mode' = mode,
         TellsInOrder(ShownKinds, input), AnswersWell(m, CallsBefore(input)), input' = Append(input, m)
  PROVE  TellsInOrder(ShownKinds, input)'
<1>1. PICK kinds : kinds = ShownKinds
  OBVIOUS
<1>2. input \in Seq(ClientMessages) /\ m \in ClientMessages
  BY DEF Sound, ConversionTypes, Received
<1>3. CallsBefore(input) = {}
  BY DEF AnswersWell
<1>4. HeldText = <<>>
  BY <1>3, NotHeld
<1>5. /\ Told(output') = (Told(output) \o HeldText) \o Places(Only(m, Earlier(m)))
      /\ HeldText' = Places(Only(m, Later(m)))
  BY AssistantTold
<1>6. /\ OfKind(Without(m.blocks, ToSet(m.blocks) \ Early(m)), kinds) = Only(m, Earlier(m))
      /\ OfKind(Without(m.blocks, Early(m)), kinds) = Only(m, Later(m))
  BY <1>1, <1>2, EarlyIs
<1>7. Told(output) \o <<>> = Told(output)
  <2>1. Told(output) \in Seq(Place)
    BY TotalNow
  <2> QED
    BY <2>1, ConcatEmptySeq
<1>8. GivesIn(kinds, Append(input, m), Len(input) + 1) = Places(Only(m, Earlier(m)))
  <2>1. GivesIn(kinds, Append(input, m), Len(input) + 1) = Places(OfKind(Without(m.blocks, ToSet(m.blocks) \ Early(m)), kinds))
    BY <1>2, GivenAppend
  <2> QED
    BY <1>6, <2>1
<1>9. Told(output') = Told(output) \o GivesIn(kinds, Append(input, m), Len(input) + 1)
  BY <1>4, <1>5, <1>7, <1>8
<1>10. HeldText' = Places(OfKind(Without(m.blocks, Early(m)), kinds))
  BY <1>5, <1>6
<1>11. Held' => pending'.ids = Calls(m) /\ pending'.ids # {}
  <2> SUFFICES ASSUME Held' PROVE pending'.ids = Calls(m) /\ pending'.ids # {}
    OBVIOUS
  <2>1. pending' # NoPending
    BY DEF Held, NoPending
  <2>2. HasCall(m) /\ pending'.ids = Calls(m) \ {""}
    BY <2>1 DEF AssistantGives
  <2>3. "" \notin Calls(m)
    BY DEF AnswersWell
  <2>4. Calls(m) # {}
    BY <2>2 DEF Calls, HasCall
  <2> QED
    BY <2>2, <2>3, <2>4
<1>12. TellsInOrder(kinds, input)'
  BY <1>1, <1>2, <1>9, <1>10, <1>11, OrderGoesTo
<1>13. ShownKinds' = kinds
  BY <1>1 DEF ShownKinds
<1> QED
  BY <1>12, <1>13 DEF TellsInOrder

(* A string is a text of its own: it answers no call.                        *)
LEMMA TextOnly ==
  ASSUME NEW n, NEW m \in ClientMessages, Received(m, n), m.form = "string"
  PROVE  /\ Results(m) = <<>> /\ ~HasCall(m)
         /\ OfKind(m.blocks, {"text"}) = m.blocks /\ OfKind(m.blocks, ShownKinds) = m.blocks
<1>1. PICK q \in Seq(ClientBlocks) : q = m.blocks
  BY DEF ClientMessages
<1>2. \A i \in DOMAIN q : q[i].kind = "text"
  BY <1>1 DEF Received
<1>3. ASSUME NEW kinds, "text" \in kinds
      PROVE  OfKind(q, kinds) = q
  <2>1. {b \in ToSet(q) : b.kind \notin kinds} = {}
    BY <1>2, <1>3 DEF ToSet
  <2>2. Without(q, {}) = q
    BY WithoutNothing
  <2> QED
    BY <2>1, <2>2 DEF OfKind
<1>4. OfKind(q, {"tool_result"}) = <<>>
  <2>1. PICK w \in Seq(ClientBlocks) : w = OfKind(q, {"tool_result"}) /\ w = Without(q, {b \in ToSet(q) : b.kind \notin {"tool_result"}})
    BY OfKindIs DEF OfKind
  <2>2. \A i \in DOMAIN w : w[i] \notin {b \in ToSet(q) : b.kind \notin {"tool_result"}} /\ \E j \in DOMAIN q : w[i] = q[j]
    BY <2>1, WithoutIsSeq
  <2>3. \A i \in DOMAIN w : FALSE
    BY <1>2, <2>2 DEF ToSet
  <2>4. Len(w) = 0
    <3>1. Len(w) # 0 => 1 \in DOMAIN w
      OBVIOUS
    <3> QED
      BY <2>3, <3>1
  <2> QED
    BY <2>1, <2>4, EmptySeq
<1>5. ~HasCall(m)
  BY <1>1, <1>2 DEF HasCall, IsCall
<1>6. "text" \in ShownKinds /\ "text" \in {"text"}
  BY ToolsNotShown
<1> QED
  BY <1>1, <1>3, <1>4, <1>5, <1>6 DEF Results

(* What a message of a user gives when nothing but text of its own follows.  *)
LEMMA UserGivesIs ==
  ASSUME Sound, NEW m \in ClientMessages, m.role = "user", NEW kinds, TellsInOrder(kinds, input)
  PROVE  GivesIn(kinds, Append(input, m), Len(input) + 1) = (Places(Results(m)) \o HeldText) \o Places(OfKind(m.blocks, {"text"}))
<1>1. input \in Seq(ClientMessages)
  BY DEF Sound, ConversionTypes
<1>2. GivesIn(kinds, Append(input, m), Len(input) + 1) =
         IF m.role = "assistant" THEN Places(OfKind(Without(m.blocks, ToSet(m.blocks) \ Early(m)), kinds))
         ELSE (Places(Results(m)) \o SaidIn(kinds, input, Len(input))) \o Places(OfKind(m.blocks, {"text"}))
  BY <1>1, GivenAppend
<1>3. HeldText = SaidIn(kinds, input, Len(input))
  BY DEF TellsInOrder
<1> QED
  BY <1>2, <1>3

(* A string, which leaves no call unanswered.                              *)
LEMMA OrderString ==
  ASSUME Sound, NEW m, Received(m, Len(input) + 1), NEW x, StringGives(m, x), m.form = "string", mode' = mode,
         TellsInOrder(ShownKinds, input), AnswersWell(m, CallsBefore(input)), input' = Append(input, m)
  PROVE  TellsInOrder(ShownKinds, input)'
<1>1. PICK kinds : kinds = ShownKinds
  OBVIOUS
<1>2. input \in Seq(ClientMessages) /\ m \in ClientMessages /\ m.role \in {"user", "assistant"}
  BY DEF Sound, ConversionTypes, Received, ClientMessages
<1>3. /\ Results(m) = <<>> /\ ~HasCall(m)
      /\ OfKind(m.blocks, {"text"}) = m.blocks /\ OfKind(m.blocks, kinds) = m.blocks
  BY <1>1, <1>2, TextOnly
<1>4. CallsBefore(input) = {}
  <2>1. CallsBefore(input) = {Results(m)[i].id : i \in DOMAIN Results(m)}
    BY DEF AnswersWell
  <2>2. DOMAIN Results(m) = {}
    BY <1>3
  <2> QED
    BY <2>1, <2>2
<1>5. ~Held /\ HeldText = <<>>
  BY <1>4, NotHeld
<1>6. /\ OfKind(Without(m.blocks, ToSet(m.blocks) \ Early(m)), kinds) = m.blocks
      /\ OfKind(Without(m.blocks, Early(m)), kinds) = <<>>
  <2>1. OfKind(m.blocks, ShownKinds) = Only(m, Earlier(m)) /\ Only(m, Later(m)) = <<>>
    BY <1>2, <1>3, UnsplitIs
  <2>2. /\ OfKind(Without(m.blocks, ToSet(m.blocks) \ Early(m)), ShownKinds) = Only(m, Earlier(m))
        /\ OfKind(Without(m.blocks, Early(m)), ShownKinds) = Only(m, Later(m))
    BY <1>2, EarlyIs
  <2> QED
    BY <1>1, <1>3, <2>1, <2>2
<1>7. PICK t \in Seq(Place), p \in Seq(Place) : t = Told(output) /\ p = Places(m.blocks)
  <2>1. m.blocks \in Seq(ClientBlocks)
    BY <1>2 DEF ClientMessages
  <2>2. Places(m.blocks) \in Seq(Place)
    BY <2>1, PlacesIs
  <2> QED
    BY <2>2, TotalNow
<1>8. t \o <<>> = t /\ <<>> \o p = p /\ <<>> \o <<>> = <<>>
  <2>1. t \o <<>> = t
    BY ConcatEmptySeq
  <2>2. <<>> \o p = p
    BY ConcatEmptySeq
  <2>3. PICK e \in Seq(Place) : e = <<>>
    BY EmptySeq
  <2>4. e \o <<>> = e
    BY ConcatEmptySeq
  <2> QED
    BY <2>1, <2>2, <2>3, <2>4
<1>9. /\ m.role = "user" => /\ Told(output') = (Told(output) \o HeldText) \o Places(m.blocks)
                            /\ HeldText' = <<>> /\ ~Held'
      /\ m.role # "user" => /\ Told(output') = Told(output) \o Places(m.blocks)
                            /\ HeldText' = HeldText /\ pending' = pending
  BY StringTold
<1>10. Told(output') = t \o p
  BY <1>5, <1>7, <1>8, <1>9
<1>11. Places(<<>>) = <<>>
  BY DEF Places
<1>12. GivesIn(kinds, Append(input, m), Len(input) + 1) = p
  <2>1. CASE m.role = "assistant"
    <3>1. GivesIn(kinds, Append(input, m), Len(input) + 1) = Places(OfKind(Without(m.blocks, ToSet(m.blocks) \ Early(m)), kinds))
      BY <1>2, <2>1, GivenAppend
    <3> QED
      BY <1>6, <1>7, <3>1
  <2>2. CASE m.role = "user"
    <3>1. GivesIn(kinds, Append(input, m), Len(input) + 1) =
             (Places(Results(m)) \o HeldText) \o Places(OfKind(m.blocks, {"text"}))
      BY <1>1, <1>2, <2>2, UserGivesIs
    <3> QED
      BY <1>3, <1>5, <1>7, <1>8, <1>11, <3>1
  <2> QED
    BY <1>2, <2>1, <2>2
<1>13. Told(output') = Told(output) \o GivesIn(kinds, Append(input, m), Len(input) + 1)
  BY <1>7, <1>10, <1>12
<1>14. HeldText' = Places(OfKind(Without(m.blocks, Early(m)), kinds))
  BY <1>5, <1>6, <1>9, <1>11
<1>15. ~Held'
  BY <1>5, <1>9 DEF Held
<1>16. TellsInOrder(kinds, input)'
  BY <1>1, <1>2, <1>13, <1>14, <1>15, OrderGoesTo
<1>17. ShownKinds' = kinds
  BY <1>1 DEF ShownKinds
<1> QED
  BY <1>16, <1>17 DEF TellsInOrder

(* A user's list, which answers the calls before it.                       *)
LEMMA OrderUser ==
  ASSUME Sound, NEW m, Received(m, Len(input) + 1), NEW f, UserGives(m, f), m.role = "user", mode' = mode,
         TellsInOrder(ShownKinds, input), AnswersWell(m, CallsBefore(input)), input' = Append(input, m)
  PROVE  TellsInOrder(ShownKinds, input)'
<1>1. PICK kinds : kinds = ShownKinds
  OBVIOUS
<1>2. input \in Seq(ClientMessages) /\ m \in ClientMessages
  BY DEF Sound, ConversionTypes, Received
<1>3. PICK r : ResultsLead(m, r) /\ CallsBefore(input) = {m.blocks[i].id : i \in 1..r}
  BY <1>2, ResultsAre
<1>4. r \in Nat /\ r <= Len(m.blocks) /\ Results(m) = SubSeq(m.blocks, 1, r) /\ Len(m.blocks) \in Nat
  BY <1>2, <1>3 DEF ResultsLead, ClientMessages
<1>5. Held => r > 0 /\ pending.ids = {m.blocks[i].id : i \in 1..r}
  <2> SUFFICES ASSUME Held PROVE r > 0 /\ pending.ids = {m.blocks[i].id : i \in 1..r}
    OBVIOUS
  <2>1. input # <<>> /\ pending.ids = Calls(input[Len(input)]) /\ pending.ids # {}
    BY DEF TellsInOrder
  <2>2. Len(input) # 0
    BY <1>2, <2>1, EmptySeq
  <2>3. pending.ids = {m.blocks[i].id : i \in 1..r}
    BY <1>3, <2>1, <2>2 DEF CallsBefore
  <2>4. r # 0
    <3>1. r = 0 => 1..r = {}
      BY <1>4
    <3> QED
      BY <2>1, <2>3, <3>1
  <2> QED
    BY <1>4, <2>3, <2>4
<1>6. Waiting(m, r)
  BY <1>3, <1>5 DEF Waiting
<1>7. IsReplay(f, Beginning, m.blocks)
  BY DEF UserGives
<1>8. FoldOrder(f, m.blocks, r, Len(m.blocks))
  BY <1>6, <1>7, OrderAtEnd
<1>9. PICK end \in Folding : end = f[Len(m.blocks)]
  BY UserFold
<1>10. SpokenTexts(end) /\ SubSeq(m.blocks, 1, Len(m.blocks)) = m.blocks
  BY <1>9, UserFold DEF FoldWell
<1>11. Told(end.out) = Places(Results(m)) \o HeldText /\ end.texts = Places(OfKind(m.blocks, {"text"}))
  BY <1>4, <1>8, <1>9, <1>10 DEF FoldOrder
<1>12. \A k \in DOMAIN end.texts : end.texts[k][2] # 0
  BY <1>10 DEF SpokenTexts
<1>13. Told(output') = (Told(output) \o Told(end.out)) \o end.texts
  BY <1>9, <1>12, UserTold
<1>0. PICK P : P = Place
  OBVIOUS
<1>14. PICK a \in Seq(P), b \in Seq(P), c \in Seq(P), d \in Seq(P) :
            a = Told(output) /\ b = Places(Results(m)) /\ c = HeldText /\ d = end.texts
  <2>1. m.blocks \in Seq(ClientBlocks)
    BY <1>2 DEF ClientMessages
  <2>2. PICK w \in Seq(ClientBlocks) : w = Results(m)
    BY <2>1, OfKindIs DEF Results
  <2>3. Places(Results(m)) \in Seq(Place)
    BY <2>2, PlacesIs
  <2>4. end.texts \in Seq(Place)
    BY DEF Folding
  <2> QED
    BY <1>0, <2>3, <2>4, TotalNow
<1>15. a \o ((b \o c) \o d) = (a \o (b \o c)) \o d
  <2>1. PICK e \in Seq(P) : e = b \o c
    BY ConcatProperties
  <2>2. (a \o e) \o d = a \o (e \o d)
    BY ConcatAssociative, SMTT(60)
  <2>3. a \o ((b \o c) \o d) = a \o (e \o d)
    BY <2>1
  <2>4. (a \o (b \o c)) \o d = (a \o e) \o d
    BY <2>1
  <2> QED
    BY <2>2, <2>3, <2>4
<1>16. GivesIn(kinds, Append(input, m), Len(input) + 1) = (b \o c) \o d
  <2>1. GivesIn(kinds, Append(input, m), Len(input) + 1) =
           (Places(Results(m)) \o HeldText) \o Places(OfKind(m.blocks, {"text"}))
    BY <1>1, <1>2, UserGivesIs
  <2> QED
    BY <1>11, <1>14, <2>1
<1>17. Told(output') = Told(output) \o GivesIn(kinds, Append(input, m), Len(input) + 1)
  BY <1>11, <1>13, <1>14, <1>15, <1>16
<1>18. ~(Injecting /\ end.ids # {})
  <2> SUFFICES ASSUME Injecting PROVE end.ids = {}
    OBVIOUS
  <2>1. Held /\ pending.ids = {m.blocks[i].id : i \in 1..r}
    BY <1>5 DEF Injecting
  <2>2. end.ids = pending.ids \ AnswersIn(m.blocks, Len(m.blocks))
    BY <1>9, UserEnds
  <2>3. \A i \in 1..r : i \in 1..Len(m.blocks) /\ m.blocks[i].kind = "tool_result"
    <3> SUFFICES ASSUME NEW i \in 1..r PROVE i \in 1..Len(m.blocks) /\ m.blocks[i].kind = "tool_result"
      OBVIOUS
    <3>1. i \in 1..Len(m.blocks) /\ i <= r
      BY <1>4
    <3>2. i \in DOMAIN m.blocks
      BY <1>2, <3>1 DEF ClientMessages
    <3> QED
      BY <1>3, <3>1, <3>2 DEF ResultsLead
  <2>4. pending.ids \subseteq AnswersIn(m.blocks, Len(m.blocks))
    BY <2>1, <2>3 DEF AnswersIn
  <2> QED
    BY <2>2, <2>4
<1>19. HeldText' = <<>> /\ ~Held'
  BY <1>9, <1>18, UserEnds
<1>20. ~HasCall(m)
  BY DEF HasCall, IsCall, Received
<1>21. HeldText' = Places(OfKind(Without(m.blocks, Early(m)), kinds))
  <2>1. Only(m, Later(m)) = <<>>
    BY <1>2, <1>20, UnsplitIs
  <2>2. OfKind(Without(m.blocks, Early(m)), kinds) = Only(m, Later(m))
    BY <1>1, <1>2, EarlyIs
  <2>3. Places(<<>>) = <<>>
    BY DEF Places
  <2> QED
    BY <1>19, <2>1, <2>2, <2>3
<1>22. TellsInOrder(kinds, input)'
  BY <1>1, <1>2, <1>17, <1>19, <1>21, OrderGoesTo
<1>23. ShownKinds' = kinds
  BY <1>1 DEF ShownKinds
<1> QED
  BY <1>22, <1>23 DEF TellsInOrder

(* Nothing is told of the empty conversation.                              *)
LEMMA OrderAtFirst == ConversionInit => OrderInv
<1> SUFFICES ASSUME ConversionInit PROVE OrderInv
  OBVIOUS
<1>1. Sound /\ HeldText = <<>> /\ ~Held
  BY SoundAtFirst
<1>2. phase = "converting" /\ input = <<>> /\ output = <<>>
  BY DEF ConversionInit
<1>3. Told(output) = <<>>
  BY <1>2, ToldNone
<1>4. AllGiven(ShownKinds, <<>>) = <<>>
  <2>1. [n \in DOMAIN <<>> |-> GivesIn(ShownKinds, <<>>, n)] = <<>>
    OBVIOUS
  <2> QED
    BY <2>1, FlattenNone DEF AllGiven
<1>5. SaidIn(ShownKinds, <<>>, Len(<<>>)) = <<>>
  BY DEF SaidIn
<1> QED
  BY <1>1, <1>2, <1>3, <1>4, <1>5 DEF OrderInv, TellsInOrder, ToldInOrder

(* Whatever message is taken.                                                *)
LEMMA OrderTaken ==
  ASSUME Sound, OrderInv, NEW m, Taken(m, Len(input) + 1)
  PROVE  OrderInv'
<1>1. phase = "converting" /\ mode' = mode /\ input' = Append(input, m) /\ Received(m, Len(input) + 1)
  BY DEF Taken
<1>2. input \in Seq(ClientMessages) /\ m \in ClientMessages
  BY <1>1 DEF Sound, ConversionTypes, Received
<1>3. ToldInOrder'
  BY <1>1 DEF Taken, ToldInOrder
<1>4. ASSUME phase' = "converting", Answered(input)'
      PROVE  TellsInOrder(ShownKinds, input)'
  <2>1. Answered(Append(input, m))
    BY <1>1, <1>4
  <2>2. Answered(input) /\ AnswersWell(m, CallsBefore(input))
    BY <1>2, <2>1, AnsweredAppend
  <2>3. TellsInOrder(ShownKinds, input)
    BY <1>1, <2>2 DEF OrderInv
  <2>4. \/ m.role = "assistant" /\ \E x : AssistantGives(m, x)
        \/ m.form = "string" /\ \E x : StringGives(m, x)
        \/ m.role = "user" /\ \E f : UserGives(m, f)
    BY <1>4 DEF Taken
  <2>5. CASE m.role = "assistant" /\ \E x : AssistantGives(m, x)
    BY <1>1, <2>2, <2>3, <2>5, OrderAssistant
  <2>6. CASE m.form = "string" /\ \E x : StringGives(m, x)
    BY <1>1, <2>2, <2>3, <2>6, OrderString
  <2>7. CASE m.role = "user" /\ \E f : UserGives(m, f)
    BY <1>1, <2>2, <2>3, <2>7, OrderUser
  <2> QED
    BY <2>4, <2>5, <2>6, <2>7
<1> QED
  BY <1>3, <1>4 DEF OrderInv

(* At the end what is still held back is told.                               *)
LEMMA OrderAtEndOfAll ==
  ASSUME Sound, OrderInv, Finish
  PROVE  OrderInv'
<1>1. phase = "converting" /\ phase' = "done" /\ input' = input /\ mode' = mode
  BY DEF Finish
<1>2. Told(output') = Told(output) \o HeldText
  BY FinishTold
<1>3. ASSUME Answered(input)'
      PROVE  Told(output') = FlattenSeq([n \in DOMAIN input |-> Contribution(input, n)]) \o SaidAfter(input, Len(input))
  <2>1. Answered(input)
    BY <1>1, <1>3
  <2>2. TellsInOrder(ShownKinds, input)
    BY <1>1, <2>1 DEF OrderInv
  <2>3. SaidIn(ShownKinds, input, Len(input)) = SaidAfter(input, Len(input))
    BY DEF SaidIn, SaidAfter
  <2>4. \A n : GivesIn(ShownKinds, input, n) = Contribution(input, n)
    BY DEF GivesIn, Contribution, SaidIn, SaidAfter
  <2>5. [n \in DOMAIN input |-> GivesIn(ShownKinds, input, n)] = [n \in DOMAIN input |-> Contribution(input, n)]
    BY <2>4
  <2>6. AllGiven(ShownKinds, input) = FlattenSeq([n \in DOMAIN input |-> Contribution(input, n)])
    BY <2>5 DEF AllGiven
  <2> QED
    BY <1>2, <2>2, <2>3, <2>6 DEF TellsInOrder
<1>4. /\ Told(output)' = Told(output')
      /\ FlattenSeq([n \in DOMAIN input |-> Contribution(input, n)])' = FlattenSeq([n \in DOMAIN input |-> Contribution(input, n)])
      /\ SaidAfter(input, Len(input))' = SaidAfter(input, Len(input))
  <2>1. Told(output)' = Told(output')
    BY DEF Told, Spoken
  <2>2. ShownKinds' = ShownKinds
    BY <1>1 DEF ShownKinds
  <2>3. SaidAfter(input, Len(input))' = SaidAfter(input, Len(input))
    BY <1>1, <2>2 DEF SaidAfter
  <2>4. [n \in DOMAIN input |-> Contribution(input, n)]' = [n \in DOMAIN input |-> Contribution(input, n)]
    BY <1>1, <2>2 DEF Contribution, SaidAfter
  <2> QED
    BY <2>1, <2>3, <2>4
<1>5. ToldInOrder'
  BY <1>3, <1>4 DEF ToldInOrder
<1> QED
  BY <1>1, <1>5 DEF OrderInv

(* The order is kept by every step.                                        *)
LEMMA OrderStays == LostInv /\ OrderInv /\ [ConversionNext]_conversionVars => OrderInv'
<1> SUFFICES ASSUME LostInv, OrderInv, [ConversionNext]_conversionVars PROVE OrderInv'
  OBVIOUS
<1>0. Sound
  BY DEF LostInv
<1>1. ASSUME NEW msg \in MessageSet, Convert(msg)
      PROVE  OrderInv'
  <2>1. PICK m : Taken(m, Len(input) + 1)
    BY <1>0, <1>1, ConvertGives DEF Sound
  <2> QED
    BY <1>0, <2>1, OrderTaken
<1>2. CASE Finish
  BY <1>0, <1>2, OrderAtEndOfAll
<1>3. CASE UNCHANGED conversionVars
  <2>1. UNCHANGED <<mode, input, output, pending, phase>>
    BY <1>3 DEF conversionVars
  <2>2. ToldInOrder'
    <3>1. Answered(input)' <=> Answered(input)
      BY <2>1
    <3>2. SaidAfter(input, Len(input))' = SaidAfter(input, Len(input)) /\ Told(output)' = Told(output)
      BY <2>1 DEF SaidAfter, ShownKinds, Told, Spoken
    <3>3. [n \in DOMAIN input |-> Contribution(input, n)]' = [n \in DOMAIN input |-> Contribution(input, n)]
      BY <2>1 DEF Contribution, SaidAfter, ShownKinds
    <3> QED
      BY <2>1, <3>1, <3>2, <3>3 DEF OrderInv, ToldInOrder
  <2>3. TellsInOrder(ShownKinds, input) => TellsInOrder(ShownKinds, input)'
    BY <2>1 DEF TellsInOrder, HeldText, Held, AllGiven, GivesIn, SaidIn, ShownKinds, Told, Spoken
  <2>4. Answered(input)' <=> Answered(input)
    BY <2>1
  <2> QED
    BY <2>1, <2>2, <2>3, <2>4 DEF OrderInv
<1> QED
  BY <1>1, <1>2, <1>3 DEF ConversionNext

(* Whatever the conversation, the upstream is told it faithfully: all of it, once *)
(* and in order.                                                                   *)
THEOREM ToldFaithfullyHolds == ConversionSpec => []ToldFaithfully
<1>1. ConversionInit => LostInv /\ OrderInv
  BY LostAtFirst, OrderAtFirst
<1>2. LostInv /\ OrderInv /\ [ConversionNext]_conversionVars => (LostInv /\ OrderInv)'
  BY LostStays, OrderStays
<1>3. LostInv /\ OrderInv => ToldFaithfully
  BY DEF LostInv, OrderInv, ToldFaithfully
<1> QED
  BY <1>1, <1>2, <1>3, PTL DEF ConversionSpec
===============================================================================
