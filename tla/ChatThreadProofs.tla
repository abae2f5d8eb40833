-------------------------- MODULE ChatThreadProofs --------------------------
(***************************************************************************)
(* Theorems about ChatThread, for any conversations, any number of         *)
(* messages and of events under way, and any size of a page.               *)
(***************************************************************************)
EXTENDS ChatThread, SequenceTheorems, WellFoundedInduction, TLAPS

(***************************************************************************)
(* The messages of conversation c among the first n of m.  The list is a   *)
(* recursive function; a smallest n without one would be given one by the  *)
(* step below, and a smallest n where two of them differ has none before.  *)
(***************************************************************************)
Lists(f, m, c, n) ==
  f = [i \in 0 .. n |->
         IF i = 0 THEN <<>>
         ELSE IF m[i] = c THEN Append(f[i - 1], i)
         ELSE f[i - 1]]

\* What is listed.
OfConv(m, c, n) == {i \in 1 .. n : m[i] = c}

ListOf(m, c, n) == (CHOOSE f : Lists(f, m, c, n))[n]

LEMMA MessagesOfIsList ==
  ASSUME NEW c, NEW n
  PROVE  MessagesOf(c, n) = ListOf(msgs, c, n)
BY DEF MessagesOf, ListOf, Lists

\* The least member of a set of numbers.
LEMMA LeastNat ==
  ASSUME NEW S, S \subseteq Nat, S # {}
  PROVE  \E n \in S : \A k \in S : n <= k
<1>1. \E n \in S : \A k \in S : ~ (<<k, n>> \in OpToRel(<, Nat))
  BY NatLessThanWellFounded, WFMin, Zenon
<1>2. \A k, n \in Nat : ~ (<<k, n>> \in OpToRel(<, Nat)) => n <= k
  BY DEF OpToRel
<1> QED  BY <1>1, <1>2

LEMMA ListExists ==
  ASSUME NEW m, NEW c, NEW n \in Nat
  PROVE  \E f : Lists(f, m, c, n)
<1> DEFINE Bad == {k \in Nat : ~ \E f : Lists(f, m, c, k)}
<1>1. CASE Bad = {}
  BY <1>1
<1>2. CASE Bad # {}
  <2>1. PICK k \in Bad : \A j \in Bad : k <= j
    <3>1. Bad \subseteq Nat
      OBVIOUS
    <3> HIDE DEF Bad
    <3> QED  BY <1>2, <3>1, LeastNat
  <2>2. CASE k = 0
    <3> DEFINE f == [i \in 0 .. 0 |-> <<>>]
    <3>1. Lists(f, m, c, 0)
      BY DEF Lists
    <3> QED  BY <2>1, <2>2, <3>1
  <2>3. CASE k # 0
    <3>1. k - 1 \in Nat /\ k - 1 \notin Bad
      BY <2>1, <2>3
    <3>2. PICK f : Lists(f, m, c, k - 1)
      BY <3>1
    <3> DEFINE g == [i \in 0 .. k |->
                       IF i = k THEN IF m[k] = c THEN Append(f[k - 1], k) ELSE f[k - 1]
                       ELSE f[i]]
    <3>3. \A i \in 0 .. k - 1 :
            f[i] = IF i = 0 THEN <<>> ELSE IF m[i] = c THEN Append(f[i - 1], i) ELSE f[i - 1]
      BY <3>2 DEF Lists
    <3>4. \A i \in 0 .. k :
            g[i] = IF i = 0 THEN <<>> ELSE IF m[i] = c THEN Append(g[i - 1], i) ELSE g[i - 1]
      BY <2>1, <2>3, <3>3
    <3>5. Lists(g, m, c, k)
      BY <3>4 DEF Lists
    <3> QED  BY <2>1, <3>5
  <2> QED  BY <2>2, <2>3
<1> QED  BY <1>1, <1>2

LEMMA ToSetAppend ==
  ASSUME NEW S, NEW s \in Seq(S), NEW e \in S
  PROVE  Append(s, e) \in Seq(S) /\ ToSet(Append(s, e)) = ToSet(s) \cup {e}
<1>1. /\ Append(s, e) \in Seq(S) /\ Len(Append(s, e)) = Len(s) + 1
      /\ \A i \in 1 .. Len(s) : Append(s, e)[i] = s[i]
      /\ Append(s, e)[Len(s) + 1] = e
  BY AppendProperties
<1>2. DOMAIN s = 1 .. Len(s) /\ DOMAIN Append(s, e) = 1 .. Len(s) + 1 /\ Len(s) \in Nat
  BY <1>1, LenProperties
<1> DEFINE t == Append(s, e)
<1> HIDE DEF t
<1>3. ToSet(t) = ToSet(s) \cup {e}
  BY <1>1, <1>2 DEF ToSet, t
<1> QED  BY <1>1, <1>3 DEF t

LEMMA HeadToSet ==
  ASSUME NEW S, NEW s \in Seq(S), s # <<>>
  PROVE  ToSet(s) = {Head(s)} \cup ToSet(Tail(s))
<1>1. /\ Tail(s) \in Seq(S) /\ Len(Tail(s)) = Len(s) - 1
      /\ \A i \in 1 .. Len(Tail(s)) : Tail(s)[i] = s[i + 1]
  BY HeadTailProperties
<1>2. /\ DOMAIN s = 1 .. Len(s) /\ Len(s) \in Nat \ {0} /\ Head(s) = s[1]
      /\ DOMAIN Tail(s) = 1 .. Len(s) - 1
  BY <1>1, LenProperties, EmptySeq
<1> DEFINE t == Tail(s)
<1> HIDE DEF t
<1>3. /\ \A i \in DOMAIN t : i + 1 \in DOMAIN s /\ t[i] = s[i + 1]
      /\ \A j \in DOMAIN s : j = 1 \/ (j - 1 \in DOMAIN t /\ t[j - 1] = s[j])
  BY <1>1, <1>2 DEF t
<1>4. ToSet(s) = {Head(s)} \cup ToSet(t)
  BY <1>2, <1>3 DEF ToSet
<1> QED  BY <1>4 DEF t

LEMMA ListHolds ==
  ASSUME NEW m, NEW c, NEW n \in Nat, NEW f, Lists(f, m, c, n)
  PROVE  \A k \in 0 .. n : f[k] \in Seq(1 .. n) /\ ToSet(f[k]) = OfConv(m, c, k)
<1> DEFINE Good(k) == f[k] \in Seq(1 .. n) /\ ToSet(f[k]) = OfConv(m, c, k)
           Bad     == {k \in 0 .. n : ~ Good(k)}
<1>1. \A k \in 0 .. n :
        f[k] = IF k = 0 THEN <<>> ELSE IF m[k] = c THEN Append(f[k - 1], k) ELSE f[k - 1]
  BY DEF Lists
<1>2. CASE Bad # {}
  <2>1. PICK k \in Bad : \A j \in Bad : k <= j
    <3>1. Bad \subseteq Nat
      OBVIOUS
    <3> HIDE DEF Bad
    <3> QED  BY <1>2, <3>1, LeastNat
  <2>2. CASE k = 0
    <3>1. f[k] = <<>>
      BY <1>1, <2>1, <2>2
    <3>2. ToSet(<<>>) = {} /\ OfConv(m, c, k) = {}
      BY <2>2 DEF ToSet, OfConv
    <3>3. <<>> \in Seq(1 .. n)
      OBVIOUS
    <3> QED  BY <2>1, <3>1, <3>2, <3>3
  <2>3. CASE k # 0
    <3>1. k - 1 \in 0 .. n /\ k - 1 \notin Bad /\ k \in 0 .. n /\ k \in 1 .. n
      BY <2>1, <2>3
    <3>2. f[k - 1] \in Seq(1 .. n) /\ ToSet(f[k - 1]) = OfConv(m, c, k - 1)
      BY <3>1
    <3>3. CASE m[k] = c
      <4>1. f[k] = Append(f[k - 1], k)
        BY <1>1, <2>3, <3>1, <3>3
      <4> DEFINE s == f[k - 1]
                 S == 1 .. n
      <4>2. s \in Seq(S) /\ k \in S
        BY <3>1, <3>2
      <4> HIDE DEF s, S
      <4>3. Append(s, k) \in Seq(S) /\ ToSet(Append(s, k)) = ToSet(s) \cup {k}
        BY <4>2, ToSetAppend
      <4>4. f[k] \in Seq(1 .. n) /\ ToSet(f[k]) = ToSet(f[k - 1]) \cup {k}
        BY <4>1, <4>3 DEF s, S
      <4>5. OfConv(m, c, k) = OfConv(m, c, k - 1) \cup {k}
        BY <3>1, <3>3 DEF OfConv
      <4> QED  BY <2>1, <3>2, <4>4, <4>5
    <3>4. CASE m[k] # c
      <4>1. f[k] = f[k - 1]
        BY <1>1, <2>3, <3>1, <3>4
      <4>2. OfConv(m, c, k) = OfConv(m, c, k - 1)
        BY <3>1, <3>4 DEF OfConv
      <4> QED  BY <2>1, <3>2, <4>1, <4>2
    <3> QED  BY <3>3, <3>4
  <2> QED  BY <2>2, <2>3
<1>3. CASE Bad = {}
  BY <1>3
<1> QED  BY <1>2, <1>3

\* A list reads the first n messages only.
LEMMA ListsAgree ==
  ASSUME NEW m, NEW o, NEW c, NEW n \in Nat, \A i \in 1 .. n : m[i] = o[i],
         NEW f, NEW g, Lists(f, m, c, n), Lists(g, o, c, n)
  PROVE  \A k \in 0 .. n : f[k] = g[k]
<1> DEFINE Bad == {k \in 0 .. n : f[k] # g[k]}
<1>1. \A k \in 0 .. n :
        /\ f[k] = IF k = 0 THEN <<>> ELSE IF m[k] = c THEN Append(f[k - 1], k) ELSE f[k - 1]
        /\ g[k] = IF k = 0 THEN <<>> ELSE IF o[k] = c THEN Append(g[k - 1], k) ELSE g[k - 1]
  BY DEF Lists
<1>2. CASE Bad # {}
  <2>1. PICK k \in Bad : \A j \in Bad : k <= j
    <3>1. Bad \subseteq Nat
      OBVIOUS
    <3> HIDE DEF Bad
    <3> QED  BY <1>2, <3>1, LeastNat
  <2>2. k # 0 /\ k - 1 \in 0 .. n /\ k - 1 \notin Bad
    BY <1>1, <2>1
  <2> QED  BY <1>1, <2>1, <2>2
<1>3. CASE Bad = {}
  BY <1>3
<1> QED  BY <1>2, <1>3

LEMMA ListOfHolds ==
  ASSUME NEW m, NEW c, NEW n \in Nat
  PROVE  ListOf(m, c, n) \in Seq(1 .. n) /\ ToSet(ListOf(m, c, n)) = OfConv(m, c, n)
<1>1. PICK f : Lists(f, m, c, n) /\ ListOf(m, c, n) = f[n]
  BY ListExists DEF ListOf
<1>2. n \in 0 .. n
  OBVIOUS
<1> QED  BY <1>1, <1>2, ListHolds

LEMMA ListOfAgrees ==
  ASSUME NEW m, NEW o, NEW c, NEW n \in Nat, \A i \in 1 .. n : m[i] = o[i]
  PROVE  ListOf(m, c, n) = ListOf(o, c, n)
<1>1. PICK f : Lists(f, m, c, n) /\ ListOf(m, c, n) = f[n]
  BY ListExists DEF ListOf
<1>2. PICK g : Lists(g, o, c, n) /\ ListOf(o, c, n) = g[n]
  BY ListExists DEF ListOf
<1>3. n \in 0 .. n
  OBVIOUS
<1> QED  BY <1>1, <1>2, <1>3, ListsAgree

-----------------------------------------------------------------------------
(***************************************************************************)
(* The lists and the pages of the conversations.                           *)
(***************************************************************************)
LEMMA MessagesHold ==
  ASSUME NEW c, NEW n \in Nat
  PROVE  MessagesOf(c, n) \in Seq(1 .. n) /\ ToSet(MessagesOf(c, n)) = OfConv(msgs, c, n)
BY MessagesOfIsList, ListOfHolds

LEMMA PageHolds ==
  ASSUME NEW c, NEW n \in Nat
  PROVE  LET all  == MessagesOf(c, n)
             page == PageOf(all)
         IN  /\ page \in Seq(1 .. n) /\ ToSet(page) \subseteq OfConv(msgs, c, n)
             /\ Len(all) <= PageSize => page = all
             /\ page # <<>> => Last(page) \in ToSet(page)
<1> DEFINE all  == MessagesOf(c, n)
           page == PageOf(all)
           size == IF Len(all) < PageSize THEN Len(all) ELSE PageSize
           S    == 1 .. n
<1>1. all \in Seq(S) /\ ToSet(all) = OfConv(msgs, c, n)
  BY MessagesHold
<1>2. page = SubSeq(all, 1, size)
  BY DEF PageOf
<1> HIDE DEF all, page, S
<1>3. PageSize \in Nat /\ size \in 0 .. Len(all) /\ Len(all) \in Nat
  BY <1>1, LenProperties, ChatConstants
<1>4. DOMAIN all = 1 .. Len(all) /\ \A i \in 1 .. Len(all) : all[i] \in S
  BY <1>1, LenProperties, ElementOfSeq
<1>5. /\ page \in Seq(S) /\ Len(page) = size
      /\ \A i \in 1 .. size : page[i] = all[i]
  <2> HIDE DEF size
  <2> QED  BY <1>2, <1>3, <1>4, SubSeqProperties
<1>6. DOMAIN page = 1 .. size
  BY <1>5, LenProperties
<1>7. ToSet(page) \subseteq ToSet(all)
  BY <1>3, <1>4, <1>5, <1>6 DEF ToSet
<1>8. Len(all) <= PageSize => page = all
  <2> SUFFICES ASSUME Len(all) <= PageSize  PROVE page = all
    OBVIOUS
  <2>1. size = Len(all)
    BY <1>3
  <2> QED  BY <1>1, <1>2, <2>1, SubSeqFull
<1>9. page # <<>> => Last(page) \in ToSet(page)
  <2> SUFFICES ASSUME page # <<>>  PROVE Last(page) \in ToSet(page)
    OBVIOUS
  <2>1. Len(page) \in DOMAIN page
    BY <1>5, LenProperties, EmptySeq
  <2> QED  BY <2>1 DEF Last, ToSet
<1> QED  BY <1>1, <1>5, <1>7, <1>8, <1>9 DEF all, page, S

\* What has been read of a list does not change when messages are added.
LEMMA PagesStay ==
  ASSUME NEW c, NEW n \in Nat, \A i \in 1 .. n : msgs'[i] = msgs[i]
  PROVE  PageOf(MessagesOf(c, n))' = PageOf(MessagesOf(c, n))
<1>1. MessagesOf(c, n)' = ListOf(msgs', c, n)
  BY DEF MessagesOf, ListOf, Lists
<1>2. ListOf(msgs', c, n) = ListOf(msgs, c, n)
  BY ListOfAgrees
<1>3. MessagesOf(c, n)' = MessagesOf(c, n)
  BY <1>1, <1>2, MessagesOfIsList
<1> QED  BY <1>3 DEF PageOf

-----------------------------------------------------------------------------
(***************************************************************************)
(* Types.                                                                  *)
(***************************************************************************)
LEMMA SendGrows ==
  ASSUME TypeOK, NEW c \in Convs, SendMessage(c)
  PROVE  /\ msgs' \in Seq(Convs) /\ Len(msgs') = Len(msgs) + 1 /\ Len(msgs) \in Nat
         /\ \A i \in Ids : msgs'[i] = msgs[i]
         /\ Ids' = Ids \cup {Len(msgs) + 1}
<1>1. Len(msgs) \in Nat /\ msgs' = Append(msgs, c) /\ msgs \in Seq(Convs)
  BY LenProperties DEF TypeOK, SendMessage
<1>2. /\ msgs' \in Seq(Convs) /\ Len(msgs') = Len(msgs) + 1
      /\ \A i \in 1 .. Len(msgs) : msgs'[i] = msgs[i]
  BY <1>1, AppendProperties
<1> QED  BY <1>1, <1>2 DEF Ids

LEMMA IdsAre ==
  ASSUME TypeOK
  PROVE  /\ Len(msgs) \in Nat /\ Ids = 1 .. Len(msgs) /\ \A i \in Ids : msgs[i] \in Convs
         /\ UnderWay \subseteq Ids /\ DOMAIN events = 1 .. Len(events) /\ Len(events) \in Nat
         /\ \A p \in DOMAIN events : events[p] \in Ids /\ events[p] \in UnderWay
         /\ \A i \in UnderWay : i \in posted \/ \E p \in DOMAIN events : events[p] = i
<1>1. Len(msgs) \in Nat /\ Ids = 1 .. Len(msgs) /\ \A i \in Ids : msgs[i] \in Convs
  BY LenProperties, ElementOfSeq DEF TypeOK, Ids
<1>2. /\ DOMAIN events = 1 .. Len(events) /\ Len(events) \in Nat
      /\ \A p \in DOMAIN events : events[p] \in Ids
  BY LenProperties, ElementOfSeq DEF TypeOK
<1> QED  BY <1>1, <1>2 DEF UnderWay, ToSet, TypeOK

\* What a mark-read handler that is started is for.
LEMMA NewMarkType ==
  ASSUME TypeOK, NEW id \in Ids, NEW why \in {"event", "late", "page", "overtaken"}
  PROVE  NewMark(id, why) \subseteq Mark
BY DEF TypeOK, NewMark, Mark

LEMMA SendType ==
  ASSUME TypeOK, NEW c \in Convs, SendMessage(c)
  PROVE  TypeOK'
<1>1. /\ msgs' \in Seq(Convs) /\ Len(msgs') = Len(msgs) + 1 /\ Len(msgs) \in Nat
      /\ Ids \subseteq Ids' /\ Len(msgs) + 1 \in Ids'
  BY SendGrows
<1>2. /\ UNCHANGED <<marker, rooms, joins, marks, connected, events, active, thread, gets,
                     whole, behind>>
      /\ posted' = posted \cup {Len(msgs) + 1}
  BY DEF SendMessage, wireVars, pageVars
<1>3. events' \in Seq(Ids') /\ thread' \in Seq(Ids')
  BY <1>1, <1>2, SeqMonotonic DEF TypeOK
<1>4. marks' \subseteq Mark'
  BY <1>1, <1>2 DEF TypeOK, Mark
<1>5. gets' \subseteq [conv: Convs, upto: {None} \cup 0 .. Len(msgs')]
  BY <1>1, <1>2 DEF TypeOK
<1>6. marker' \in [Convs -> 0 .. Len(msgs')]
  BY <1>1, <1>2 DEF TypeOK
<1> QED  BY <1>1, <1>2, <1>3, <1>4, <1>5, <1>6 DEF TypeOK

\* The steps of the server that leave msgs alone.
LEMMA ServerType ==
  ASSUME TypeOK, ServerStep
  PROVE  TypeOK' /\ msgs' = msgs
<1>1. /\ Len(msgs) \in Nat /\ \A i \in Ids : msgs[i] \in Convs
      /\ UnderWay \subseteq Ids
  BY IdsAre
<1>2. msgs' = msgs /\ Ids' = Ids /\ Mark' = Mark
  BY DEF ServerStep, EmitMessage, MarkRead, JoinDone, ReadPage, serverVars, Ids, Mark
<1>3. ASSUME NEW id \in Ids, EmitMessage(id)  PROVE TypeOK'
  <2>1. events' \in Seq(Ids)
    BY <1>3, AppendProperties DEF TypeOK, EmitMessage, EmitTo
  <2>2. whole' \in BOOLEAN
    BY <1>3 DEF EmitMessage
  <2>3. behind' \subseteq Ids /\ posted' \subseteq Ids
    BY <1>3 DEF TypeOK, EmitMessage, OvertakenBy
  <2> QED  BY <1>2, <1>3, <2>1, <2>2, <2>3 DEF TypeOK, EmitMessage
<1>4. ASSUME NEW m \in marks, MarkRead(m)  PROVE TypeOK'
  <2>1. m \in Mark /\ m.id \in Ids /\ m.id \in 0 .. Len(msgs) /\ msgs[m.id] \in Convs
    BY <1>1, IdsAre DEF TypeOK, Mark
  <2>2. marker' \in [Convs -> 0 .. Len(msgs)]
    BY <1>4, <2>1 DEF TypeOK, MarkRead
  <2>3. marks' \subseteq Mark
    <3> SUFFICES ASSUME NEW n \in marks'  PROVE n \in Mark
      OBVIOUS
    <3>1. PICK k \in marks \ {m} :
            n = [id  |-> k.id,
                 why |-> IF msgs[k.id] = msgs[m.id] THEN "overtaken" ELSE k.why]
      BY <1>4 DEF MarkRead
    <3>2. "overtaken" \in {"event", "late", "page", "overtaken"}
      OBVIOUS
    <3>3. k.id \in Ids /\ k.why \in {"event", "late", "page", "overtaken"}
      BY DEF TypeOK, Mark
    <3> QED  BY <3>1, <3>2, <3>3 DEF Mark
  <2> QED  BY <1>2, <1>4, <2>2, <2>3 DEF TypeOK, MarkRead, wireVars, pageVars
<1>5. ASSUME NEW c \in Convs, JoinDone(c)  PROVE TypeOK'
  BY <1>2, <1>5 DEF TypeOK, JoinDone, wireVars, pageVars
<1>6. ASSUME NEW g \in gets, ReadPage(g)  PROVE TypeOK'
  <2>1. gets' \subseteq [conv: Convs, upto: {None} \cup 0 .. Len(msgs)]
    BY <1>1, <1>6 DEF TypeOK, ReadPage
  <2>2. behind' \subseteq Ids
    BY <1>1, <1>6 DEF TypeOK, ReadPage, OvertakenBy
  <2> QED  BY <1>2, <1>6, <2>1, <2>2 DEF TypeOK, ReadPage, serverVars, wireVars
<1> QED  BY <1>2, <1>3, <1>4, <1>5, <1>6 DEF ServerStep

LEMMA PageType ==
  ASSUME TypeOK, PageStep
  PROVE  TypeOK' /\ msgs' = msgs
<1>1. msgs' = msgs /\ Ids' = Ids /\ Mark' = Mark
  BY DEF PageStep, AnswerArrives, AnswerFails, ReceiveMessage, serverVars, Ids, Mark
<1>2. ASSUME NEW g \in gets, AnswerArrives(g)  PROVE TypeOK'
  <2> DEFINE page == PageOf(MessagesOf(g.conv, g.upto))
  <2>1. g.upto \in 0 .. Len(msgs) /\ Len(msgs) \in Nat
    BY <1>2, IdsAre DEF TypeOK, AnswerArrives
  <2>2. page \in Seq(1 .. g.upto) /\ (page # <<>> => Last(page) \in ToSet(page))
        /\ ToSet(page) \subseteq OfConv(msgs, g.conv, g.upto)
    BY <2>1, PageHolds
  <2>3. 1 .. g.upto \subseteq Ids /\ OfConv(msgs, g.conv, g.upto) \subseteq Ids
    BY <2>1 DEF Ids, OfConv
  <2> HIDE DEF page
  <2>4. page \in Seq(Ids)
    BY <2>2, <2>3, SeqMonotonic
  <2>5. thread' = page /\ marks' = IF page = <<>> THEN marks ELSE NewMark(Last(page), "page")
    BY <1>2 DEF AnswerArrives, page
  <2>6. marks' \subseteq Mark
    <3>1. "page" \in {"event", "late", "page", "overtaken"}
      OBVIOUS
    <3> QED  BY <2>2, <2>3, <2>5, <3>1, NewMarkType DEF TypeOK
  <2>7. whole' \in BOOLEAN
    BY <1>2, Zenon DEF AnswerArrives
  <2>8. gets' \subseteq gets /\ UNCHANGED <<marker, rooms, joins, posted, connected, events,
                                            active, behind>>
    BY <1>2 DEF AnswerArrives, wireVars
  <2> QED  BY <1>1, <2>4, <2>5, <2>6, <2>7, <2>8 DEF TypeOK
<1>3. ASSUME NEW g \in gets, AnswerFails(g)  PROVE TypeOK'
  BY <1>1, <1>3 DEF TypeOK, AnswerFails, serverVars, wireVars
<1>4. ASSUME ReceiveMessage  PROVE TypeOK'
  <2>1. Head(events) \in Ids /\ Tail(events) \in Seq(Ids)
    BY <1>4, HeadTailProperties DEF TypeOK, ReceiveMessage
  <2>2. thread' \in Seq(Ids)
    <3>1. Append(thread, Head(events)) \in Seq(Ids) /\ thread \in Seq(Ids)
      BY <2>1, AppendProperties DEF TypeOK
    <3>2. thread' = Append(thread, Head(events)) \/ thread' = thread
      BY <1>4 DEF ReceiveMessage
    <3> QED  BY <3>1, <3>2
  <2>3. marks' \subseteq Mark
    <3>1. {"late", "event"} \subseteq {"event", "late", "page", "overtaken"}
      OBVIOUS
    <3>2. MarkReceived(Head(events)) \subseteq Mark
      BY <2>1, <3>1, NewMarkType DEF MarkReceived
    <3> QED  BY <1>4, <3>2 DEF TypeOK, ReceiveMessage
  <2> QED  BY <1>1, <1>4, <2>1, <2>2, <2>3 DEF TypeOK, ReceiveMessage
<1> QED  BY <1>1, <1>2, <1>3, <1>4 DEF PageStep

LEMMA InputType ==
  ASSUME TypeOK, Input, msgs' = msgs
  PROVE  TypeOK'
<1>1. Ids' = Ids /\ Mark' = Mark /\ <<>> \in Seq(Ids) /\ Len(msgs) \in Nat
  BY IdsAre DEF Ids, Mark
<1>2. ASSUME NEW c \in Convs, SelectConversation(c)  PROVE TypeOK'
  <2>1. Get(c) \in [conv: Convs, upto: {None} \cup 0 .. Len(msgs)]
    BY DEF Get
  <2> QED  BY <1>1, <1>2, <2>1 DEF TypeOK, SelectConversation, LeaveAndJoin, wireVars
<1>3. ASSUME ClearConversation  PROVE TypeOK'
  BY <1>1, <1>3, ChatConstants DEF TypeOK, ClearConversation, LeaveAndJoin, wireVars
<1>4. ASSUME Disconnected  PROVE TypeOK'
  BY <1>1, <1>4 DEF TypeOK, Disconnected
<1>5. ASSUME Connected  PROVE TypeOK'
  BY <1>1, <1>5 DEF TypeOK, Connected, serverVars, pageVars
<1>6. ASSUME NEW c \in Convs, SendMessage(c)  PROVE TypeOK'
  BY <1>6, SendType
<1> QED  BY <1>2, <1>3, <1>4, <1>5, <1>6 DEF Input

-----------------------------------------------------------------------------
(***************************************************************************)
(* Nothing is missed.  What the page has received of a conversation stays  *)
(* in its thread until the thread is replaced.                             *)
(***************************************************************************)
Listed(i) == \E g \in gets : g.conv = active /\ (g.upto = None \/ i <= g.upto)

LEMMA MissedSend ==
  ASSUME TypeOK, NothingMissed, NEW c \in Convs, SendMessage(c)
  PROVE  NothingMissed'
<1>1. /\ \A i \in Ids : msgs'[i] = msgs[i]
      /\ Ids' = Ids \cup {Len(msgs) + 1}
  BY SendGrows
<1>2. posted' = posted \cup {Len(msgs) + 1} /\ UNCHANGED <<events, thread, whole, active, gets>>
  BY DEF SendMessage, wireVars, pageVars
<1> QED  BY <1>1, <1>2 DEF NothingMissed, UnderWay, ToSet

LEMMA MissedServer ==
  ASSUME TypeOK, NothingMissed, ServerStep
  PROVE  NothingMissed'
<1>1. msgs' = msgs /\ Ids' = Ids
  BY ServerType DEF Ids
<1>2. ASSUME NEW id \in Ids, EmitMessage(id)  PROVE NothingMissed'
  <2>1. UNCHANGED <<active, thread, gets>> /\ posted' = posted \ {id}
        /\ whole' = (whole /\ ~Unheard(msgs[id]))
    BY <1>2 DEF EmitMessage
  <2>2. ToSet(events') = ToSet(events) \cup IF msgs[id] \in rooms THEN {id} ELSE {}
    <3>1. CASE msgs[id] \in rooms
      BY <1>2, <3>1, ToSetAppend DEF TypeOK, EmitMessage, EmitTo
    <3>2. CASE msgs[id] \notin rooms
      BY <1>2, <3>2 DEF EmitMessage, EmitTo
    <3> QED  BY <3>1, <3>2
  <2>3. SUFFICES ASSUME whole', active # None, NEW i \in Ids, msgs[i] = active
                 PROVE  i \in ToSet(thread) \cup posted' \cup ToSet(events') \/ Listed(i)
    BY <1>1, <2>1 DEF NothingMissed, UnderWay, Listed
  <2>4. i \in ToSet(thread) \cup posted \cup ToSet(events) \/ Listed(i)
    BY <2>1, <2>3 DEF NothingMissed, UnderWay, Listed
  <2>5. CASE i = id /\ msgs[id] \notin rooms
    <3>1. Get(active) \in gets
      BY <2>1, <2>3, <2>5 DEF Unheard
    <3> QED  BY <3>1 DEF Listed, Get
  <2> QED  BY <2>1, <2>2, <2>4, <2>5
<1>3. ASSUME NEW m \in marks, MarkRead(m)  PROVE NothingMissed'
  BY <1>1, <1>3 DEF MarkRead, wireVars, pageVars, NothingMissed, UnderWay, ToSet
<1>4. ASSUME NEW c \in Convs, JoinDone(c)  PROVE NothingMissed'
  BY <1>1, <1>4 DEF JoinDone, wireVars, pageVars, NothingMissed, UnderWay, ToSet
<1>5. ASSUME NEW g \in gets, ReadPage(g)  PROVE NothingMissed'
  <2> DEFINE h == [conv |-> g.conv, upto |-> Len(msgs)]
  <2>1. h.conv = g.conv /\ h.upto = Len(msgs)
    BY DEF TypeOK
  <2>2. gets' = (gets \ {g}) \cup {h}
    BY <1>5 DEF ReadPage
  <2>3. UNCHANGED <<posted, events, active, thread, whole>>
    BY <1>5 DEF ReadPage, serverVars, wireVars
  <2> HIDE DEF h
  <2>4. \A i \in Ids : i <= Len(msgs)
    BY IdsAre
  <2>5. \A i \in Ids : Listed(i) => Listed(i)'
    BY <2>1, <2>2, <2>3, <2>4 DEF Listed
  <2> QED  BY <1>1, <2>3, <2>5 DEF NothingMissed, Listed, UnderWay, ToSet
<1> QED  BY <1>2, <1>3, <1>4, <1>5 DEF ServerStep

LEMMA MissedPage ==
  ASSUME TypeOK, NothingMissed, PageStep
  PROVE  NothingMissed'
<1>1. msgs' = msgs /\ Ids' = Ids
  BY PageType DEF Ids
<1>2. ASSUME NEW g \in gets, AnswerArrives(g)  PROVE NothingMissed'
  <2> DEFINE all  == MessagesOf(g.conv, g.upto)
             page == PageOf(all)
  <2>1. g.upto \in 0 .. Len(msgs) /\ g.upto # None
    BY <1>2 DEF TypeOK, AnswerArrives
  <2>2. g.upto \in Nat /\ Len(msgs) \in Nat
    BY <2>1, IdsAre
  <2>3. ToSet(all) = OfConv(msgs, g.conv, g.upto) /\ (Len(all) <= PageSize => page = all)
    BY <2>2, MessagesHold, PageHolds
  <2>4. /\ thread' = page /\ gets' = gets \ {g}
        /\ whole' = (whole /\ active = g.conv /\ Len(all) <= PageSize
                           /\ ToSet(thread) \subseteq ToSet(page))
        /\ UNCHANGED <<posted, events, active>>
    BY <1>2 DEF AnswerArrives, wireVars
  <2> HIDE DEF all, page
  <2>5. SUFFICES ASSUME whole', active # None, NEW i \in Ids, msgs[i] = active
                 PROVE  i \in ToSet(page) \cup posted \cup ToSet(events) \/ Listed(i)'
    BY <1>1, <2>4 DEF NothingMissed, UnderWay, Listed, ToSet
  <2>6. i \in ToSet(thread) \cup posted \cup ToSet(events) \/ Listed(i)
    BY <2>4, <2>5 DEF NothingMissed, UnderWay, Listed
  <2>7. whole /\ active = g.conv /\ page = all /\ ToSet(thread) \subseteq ToSet(page)
    BY <2>3, <2>4, <2>5
  <2>8. CASE i <= g.upto
    <3>1. i \in OfConv(msgs, g.conv, g.upto)
      BY <2>2, <2>5, <2>7, <2>8, IdsAre DEF OfConv
    <3> QED  BY <2>3, <2>7, <3>1
  <2>9. CASE ~ (i <= g.upto)
    <3>1. Listed(i) => Listed(i)'
      BY <2>1, <2>4, <2>9 DEF Listed
    <3> QED  BY <2>6, <2>7, <3>1
  <2> QED  BY <2>8, <2>9
<1>3. ASSUME NEW g \in gets, AnswerFails(g)  PROVE NothingMissed'
  BY <1>3 DEF AnswerFails, NothingMissed
<1>4. ASSUME ReceiveMessage  PROVE NothingMissed'
  <2> DEFINE id == Head(events)
  <2>1. events \in Seq(Ids) /\ events # <<>> /\ thread \in Seq(Ids) /\ id \in Ids
    BY <1>4, HeadTailProperties DEF TypeOK, ReceiveMessage
  <2>2. ToSet(events) = {id} \cup ToSet(Tail(events))
    BY <2>1, HeadToSet
  <2>3. ToSet(Append(thread, id)) = ToSet(thread) \cup {id}
    BY <2>1, ToSetAppend
  <2>4. /\ thread' = IF msgs[id] = active THEN Append(thread, id) ELSE thread
        /\ events' = Tail(events) /\ UNCHANGED <<posted, active, gets, whole>>
    BY <1>4 DEF ReceiveMessage, InThread
  <2> HIDE DEF id
  <2>5. SUFFICES ASSUME whole, active # None, NEW i \in Ids, msgs[i] = active
                 PROVE  i \in ToSet(thread') \cup posted \cup ToSet(events') \/ Listed(i)
    BY <1>1, <2>4 DEF NothingMissed, UnderWay, Listed, ToSet
  <2>6. i \in ToSet(thread) \cup posted \cup ToSet(events) \/ Listed(i)
    BY <2>5 DEF NothingMissed, UnderWay, Listed
  <2>7. CASE msgs[id] = active
    BY <2>2, <2>3, <2>4, <2>6, <2>7
  <2>8. CASE msgs[id] # active
    BY <2>2, <2>4, <2>5, <2>6, <2>8
  <2> QED  BY <2>7, <2>8
<1> QED  BY <1>2, <1>3, <1>4 DEF PageStep

LEMMA MissedInput ==
  ASSUME TypeOK, NothingMissed, Input
  PROVE  NothingMissed'
<1>1. ASSUME NEW c \in Convs, SelectConversation(c)  PROVE NothingMissed'
  <2>1. Get(c) \in gets' /\ active' = c /\ Get(c).conv = c /\ Get(c).upto = None
    BY <1>1 DEF SelectConversation, Get
  <2> QED  BY <2>1 DEF NothingMissed
<1>2. ASSUME ClearConversation  PROVE NothingMissed'
  BY <1>2 DEF NothingMissed, ClearConversation
<1>3. ASSUME Disconnected  PROVE NothingMissed'
  BY <1>3 DEF NothingMissed, Disconnected
<1>4. ASSUME Connected  PROVE NothingMissed'
  BY <1>4 DEF NothingMissed, Connected, serverVars, pageVars, Ids, UnderWay, ToSet
<1>5. ASSUME NEW c \in Convs, SendMessage(c)  PROVE NothingMissed'
  BY <1>5, MissedSend
<1> QED  BY <1>1, <1>2, <1>3, <1>4, <1>5 DEF Input

-----------------------------------------------------------------------------
(***************************************************************************)
(* What reaches the page before a message that nothing has overtaken.      *)
(***************************************************************************)
LEMMA OrderSend ==
  ASSUME TypeOK, EventsInOrder, NEW c \in Convs, SendMessage(c)
  PROVE  EventsInOrder'
<1>1. /\ \A i \in Ids : msgs'[i] = msgs[i]
      /\ Len(msgs) \in Nat
  BY SendGrows
<1>2. posted' = posted \cup {Len(msgs) + 1} /\ UNCHANGED <<events, behind>>
  BY DEF SendMessage, wireVars
<1>3. /\ \A p \in DOMAIN events : events[p] \in Ids
      /\ \A i \in Ids : i <= Len(msgs) + 1 /\ i \in Nat
      /\ posted \subseteq Ids
  BY IdsAre DEF TypeOK
<1> QED  BY <1>1, <1>2, <1>3 DEF EventsInOrder

\* The events once a message has been emitted.
LEMMA OrderEmit ==
  ASSUME TypeOK, EventsInOrder, NEW id \in Ids, EmitMessage(id)
  PROVE  EventsInOrder'
<1>1. msgs' = msgs /\ posted' = posted \ {id} /\ id \in posted /\ behind \subseteq behind'
  BY DEF EmitMessage
<1>2. CASE msgs[id] \notin rooms
  <2>1. events' = events
    BY <1>2 DEF EmitMessage, EmitTo
  <2> QED  BY <1>1, <2>1 DEF EventsInOrder
<1>3. CASE msgs[id] \in rooms
  <2>1. events' = Append(events, id) /\ events \in Seq(Ids)
    BY <1>3 DEF TypeOK, EmitMessage, EmitTo
  <2> DEFINE n == Len(events)
             e == Append(events, id)
  <2>2. /\ e \in Seq(Ids) /\ Len(e) = n + 1 /\ e[n + 1] = id
        /\ \A p \in 1 .. n : e[p] = events[p]
    BY <2>1, AppendProperties
  <2>3. n \in Nat /\ DOMAIN events = 1 .. n /\ DOMAIN e = 1 .. n + 1
    BY <2>1, <2>2, LenProperties
  <2>4. \A i \in posted \ behind' : msgs[i] = msgs[id] => id <= i
    <3> SUFFICES ASSUME NEW i \in posted \ behind', msgs[i] = msgs[id]  PROVE id <= i
      OBVIOUS
    <3>1. i \notin OvertakenBy({id}, msgs[id])
      BY <1>3 DEF EmitMessage
    <3>2. i \in UnderWay /\ ~ (id > i)
      BY <3>1 DEF OvertakenBy, UnderWay
    <3> QED  BY <3>2, IdsAre
  <2> HIDE DEF n, e
  <2>5. \A p \in 1 .. n : id \notin behind /\ msgs[events[p]] = msgs[id] => events[p] <= id
    BY <1>1, <2>3 DEF EventsInOrder
  <2>6. /\ \A p, q \in 1 .. n : 
             p < q /\ events[q] \notin behind' /\ msgs[events[p]] = msgs[events[q]]
               => events[p] <= events[q]
        /\ \A p \in 1 .. n, i \in posted' \ behind' :
             msgs[events[p]] = msgs[i] => events[p] <= i
    BY <1>1, <2>3 DEF EventsInOrder
  <2>7. ASSUME NEW p \in 1 .. n + 1, NEW q \in 1 .. n + 1, p < q, e[q] \notin behind',
               msgs[e[p]] = msgs[e[q]]
        PROVE  e[p] <= e[q]
    <3>1. p \in 1 .. n /\ e[p] = events[p]
      BY <2>2, <2>3, <2>7
    <3>2. CASE q = n + 1
      BY <1>1, <2>2, <2>5, <2>7, <3>1, <3>2
    <3>3. CASE q # n + 1
      <4>1. q \in 1 .. n /\ e[q] = events[q]
        BY <2>2, <2>3, <3>3
      <4> QED  BY <2>6, <2>7, <3>1, <4>1
    <3> QED  BY <3>2, <3>3
  <2>8. ASSUME NEW p \in 1 .. n + 1, NEW i \in posted' \ behind', msgs[e[p]] = msgs[i]
        PROVE  e[p] <= i
    <3>1. CASE p = n + 1
      BY <1>1, <2>2, <2>4, <2>8, <3>1
    <3>2. CASE p # n + 1
      <4>1. p \in 1 .. n /\ e[p] = events[p]
        BY <2>2, <2>3, <3>2
      <4> QED  BY <2>6, <2>8, <4>1
    <3> QED  BY <3>1, <3>2
  <2>9. events' = e
    BY <2>1 DEF e
  <2> QED  BY <1>1, <2>3, <2>7, <2>8, <2>9 DEF EventsInOrder
<1> QED  BY <1>2, <1>3

LEMMA OrderReceive ==
  ASSUME TypeOK, EventsInOrder, ReceiveMessage
  PROVE  /\ EventsInOrder'
         /\ \A i \in UnderWay' \ behind : msgs[Head(events)] = msgs[i] => Head(events) <= i
<1> DEFINE n == Len(events)
           t == Tail(events)
<1>1. events \in Seq(Ids) /\ events # <<>> /\ UNCHANGED <<msgs, posted, behind>> /\ events' = t
  BY DEF TypeOK, ReceiveMessage
<1>2. t \in Seq(Ids) /\ Len(t) = n - 1 /\ \A p \in 1 .. Len(t) : t[p] = events[p + 1]
  BY <1>1, HeadTailProperties
<1>3. n \in Nat \ {0} /\ DOMAIN events = 1 .. n /\ DOMAIN t = 1 .. n - 1 /\ Head(events) = events[1]
  BY <1>1, <1>2, LenProperties, EmptySeq
<1> HIDE DEF n, t
<1>4. \A p \in 1 .. n - 1 : p + 1 \in DOMAIN events /\ t[p] = events[p + 1] /\ 1 < p + 1
  BY <1>2, <1>3
<1>5. ASSUME NEW p \in DOMAIN t, NEW q \in DOMAIN t, p < q, t[q] \notin behind,
             msgs[t[p]] = msgs[t[q]]
      PROVE  t[p] <= t[q]
  <2>1. p + 1 < q + 1
    BY <1>3, <1>5
  <2>2. /\ p + 1 \in DOMAIN events /\ t[p] = events[p + 1]
        /\ q + 1 \in DOMAIN events /\ t[q] = events[q + 1]
    BY <1>3, <1>4
  <2> DEFINE a == p + 1
             b == q + 1
  <2> HIDE DEF a, b
  <2>3. a < b /\ a \in DOMAIN events /\ b \in DOMAIN events /\ t[p] = events[a] /\ t[q] = events[b]
    BY <2>1, <2>2 DEF a, b
  <2> QED  BY <1>5, <2>3 DEF EventsInOrder
<1>6. EventsInOrder'
  <2>1. \A p \in DOMAIN t, i \in posted \ behind : msgs[t[p]] = msgs[i] => t[p] <= i
    BY <1>3, <1>4 DEF EventsInOrder
  <2> QED  BY <1>1, <1>5, <2>1 DEF EventsInOrder
<1>7. ASSUME NEW i \in UnderWay' \ behind, msgs[Head(events)] = msgs[i]
      PROVE  Head(events) <= i
  <2>1. i \in posted \/ \E p \in DOMAIN t : t[p] = i
    BY <1>1 DEF UnderWay, ToSet
  <2>2. 1 \in DOMAIN events
    BY <1>3
  <2> QED  BY <1>3, <1>4, <1>7, <2>1, <2>2 DEF EventsInOrder
<1> QED  BY <1>6, <1>7

LEMMA OrderStep ==
  ASSUME TypeOK, EventsInOrder, Next
  PROVE  EventsInOrder'
<1>1. ASSUME UNCHANGED <<msgs, posted, events>>, behind \subseteq behind'
      PROVE  EventsInOrder'
  BY <1>1 DEF EventsInOrder
<1>2. ASSUME NEW id \in Ids, EmitMessage(id)  PROVE EventsInOrder'
  BY <1>2, OrderEmit
<1>3. ASSUME NEW m \in marks, MarkRead(m)  PROVE EventsInOrder'
  BY <1>1, <1>3 DEF MarkRead, wireVars
<1>4. ASSUME NEW c \in Convs, JoinDone(c)  PROVE EventsInOrder'
  BY <1>1, <1>4 DEF JoinDone, wireVars
<1>5. ASSUME NEW g \in gets, ReadPage(g)  PROVE EventsInOrder'
  BY <1>1, <1>5 DEF ReadPage, serverVars, wireVars
<1>6. ASSUME NEW g \in gets, AnswerArrives(g) \/ AnswerFails(g)  PROVE EventsInOrder'
  BY <1>1, <1>6 DEF AnswerArrives, AnswerFails, serverVars, wireVars
<1>7. ASSUME ReceiveMessage  PROVE EventsInOrder'
  BY <1>7, OrderReceive
<1>8. ASSUME NEW c \in Convs, SendMessage(c) \/ SelectConversation(c)  PROVE EventsInOrder'
  BY <1>1, <1>8, OrderSend DEF SelectConversation, wireVars
<1>9. ASSUME ClearConversation \/ Connected  PROVE EventsInOrder'
  BY <1>1, <1>9 DEF ClearConversation, Connected, serverVars, wireVars
<1>10. ASSUME Disconnected  PROVE EventsInOrder'
  <2>1. DOMAIN events' = {} /\ UNCHANGED <<msgs, posted, behind>>
    BY <1>10 DEF Disconnected
  <2> QED  BY <2>1 DEF EventsInOrder
<1> QED  BY <1>2, <1>3, <1>4, <1>5, <1>6, <1>7, <1>8, <1>9, <1>10
         DEF Next, ServerStep, PageStep, Input

-----------------------------------------------------------------------------
(***************************************************************************)
(* The marker and what is about to write it.                               *)
(***************************************************************************)
\* What a request has read is no longer than the messages there are.
LEMMA AnswerIs ==
  ASSUME TypeOK, NEW g \in gets, g.upto # None
  PROVE  /\ g.upto \in 0 .. Len(msgs) /\ g.upto \in Nat
         /\ \A j \in ToSet(PageOf(MessagesOf(g.conv, g.upto))) :
              j \in Ids /\ j <= g.upto /\ msgs[j] = g.conv
<1>1. g.upto \in 0 .. Len(msgs) /\ Len(msgs) \in Nat /\ Ids = 1 .. Len(msgs)
  BY IdsAre DEF TypeOK
<1>2. ToSet(PageOf(MessagesOf(g.conv, g.upto))) \subseteq OfConv(msgs, g.conv, g.upto)
  BY <1>1, PageHolds
<1> QED  BY <1>1, <1>2 DEF OfConv

\* The three bounds on a message i that nothing has overtaken.
MarkerBelow(i) == marker[msgs[i]] <= i
MarksBelow(i)  == \A m \in marks : msgs[m.id] = msgs[i] => m.id <= i
PagesBelow(i)  ==
  \A g \in gets : g.conv = msgs[i] /\ g.upto # None =>
    \A j \in ToSet(PageOf(MessagesOf(g.conv, g.upto))) : j <= i

Below(i)   == MarkerBelow(i) /\ MarksBelow(i) /\ PagesBelow(i)
EventMarks == \A m \in marks : m.why = "event" => marker[msgs[m.id]] <= m.id

LEMMA MarksParts ==
  /\ MarksInOrder <=> (\A i \in UnderWay \ behind : Below(i)) /\ EventMarks
  /\ MarksInOrder' <=> (\A i \in UnderWay' \ behind' : Below(i)') /\ EventMarks'
BY DEF MarksInOrder, Below, MarkerBelow, MarksBelow, PagesBelow, EventMarks

\* Messages that are there already keep the pages below them.
LEMMA PagesStayBelow ==
  ASSUME TypeOK, \A k \in Ids : msgs'[k] = msgs[k], gets' \subseteq gets,
         NEW i \in Ids, PagesBelow(i)
  PROVE  PagesBelow(i)'
<1> SUFFICES ASSUME NEW g \in gets, g.conv = msgs[i], g.upto # None,
                    NEW j \in ToSet(PageOf(MessagesOf(g.conv, g.upto))')
             PROVE  j <= i
  BY DEF PagesBelow
<1>1. g.upto \in Nat /\ \A k \in 1 .. g.upto : msgs'[k] = msgs[k]
  BY AnswerIs, IdsAre
<1>2. PageOf(MessagesOf(g.conv, g.upto))' = PageOf(MessagesOf(g.conv, g.upto))
  BY <1>1, PagesStay
<1> QED  BY <1>2 DEF PagesBelow

LEMMA MarksSend ==
  ASSUME TypeOK, MarksInOrder, NEW c \in Convs, SendMessage(c)
  PROVE  MarksInOrder'
<1>1. /\ \A k \in Ids : msgs'[k] = msgs[k]
      /\ Len(msgs) \in Nat
      /\ UNCHANGED <<marker, marks, gets, behind>>
      /\ UnderWay' = UnderWay \cup {Len(msgs) + 1}
  BY SendGrows DEF SendMessage, pageVars, wireVars, UnderWay
<1>2. /\ \A m \in marks : m.id \in Ids
      /\ \A i \in Ids : i <= Len(msgs) + 1
      /\ UnderWay \subseteq Ids
  BY IdsAre DEF TypeOK, Mark
<1>3. ASSUME NEW i \in UnderWay \ behind  PROVE Below(i)'
  <2>1. i \in Ids /\ Below(i)
    BY <1>2, <1>3, MarksParts
  <2>2. PagesBelow(i)'
    BY <1>1, <2>1, PagesStayBelow DEF Below
  <2>3. MarkerBelow(i)' /\ MarksBelow(i)'
    BY <1>1, <1>2, <2>1 DEF Below, MarkerBelow, MarksBelow
  <2> QED  BY <2>2, <2>3 DEF Below
<1>4. PICK i : i = Len(msgs) + 1
  OBVIOUS
<1>5. Below(i)'
  <2>1. MarkerBelow(i)'
    <3>1. msgs'[i] \in Convs
      <4>1. TypeOK' /\ i \in Ids'
        BY <1>4, SendType, SendGrows
      <4> QED  BY <4>1, ElementOfSeq DEF TypeOK, Ids
    <3>2. marker[msgs'[i]] \in 0 .. Len(msgs)
      BY <3>1 DEF TypeOK
    <3> QED  BY <1>1, <1>4, <3>2 DEF MarkerBelow
  <2>2. MarksBelow(i)'
    BY <1>1, <1>2, <1>4 DEF MarksBelow
  <2>3. PagesBelow(i)'
    <3> SUFFICES ASSUME NEW g \in gets, g.upto # None,
                        NEW j \in ToSet(PageOf(MessagesOf(g.conv, g.upto))')
                 PROVE  j <= i
      BY <1>1 DEF PagesBelow
    <3>1. g.upto \in Nat /\ \A k \in 1 .. g.upto : msgs'[k] = msgs[k]
      BY <1>1, AnswerIs, IdsAre
    <3>2. PageOf(MessagesOf(g.conv, g.upto))' = PageOf(MessagesOf(g.conv, g.upto))
      BY <3>1, PagesStay
    <3> QED  BY <1>2, <1>4, <3>2, AnswerIs
  <2> QED  BY <2>1, <2>2, <2>3 DEF Below
<1>6. EventMarks'
  BY <1>1, <1>2, MarksParts DEF EventMarks
<1> QED  BY <1>1, <1>3, <1>4, <1>5, <1>6, MarksParts

\* Steps that leave the messages, the marker and the handlers alone.
LEMMA MarksStay ==
  ASSUME TypeOK, MarksInOrder, UNCHANGED <<msgs, marker, marks>>,
         UnderWay' \subseteq UnderWay, behind \subseteq behind',
         \A i \in UnderWay' \ behind' : PagesBelow(i)'
  PROVE  MarksInOrder'
<1>1. ASSUME NEW i \in UnderWay' \ behind'  PROVE Below(i)'
  <2>1. Below(i)
    BY <1>1, MarksParts
  <2> QED  BY <1>1, <2>1 DEF Below, MarkerBelow, MarksBelow
<1>2. EventMarks'
  BY MarksParts DEF EventMarks
<1> QED  BY <1>1, <1>2, MarksParts

LEMMA MarksServer ==
  ASSUME TypeOK, MarksInOrder, ServerStep
  PROVE  MarksInOrder'
<1>1. msgs' = msgs /\ UnderWay \subseteq Ids
  BY ServerType, IdsAre
<1>2. ASSUME UNCHANGED <<marker, marks, gets>>, UnderWay' \subseteq UnderWay,
             behind \subseteq behind'
      PROVE  MarksInOrder'
  <2>1. ASSUME NEW i \in UnderWay' \ behind'  PROVE PagesBelow(i)'
    <3>1. i \in Ids /\ PagesBelow(i)
      BY <1>1, <1>2, <2>1, MarksParts DEF Below
    <3> QED  BY <1>1, <1>2, <3>1, PagesStayBelow
  <2> QED  BY <1>1, <1>2, <2>1, MarksStay
<1>3. ASSUME NEW id \in Ids, EmitMessage(id)  PROVE MarksInOrder'
  <2>1. UNCHANGED <<marker, marks, gets>> /\ behind \subseteq behind'
        /\ posted' = posted \ {id} /\ id \in posted
    BY <1>3 DEF EmitMessage
  <2>2. ToSet(events') \subseteq ToSet(events) \cup {id}
    <3>1. CASE msgs[id] \in rooms
      BY <1>3, <3>1, ToSetAppend DEF TypeOK, EmitMessage, EmitTo
    <3>2. CASE msgs[id] \notin rooms
      BY <1>3, <3>2 DEF EmitMessage, EmitTo
    <3> QED  BY <3>1, <3>2
  <2>3. UnderWay' \subseteq UnderWay
    BY <2>1, <2>2 DEF UnderWay
  <2> QED  BY <1>2, <2>1, <2>3
<1>4. ASSUME NEW m \in marks, MarkRead(m)  PROVE MarksInOrder'
  <2>1. /\ marker' = [marker EXCEPT ![msgs[m.id]] = m.id]
        /\ UNCHANGED <<gets, behind>> /\ UnderWay' = UnderWay
    BY <1>4 DEF MarkRead, pageVars, wireVars, UnderWay
  <2>2. \A n \in marks' : \E k \in marks \ {m} :
          /\ n.id = k.id
          /\ n.why = "event" => k.why = "event" /\ msgs[k.id] # msgs[m.id]
    <3> SUFFICES ASSUME NEW n \in marks'
                 PROVE  \E k \in marks \ {m} :
                          /\ n.id = k.id
                          /\ n.why = "event" => k.why = "event" /\ msgs[k.id] # msgs[m.id]
      OBVIOUS
    <3>1. PICK k \in marks \ {m} :
            n = [id  |-> k.id,
                 why |-> IF msgs[k.id] = msgs[m.id] THEN "overtaken" ELSE k.why]
      BY <1>4 DEF MarkRead
    <3>2. n.id = k.id
          /\ n.why = IF msgs[k.id] = msgs[m.id] THEN "overtaken" ELSE k.why
      BY <3>1
    <3> QED  BY <3>2
  <2>3. \A c \in Convs : marker'[c] = IF c = msgs[m.id] THEN m.id ELSE marker[c]
    BY <2>1 DEF TypeOK
  <2>4. \A k \in marks : k.id \in Ids /\ msgs[k.id] \in Convs
    BY IdsAre DEF TypeOK, Mark
  <2>5. ASSUME NEW i \in UnderWay \ behind  PROVE Below(i)'
    <3>1. i \in Ids /\ msgs[i] \in Convs /\ Below(i)
      BY <1>1, <2>5, IdsAre, MarksParts
    <3>2. MarkerBelow(i)'
      BY <1>1, <2>3, <3>1 DEF Below, MarkerBelow, MarksBelow
    <3>3. MarksBelow(i)'
      BY <1>1, <2>2, <3>1 DEF Below, MarksBelow
    <3>4. PagesBelow(i)'
      BY <1>1, <2>1, <3>1, PagesStayBelow DEF Below
    <3> QED  BY <3>2, <3>3, <3>4 DEF Below
  <2>6. EventMarks'
    BY <1>1, <2>2, <2>3, <2>4, MarksParts DEF EventMarks
  <2> QED  BY <2>1, <2>5, <2>6, MarksParts
<1>5. ASSUME NEW c \in Convs, JoinDone(c)  PROVE MarksInOrder'
  BY <1>2, <1>5 DEF JoinDone, wireVars, pageVars, UnderWay
<1>6. ASSUME NEW g \in gets, ReadPage(g)  PROVE MarksInOrder'
  <2> DEFINE h    == [conv |-> g.conv, upto |-> Len(msgs)]
             page == PageOf(MessagesOf(g.conv, Len(msgs)))
  <2>1. h.conv = g.conv /\ h.upto = Len(msgs) /\ Len(msgs) \in Nat
    BY IdsAre DEF TypeOK
  <2>2. /\ gets' = (gets \ {g}) \cup {h}
        /\ behind' = behind \cup OvertakenBy(ToSet(page), g.conv)
        /\ UNCHANGED <<marker, marks, posted, events>>
    BY <1>6 DEF ReadPage, serverVars, wireVars
  <2> HIDE DEF h
  <2>3. UnderWay' = UnderWay
    BY <2>2 DEF UnderWay
  <2>4. ASSUME NEW i \in UnderWay \ behind'  PROVE PagesBelow(i)'
    <3>1. i \in Ids /\ PagesBelow(i)
      BY <1>1, <2>2, <2>4, MarksParts DEF Below
    <3>2. ASSUME NEW f \in gets', f.conv = msgs[i], f.upto # None,
                 NEW j \in ToSet(PageOf(MessagesOf(f.conv, f.upto))')
          PROVE  j <= i
      <4>1. CASE f \in gets
        <5>1. f.upto \in Nat
          BY <3>2, <4>1, AnswerIs
        <5>2. PageOf(MessagesOf(f.conv, f.upto))' = PageOf(MessagesOf(f.conv, f.upto))
          BY <1>1, <5>1, PagesStay
        <5> QED  BY <3>1, <3>2, <4>1, <5>2 DEF PagesBelow
      <4>2. CASE f = h
        <5>1. PageOf(MessagesOf(f.conv, f.upto))' = page
          <6>1. f.conv = g.conv /\ f.upto = Len(msgs) /\ f.upto \in Nat
            BY <2>1, <4>2
          <6>2. PageOf(MessagesOf(f.conv, f.upto))' = PageOf(MessagesOf(f.conv, f.upto))
            BY <1>1, <6>1, PagesStay
          <6> QED  BY <6>1, <6>2
        <5>2. j \in ToSet(page) /\ i \notin OvertakenBy(ToSet(page), g.conv)
          BY <2>2, <2>4, <3>2, <5>1
        <5>3. ~ (j > i) /\ ToSet(page) \subseteq OfConv(msgs, g.conv, Len(msgs))
          BY <2>1, <2>4, <3>2, <4>2, <5>2, PageHolds DEF OvertakenBy
        <5> QED  BY <2>1, <3>1, <5>2, <5>3, IdsAre DEF OfConv
      <4> QED  BY <2>2, <4>1, <4>2
    <3> QED  BY <1>1, <3>2 DEF PagesBelow
  <2> QED  BY <1>1, <2>2, <2>3, <2>4, MarksStay
<1> QED  BY <1>3, <1>4, <1>5, <1>6 DEF ServerStep

\* One handler is started, for a message that is not above those that nothing
\* has overtaken.
LEMMA MarksStart ==
  ASSUME TypeOK, MarksInOrder, NEW id \in Ids, NEW why, marks' = NewMark(id, why),
         UNCHANGED <<msgs, marker, behind>>, UnderWay' \subseteq UnderWay, gets' \subseteq gets,
         \A i \in UnderWay' \ behind : msgs[id] = msgs[i] => id <= i,
         why = "event" => marker[msgs[id]] <= id
  PROVE  MarksInOrder'
<1>1. \A m \in marks' : m \in marks \/ (m.id = id /\ m.why = why)
  BY DEF NewMark
<1>2. ASSUME NEW i \in UnderWay' \ behind  PROVE Below(i)'
  <2>1. Below(i) /\ i \in Ids
    BY <1>2, MarksParts, IdsAre
  <2>2. MarkerBelow(i)' /\ MarksBelow(i)'
    BY <1>1, <1>2, <2>1 DEF Below, MarkerBelow, MarksBelow
  <2>3. PagesBelow(i)'
    BY <2>1, PagesStayBelow DEF Below
  <2> QED  BY <2>2, <2>3 DEF Below
<1>3. EventMarks'
  BY <1>1, MarksParts DEF EventMarks
<1> QED  BY <1>2, <1>3, MarksParts

LEMMA MarksPage ==
  ASSUME TypeOK, EventsInOrder, MarksInOrder, PageStep
  PROVE  MarksInOrder'
<1>1. msgs' = msgs /\ UnderWay \subseteq Ids
  BY PageType, IdsAre
<1>2. ASSUME UNCHANGED <<marker, marks, behind>>, UnderWay' \subseteq UnderWay,
             gets' \subseteq gets
      PROVE  MarksInOrder'
  <2>1. ASSUME NEW i \in UnderWay' \ behind'  PROVE PagesBelow(i)'
    <3>1. i \in Ids /\ PagesBelow(i)
      BY <1>1, <1>2, <2>1, MarksParts DEF Below
    <3> QED  BY <1>1, <1>2, <3>1, PagesStayBelow
  <2> QED  BY <1>1, <1>2, <2>1, MarksStay
<1>3. ASSUME NEW g \in gets, AnswerArrives(g)  PROVE MarksInOrder'
  <2> DEFINE page == PageOf(MessagesOf(g.conv, g.upto))
  <2>1. /\ UNCHANGED <<marker, behind>> /\ UnderWay' = UnderWay /\ gets' \subseteq gets
        /\ marks' = IF page = <<>> THEN marks ELSE NewMark(Last(page), "page")
        /\ g.upto # None
    BY <1>3 DEF AnswerArrives, wireVars, UnderWay
  <2>2. g.upto \in Nat /\ \A j \in ToSet(page) : j \in Ids /\ msgs[j] = g.conv
    BY <2>1, AnswerIs
  <2>3. page # <<>> => Last(page) \in ToSet(page)
    BY <2>2, PageHolds
  <2>4. \A i \in UnderWay \ behind : g.conv = msgs[i] => \A j \in ToSet(page) : j <= i
    BY <2>1, MarksParts DEF Below, PagesBelow
  <2> HIDE DEF page
  <2>5. CASE page = <<>>
    BY <1>2, <2>1, <2>5
  <2>6. CASE page # <<>>
    <3> DEFINE id == Last(page)
    <3>1. /\ id \in Ids /\ marks' = NewMark(id, "page") /\ "page" # "event"
          /\ \A i \in UnderWay \ behind : msgs[id] = msgs[i] => id <= i
      BY <2>1, <2>2, <2>3, <2>4, <2>6
    <3> HIDE DEF id
    <3> QED  BY <1>1, <2>1, <3>1, MarksStart
  <2> QED  BY <2>5, <2>6
<1>4. ASSUME NEW g \in gets, AnswerFails(g)  PROVE MarksInOrder'
  BY <1>2, <1>4 DEF AnswerFails, serverVars, wireVars, UnderWay
<1>5. ASSUME ReceiveMessage  PROVE MarksInOrder'
  <2> DEFINE id == Head(events)
  <2>1. /\ events \in Seq(Ids) /\ events # <<>> /\ id \in Ids
        /\ UNCHANGED <<marker, posted, behind, gets>> /\ events' = Tail(events)
    BY <1>5, HeadTailProperties DEF TypeOK, ReceiveMessage
  <2>2. ToSet(events) = {id} \cup ToSet(events')
    BY <2>1, HeadToSet
  <2>3. UnderWay' \subseteq UnderWay /\ id \in UnderWay
    BY <2>1, <2>2 DEF UnderWay
  <2>4. \A i \in UnderWay' \ behind : msgs[id] = msgs[i] => id <= i
    BY <1>5, OrderReceive
  <2>5. id \notin behind => marker[msgs[id]] <= id
    BY <2>3, MarksParts DEF Below, MarkerBelow
  <2>6. \/ marks' = marks
        \/ marks' = NewMark(id, IF id \in behind THEN "late" ELSE "event")
    BY <1>5 DEF ReceiveMessage, MarkReceived
  <2> HIDE DEF id
  <2>7. CASE marks' = marks
    BY <1>2, <2>1, <2>3, <2>7
  <2>8. CASE marks' = NewMark(id, "late")
    <3>1. "late" # "event"
      OBVIOUS
    <3> QED  BY <1>1, <2>1, <2>3, <2>4, <2>8, <3>1, MarksStart
  <2>9. CASE marks' = NewMark(id, "event") /\ id \notin behind
    BY <1>1, <2>1, <2>3, <2>4, <2>5, <2>9, MarksStart
  <2> QED  BY <2>6, <2>7, <2>8, <2>9
<1> QED  BY <1>3, <1>4, <1>5 DEF PageStep

LEMMA MarksInput ==
  ASSUME TypeOK, MarksInOrder, Input
  PROVE  MarksInOrder'
<1>1. ASSUME NEW c \in Convs, SendMessage(c)  PROVE MarksInOrder'
  BY <1>1, MarksSend
<1>2. ASSUME UNCHANGED <<msgs, marker, marks, behind>>, UnderWay' \subseteq UnderWay,
             \A g \in gets' : g.upto = None \/ g \in gets
      PROVE  MarksInOrder'
  <2>1. ASSUME NEW i \in UnderWay' \ behind'  PROVE PagesBelow(i)'
    <3>1. i \in Ids /\ PagesBelow(i)
      BY <1>2, <2>1, IdsAre, MarksParts DEF Below
    <3> SUFFICES ASSUME NEW g \in gets', g.conv = msgs[i], g.upto # None,
                        NEW j \in ToSet(PageOf(MessagesOf(g.conv, g.upto))')
                 PROVE  j <= i
      BY <1>2 DEF PagesBelow
    <3>2. g \in gets /\ g.upto \in Nat
      BY <1>2, AnswerIs
    <3>3. PageOf(MessagesOf(g.conv, g.upto))' = PageOf(MessagesOf(g.conv, g.upto))
      BY <1>2, <3>2, PagesStay
    <3> QED  BY <3>1, <3>2, <3>3 DEF PagesBelow
  <2> QED  BY <1>2, <2>1, MarksStay
<1>3. ASSUME NEW c \in Convs, SelectConversation(c)  PROVE MarksInOrder'
  BY <1>2, <1>3 DEF SelectConversation, wireVars, UnderWay, Get
<1>4. ASSUME ClearConversation \/ Connected  PROVE MarksInOrder'
  BY <1>2, <1>4 DEF ClearConversation, Connected, serverVars, wireVars, pageVars, UnderWay
<1>5. ASSUME Disconnected  PROVE MarksInOrder'
  <2>1. ToSet(events') = {}
    BY <1>5 DEF Disconnected, ToSet
  <2>2. UnderWay' \subseteq UnderWay
    BY <1>5, <2>1 DEF Disconnected, UnderWay
  <2> QED  BY <1>2, <1>5, <2>2 DEF Disconnected
<1> QED  BY <1>1, <1>3, <1>4, <1>5 DEF Input

-----------------------------------------------------------------------------
LEMMA InitChat == Init => ChatInv
<1> SUFFICES ASSUME Init  PROVE ChatInv
  OBVIOUS
<1>1. Len(msgs) = 0 /\ Ids = {} /\ <<>> \in Seq(Convs) /\ <<>> \in Seq(Ids)
  BY DEF Init, Ids
<1>2. whole \in BOOLEAN /\ connected \in BOOLEAN
  BY DEF Init
<1>3. TypeOK
  BY <1>1, <1>2 DEF Init, TypeOK
<1>4. UnderWay = {} /\ DOMAIN events = {}
  BY DEF Init, UnderWay, ToSet
<1> QED  BY <1>3, <1>4 DEF Init, ChatInv, NothingMissed, EventsInOrder, MarksInOrder

\* In every state of every chat, a message of the open conversation that the
\* thread does not show is under way or in a list to come, and the marker is
\* at or below every message under way that nothing has overtaken.
THEOREM ChatInvariant == Spec => []ChatInv
<1>1. ASSUME ChatInv, Next  PROVE ChatInv'
  <2>1. TypeOK'
    <3>1. CASE Input
      <4>1. msgs' = msgs \/ \E c \in Convs : SendMessage(c)
        BY <3>1 DEF Input, SelectConversation, ClearConversation, Disconnected, Connected,
                    serverVars
      <4> QED  BY <1>1, <3>1, <4>1, InputType, SendType DEF ChatInv
    <3> QED  BY <1>1, <3>1, ServerType, PageType DEF ChatInv, Next
  <2>2. NothingMissed'
    BY <1>1, MissedServer, MissedPage, MissedInput DEF ChatInv, Next
  <2>3. EventsInOrder'
    BY <1>1, OrderStep DEF ChatInv
  <2>4. MarksInOrder'
    BY <1>1, MarksServer, MarksPage, MarksInput DEF ChatInv, Next
  <2> QED  BY <2>1, <2>2, <2>3, <2>4 DEF ChatInv
<1>2. ASSUME ChatInv, UNCHANGED vars  PROVE ChatInv'
  <2>1. TypeOK' /\ NothingMissed' /\ EventsInOrder'
    BY <1>2 DEF ChatInv, TypeOK, NothingMissed, EventsInOrder, vars, serverVars, wireVars,
                pageVars, Ids, Mark, UnderWay, ToSet
  <2>2. UNCHANGED <<msgs, marker, marks, gets, behind, posted, events>>
    BY <1>2 DEF vars, serverVars, wireVars, pageVars
  <2>3. \A i \in UnderWay' \ behind' : PagesBelow(i)'
    <3> SUFFICES ASSUME NEW i \in UnderWay' \ behind'  PROVE PagesBelow(i)'
      OBVIOUS
    <3>1. i \in Ids /\ PagesBelow(i)
      BY <1>2, <2>2, IdsAre, MarksParts DEF ChatInv, UnderWay, Below
    <3> QED  BY <1>2, <2>2, <3>1, PagesStayBelow DEF ChatInv
  <2>4. MarksInOrder'
    BY <1>2, <2>2, <2>3, MarksStay DEF ChatInv, UnderWay
  <2> QED  BY <2>1, <2>4 DEF ChatInv
<1>3. ChatInv /\ [Next]_vars => ChatInv'
  BY <1>1, <1>2
<1> QED  BY <1>3, InitChat, PTL DEF Spec

-----------------------------------------------------------------------------
\* However lists, events, selections and reconnects of the page interleave,
\* a thread at rest with a gap has had one of the six causes.
THEOREM GapsAreExplained == Spec => []ThreadInv
<1>1. ChatInv => ThreadInv
  <2> SUFFICES ASSUME ChatInv, Settled, active # None, whole,
                      NEW i \in ToSet(MessagesOf(active, Len(msgs)))
               PROVE  i \in ToSet(thread)
    BY DEF ThreadInv, GapsHaveACause, ChatInv
  <2>1. Len(msgs) \in Nat /\ Ids = 1 .. Len(msgs)
    BY IdsAre DEF ChatInv
  <2>2. i \in Ids /\ msgs[i] = active
    BY <2>1, MessagesHold DEF OfConv
  <2>3. gets = {} /\ UnderWay = {}
    BY DEF Settled, UnderWay, ToSet
  <2> QED  BY <2>2, <2>3 DEF ChatInv, NothingMissed
<1> QED  BY <1>1, ChatInvariant, PTL

\* The read marker of a conversation goes back only by a handler that is
\* overtaken, that marks a message which a later one has overtaken, or that
\* marks the last message of a page.
THEOREM MarkerRarelyGoesBack == Spec => MarkerMovesBackOnly
<1> DEFINE Body ==
      \A c \in Convs : marker'[c] < marker[c] =>
        \E m \in marks : m.id = marker'[c] /\ m.why # "event"
<1>1. ChatInv /\ [Next]_vars => [Body]_vars
  <2> SUFFICES ASSUME ChatInv, Next, NEW c \in Convs, marker'[c] < marker[c]
               PROVE  \E m \in marks : m.id = marker'[c] /\ m.why # "event"
    OBVIOUS
  <2>1. marker[c] \in 0 .. Len(msgs) /\ Len(msgs) \in Nat
    BY IdsAre DEF ChatInv, TypeOK
  <2>2. marker' # marker
    BY <2>1
  <2>3. PICK m \in marks : MarkRead(m)
    BY <2>2 DEF Next, ServerStep, PageStep, Input, EmitMessage, JoinDone, ReadPage,
                AnswerArrives, AnswerFails, ReceiveMessage, SendMessage, SelectConversation,
                ClearConversation, Disconnected, Connected, serverVars
  <2>4. m.id \in Ids /\ msgs[m.id] \in Convs
    BY IdsAre DEF ChatInv, TypeOK, Mark
  <2>5. marker'[c] = IF c = msgs[m.id] THEN m.id ELSE marker[c]
    BY <2>3 DEF MarkRead, ChatInv, TypeOK
  <2>6. c = msgs[m.id] /\ m.id < marker[msgs[m.id]] /\ marker'[c] = m.id
    BY <2>1, <2>5
  <2>7. m.why # "event"
    BY <2>1, <2>4, <2>6, IdsAre DEF ChatInv, MarksInOrder
  <2> QED  BY <2>6, <2>7
<1> QED  BY <1>1, ChatInvariant, PTL DEF Spec, MarkerMovesBackOnly

\* A thread comes to show a message of another conversation only by the
\* answer to a list that was asked for before the user moved on.
THEOREM OnlyLateListsMix == Spec => OnlyLateAnswersMix
<1> DEFINE Body ==
      active' # None /\ Foreign(thread', active') /\ ~Foreign(thread, active) =>
        \E g \in gets : g.conv # active /\ gets' = gets \ {g}
<1>1. ChatInv /\ [Next]_vars => [Body]_vars
  <2> SUFFICES ASSUME ChatInv, Next, active' # None, Foreign(thread', active'),
                      ~Foreign(thread, active)
               PROVE  \E g \in gets : g.conv # active /\ gets' = gets \ {g}
    OBVIOUS
  <2>1. ~ (thread' = thread /\ active' = active)
    OBVIOUS
  <2>2. thread' # <<>>
    BY DEF Foreign
  <2>3. ASSUME NEW g \in gets, AnswerArrives(g)  PROVE g.conv # active
    <3> DEFINE page == PageOf(MessagesOf(g.conv, g.upto))
    <3>1. /\ thread' = page /\ active' = active
          /\ \A j \in ToSet(page) : msgs[j] = g.conv
      BY <2>3, AnswerIs DEF AnswerArrives, ChatInv
    <3> HIDE DEF page
    <3> QED  BY <3>1 DEF Foreign, ToSet
  <2>4. ~ ReceiveMessage
    <3> SUFFICES ASSUME ReceiveMessage  PROVE FALSE
      OBVIOUS
    <3> DEFINE id == Head(events)
    <3>1. /\ thread' = Append(thread, id) /\ msgs[id] = active /\ active' = active
          /\ id \in Ids /\ thread \in Seq(Ids)
      BY <2>1, HeadTailProperties DEF ReceiveMessage, InThread, ChatInv, TypeOK
    <3> HIDE DEF id
    <3>2. ToSet(thread') = ToSet(thread) \cup {id}
      BY <3>1, ToSetAppend
    <3>3. \A j \in ToSet(thread) : msgs[j] = active
      BY DEF Foreign, ToSet
    <3> QED  BY <3>1, <3>2, <3>3 DEF Foreign, ToSet
  <2> QED
    BY <2>1, <2>2, <2>3, <2>4
       DEF Next, ServerStep, PageStep, Input, EmitMessage, MarkRead, JoinDone, ReadPage,
           AnswerArrives, AnswerFails, SendMessage, SelectConversation, ClearConversation,
           Disconnected, Connected, serverVars, wireVars, pageVars
<1> QED  BY <1>1, ChatInvariant, PTL DEF Spec, OnlyLateAnswersMix
=============================================================================
