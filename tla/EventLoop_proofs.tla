--------------------------- MODULE EventLoop_proofs ------------------------
(***************************************************************************)
(* Theorems about the selector and the event loop, for any number of       *)
(* descriptors and clients and any requests: select() watches open         *)
(* descriptors, and those that were asked for; every descriptor has an     *)
(* owner; a handler is called for events of its own connection only; a     *)
(* monitor request is acted upon once, and its answer sent whole.          *)
(***************************************************************************)
EXTENDS EventLoop, WellFoundedInduction, TLAPS

\* A set of numbers that is not empty has a least element.
LEMMA LeastNat ==
    ASSUME NEW S \in SUBSET Nat, S # {}
    PROVE  \E x \in S : \A y \in S : x <= y
<1>. DEFINE R == {p \in Nat \X Nat : p[1] < p[2]}
<1>1. IsWellFoundedOn(R, Nat)
  <2>1. OpToRel(<, Nat) = R
    BY DEF OpToRel
  <2>. QED BY <2>1, NatLessThanWellFounded
<1>2. PICK x \in S : \A y \in S : <<y, x>> \notin R
  <2>. HIDE DEF R
  <2>. QED BY <1>1, WFMin
<1>3. ASSUME NEW y \in S PROVE x <= y
  <2>1. x \in Nat /\ y \in Nat /\ <<y, x>> \in Nat \X Nat /\ <<y, x>> \notin R
    BY <1>2
  <2>2. ~(<<y, x>>[1] < <<y, x>>[2])
    BY <2>1
  <2>. QED BY <2>1, <2>2
<1>. QED BY <1>3

\* Min finds it.
LEMMA MinIsLeast ==
    ASSUME NEW S \in SUBSET Nat, S # {}
    PROVE  Min(S) \in S /\ \A y \in S : Min(S) <= y
BY LeastNat DEF Min

\* A bounded set of numbers that is not empty has a greatest element.
LEMMA GreatestNat ==
    ASSUME NEW S \in SUBSET Nat, S # {}, NEW b \in Nat, \A x \in S : x <= b
    PROVE  \E x \in S : \A y \in S : y <= x
<1>. DEFINE T == {b - x : x \in S}
<1>1. T \in SUBSET Nat /\ T # {}
  <2>1. PICK z \in S : TRUE
    OBVIOUS
  <2>2. b - z \in T
    BY <2>1
  <2>3. \A x \in S : x \in Nat /\ b - x \in Nat
    OBVIOUS
  <2>. QED BY <2>2, <2>3
<1>2. PICK t \in T : \A u \in T : t <= u
  <2>. HIDE DEF T
  <2>. QED BY <1>1, LeastNat
<1>3. PICK x \in S : t = b - x
  OBVIOUS
<1>4. ASSUME NEW y \in S PROVE y <= x
  BY <1>2, <1>3
<1>. QED BY <1>4

\* items_max_fd returns the highest descriptor in use.
LEMMA ItemsMaxFdIsMax ==
    ASSUME NEW s \in SelectorType
    PROVE  ItemsMaxFd(s) \in Fds /\ IsMaxFd(s, ItemsMaxFd(s))
<1>. DEFINE S == {0} \cup {fd \in Used(s) : fd <= s.maxFd}
<1>1. S \in SUBSET Nat /\ S # {} /\ S \subseteq Fds
  BY FdSetSizeAssumption DEF Used, Fds
<1>2. PICK m \in S : \A fd \in S : fd <= m
  <2>1. \A x \in S : x <= FdSetSize
    BY <1>1, FdSetSizeAssumption DEF Fds
  <2>. HIDE DEF S
  <2>. QED BY <1>1, <2>1, GreatestNat, FdSetSizeAssumption
<1>3. m \in Fds /\ IsMaxFd(s, m)
  BY <1>1, <1>2 DEF IsMaxFd
<1>. QED BY <1>3 DEF ItemsMaxFd

----------------------------------------------------------------------------
(* The selector *)

\* An item that is not used is blank.
BlankUnlessUsed(s) == \A fd \in Fds : ~s.item[fd].used => s.item[fd] = UnusedItem

\* Nothing is watched, on any descriptor, that was not asked for.
OnlyAsked(s) ==
    \A fd \in Fds : /\ fd \in s.read => "READ" \in s.item[fd].interest
                    /\ fd \in s.write => "WRITE" \in s.item[fd].interest

GoodSelector(s) == s \in SelectorType /\ SetsAgree(s) /\ BlankUnlessUsed(s) /\ OnlyAsked(s)

ItemType == [used : BOOLEAN, interest : Interests, handler : Handlers]

\* A record with the right fields is a selector.
LEMMA IsSelector ==
    ASSUME NEW item \in [Fds -> ItemType], NEW max \in Fds, NEW r \in SUBSET Fds, NEW w \in SUBSET Fds
    PROVE  [item |-> item, maxFd |-> max, read |-> r, write |-> w] \in SelectorType
BY DEF SelectorType, ItemType

\* items_update_fdset_for_fd changes the bits of one descriptor, and nothing else.
LEMMA UpdateFdsetFields ==
    ASSUME NEW s \in SelectorType, NEW fd \in Fds, NEW item \in ItemType, NEW max \in Fds,
           NEW t, t = [item |-> [s.item EXCEPT ![fd] = item], maxFd |-> max,
                       read |-> s.read, write |-> s.write],
           item.used \/ item.interest = {}
    PROVE  LET bit == IF item.used THEN fd ELSE AliasFd
           IN  /\ UpdateFdset(t, fd) \in SelectorType
               /\ UpdateFdset(t, fd).item = t.item
               /\ UpdateFdset(t, fd).maxFd = max
               /\ UpdateFdset(t, fd).read = With(s.read, bit, "READ" \in item.interest)
               /\ UpdateFdset(t, fd).write = With(s.write, bit, "WRITE" \in item.interest)
<1>. DEFINE bit == IF item.used THEN fd ELSE AliasFd
            R == With(s.read, bit, "READ" \in item.interest)
            W == With(s.write, bit, "WRITE" \in item.interest)
<1>0. t.item[fd] = item /\ t.read = s.read /\ t.write = s.write
  BY DEF SelectorType
<1>1. UpdateFdset(t, fd) = [item |-> t.item, maxFd |-> max, read |-> R, write |-> W]
  <2>1. UpdateFdset(t, fd) = [t EXCEPT !.read = R, !.write = W]
    BY <1>0 DEF UpdateFdset
  <2>. HIDE DEF R, W
  <2>. QED BY <2>1
<1>2. R \in SUBSET Fds /\ W \in SUBSET Fds
  BY DEF With, SelectorType
<1>3. t.item \in [Fds -> ItemType]
  BY DEF SelectorType, ItemType
<1>. QED
  <2>. HIDE DEF R, W
  <2>1. UpdateFdset(t, fd) \in SelectorType
    BY <1>1, <1>2, <1>3, IsSelector
  <2>2. /\ UpdateFdset(t, fd).item = t.item /\ UpdateFdset(t, fd).maxFd = max
        /\ UpdateFdset(t, fd).read = R /\ UpdateFdset(t, fd).write = W
    BY <1>1
  <2>. QED BY <2>1, <2>2 DEF R, W

\* A new selector is in order.
LEMMA NewSelectorGood == GoodSelector(NewSelector)
BY FdSetSizeAssumption
   DEF GoodSelector, NewSelector, SelectorType, SetsAgree, BlankUnlessUsed, UnusedItem, Used, Fds,
       Interests, Handlers, OnlyAsked

\* selector_register keeps the selector in order and changes one item.
LEMMA RegisterGood ==
    ASSUME NEW s, GoodSelector(s), NEW fd \in Fds, CanRegister(s, fd),
           NEW handler \in Handlers, NEW interest \in Interests
    PROVE  /\ GoodSelector(Register(s, fd, handler, interest))
           /\ Register(s, fd, handler, interest).item =
                 [s.item EXCEPT ![fd] = [used |-> TRUE, interest |-> interest, handler |-> handler]]
<1>. DEFINE item == [used |-> TRUE, interest |-> interest, handler |-> handler]
            max == IF fd > s.maxFd THEN fd ELSE s.maxFd
            t == [item |-> [s.item EXCEPT ![fd] = item], maxFd |-> max, read |-> s.read, write |-> s.write]
            r == Register(s, fd, handler, interest)
<1>1. s \in SelectorType /\ item \in ItemType /\ max \in Fds /\ item.used /\ item.interest = interest
  BY DEF GoodSelector, SelectorType, ItemType
<1>2. s = [item |-> s.item, maxFd |-> s.maxFd, read |-> s.read, write |-> s.write]
  BY <1>1 DEF SelectorType
<1>3. [s EXCEPT !.item[fd] = item, !.maxFd = IF fd > @ THEN fd ELSE @] = t
  <2>1. [s EXCEPT !.item[fd] = item, !.maxFd = IF fd > @ THEN fd ELSE @] =
        [s EXCEPT !.item = [s.item EXCEPT ![fd] = item], !.maxFd = max]
    BY <1>2
  <2>2. [s EXCEPT !.item = [s.item EXCEPT ![fd] = item], !.maxFd = max] = t
    <3>. DEFINE items == [s.item EXCEPT ![fd] = item]
    <3>1. t = [item |-> items, maxFd |-> max, read |-> s.read, write |-> s.write]
      OBVIOUS
    <3>. HIDE DEF items, max, item, t
    <3>. DEFINE u == [s EXCEPT !.item = items]
    <3>2. u = [item |-> items, maxFd |-> s.maxFd, read |-> s.read, write |-> s.write]
      BY <1>2
    <3>3. [s EXCEPT !.item = items, !.maxFd = max] = [u EXCEPT !.maxFd = max]
      OBVIOUS
    <3>. HIDE DEF u
    <3>4. [u EXCEPT !.maxFd = max] = t
      BY <3>1, <3>2
    <3>. QED BY <3>3, <3>4 DEF items
  <2>. HIDE DEF item, max, t
  <2>. QED BY <2>1, <2>2
<1>4. r = UpdateFdset(t, fd)
  BY <1>3 DEF Register
<1>5. /\ r \in SelectorType /\ r.item = [s.item EXCEPT ![fd] = item] /\ r.maxFd = max
      /\ r.read = With(s.read, fd, "READ" \in interest)
      /\ r.write = With(s.write, fd, "WRITE" \in interest)
  <2>. HIDE DEF item, max
  <2>. QED BY <1>1, <1>4, UpdateFdsetFields
<1>6. \A f \in Fds : r.item[f] = IF f = fd THEN item ELSE s.item[f]
  BY <1>1, <1>5 DEF SelectorType
<1>7. Used(r) = Used(s) \cup {fd}
  BY <1>6 DEF Used
<1>8. SetsAgree(r)
  <2>1. r.read \cup r.write \subseteq Used(r)
    BY <1>5, <1>7 DEF GoodSelector, SetsAgree, With
  <2>2. \A f \in Used(r) : f <= r.maxFd
    BY <1>1, <1>5, <1>7 DEF GoodSelector, SetsAgree, SelectorType, Used, Fds
  <2>3. ASSUME NEW f \in Fds \ {AliasFd}
        PROVE  /\ f \in r.read <=> r.item[f].used /\ "READ" \in r.item[f].interest
               /\ f \in r.write <=> r.item[f].used /\ "WRITE" \in r.item[f].interest
    BY <1>5, <1>6 DEF GoodSelector, SetsAgree, With
  <2>. QED BY <2>1, <2>2, <2>3 DEF SetsAgree
<1>9. BlankUnlessUsed(r)
  BY <1>6 DEF BlankUnlessUsed, GoodSelector
<1>10. OnlyAsked(r)
  BY <1>5, <1>6 DEF OnlyAsked, GoodSelector, With
<1>. QED BY <1>5, <1>8, <1>9, <1>10 DEF GoodSelector

\* selector_set_interest keeps the selector in order and changes one interest.
LEMMA SetInterestGood ==
    ASSUME NEW s, GoodSelector(s), NEW fd \in Fds, NEW interest \in Interests
    PROVE  /\ GoodSelector(SetInterest(s, fd, interest))
           /\ SetInterest(s, fd, interest).item =
                 IF s.item[fd].used THEN [s.item EXCEPT ![fd].interest = interest] ELSE s.item
<1>1. CASE ~s.item[fd].used
  BY <1>1 DEF SetInterest
<1>2. CASE s.item[fd].used
  <2>. DEFINE item == [used |-> TRUE, interest |-> interest, handler |-> s.item[fd].handler]
              t == [item |-> [s.item EXCEPT ![fd] = item], maxFd |-> s.maxFd,
                    read |-> s.read, write |-> s.write]
              r == SetInterest(s, fd, interest)
  <2>1. /\ s \in SelectorType /\ item \in ItemType /\ s.maxFd \in Fds
        /\ item.used /\ item.interest = interest
    BY DEF GoodSelector, SelectorType, ItemType
  <2>2. s = [item |-> s.item, maxFd |-> s.maxFd, read |-> s.read, write |-> s.write]
    BY <2>1 DEF SelectorType
  <2>3. [s.item EXCEPT ![fd].interest = interest] = [s.item EXCEPT ![fd] = item]
    <3>1. s.item[fd] \in ItemType
      BY <2>1 DEF SelectorType, ItemType
    <3>2. [s.item[fd] EXCEPT !.interest = interest] = item
      <4>1. s.item[fd].used = TRUE
        BY <1>2, <3>1 DEF ItemType
      <4>2. [s.item[fd] EXCEPT !.interest = interest] =
               [used |-> s.item[fd].used, interest |-> interest, handler |-> s.item[fd].handler]
        BY <3>1 DEF ItemType
      <4>. QED BY <4>1, <4>2
    <3>. HIDE DEF item
    <3>. QED BY <3>2
  <2>4. [s EXCEPT !.item[fd].interest = interest] = t
    <3>1. [s EXCEPT !.item[fd].interest = interest] =
          [s EXCEPT !.item = [s.item EXCEPT ![fd].interest = interest]]
      OBVIOUS
    <3>. HIDE DEF item
    <3>. QED BY <2>2, <2>3, <3>1
  <2>5. r = UpdateFdset(t, fd)
    BY <1>2, <2>4 DEF SetInterest
  <2>6. /\ r \in SelectorType /\ r.item = [s.item EXCEPT ![fd] = item] /\ r.maxFd = s.maxFd
        /\ r.read = With(s.read, fd, "READ" \in interest)
        /\ r.write = With(s.write, fd, "WRITE" \in interest)
    <3>. HIDE DEF item
    <3>. QED BY <2>1, <2>5, UpdateFdsetFields
  <2>7. \A f \in Fds : r.item[f] = IF f = fd THEN item ELSE s.item[f]
    BY <2>1, <2>6 DEF SelectorType
  <2>8. Used(r) = Used(s) /\ fd \in Used(s)
    BY <1>2, <2>7 DEF Used
  <2>9. SetsAgree(r)
    <3>1. r.read \cup r.write \subseteq Used(r)
      BY <2>6, <2>8 DEF GoodSelector, SetsAgree, With
    <3>2. \A f \in Used(r) : f <= r.maxFd
      BY <2>6, <2>8 DEF GoodSelector, SetsAgree
    <3>3. ASSUME NEW f \in Fds \ {AliasFd}
          PROVE  /\ f \in r.read <=> r.item[f].used /\ "READ" \in r.item[f].interest
                 /\ f \in r.write <=> r.item[f].used /\ "WRITE" \in r.item[f].interest
      BY <2>6, <2>7 DEF GoodSelector, SetsAgree, With
    <3>. QED BY <3>1, <3>2, <3>3 DEF SetsAgree
  <2>10. BlankUnlessUsed(r)
    BY <2>7 DEF BlankUnlessUsed, GoodSelector
  <2>11. OnlyAsked(r)
    BY <2>6, <2>7 DEF OnlyAsked, GoodSelector, With
  <2>. QED BY <1>2, <2>3, <2>6, <2>9, <2>10, <2>11 DEF GoodSelector
<1>. QED BY <1>1, <1>2

\* Also for a descriptor that is not used any more, which is what the
\* second of two nested calls finds.
LEMMA UnregisterGood ==
    ASSUME NEW s, GoodSelector(s), NEW fd \in Fds
    PROVE  /\ GoodSelector(Unregister(s, fd))
           /\ Unregister(s, fd).item = [s.item EXCEPT ![fd] = UnusedItem]
<1>. DEFINE item == [used |-> s.item[fd].used, interest |-> {}, handler |-> s.item[fd].handler]
            t == [item |-> [s.item EXCEPT ![fd] = item], maxFd |-> s.maxFd,
                  read |-> s.read, write |-> s.write]
            silent == UpdateFdset(t, fd)
            gone == [silent EXCEPT !.item[fd] = UnusedItem]
            bit == IF s.item[fd].used THEN fd ELSE AliasFd
            r == Unregister(s, fd)
<1>1. /\ s \in SelectorType /\ item \in ItemType /\ s.maxFd \in Fds
      /\ item.used = s.item[fd].used /\ item.interest = {}
  BY DEF GoodSelector, SelectorType, ItemType, Interests
<1>2. s = [item |-> s.item, maxFd |-> s.maxFd, read |-> s.read, write |-> s.write]
  BY <1>1 DEF SelectorType
<1>3. [s EXCEPT !.item[fd].interest = {}] = t
  <2>1. s.item[fd] \in ItemType
    BY <1>1 DEF SelectorType, ItemType
  <2>2. [s.item[fd] EXCEPT !.interest = {}] = item
    BY <2>1 DEF ItemType
  <2>3. [s.item EXCEPT ![fd].interest = {}] = [s.item EXCEPT ![fd] = item]
    <3>. HIDE DEF item
    <3>. QED BY <2>2
  <2>4. [s EXCEPT !.item[fd].interest = {}] = [s EXCEPT !.item = [s.item EXCEPT ![fd].interest = {}]]
    OBVIOUS
  <2>. HIDE DEF item
  <2>. QED BY <1>2, <2>3, <2>4
<1>4. r = [gone EXCEPT !.maxFd = ItemsMaxFd(gone)]
  BY <1>3 DEF Unregister
<1>5. /\ silent \in SelectorType /\ silent.item = [s.item EXCEPT ![fd] = item]
      /\ silent.maxFd = s.maxFd
      /\ silent.read = s.read \ {bit} /\ silent.write = s.write \ {bit}
  <2>. HIDE DEF item, silent
  <2>1. silent = UpdateFdset(t, fd)
    BY DEF silent
  <2>2. "READ" \notin item.interest /\ "WRITE" \notin item.interest
    BY <1>1
  <2>3. /\ silent \in SelectorType /\ silent.item = [s.item EXCEPT ![fd] = item]
        /\ silent.maxFd = s.maxFd
        /\ silent.read = With(s.read, bit, "READ" \in item.interest)
        /\ silent.write = With(s.write, bit, "WRITE" \in item.interest)
    BY <1>1, <2>1, UpdateFdsetFields
  <2>. QED BY <2>2, <2>3 DEF With
<1>. HIDE DEF silent
<1>6. /\ gone = [item |-> [s.item EXCEPT ![fd] = UnusedItem], maxFd |-> s.maxFd,
                 read |-> s.read \ {bit}, write |-> s.write \ {bit}]
      /\ gone \in SelectorType
  <2>1. silent = [item |-> silent.item, maxFd |-> silent.maxFd,
                  read |-> silent.read, write |-> silent.write]
    BY <1>5 DEF SelectorType
  <2>2. [silent.item EXCEPT ![fd] = UnusedItem] = [s.item EXCEPT ![fd] = UnusedItem]
    <3>. HIDE DEF item
    <3>1. s.item \in [Fds -> ItemType]
      BY <1>1 DEF SelectorType, ItemType
    <3>. QED BY <1>5, <3>1
  <2>3. UnusedItem \in ItemType
    BY DEF UnusedItem, ItemType, Interests, Handlers
  <2>4. gone.item \in [Fds -> ItemType]
    BY <1>1, <1>5, <2>1, <2>2, <2>3 DEF SelectorType, ItemType
  <2>. HIDE DEF bit
  <2>5. gone = [item |-> [s.item EXCEPT ![fd] = UnusedItem], maxFd |-> s.maxFd,
                read |-> s.read \ {bit}, write |-> s.write \ {bit}]
    <3>1. gone = [silent EXCEPT !.item = [silent.item EXCEPT ![fd] = UnusedItem]]
      OBVIOUS
    <3>2. silent = [item |-> silent.item, maxFd |-> s.maxFd, read |-> s.read \ {bit}, write |-> s.write \ {bit}]
      BY <1>5, <2>1
    <3>. QED BY <2>2, <3>1, <3>2
  <2>6. [s.item EXCEPT ![fd] = UnusedItem] \in [Fds -> ItemType]
    BY <2>4, <2>5
  <2>7. s.maxFd \in Fds /\ s.read \ {bit} \in SUBSET Fds /\ s.write \ {bit} \in SUBSET Fds
    BY <1>1 DEF SelectorType
  <2>8. gone \in SelectorType
    <3>. HIDE DEF gone
    <3>. QED BY <2>5, <2>6, <2>7, IsSelector
  <2>. QED BY <2>5, <2>8
<1>. HIDE DEF gone
<1>7. ItemsMaxFd(gone) \in Fds /\ IsMaxFd(gone, ItemsMaxFd(gone))
  BY <1>6, ItemsMaxFdIsMax
<1>8. /\ r = [item |-> [s.item EXCEPT ![fd] = UnusedItem], maxFd |-> ItemsMaxFd(gone),
              read |-> s.read \ {bit}, write |-> s.write \ {bit}]
      /\ r \in SelectorType
  <2>. HIDE DEF bit
  <2>1. r = [item |-> [s.item EXCEPT ![fd] = UnusedItem], maxFd |-> ItemsMaxFd(gone),
             read |-> s.read \ {bit}, write |-> s.write \ {bit}]
    BY <1>4, <1>6
  <2>. QED BY <1>6, <1>7, <2>1 DEF SelectorType
<1>. HIDE DEF r
<1>9. \A f \in Fds : r.item[f] = IF f = fd THEN UnusedItem ELSE s.item[f]
  BY <1>1, <1>8 DEF SelectorType
<1>10. Used(r) = Used(s) \ {fd} /\ Used(gone) = Used(r)
  BY <1>6, <1>8, <1>9 DEF Used, UnusedItem
<1>11. SetsAgree(r)
  <2>1. r.read \cup r.write \subseteq Used(r)
    BY <1>8, <1>10 DEF GoodSelector, SetsAgree, Used
  <2>2. \A f \in Used(r) : f <= r.maxFd
    <3>1. \A f \in Used(gone) : f <= gone.maxFd
      BY <1>6, <1>10 DEF GoodSelector, SetsAgree
    <3>. QED BY <1>7, <1>8, <1>10, <3>1 DEF IsMaxFd
  <2>3. ASSUME NEW f \in Fds \ {AliasFd}
        PROVE  /\ f \in r.read <=> r.item[f].used /\ "READ" \in r.item[f].interest
               /\ f \in r.write <=> r.item[f].used /\ "WRITE" \in r.item[f].interest
    BY <1>8, <1>9 DEF GoodSelector, SetsAgree, UnusedItem
  <2>. QED BY <2>1, <2>2, <2>3 DEF SetsAgree
<1>12. BlankUnlessUsed(r)
  BY <1>9 DEF BlankUnlessUsed, GoodSelector
<1>13. OnlyAsked(r)
  <2>1. fd \notin s.read \ {bit} /\ fd \notin s.write \ {bit}
    BY DEF GoodSelector, OnlyAsked, BlankUnlessUsed, UnusedItem
  <2>2. r.read = s.read \ {bit} /\ r.write = s.write \ {bit}
    BY <1>8
  <2>3. \A f \in Fds \ {fd} : r.item[f] = s.item[f]
    BY <1>9
  <2>. HIDE DEF bit
  <2>. QED BY <2>1, <2>2, <2>3 DEF OnlyAsked, GoodSelector
<1>. QED BY <1>8, <1>11, <1>12, <1>13 DEF GoodSelector, r

\* The double unregistering of CLOSE_CONNECTION keeps it in order too.
LEMMA UnregisterNestedGood ==
    ASSUME NEW s, GoodSelector(s), NEW fd \in Fds
    PROVE  /\ GoodSelector(UnregisterNested(s, fd))
           /\ UnregisterNested(s, fd).item = [s.item EXCEPT ![fd] = UnusedItem]
<1>. DEFINE once == Unregister(s, fd)
<1>1. GoodSelector(once) /\ once.item = [s.item EXCEPT ![fd] = UnusedItem]
  BY UnregisterGood
<1>. HIDE DEF once
<1>2. /\ GoodSelector(Unregister(once, fd))
      /\ Unregister(once, fd).item = [once.item EXCEPT ![fd] = UnusedItem]
  BY <1>1, UnregisterGood
<1>3. [once.item EXCEPT ![fd] = UnusedItem] = [s.item EXCEPT ![fd] = UnusedItem]
  BY <1>1 DEF GoodSelector, SelectorType
<1>. QED BY <1>2, <1>3 DEF UnregisterNested, once

----------------------------------------------------------------------------
(* What every state of the loop has *)

FileKinds == {"free", "listener", "pop3", "monitor", "pipe", "dir"}

Pop3OK(c) ==
    /\ c.kind = "pop3" /\ {"kind", "event", "doing", "pipe"} \subseteq DOMAIN c
    /\ c.doing \in {"greeting", "reading", "replying", "mail"}
    /\ c.pipe \in AllFiles \cup {-1}
    /\ c.doing = "mail" => c.pipe # -1

MonitorOK(c) ==
    /\ c.kind = "monitor"
    /\ {"kind", "event", "peer", "script", "wire", "request", "answer", "performed", "out", "index"}
          \subseteq DOMAIN c
    /\ c.out \in Nat /\ c.index \in Nat
    /\ c.out <= c.index /\ c.index <= AnswerLength(c.answer)

ClientOK(c) == c.kind = "none" \/ Pop3OK(c) \/ MonitorOK(c)

\* A registered descriptor is open, and of its handler's kind.
RegisteredOK(fd) ==
    /\ fd \in AllFiles
    /\ \/ /\ sel.item[fd].handler \in {"accept_pop3", "accept_monitor"}
          /\ files[fd] = "listener" /\ client[fd].kind = "none"
       \/ /\ sel.item[fd].handler \in {"pop3", "monitor"}
          /\ files[fd] = sel.item[fd].handler /\ client[fd].kind = sel.item[fd].handler

\* An open pipe has one connection, which has it while it sends a mail.
PipesOK ==
    \A fd \in Fds : client[fd].kind = "pop3" /\ client[fd].pipe # -1 =>
        /\ files[client[fd].pipe] = "pipe"
        /\ \A g \in Fds : client[g].kind = "pop3" /\ client[g].pipe = client[fd].pipe => g = fd

\* Every file has an owner.
OwnersOK ==
    \A f \in AllFiles :
        /\ files[f] = "listener" => f \in Listeners
        /\ files[f] \in {"pop3", "monitor"} => f \in Fds /\ client[f].kind = files[f]

Own ==
    /\ GoodSelector(sel)
    /\ files \in [AllFiles -> FileKinds]
    /\ DOMAIN client = Fds
    /\ \A fd \in Fds : ClientOK(client[fd])
    /\ \A fd \in Fds : client[fd].kind # "none" => fd \in Used(sel)
    /\ \A fd \in Used(sel) : RegisteredOK(fd)
    /\ PipesOK
    /\ OwnersOK

LoopOK ==
    /\ process \in {"up", "ended", "failed", "crashed"}
    /\ slaveR \subseteq Fds /\ slaveW \subseteq Fds
    /\ cursor \in 0..Idle /\ top \in Fds
    /\ backlog \subseteq Listeners
    /\ slow \in Fds \cup {Nobody}

LoopInv == Own /\ LoopOK

\* The invariant is as strong as the properties it is for.
LEMMA LoopInvImplies == LoopInv => TypeOK /\ WatchedAsAsked /\ OrphansArePipesOrDirs
<1>. SUFFICES ASSUME LoopInv PROVE TypeOK /\ WatchedAsAsked /\ OrphansArePipesOrDirs
  OBVIOUS
<1>. USE DEF LoopInv, Own, LoopOK
<1>1. TypeOK
  <2>1. \A fd \in ClientsOf("pop3") : client[fd].doing \in {"greeting", "reading", "replying", "mail"}
    BY DEF ClientsOf, Clients, ClientOK, Pop3OK, MonitorOK
  <2>2. \A fd \in ClientsOf("monitor") :
          client[fd].out <= client[fd].index /\ client[fd].index <= AnswerLength(client[fd].answer)
    BY DEF ClientsOf, Clients, ClientOK, Pop3OK, MonitorOK
  <2>. QED BY <2>1, <2>2 DEF TypeOK, GoodSelector, FileKinds
<1>2. WatchedAsAsked
  BY DEF WatchedAsAsked, GoodSelector, Registered, RegisteredOK
<1>3. OrphansArePipesOrDirs
  <2>1. ASSUME NEW f \in AllFiles, files[f] # "free" PROVE f \in OwnedFiles \/ files[f] \in {"pipe", "dir"}
    BY <2>1 DEF OwnersOK, OwnedFiles, Clients, FileKinds
  <2>2. ASSUME NEW fd \in Clients
        PROVE  files[fd] = client[fd].kind /\ client[fd].kind = sel.item[fd].handler
    BY <2>2 DEF Clients, RegisteredOK, Used
  <2>. QED BY <2>1, <2>2 DEF OrphansArePipesOrDirs
<1>. QED BY <1>1, <1>2, <1>3

\* write_response_in_buffer never passes the end of the answer.
LEMMA FilledBounds ==
    ASSUME NEW answer, NEW index \in Nat, index <= AnswerLength(answer)
    PROVE  /\ Filled(answer, index) \in Nat
           /\ index + Filled(answer, index) \in Nat
           /\ index + Filled(answer, index) <= AnswerLength(answer)
<1>1. AnswerLength(answer) \in Nat /\ OutSize \in Nat
  BY RequestSizes DEF AnswerLength
<1>. DEFINE S == {OutSize, AnswerLength(answer) - index}
<1>2. S \in SUBSET Nat /\ S # {}
  BY <1>1
<1>3. Min(S) \in S /\ \A y \in S : Min(S) <= y
  <2>. HIDE DEF S
  <2>. QED BY <1>2, MinIsLeast
<1>. QED BY <1>1, <1>2, <1>3 DEF Filled

\* The table the server starts with: the two listening sockets.
LEMMA InitItems ==
    ASSUME Init
    PROVE  /\ GoodSelector(sel) /\ Listeners \subseteq AllFiles
           /\ Pop3Socket \in Fds /\ MonitorSocket \in Fds /\ Pop3Socket # MonitorSocket
           /\ \A fd \in Fds :
                 sel.item[fd] =
                   IF fd = Pop3Socket
                   THEN [used |-> TRUE, interest |-> {"READ"}, handler |-> "accept_pop3"]
                   ELSE IF fd = MonitorSocket
                   THEN [used |-> TRUE, interest |-> {"READ"}, handler |-> "accept_monitor"]
                   ELSE UnusedItem
<1>. USE DEF Init
<1>0. /\ Pop3Socket \in Fds /\ MonitorSocket \in Fds /\ Pop3Socket # MonitorSocket
      /\ {"READ"} \in Interests /\ {"accept_pop3", "accept_monitor"} \subseteq Handlers
      /\ Listeners \subseteq AllFiles
  BY FdSetSizeAssumption, FilesAssumption
     DEF Pop3Socket, MonitorSocket, Listeners, AllFiles, Fds, Interests, Handlers
<1>. DEFINE one == Register(NewSelector, Pop3Socket, "accept_pop3", {"READ"})
<1>1. /\ GoodSelector(one)
      /\ one.item = [NewSelector.item EXCEPT ![Pop3Socket] =
                        [used |-> TRUE, interest |-> {"READ"}, handler |-> "accept_pop3"]]
  <2>1. CanRegister(NewSelector, Pop3Socket)
    BY <1>0 DEF CanRegister, NewSelector, UnusedItem
  <2>2. \A fd \in Fds, handler \in Handlers, interest \in Interests : CanRegister(NewSelector, fd) =>
           /\ GoodSelector(Register(NewSelector, fd, handler, interest))
           /\ Register(NewSelector, fd, handler, interest).item =
                 [NewSelector.item EXCEPT ![fd] = [used |-> TRUE, interest |-> interest, handler |-> handler]]
    BY NewSelectorGood, RegisterGood
  <2>3. "accept_pop3" \in Handlers
    BY <1>0
  <2>. QED BY <1>0, <2>1, <2>2, <2>3
<1>. HIDE DEF one
<1>2. one.item = [fd \in Fds |-> IF fd = Pop3Socket
                     THEN [used |-> TRUE, interest |-> {"READ"}, handler |-> "accept_pop3"]
                     ELSE UnusedItem]
  BY <1>1 DEF NewSelector
<1>3. /\ GoodSelector(sel)
      /\ sel.item = [one.item EXCEPT ![MonitorSocket] =
                        [used |-> TRUE, interest |-> {"READ"}, handler |-> "accept_monitor"]]
  <2>1. CanRegister(one, MonitorSocket)
    BY <1>0, <1>2 DEF CanRegister, UnusedItem
  <2>2. sel = Register(one, MonitorSocket, "accept_monitor", {"READ"})
    BY DEF one
  <2>3. /\ GoodSelector(Register(one, MonitorSocket, "accept_monitor", {"READ"}))
        /\ Register(one, MonitorSocket, "accept_monitor", {"READ"}).item =
              [one.item EXCEPT ![MonitorSocket] =
                  [used |-> TRUE, interest |-> {"READ"}, handler |-> "accept_monitor"]]
    <3>1. GoodSelector(one) /\ "accept_monitor" \in Handlers
      BY <1>0, <1>1
    <3>2. MonitorSocket \in Fds /\ {"READ"} \in Interests
      BY <1>0
    <3>3. \A fd \in Fds, handler \in Handlers, interest \in Interests : CanRegister(one, fd) =>
             /\ GoodSelector(Register(one, fd, handler, interest))
             /\ Register(one, fd, handler, interest).item =
                   [one.item EXCEPT ![fd] = [used |-> TRUE, interest |-> interest, handler |-> handler]]
      BY <3>1, RegisterGood
    <3>. QED BY <2>1, <3>1, <3>2, <3>3
  <2>. QED BY <2>2, <2>3
<1>. QED BY <1>0, <1>2, <1>3

\* The invariant holds at the start.
LEMMA InitLoopInv == Init => LoopInv
<1>. SUFFICES ASSUME Init PROVE LoopInv
  OBVIOUS
<1>. USE DEF Init
<1>0. /\ Pop3Socket \in Fds /\ MonitorSocket \in Fds /\ Pop3Socket # MonitorSocket
      /\ Listeners \subseteq AllFiles /\ GoodSelector(sel)
  BY InitItems
<1>4. \A fd \in Fds :
         /\ fd = Pop3Socket => sel.item[fd].used /\ sel.item[fd].handler = "accept_pop3"
         /\ fd = MonitorSocket => sel.item[fd].used /\ sel.item[fd].handler = "accept_monitor"
         /\ fd \notin Listeners => sel.item[fd] = UnusedItem
  BY <1>0, InitItems DEF Listeners
<1>5. \A fd \in Used(sel) : RegisteredOK(fd)
  BY <1>0, <1>4 DEF Used, UnusedItem, RegisteredOK, Listeners, NoClient
<1>6. files \in [AllFiles -> FileKinds] /\ DOMAIN client = Fds /\ \A fd \in Fds : client[fd].kind = "none"
  BY DEF FileKinds, NoClient
<1>7. LoopOK
  BY FdSetSizeAssumption DEF LoopOK, Idle, Fds
<1>. QED BY <1>0, <1>5, <1>6, <1>7 DEF LoopInv, Own, ClientOK, PipesOK, OwnersOK

----------------------------------------------------------------------------
(* The ways a handler changes connections and files *)

\* Only the interest of a descriptor changes.
ItemsKept ==
    /\ GoodSelector(sel')
    /\ Used(sel') = Used(sel)
    /\ \A f \in Fds : sel'.item[f].handler = sel.item[f].handler

\* Setting an interest leaves handlers and registrations alone.
LEMMA SetInterestKeepsItems ==
    ASSUME Own, NEW fd \in Fds, NEW interest \in Interests, sel' = SetInterest(sel, fd, interest)
    PROVE  ItemsKept
<1>1. /\ GoodSelector(sel')
      /\ sel'.item = IF sel.item[fd].used THEN [sel.item EXCEPT ![fd].interest = interest] ELSE sel.item
  <2>1. GoodSelector(sel)
    BY DEF Own
  <2>2. \A f \in Fds, i \in Interests :
           /\ GoodSelector(SetInterest(sel, f, i))
           /\ SetInterest(sel, f, i).item =
                 IF sel.item[f].used THEN [sel.item EXCEPT ![f].interest = i] ELSE sel.item
    BY <2>1, SetInterestGood
  <2>. QED BY <2>2
<1>2. \A f \in Fds : sel.item[f] \in ItemType
  BY DEF Own, GoodSelector, SelectorType, ItemType
<1>3. \A f \in Fds : (sel'.item[f].used <=> sel.item[f].used) /\ sel'.item[f].handler = sel.item[f].handler
  BY <1>1, <1>2 DEF ItemType, Own, GoodSelector, SelectorType
<1>. QED BY <1>1, <1>3 DEF ItemsKept, Used

\* A handler changes the connection it is called for, and no file.
LEMMA TouchKeeps ==
    ASSUME Own, NEW fd \in Fds, client[fd].kind # "none", ItemsKept, files' = files,
           DOMAIN client' = Fds, \A g \in Fds \ {fd} : client'[g] = client[g],
           ClientOK(client'[fd]), client'[fd].kind = client[fd].kind,
           client[fd].kind = "pop3" => client'[fd].pipe \in {-1, client[fd].pipe}
    PROVE  Own'
<1>. USE DEF Own
<1>1. \A g \in Fds : ClientOK(client'[g]) /\ client'[g].kind = client[g].kind
  OBVIOUS
<1>2. \A g \in Used(sel') : RegisteredOK(g)'
  BY <1>1 DEF ItemsKept, RegisteredOK, Used
<1>3. PipesOK'
  <2>1. \A g \in Fds : client[g].kind = "pop3" => client'[g].pipe \in {-1, client[g].pipe}
    OBVIOUS
  <2>. QED BY <1>1, <2>1 DEF PipesOK
<1>4. OwnersOK'
  BY <1>1 DEF OwnersOK
<1>. QED BY <1>1, <1>2, <1>3, <1>4 DEF ItemsKept

\* The pipe of a mail is opened.
LEMMA OpenPipeKeeps ==
    ASSUME Own, NEW fd \in Fds, client[fd].kind = "pop3", ItemsKept,
           NEW p \in FreeFiles, files' = [files EXCEPT ![p] = "pipe"],
           DOMAIN client' = Fds, \A g \in Fds \ {fd} : client'[g] = client[g],
           Pop3OK(client'[fd]), client'[fd].pipe = p
    PROVE  Own'
<1>. USE DEF Own
<1>0. p \in AllFiles /\ files[p] = "free"
  BY DEF FreeFiles
<1>1. \A g \in Fds : ClientOK(client'[g]) /\ client'[g].kind = client[g].kind
  BY DEF ClientOK, Pop3OK
<1>2. files' \in [AllFiles -> FileKinds] /\ \A f \in AllFiles : files'[f] = IF f = p THEN "pipe" ELSE files[f]
  BY <1>0 DEF FileKinds
<1>3. \A g \in Used(sel') : RegisteredOK(g)'
  BY <1>0, <1>1, <1>2 DEF ItemsKept, RegisteredOK, Used
<1>4. PipesOK'
  <2>1. ASSUME NEW g \in Fds, client[g].kind = "pop3", client[g].pipe # -1
        PROVE  client[g].pipe \in AllFiles /\ client[g].pipe # p
    BY <1>0, <2>1 DEF PipesOK, ClientOK, Pop3OK, MonitorOK
  <2>. QED BY <1>0, <1>1, <1>2, <2>1 DEF PipesOK
<1>5. OwnersOK'
  BY <1>0, <1>1, <1>2 DEF OwnersOK
<1>. QED BY <1>1, <1>2, <1>3, <1>4, <1>5 DEF ItemsKept

\* At the end of a mail its pipe is closed.
LEMMA ClosePipeKeeps ==
    ASSUME Own, NEW fd \in Fds, client[fd].kind = "pop3", client[fd].doing = "mail", ItemsKept,
           files' = [files EXCEPT ![client[fd].pipe] = "free"],
           DOMAIN client' = Fds, \A g \in Fds \ {fd} : client'[g] = client[g],
           Pop3OK(client'[fd]), client'[fd].pipe = -1
    PROVE  Own'
<1>. USE DEF Own
<1>. DEFINE p == client[fd].pipe
<1>0. p \in AllFiles /\ p # -1 /\ files[p] = "pipe"
  BY DEF PipesOK, ClientOK, Pop3OK, MonitorOK
<1>1. \A g \in Fds : ClientOK(client'[g]) /\ client'[g].kind = client[g].kind
  BY DEF ClientOK, Pop3OK
<1>. HIDE DEF p
<1>2. files' \in [AllFiles -> FileKinds] /\ \A f \in AllFiles : files'[f] = IF f = p THEN "free" ELSE files[f]
  BY <1>0 DEF FileKinds, p
<1>3. \A g \in Used(sel') : RegisteredOK(g)'
  BY <1>0, <1>1, <1>2 DEF ItemsKept, RegisteredOK, Used
<1>4. PipesOK'
  <2>1. ASSUME NEW g \in Fds, g # fd, client[g].kind = "pop3", client[g].pipe # -1
        PROVE  client[g].pipe \in AllFiles /\ client[g].pipe # p
    BY <1>0, <2>1 DEF PipesOK, ClientOK, Pop3OK, MonitorOK, p
  <2>. QED BY <1>0, <1>1, <1>2, <2>1 DEF PipesOK
<1>5. OwnersOK'
  BY <1>0, <1>1, <1>2 DEF OwnersOK
<1>. QED BY <1>1, <1>2, <1>3, <1>4, <1>5 DEF ItemsKept

\* The ways of closing a connection: its descriptor is free again, and what
\* was free may be a directory left open.
LEMMA ReleaseKeeps ==
    ASSUME Own, NEW fd \in Fds, client[fd].kind # "none", client' = [client EXCEPT ![fd] = NoClient],
           files' \in [AllFiles -> FileKinds], files'[fd] = "free",
           \A f \in AllFiles \ {fd} :
              files'[f] = files[f] \/ (files[f] = "free" /\ files'[f] = "dir"),
           GoodSelector(sel'), sel'.item = [sel.item EXCEPT ![fd] = UnusedItem]
    PROVE  Own'
<1>. USE DEF Own
<1>0. fd \in AllFiles /\ files[fd] \in {"pop3", "monitor"}
  BY DEF RegisteredOK
<1>1. /\ DOMAIN client' = Fds
      /\ \A g \in Fds : client'[g] = IF g = fd THEN NoClient ELSE client[g]
  OBVIOUS
<1>2. \A f \in AllFiles : files'[f] \in {"free", "dir"} \/ (f # fd /\ files'[f] = files[f] /\ files[f] # "free")
  OBVIOUS
<1>a. \A f \in AllFiles : f # fd /\ files[f] # "free" => files'[f] = files[f]
  OBVIOUS
<1>3. \A f \in Fds : sel'.item[f] = IF f = fd THEN UnusedItem ELSE sel.item[f]
  BY DEF GoodSelector, SelectorType
<1>4. Used(sel') = Used(sel) \ {fd}
  BY <1>3 DEF Used, UnusedItem
<1>5. \A g \in Fds : ClientOK(client'[g])
  BY <1>1 DEF ClientOK, NoClient
<1>6. \A g \in Fds : client'[g].kind # "none" => g \in Used(sel')
  BY <1>1, <1>4 DEF NoClient
<1>7. \A g \in Used(sel') : RegisteredOK(g)'
  BY <1>1, <1>a, <1>3, <1>4 DEF RegisteredOK, Used
<1>8. PipesOK'
  <2>1. ASSUME NEW g \in Fds, client[g].kind = "pop3", client[g].pipe # -1
        PROVE  client[g].pipe \in AllFiles /\ client[g].pipe # fd
    BY <1>0, <2>1 DEF PipesOK, ClientOK, Pop3OK, MonitorOK
  <2>. QED BY <1>1, <1>a, <2>1 DEF PipesOK, NoClient
<1>9. OwnersOK'
  BY <1>1, <1>2 DEF OwnersOK, NoClient
<1>. QED BY <1>1, <1>5, <1>6, <1>7, <1>8, <1>9

\* accept and popen are given a descriptor that is free.
LEMMA LowestFree ==
    ASSUME FreeFiles # {}
    PROVE  Min(FreeFiles) \in FreeFiles /\ Min(FreeFiles) \in AllFiles /\ files[Min(FreeFiles)] = "free"
<1>1. FreeFiles \in SUBSET Nat
  BY FilesAssumption DEF FreeFiles, AllFiles
<1>2. Min(FreeFiles) \in FreeFiles
  BY <1>1, MinIsLeast
<1>. QED BY <1>2 DEF FreeFiles

\* Closing a connection leaves the others their descriptors.
LEMMA CloseKeeps ==
    ASSUME Own, NEW fd \in Fds, client[fd].kind # "none",
           Close(fd) \/ CloseByJump(fd) \/ PassFails(fd)
    PROVE  Own'
<1>1. GoodSelector(sel) /\ fd \in AllFiles /\ files \in [AllFiles -> FileKinds] /\ files[fd] # "free"
  BY DEF Own, RegisteredOK
<1>2. GoodSelector(sel') /\ sel'.item = [sel.item EXCEPT ![fd] = UnusedItem]
  BY <1>1, UnregisterGood, UnregisterNestedGood DEF Close, CloseByJump, PassFails
<1>3. client' = [client EXCEPT ![fd] = NoClient]
  BY DEF Close, CloseByJump, PassFails, Release
<1>4. CASE Close(fd) \/ CloseByJump(fd)
  <2>1. files' = [files EXCEPT ![fd] = "free"]
    BY <1>4 DEF Close, CloseByJump, Release
  <2>. QED BY <1>1, <1>2, <1>3, <2>1, ReleaseKeeps DEF FileKinds
<1>5. CASE PassFails(fd)
  <2>. DEFINE p == Min(FreeFiles)
  <2>1. p \in AllFiles /\ files[p] = "free" /\ files' = [files EXCEPT ![p] = "dir", ![fd] = "free"]
    BY <1>5, LowestFree DEF PassFails
  <2>. HIDE DEF p
  <2>. QED BY <1>1, <1>2, <1>3, <2>1, ReleaseKeeps DEF FileKinds
<1>. QED BY <1>4, <1>5

\* A connection that is taken in owns its descriptor.
LEMMA TakeInKeeps ==
    ASSUME Own, FreeFiles # {}, NEW kind \in {"pop3", "monitor"}, NEW interest \in Interests,
           NEW fresh, ClientOK(fresh), fresh.kind = kind, kind = "pop3" => fresh.pipe = -1,
           TakeIn(kind, interest, fresh)
    PROVE  Own'
<1>. USE DEF Own
<1>. DEFINE fd == Min(FreeFiles)
<1>0. fd \in AllFiles /\ files[fd] = "free"
  BY LowestFree
<1>. HIDE DEF fd
<1>1. CASE ~CanRegister(sel, fd)
  <2>1. UNCHANGED <<sel, files, client>>
    BY <1>1 DEF TakeIn, fd
  <2>. QED BY <2>1 DEF RegisteredOK, PipesOK, OwnersOK
<1>2. CASE CanRegister(sel, fd)
  <2>1. /\ sel' = Register(sel, fd, kind, interest)
        /\ files' = [files EXCEPT ![fd] = kind]
        /\ client' = [client EXCEPT ![fd] = fresh]
    BY <1>2 DEF TakeIn, fd
  <2>2. fd \in Fds /\ fd \notin Used(sel) /\ client[fd].kind = "none"
    BY <1>2 DEF CanRegister, Used
  <2>3. /\ GoodSelector(sel')
        /\ sel'.item = [sel.item EXCEPT ![fd] =
                           [used |-> TRUE, interest |-> interest, handler |-> kind]]
    <3>1. GoodSelector(sel) /\ kind \in Handlers
      BY DEF Handlers
    <3>2. \A f \in Fds, h \in Handlers, i \in Interests : CanRegister(sel, f) =>
             /\ GoodSelector(Register(sel, f, h, i))
             /\ Register(sel, f, h, i).item =
                   [sel.item EXCEPT ![f] = [used |-> TRUE, interest |-> i, handler |-> h]]
      BY <3>1, RegisterGood
    <3>. QED BY <1>2, <2>1, <2>2, <3>1, <3>2
  <2>4. \A f \in Fds : /\ f # fd => sel'.item[f] = sel.item[f]
                       /\ f = fd => sel'.item[f].used /\ sel'.item[f].handler = kind
    BY <2>3 DEF GoodSelector, SelectorType
  <2>5. Used(sel') = Used(sel) \cup {fd}
    BY <2>2, <2>4 DEF Used
  <2>6. DOMAIN client' = Fds /\ \A f \in Fds : client'[f] = IF f = fd THEN fresh ELSE client[f]
    BY <2>1
  <2>7. files' \in [AllFiles -> FileKinds] /\ \A f \in AllFiles : files'[f] = IF f = fd THEN kind ELSE files[f]
    BY <1>0, <2>1 DEF FileKinds
  <2>8. \A f \in Fds : ClientOK(client'[f])
    BY <2>6
  <2>9. \A f \in Fds : client'[f].kind # "none" => f \in Used(sel')
    BY <2>5, <2>6
  <2>10. \A f \in Used(sel') : RegisteredOK(f)'
    BY <1>0, <2>2, <2>4, <2>5, <2>6, <2>7 DEF RegisteredOK, Used
  <2>11. PipesOK'
    <3>1. ASSUME NEW f \in Fds, client[f].kind = "pop3", client[f].pipe # -1
          PROVE  client[f].pipe \in AllFiles /\ client[f].pipe # fd
      BY <1>0, <3>1 DEF PipesOK, ClientOK, Pop3OK, MonitorOK
    <3>. QED BY <2>2, <2>6, <2>7, <3>1 DEF PipesOK
  <2>12. OwnersOK'
    BY <1>0, <2>2, <2>6, <2>7 DEF OwnersOK
  <2>. QED BY <2>3, <2>6, <2>7, <2>8, <2>9, <2>10, <2>11, <2>12
<1>. QED BY <1>1, <1>2

\* Ownership is about the table, the files and the client data alone.
LEMMA UnchangedKeeps == Own /\ UNCHANGED <<sel, files, client>> => Own'
BY DEF Own, RegisteredOK, PipesOK, OwnersOK

----------------------------------------------------------------------------
(* The handlers *)

\* Both accept handlers keep ownership.
LEMMA AcceptKeeps == Own /\ (AcceptPop3 \/ AcceptMonitor) => Own'
<1>. SUFFICES ASSUME Own, AcceptPop3 \/ AcceptMonitor PROVE Own'
  OBVIOUS
<1>1. {"READ"} \in Interests /\ {"WRITE"} \in Interests
  BY DEF Interests
<1>2. ClientOK(NewPop3) /\ NewPop3.kind = "pop3" /\ NewPop3.pipe = -1
  BY DEF NewPop3, ClientOK, Pop3OK
<1>3. \A script \in Scripts : ClientOK(NewMonitor(script)) /\ NewMonitor(script).kind = "monitor"
  BY DEF NewMonitor, ClientOK, MonitorOK, AnswerLength
<1>4. CASE AcceptPop3
  <2>1. CASE UNCHANGED <<sel, files, client>>
    BY <2>1, UnchangedKeeps
  <2>2. CASE FreeFiles # {} /\ TakeIn("pop3", {"WRITE"}, NewPop3)
    BY <1>1, <1>2, <2>2, TakeInKeeps
  <2>. QED BY <1>4, <2>1, <2>2 DEF AcceptPop3
<1>5. CASE AcceptMonitor
  <2>1. CASE UNCHANGED <<sel, files, client>>
    BY <2>1, UnchangedKeeps
  <2>2. ASSUME FreeFiles # {}, NEW script \in Scripts, TakeIn("monitor", {"READ"}, NewMonitor(script))
        PROVE  Own'
    BY <1>1, <1>3, <2>2, TakeInKeeps
  <2>. QED BY <1>5, <2>1, <2>2 DEF AcceptMonitor
<1>. QED BY <1>4, <1>5

\* A handler that goes on to something else keeps ownership.
LEMMA DoingKeeps ==
    ASSUME Own, NEW fd \in Fds, client[fd].kind = "pop3", NEW interest \in {{"READ"}, {"WRITE"}},
           NEW what \in {"greeting", "reading", "replying"}, Doing(fd, what, interest)
    PROVE  Own'
<1>1. ItemsKept
  BY SetInterestKeepsItems DEF Doing, Interests
<1>2. /\ DOMAIN client' = Fds
      /\ \A g \in Fds \ {fd} : client'[g] = client[g]
      /\ DOMAIN client'[fd] = DOMAIN client[fd]
  BY DEF Doing, Own
<1>3. Pop3OK(client[fd])
  BY DEF Own, ClientOK, MonitorOK
<1>4. client'[fd].kind = "pop3" /\ client'[fd].doing = what /\ client'[fd].pipe = -1
  BY <1>3 DEF Doing, Own, Pop3OK
<1>5. Pop3OK(client'[fd])
  BY <1>2, <1>3, <1>4 DEF Pop3OK
<1>. QED BY <1>1, <1>2, <1>4, <1>5, TouchKeeps DEF ClientOK, Doing

\* RETR, which may open a pipe, keeps ownership.
LEMMA SendMailKeeps ==
    ASSUME Own, NEW fd \in Fds, client[fd].kind = "pop3", SendMail(fd)
    PROVE  Own'
<1>. DEFINE p == Min(FreeFiles)
<1>0. p \in FreeFiles /\ p \in AllFiles
  BY LowestFree DEF SendMail
<1>1. ItemsKept
  BY SetInterestKeepsItems DEF SendMail, Interests
<1>. HIDE DEF p
<1>2. /\ DOMAIN client' = Fds
      /\ \A g \in Fds \ {fd} : client'[g] = client[g]
      /\ DOMAIN client'[fd] = DOMAIN client[fd]
      /\ files' = [files EXCEPT ![p] = "pipe"]
  BY DEF SendMail, Own, p
<1>3. Pop3OK(client[fd])
  BY DEF Own, ClientOK, MonitorOK
<1>4. client'[fd].kind = "pop3" /\ client'[fd].doing = "mail" /\ client'[fd].pipe = p
  BY <1>3 DEF SendMail, Own, Pop3OK, p
<1>5. Pop3OK(client'[fd])
  BY <1>0, <1>2, <1>3, <1>4, FilesAssumption DEF Pop3OK, AllFiles
<1>. QED BY <1>0, <1>1, <1>2, <1>4, <1>5, OpenPipeKeeps

\* The read handler of POP3 keeps ownership.
LEMMA Pop3ReadKeeps ==
    ASSUME Own, NEW fd \in Fds, client[fd].kind = "pop3", Pop3Read(fd)
    PROVE  Own'
<1>1. CASE Doing(fd, "reading", {"READ"})
  BY <1>1, DoingKeeps
<1>2. CASE Doing(fd, "replying", {"WRITE"})
  BY <1>2, DoingKeeps
<1>3. CASE SendMail(fd)
  BY <1>3, SendMailKeeps
<1>4. CASE Close(fd) \/ CloseByJump(fd) \/ PassFails(fd)
  BY <1>4, CloseKeeps
<1>. QED BY <1>1, <1>2, <1>3, <1>4 DEF Pop3Read

\* So does its write handler.
LEMMA Pop3WriteKeeps ==
    ASSUME Own, NEW fd \in Fds, client[fd].kind = "pop3", Pop3Write(fd)
    PROVE  Own'
<1>0. Pop3OK(client[fd])
  BY DEF Own, ClientOK, MonitorOK
<1>1. CASE client[fd].doing # "mail" /\ Doing(fd, client[fd].doing, {"WRITE"})
  BY <1>0, <1>1, DoingKeeps DEF Pop3OK
<1>2. CASE Doing(fd, "reading", {"READ"})
  BY <1>2, DoingKeeps
<1>3. CASE Doing(fd, "replying", {"WRITE"})
  BY <1>3, DoingKeeps
<1>4. CASE SendMail(fd)
  BY <1>4, SendMailKeeps
<1>5. CASE Close(fd) \/ CloseByJump(fd) \/ PassFails(fd)
  BY <1>5, CloseKeeps
<1>. QED BY <1>1, <1>2, <1>3, <1>4, <1>5 DEF Pop3Write

\* So does the sending of a mail, which closes the pipe.
LEMMA Pop3WriteMailKeeps ==
    ASSUME Own, NEW fd \in Fds, client[fd].kind = "pop3", Pop3WriteMail(fd)
    PROVE  Own'
<1>0. Pop3OK(client[fd])
  BY DEF Own, ClientOK, MonitorOK
<1>1. ItemsKept
  BY DEF Pop3WriteMail, ItemsKept, Own
<1>2. /\ DOMAIN client' = Fds
      /\ \A g \in Fds \ {fd} : client'[g] = client[g]
      /\ DOMAIN client'[fd] = DOMAIN client[fd]
  BY DEF Pop3WriteMail, Own
<1>3. CASE client' = [client EXCEPT ![fd].event = FALSE] /\ files' = files
  <2>1. /\ client'[fd].kind = "pop3" /\ client'[fd].doing = client[fd].doing
        /\ client'[fd].pipe = client[fd].pipe
    BY <1>0, <1>3 DEF Own, Pop3OK
  <2>. QED BY <1>0, <1>1, <1>2, <1>3, <2>1, TouchKeeps DEF ClientOK, Pop3OK
<1>4. CASE /\ client' = [client EXCEPT ![fd].event = FALSE, ![fd].doing = "replying", ![fd].pipe = -1]
           /\ files' = [files EXCEPT ![client[fd].pipe] = "free"]
  <2>1. client'[fd].kind = "pop3" /\ client'[fd].doing = "replying" /\ client'[fd].pipe = -1
    BY <1>0, <1>4 DEF Own, Pop3OK
  <2>2. Pop3OK(client'[fd])
    BY <1>0, <1>2, <2>1 DEF Pop3OK
  <2>. QED BY <1>1, <1>2, <1>4, <2>1, <2>2, ClosePipeKeeps DEF Pop3WriteMail
<1>. QED BY <1>3, <1>4 DEF Pop3WriteMail

\* A monitor handler that changes its own client data keeps ownership.
LEMMA MonitorTouched ==
    ASSUME Own, NEW fd \in Fds, client[fd].kind = "monitor", ItemsKept, files' = files,
           DOMAIN client' = Fds, \A g \in Fds \ {fd} : client'[g] = client[g], MonitorOK(client'[fd])
    PROVE  Own'
BY TouchKeeps DEF ClientOK, MonitorOK

\* Receiving a piece of a request keeps ownership.
LEMMA MonitorReceiveKeeps ==
    ASSUME Own, NEW fd \in Fds, client[fd].kind = "monitor",
           NEW n \in 1..Len(client[fd].wire), MonitorReceive(fd, n)
    PROVE  Own'
<1>. DEFINE c == client[fd]
            chunk == SubSeq(c.wire, 1, n)
            rest == SubSeq(c.wire, n + 1, Len(c.wire))
            end == RequestEnd(c.request, chunk)
            length == IF end = 0 THEN Len(c.request) + n ELSE end
            whole == SubSeq(c.request \o chunk, 1, end - 2)
<1>0. MonitorOK(client[fd]) /\ DOMAIN client = Fds
  BY DEF Own, ClientOK, Pop3OK
<1>1. CASE Close(fd)
  BY <1>1, CloseKeeps
<1>2. CASE /\ client' = [client EXCEPT ![fd].event = FALSE, ![fd].wire = rest, ![fd].request = @ \o chunk]
           /\ UNCHANGED <<sel, files>>
  <2>. HIDE DEF chunk, rest
  <2>1. ItemsKept
    BY <1>2 DEF ItemsKept, Own
  <2>2. \A g \in Fds \ {fd} : client'[g] = client[g]
    BY <1>0, <1>2
  <2>3. /\ DOMAIN client' = Fds /\ DOMAIN client'[fd] = DOMAIN client[fd]
        /\ client'[fd].kind = "monitor" /\ client'[fd].answer = client[fd].answer
        /\ client'[fd].out = client[fd].out /\ client'[fd].index = client[fd].index
    BY <1>0, <1>2 DEF MonitorOK
  <2>4. MonitorOK(client'[fd])
    BY <1>0, <2>3 DEF MonitorOK
  <2>. QED BY <1>2, <2>1, <2>2, <2>3, <2>4, MonitorTouched
<1>3. ASSUME NEW o \in RequestOutcomes(whole),
             client' = [client EXCEPT
                    ![fd].event = FALSE, ![fd].wire = rest, ![fd].request = @ \o chunk,
                    ![fd].answer = o.answer, ![fd].performed = @ \o o.performed,
                    ![fd].out = Filled(o.answer, 0), ![fd].index = Filled(o.answer, 0)],
             sel' = SetInterest(sel, fd, {"WRITE"}), files' = files
      PROVE  Own'
  <2>. DEFINE answer == o.answer
              filled == Filled(answer, 0)
  <2>0. AnswerLength(answer) \in Nat
    BY RequestSizes DEF AnswerLength
  <2>1. filled \in Nat /\ filled <= AnswerLength(answer)
    <3>. HIDE DEF answer
    <3>1. 0 + filled <= AnswerLength(answer) /\ filled \in Nat
      BY <2>0, FilledBounds
    <3>. QED BY <2>0, <3>1
  <2>2. client' = [client EXCEPT
                    ![fd].event = FALSE, ![fd].wire = rest, ![fd].request = @ \o chunk,
                    ![fd].answer = answer, ![fd].performed = @ \o o.performed,
                    ![fd].out = filled, ![fd].index = filled]
    BY <1>3
  <2>. HIDE DEF chunk, rest, filled, answer
  <2>3. ItemsKept
    BY <1>3, SetInterestKeepsItems DEF Interests
  <2>4. \A g \in Fds \ {fd} : client'[g] = client[g]
    BY <1>0, <2>2
  <2>5. /\ DOMAIN client' = Fds /\ DOMAIN client'[fd] = DOMAIN client[fd]
        /\ client'[fd].kind = "monitor" /\ client'[fd].answer = answer
        /\ client'[fd].out = filled /\ client'[fd].index = filled
    BY <1>0, <2>2 DEF MonitorOK
  <2>6. MonitorOK(client'[fd])
    BY <1>0, <2>1, <2>5 DEF MonitorOK
  <2>. QED BY <1>3, <2>3, <2>4, <2>5, <2>6, MonitorTouched
<1>. QED BY <1>1, <1>2, <1>3 DEF MonitorReceive

\* Sending a piece of an answer keeps ownership.
LEMMA MonitorWriteKeeps ==
    ASSUME Own, NEW fd \in Fds, client[fd].kind = "monitor", MonitorWrite(fd)
    PROVE  Own'
<1>0. MonitorOK(client[fd]) /\ DOMAIN client = Fds
  BY DEF Own, ClientOK, Pop3OK
<1>1. CASE Close(fd)
  BY <1>1, CloseKeeps
<1>2. CASE /\ client' = [client EXCEPT
                  ![fd].event = FALSE, ![fd].out = Filled(client[fd].answer, client[fd].index),
                  ![fd].index = @ + Filled(client[fd].answer, client[fd].index)]
           /\ UNCHANGED <<sel, files>>
  <2>. DEFINE filled == Filled(client[fd].answer, client[fd].index)
  <2>1. /\ filled \in Nat /\ client[fd].index + filled \in Nat
        /\ client[fd].index + filled <= AnswerLength(client[fd].answer)
    BY <1>0, FilledBounds DEF MonitorOK
  <2>2. client' = [client EXCEPT ![fd].event = FALSE, ![fd].out = filled, ![fd].index = @ + filled]
    BY <1>2
  <2>. HIDE DEF filled
  <2>3. ItemsKept
    BY <1>2 DEF ItemsKept, Own
  <2>4. \A g \in Fds \ {fd} : client'[g] = client[g]
    BY <1>0, <2>2
  <2>5. /\ DOMAIN client' = Fds /\ DOMAIN client'[fd] = DOMAIN client[fd]
        /\ client'[fd].kind = "monitor" /\ client'[fd].answer = client[fd].answer
        /\ client'[fd].out = filled /\ client'[fd].index = client[fd].index + filled
    BY <1>0, <2>2 DEF MonitorOK
  <2>6. MonitorOK(client'[fd])
    BY <1>0, <2>1, <2>5 DEF MonitorOK
  <2>. QED BY <1>2, <2>3, <2>4, <2>5, <2>6, MonitorTouched
<1>. QED BY <1>1, <1>2 DEF MonitorWrite

----------------------------------------------------------------------------
(* The loop *)

\* A call of handle_iteration goes to a descriptor that is registered at the
\* time of the call.
LEMMA CalledIsRegistered ==
    ASSUME LoopInv, Called # {}, NEW fd \in Fds, NEW side \in {"read", "write"},
           NextCall = Place(fd, side)
    PROVE  fd \in Used(sel) /\ NextCall + 1 \in 0..Idle
<1>. USE DEF LoopInv, LoopOK
<1>1. Called \in SUBSET Nat
  BY FdSetSizeAssumption DEF Called, Idle, Fds
<1>2. NextCall \in Called
  BY <1>1, MinIsLeast DEF NextCall
<1>3. PICK f \in Fds : \/ NextCall = Place(f, "read") /\ "READ" \in sel.item[f].interest
                       \/ NextCall = Place(f, "write") /\ "WRITE" \in sel.item[f].interest
  BY <1>2 DEF Called
<1>4. f = fd
  <2>1. f \in Nat /\ fd \in Nat
    BY FdSetSizeAssumption DEF Fds
  <2>2. 2 * f = 2 * fd \/ 2 * f + 1 = 2 * fd + 1 \/ 2 * f = 2 * fd + 1 \/ 2 * f + 1 = 2 * fd
    BY <1>3 DEF Place
  <2>. QED BY <2>1, <2>2
<1>5. fd \in Used(sel)
  BY <1>3, <1>4 DEF Own, GoodSelector, BlankUnlessUsed, UnusedItem, Used
<1>6. NextCall + 1 \in 0..Idle
  BY FdSetSizeAssumption DEF Place, Idle, Fds
<1>. QED BY <1>5, <1>6

OutcomesOK == process \in {"up", "ended", "failed", "crashed"} /\ backlog \subseteq Listeners

\* Whatever handler is called, ownership is kept.
LEMMA HandleKeeps ==
    ASSUME Own, OutcomesOK, NEW fd \in Used(sel), NEW side \in {"read", "write"}, Handle(fd, side)
    PROVE  Own' /\ OutcomesOK'
<1>0. fd \in Fds /\ RegisteredOK(fd)
  BY DEF Own, Used
<1>1. CASE sel.item[fd].handler \in {"accept_pop3", "accept_monitor"}
  <2>1. AcceptPop3 \/ AcceptMonitor
    BY <1>1 DEF Handle
  <2>. QED BY <2>1, AcceptKeeps DEF OutcomesOK, AcceptPop3, AcceptMonitor
<1>2. CASE sel.item[fd].handler = "pop3"
  <2>0. client[fd].kind = "pop3"
    BY <1>0, <1>2 DEF RegisteredOK
  <2>1. CASE Pop3Read(fd)
    BY <1>0, <2>0, <2>1, Pop3ReadKeeps
       DEF OutcomesOK, Pop3Read, Doing, SendMail, PassFails, Close, CloseByJump, Release
  <2>2. CASE Pop3Write(fd)
    BY <1>0, <2>0, <2>2, Pop3WriteKeeps
       DEF OutcomesOK, Pop3Write, Doing, SendMail, PassFails, Close, CloseByJump, Release
  <2>3. CASE Pop3WriteMail(fd)
    BY <1>0, <2>0, <2>3, Pop3WriteMailKeeps DEF OutcomesOK, Pop3WriteMail
  <2>. QED BY <1>2, <2>1, <2>2, <2>3 DEF Handle
<1>3. CASE sel.item[fd].handler = "monitor"
  <2>0. client[fd].kind = "monitor"
    BY <1>0, <1>3 DEF RegisteredOK
  <2>1. ASSUME NEW n \in 1..Len(client[fd].wire), MonitorReceive(fd, n) PROVE Own' /\ OutcomesOK'
    BY <1>0, <2>0, <2>1, MonitorReceiveKeeps DEF OutcomesOK, MonitorReceive, Close, Release
  <2>2. CASE Close(fd)
    BY <1>0, <2>0, <2>2, CloseKeeps DEF OutcomesOK, Close, Release
  <2>3. CASE MonitorWrite(fd)
    BY <1>0, <2>0, <2>3, MonitorWriteKeeps DEF OutcomesOK, MonitorWrite, Close, Release
  <2>. QED BY <1>3, <2>1, <2>2, <2>3 DEF Handle, MonitorRead
<1>. QED BY <1>0, <1>1, <1>2, <1>3 DEF RegisteredOK

\* A step of the loop keeps the invariant.
LEMMA LoopKeepsInv == LoopInv /\ Loop => LoopInv'
<1>. SUFFICES ASSUME LoopInv, Loop PROVE LoopInv'
  OBVIOUS
<1>. USE DEF LoopInv
<1>1. CASE Select
  <2>1. Own'
    BY <1>1, UnchangedKeeps DEF Select
  <2>2. cursor' \in 0..Idle /\ top' \in Fds
    BY <1>1, FdSetSizeAssumption DEF Select, Idle, Own, GoodSelector, SelectorType
  <2>3. slaveR' \subseteq Fds /\ slaveW' \subseteq Fds
    BY <1>1 DEF Select, Own, GoodSelector, SelectorType
  <2>. QED BY <1>1, <2>1, <2>2, <2>3 DEF Select, LoopOK
<1>2. CASE CallHandler
  <2>1. PICK fd \in Fds, side \in {"read", "write"} : NextCall = Place(fd, side) /\ Handle(fd, side)
    BY <1>2 DEF CallHandler
  <2>2. fd \in Used(sel) /\ NextCall + 1 \in 0..Idle
    BY <1>2, <2>1, CalledIsRegistered DEF CallHandler
  <2>3. Own' /\ OutcomesOK'
    BY <2>1, <2>2, HandleKeeps DEF OutcomesOK, LoopOK
  <2>. QED BY <1>2, <2>2, <2>3 DEF CallHandler, LoopOK, OutcomesOK
<1>3. CASE EndRound
  <2>1. Own'
    BY <1>3, UnchangedKeeps DEF EndRound
  <2>2. Idle \in 0..Idle /\ 0 \in Fds
    BY FdSetSizeAssumption DEF Idle, Fds
  <2>. QED BY <1>3, <2>1, <2>2 DEF EndRound, LoopOK
<1>. QED BY <1>1, <1>2, <1>3 DEF Loop

\* So does the end of the process.
LEMMA TerminateKeepsInv == LoopInv /\ Terminate => LoopInv'
<1>. SUFFICES ASSUME LoopInv, Terminate PROVE LoopInv'
  OBVIOUS
<1>. USE DEF LoopInv, Own
<1>1. GoodSelector(sel') /\ Used(sel') = {}
  BY NewSelectorGood DEF Terminate, NewSelector, Used, UnusedItem
<1>2. DOMAIN client' = Fds /\ \A fd \in Fds : client'[fd].kind = "none"
  BY DEF Terminate, NoClient
<1>3. /\ files' \in [AllFiles -> FileKinds]
      /\ \A f \in AllFiles : files'[f] = IF f \in Clients THEN "free" ELSE files[f]
  BY DEF Terminate, FileKinds
<1>4. OwnersOK'
  BY <1>3 DEF OwnersOK, Clients, FileKinds
<1>5. PipesOK'
  BY <1>2 DEF PipesOK
<1>6. \A fd \in Fds : ClientOK(client'[fd])
  BY <1>2 DEF ClientOK
<1>7. LoopOK'
  BY DEF Terminate, LoopOK
<1>. QED BY <1>1, <1>2, <1>3, <1>4, <1>5, <1>6, <1>7

\* A change of a connection that its handlers do not make: only what is
\* outside of the server has changed.
LEMMA OutsideKeepsInv == LoopInv /\ Outside => LoopInv'
<1>. SUFFICES ASSUME LoopInv, Outside PROVE LoopInv'
  OBVIOUS
<1>. USE DEF LoopInv
<1>1. ASSUME NEW socket \in Listeners, Connect(socket) PROVE LoopInv'
  <2>1. Own'
    BY <1>1, UnchangedKeeps DEF Connect
  <2>. QED BY <1>1, <2>1 DEF Connect, LoopOK, loopVars
<1>2. ASSUME NEW fd \in Fds, Arise(fd) \/ PeerGoes(fd) PROVE LoopInv'
  <2>1. LoopOK' /\ UNCHANGED <<sel, files>>
    BY <1>2 DEF Arise, PeerGoes, LoopOK, loopVars
  <2>2. ItemsKept
    BY <2>1 DEF ItemsKept, Own
  <2>3. client[fd].kind # "none" /\ (client[fd].kind = "monitor" \/ Arise(fd)) /\ ClientOK(client[fd])
    BY <1>2 DEF Arise, PeerGoes, Clients, ClientsOf, Own
  <2>4. DOMAIN client' = Fds /\ \A g \in Fds \ {fd} : client'[g] = client[g]
    BY <1>2 DEF Arise, PeerGoes, Own
  <2>5. CASE Pop3OK(client[fd])
    <3>1. client' = [client EXCEPT ![fd].event = TRUE]
      BY <2>3, <2>5 DEF Arise, Pop3OK
    <3>2. /\ DOMAIN client'[fd] = DOMAIN client[fd] /\ client'[fd].kind = client[fd].kind
          /\ client'[fd].doing = client[fd].doing /\ client'[fd].pipe = client[fd].pipe
      BY <2>5, <3>1 DEF Pop3OK, Own
    <3>3. Pop3OK(client'[fd])
      BY <2>5, <3>2 DEF Pop3OK
    <3>4. Own'
      BY <2>1, <2>2, <2>3, <2>4, <3>2, <3>3, TouchKeeps DEF ClientOK
    <3>. QED BY <2>1, <3>4
  <2>6. CASE MonitorOK(client[fd])
    <3>1. /\ DOMAIN client'[fd] = DOMAIN client[fd] /\ client'[fd].kind = client[fd].kind
          /\ client'[fd].answer = client[fd].answer
          /\ client'[fd].out = client[fd].out /\ client'[fd].index = client[fd].index
      <4>1. CASE client' = [client EXCEPT ![fd].event = TRUE]
        BY <2>6, <4>1 DEF MonitorOK, Own
      <4>2. CASE client' = [client EXCEPT ![fd].peer = "gone", ![fd].event = TRUE]
        BY <2>6, <4>2 DEF MonitorOK, Own
      <4>. QED BY <1>2, <4>1, <4>2 DEF Arise, PeerGoes
    <3>2. MonitorOK(client'[fd])
      BY <2>6, <3>1 DEF MonitorOK
    <3>3. Own'
      BY <2>1, <2>2, <2>4, <2>6, <3>2, MonitorTouched DEF MonitorOK
    <3>. QED BY <2>1, <3>3
  <2>. QED BY <2>3, <2>5, <2>6 DEF ClientOK
<1>3. ASSUME PeerReads \/ \E fd \in Fds : PeerStops(fd) PROVE LoopInv'
  <2>1. UNCHANGED <<process, slaveR, slaveW, cursor, top, backlog>> /\ UNCHANGED <<sel, files, client>>
    BY <1>3 DEF PeerReads, PeerStops, loopVars
  <2>2. slow' \in Fds \cup {Nobody}
    BY <1>3 DEF PeerReads, PeerStops
  <2>. QED BY <2>1, <2>2, UnchangedKeeps DEF LoopOK
<1>. QED BY <1>1, <1>2, <1>3 DEF Outside

\* The inductive invariant of the event loop.
THEOREM LoopInvariance == Spec => []LoopInv
<1>1. Init => LoopInv
  BY InitLoopInv
<1>2. LoopInv /\ [Next]_vars => LoopInv'
  <2>. SUFFICES ASSUME LoopInv, [Next]_vars PROVE LoopInv'
    OBVIOUS
  <2>1. CASE Loop
    BY <2>1, LoopKeepsInv
  <2>2. CASE Terminate
    BY <2>2, TerminateKeepsInv
  <2>3. CASE Outside
    BY <2>3, OutsideKeepsInv
  <2>4. CASE UNCHANGED vars
    <3>1. UNCHANGED <<sel, files, client>> /\ UNCHANGED <<process, slaveR, slaveW, cursor, top, backlog, slow>>
      BY <2>4 DEF vars, loopVars
    <3>. QED BY <3>1, UnchangedKeeps DEF LoopInv, LoopOK
  <2>. QED BY <2>1, <2>2, <2>3, <2>4 DEF Next
<1>. QED BY <1>1, <1>2, PTL DEF Spec

\* The variables of the loop have their types; what is being sent of an
\* answer never passes its end.
THEOREM LoopTypeCorrect == Spec => []TypeOK
BY LoopInvariance, LoopInvImplies, PTL

\* For any number of descriptors and clients, whatever they send and
\* however they come and go: select() is asked to watch what the handlers
\* asked for, all of it open, none of it beyond the highest descriptor it is
\* told of.  pselect() cannot fail for a descriptor that is closed.
THEOREM SelectWatchesAsAsked == Spec => []WatchedAsAsked
BY LoopInvariance, LoopInvImplies, PTL

\* Every open descriptor has an owner that will close it, or is the pipe of
\* a mail or a directory that a failing PASS has left open; every connection
\* is served by the handler of its own kind.
THEOREM OnlyPipesAndDirsAreOrphaned == Spec => []OrphansArePipesOrDirs
BY LoopInvariance, LoopInvImplies, PTL

\* A round never calls a handler for a descriptor that is not registered.
THEOREM OnlyRegisteredAreCalled ==
    Spec => [](Called # {} => \A fd \in Fds, side \in {"read", "write"} :
                                 NextCall = Place(fd, side) => fd \in Registered)
<1>1. LoopInv => (Called # {} => \A fd \in Fds, side \in {"read", "write"} :
                                 NextCall = Place(fd, side) => fd \in Registered)
  BY CalledIsRegistered DEF Registered
<1>. QED BY <1>1, LoopInvariance, PTL

----------------------------------------------------------------------------
(* Every call is for an event that is there. *)

\* A descriptor is watched for reading or for writing.
OneInterest == {{}, {"READ"}, {"WRITE"}}

SocketsOK ==
    /\ \A fd \in Fds : sel.item[fd].interest \in OneInterest
    /\ \A fd \in Fds : /\ sel.item[fd].handler = "accept_pop3" => fd = Pop3Socket
                       /\ sel.item[fd].handler = "accept_monitor" => fd = MonitorSocket
    /\ \A l \in Listeners : files[l] = "listener"

\* What select() has reported, and the round has not come to, is still so.
Pending ==
    /\ slaveR \cap slaveW = {}
    /\ \A fd \in slaveR : Place(fd, "read") >= cursor => HasEvent(fd)
    /\ \A fd \in slaveW : Place(fd, "write") >= cursor => HasEvent(fd)

FreshInv == SocketsOK /\ Pending

\* All that a handler changes of connections and items is those of fd.
Local(fd) ==
    /\ DOMAIN client' = Fds
    /\ \A g \in Fds \ {fd} : client'[g] = client[g] /\ sel'.item[g] = sel.item[g]
    /\ sel'.item[fd].interest \in OneInterest
    /\ sel'.item[fd].handler \in {sel.item[fd].handler, "none", "pop3", "monitor"}
    /\ \A l \in Listeners : files[l] = "listener" => files'[l] = "listener"

\* What selector_set_interest does to the items, for interests that handlers ask for.
LEMMA SetInterestItems ==
    ASSUME Own, SocketsOK, NEW fd \in Fds, NEW interest \in {{"READ"}, {"WRITE"}},
           sel' = SetInterest(sel, fd, interest)
    PROVE  /\ \A g \in Fds \ {fd} : sel'.item[g] = sel.item[g]
           /\ sel'.item[fd].handler = sel.item[fd].handler
           /\ sel'.item[fd].interest \in OneInterest
           /\ fd \in Used(sel) => sel'.item[fd].interest = interest
<1>1. GoodSelector(sel)
  BY DEF Own
<1>2. \A f \in Fds, i \in Interests :
         SetInterest(sel, f, i).item =
            IF sel.item[f].used THEN [sel.item EXCEPT ![f].interest = i] ELSE sel.item
  BY <1>1, SetInterestGood
<1>3. sel'.item = IF sel.item[fd].used THEN [sel.item EXCEPT ![fd].interest = interest] ELSE sel.item
  BY <1>2 DEF Interests
<1>4. \A f \in Fds : sel.item[f] \in ItemType
  BY <1>1 DEF GoodSelector, SelectorType, ItemType
<1>5. DOMAIN sel.item = Fds
  BY <1>1 DEF GoodSelector, SelectorType
<1>. QED BY <1>3, <1>4, <1>5 DEF ItemType, OneInterest, SocketsOK, Used

\* Closing a connection touches what is that connection's, and nothing else.
LEMMA CloseLocal ==
    ASSUME Own, NEW fd \in Fds, client[fd].kind # "none",
           Close(fd) \/ CloseByJump(fd) \/ PassFails(fd)
    PROVE  /\ Local(fd) /\ backlog' = backlog /\ client'[fd] = NoClient
           /\ process' = process
<1>1. GoodSelector(sel)
  BY DEF Own
<1>2. sel'.item = [sel.item EXCEPT ![fd] = UnusedItem]
  BY <1>1, UnregisterGood, UnregisterNestedGood DEF Close, CloseByJump, PassFails
<1>3. client' = [client EXCEPT ![fd] = NoClient] /\ UNCHANGED <<process, backlog>>
  BY DEF Close, CloseByJump, PassFails, Release
<1>4. files[fd] # "listener" /\ files \in [AllFiles -> FileKinds] /\ Listeners \subseteq AllFiles
  BY FilesAssumption DEF Own, RegisteredOK, Listeners, AllFiles, Pop3Socket, MonitorSocket
<1>5. \A l \in Listeners : files[l] = "listener" => files'[l] = "listener"
  <2>1. CASE Close(fd) \/ CloseByJump(fd)
    BY <1>4, <2>1 DEF Close, CloseByJump, Release
  <2>2. CASE PassFails(fd)
    <3>. DEFINE p == Min(FreeFiles)
    <3>1. files[p] # "listener" /\ files' = [files EXCEPT ![p] = "dir", ![fd] = "free"]
      BY <2>2, LowestFree DEF PassFails
    <3>. HIDE DEF p
    <3>. QED BY <1>4, <3>1
  <2>. QED BY <2>1, <2>2
<1>6. DOMAIN client = Fds /\ DOMAIN sel.item = Fds
  BY <1>1 DEF Own, GoodSelector, SelectorType
<1>7. sel'.item[fd] = UnusedItem /\ \A g \in Fds \ {fd} : sel'.item[g] = sel.item[g]
  BY <1>2, <1>6
<1>8. sel'.item[fd].interest \in OneInterest /\ sel'.item[fd].handler = "none"
  BY <1>7 DEF UnusedItem, OneInterest
<1>9. /\ DOMAIN client' = Fds /\ client'[fd] = NoClient
      /\ \A g \in Fds \ {fd} : client'[g] = client[g]
  BY <1>3, <1>6
<1>. QED BY <1>3, <1>5, <1>7, <1>8, <1>9 DEF Local

\* A POP3 handler touches its own connection only.
LEMMA Pop3Local ==
    ASSUME Own, SocketsOK, NEW fd \in Fds, client[fd].kind = "pop3",
           Pop3Read(fd) \/ Pop3Write(fd) \/ Pop3WriteMail(fd)
    PROVE  Local(fd) /\ backlog' = backlog
<1>0. DOMAIN client = Fds /\ files \in [AllFiles -> FileKinds] /\ Listeners \subseteq AllFiles
  BY FilesAssumption DEF Own, Listeners, AllFiles, Pop3Socket, MonitorSocket
<1>1. ASSUME NEW what, NEW interest \in {{"READ"}, {"WRITE"}}, Doing(fd, what, interest)
      PROVE  Local(fd) /\ backlog' = backlog
  BY <1>0, <1>1, SetInterestItems DEF Doing, Local
<1>2. CASE SendMail(fd)
  <2>. DEFINE p == Min(FreeFiles)
  <2>1. files[p] = "free" /\ files' = [files EXCEPT ![p] = "pipe"]
    BY <1>2, LowestFree DEF SendMail
  <2>2. \A l \in Listeners : files[l] = "listener" => files'[l] = "listener"
    <3>. HIDE DEF p
    <3>. QED BY <1>0, <2>1
  <2>3. /\ \A g \in Fds \ {fd} : sel'.item[g] = sel.item[g]
        /\ sel'.item[fd].handler = sel.item[fd].handler
        /\ sel'.item[fd].interest \in OneInterest
    BY <1>2, SetInterestItems DEF SendMail
  <2>4. /\ DOMAIN client' = Fds /\ \A g \in Fds \ {fd} : client'[g] = client[g]
        /\ backlog' = backlog
    BY <1>0, <1>2 DEF SendMail
  <2>. QED BY <2>2, <2>3, <2>4 DEF Local
<1>3. CASE Close(fd) \/ CloseByJump(fd) \/ PassFails(fd)
  BY <1>3, CloseLocal
<1>4. CASE Pop3WriteMail(fd)
  <2>1. /\ DOMAIN client' = Fds /\ \A g \in Fds \ {fd} : client'[g] = client[g]
        /\ backlog' = backlog /\ sel' = sel
    BY <1>0, <1>4 DEF Pop3WriteMail
  <2>2. files[client[fd].pipe] = "pipe"
    BY <1>4 DEF Pop3WriteMail, Own, PipesOK, ClientOK, Pop3OK, MonitorOK
  <2>3. \A l \in Listeners : files[l] = "listener" => files'[l] = "listener"
    BY <1>0, <1>4, <2>2 DEF Pop3WriteMail
  <2>. QED BY <2>1, <2>3 DEF Local, SocketsOK
<1>. QED BY <1>1, <1>2, <1>3, <1>4 DEF Pop3Read, Pop3Write

\* A monitor handler touches its own connection only.
LEMMA MonitorLocal ==
    ASSUME Own, SocketsOK, NEW fd \in Fds, client[fd].kind = "monitor",
           MonitorRead(fd) \/ MonitorWrite(fd)
    PROVE  Local(fd) /\ backlog' = backlog
<1>0. DOMAIN client = Fds
  BY DEF Own
<1>1. CASE Close(fd)
  BY <1>1, CloseLocal
<1>2. ASSUME NEW n \in 1..Len(client[fd].wire), MonitorReceive(fd, n), ~Close(fd)
      PROVE  Local(fd) /\ backlog' = backlog
  <2>1. /\ DOMAIN client' = Fds /\ \A g \in Fds \ {fd} : client'[g] = client[g]
        /\ files' = files /\ backlog' = backlog
        /\ sel' = sel \/ sel' = SetInterest(sel, fd, {"WRITE"})
    BY <1>0, <1>2 DEF MonitorReceive
  <2>2. CASE sel' = sel
    BY <2>1, <2>2 DEF Local, SocketsOK
  <2>3. CASE sel' = SetInterest(sel, fd, {"WRITE"})
    BY <2>1, <2>3, SetInterestItems DEF Local
  <2>. QED BY <2>1, <2>2, <2>3
<1>3. CASE MonitorWrite(fd) /\ ~Close(fd)
  <2>1. /\ DOMAIN client' = Fds /\ \A g \in Fds \ {fd} : client'[g] = client[g]
        /\ UNCHANGED <<files, backlog, sel>>
    BY <1>0, <1>3 DEF MonitorWrite
  <2>. QED BY <2>1 DEF Local, SocketsOK
<1>. QED BY <1>1, <1>2, <1>3 DEF MonitorRead

\* A connection taken in gets a descriptor that nothing was registered on.
LEMMA AcceptLocal ==
    ASSUME Own, SocketsOK, AcceptPop3 \/ AcceptMonitor
    PROVE  \/ UNCHANGED <<sel, files, client>>
           \/ \E fd \in Fds :
                 /\ Local(fd) /\ fd \notin Used(sel) /\ client[fd].kind = "none"
                 /\ \/ client'[fd].kind = "pop3"
                    \/ /\ \E script \in Scripts : client'[fd] = NewMonitor(script)
                       /\ sel'.item[fd].interest = {"READ"}
<1>1. ASSUME NEW kind \in {"pop3", "monitor"}, NEW interest \in {{"READ"}, {"WRITE"}}, NEW fresh,
             FreeFiles # {}, TakeIn(kind, interest, fresh)
      PROVE  \/ UNCHANGED <<sel, files, client>>
             \/ \E fd \in Fds : /\ Local(fd) /\ fd \notin Used(sel) /\ client[fd].kind = "none"
                                /\ client'[fd] = fresh /\ sel'.item[fd].interest = interest
  <2>. DEFINE fd == Min(FreeFiles)
  <2>1. files[fd] = "free" /\ fd \in AllFiles
    BY <1>1, LowestFree
  <2>2. CASE ~CanRegister(sel, fd)
    BY <1>1, <2>2 DEF TakeIn
  <2>3. CASE CanRegister(sel, fd)
    <3>1. /\ sel' = Register(sel, fd, kind, interest) /\ files' = [files EXCEPT ![fd] = kind]
          /\ client' = [client EXCEPT ![fd] = fresh]
      BY <1>1, <2>3 DEF TakeIn
    <3>. HIDE DEF fd
    <3>2. fd \in Fds /\ fd \notin Used(sel) /\ client[fd].kind = "none"
      BY <2>3 DEF CanRegister, Used, Own
    <3>3. GoodSelector(sel) /\ kind \in Handlers /\ interest \in Interests
      BY DEF Own, Handlers, Interests
    <3>4. \A f \in Fds, h \in Handlers, i \in Interests : CanRegister(sel, f) =>
             Register(sel, f, h, i).item =
                [sel.item EXCEPT ![f] = [used |-> TRUE, interest |-> i, handler |-> h]]
      BY <3>3, RegisterGood
    <3>5. sel'.item = [sel.item EXCEPT ![fd] = [used |-> TRUE, interest |-> interest, handler |-> kind]]
      BY <2>3, <3>1, <3>2, <3>3, <3>4
    <3>6. DOMAIN client = Fds /\ DOMAIN sel.item = Fds
      BY <3>3 DEF Own, GoodSelector, SelectorType
    <3>7. /\ DOMAIN client' = Fds /\ client'[fd] = fresh
          /\ \A g \in Fds \ {fd} : client'[g] = client[g]
      BY <3>1, <3>2, <3>6
    <3>8. /\ sel'.item[fd].interest = interest /\ sel'.item[fd].handler = kind
          /\ \A g \in Fds \ {fd} : sel'.item[g] = sel.item[g]
      BY <3>2, <3>5, <3>6
    <3>9. \A l \in Listeners : files[l] = "listener" => files'[l] = "listener"
      BY <2>1, <3>1
    <3>. QED BY <3>2, <3>7, <3>8, <3>9 DEF Local, OneInterest
  <2>. QED BY <2>2, <2>3
<1>2. CASE AcceptPop3
  <2>1. NewPop3.kind = "pop3"
    BY DEF NewPop3
  <2>2. \/ UNCHANGED <<sel, files, client>>
        \/ FreeFiles # {} /\ TakeIn("pop3", {"WRITE"}, NewPop3)
    BY <1>2 DEF AcceptPop3
  <2>. HIDE DEF NewPop3
  <2>. QED BY <1>1, <2>1, <2>2
<1>3. CASE AcceptMonitor
  <2>1. \/ UNCHANGED <<sel, files, client>>
        \/ FreeFiles # {} /\ \E script \in Scripts : TakeIn("monitor", {"READ"}, NewMonitor(script))
    BY <1>3 DEF AcceptMonitor
  <2>. QED BY <1>1, <2>1
<1>. QED BY <1>2, <1>3

\* A local step keeps the sockets in order.
LEMMA LocalKeepsSockets ==
    ASSUME SocketsOK, NEW fd \in Fds, Local(fd)
    PROVE  SocketsOK'
<1>1. \A g \in Fds : sel'.item[g].interest \in OneInterest
  BY DEF Local, SocketsOK
<1>2. \A g \in Fds : sel'.item[g].handler \in {sel.item[g].handler, "none", "pop3", "monitor"}
  BY DEF Local
<1>. QED BY <1>1, <1>2 DEF SocketsOK, Local

----------------------------------------------------------------------------
\* Which call is the next.
LEMMA NextIsCalled ==
    ASSUME LoopInv, Called # {}
    PROVE  /\ NextCall \in Called /\ NextCall \in Nat /\ NextCall >= cursor
           /\ \A fd \in Fds :
                 /\ NextCall = Place(fd, "read") => fd \in slaveR /\ "READ" \in sel.item[fd].interest
                 /\ NextCall = Place(fd, "write") => fd \in slaveW /\ "WRITE" \in sel.item[fd].interest
<1>1. Called \in SUBSET Nat
  BY FdSetSizeAssumption DEF Called, Idle, Fds, LoopInv, LoopOK
<1>2. NextCall \in Called
  BY <1>1, MinIsLeast DEF NextCall
<1>3. \A f, g \in Fds : /\ Place(f, "read") = Place(g, "read") => f = g
                        /\ Place(f, "write") = Place(g, "write") => f = g
                        /\ Place(f, "read") # Place(g, "write")
  BY FdSetSizeAssumption DEF Place, Fds
<1>4. cursor \in Nat
  BY FdSetSizeAssumption DEF LoopInv, LoopOK, Idle
<1>5. NextCall >= cursor
  BY <1>1, <1>2, <1>4 DEF Called
<1>. QED BY <1>1, <1>2, <1>3, <1>5 DEF Called

\* Events are fresh where what is pending is still there.
LEMMA PendingIsFresh == LoopInv /\ Pending => EventsAreFresh
<1>. SUFFICES ASSUME LoopInv, Pending, Called # {}
              PROVE  \E fd \in Fds : NextCall \in Places(fd) /\ HasEvent(fd)
  BY DEF EventsAreFresh
<1>1. /\ NextCall \in Called /\ NextCall >= cursor
      /\ \A fd \in Fds : /\ NextCall = Place(fd, "read") => fd \in slaveR
                         /\ NextCall = Place(fd, "write") => fd \in slaveW
  BY NextIsCalled
<1>2. PICK fd \in Fds : NextCall = Place(fd, "read") \/ NextCall = Place(fd, "write")
  BY <1>1 DEF Called
<1>. QED BY <1>1, <1>2 DEF Pending, Places

\* A handler leaves the events of the other descriptors as they are.
LEMMA OthersKeepEvents ==
    ASSUME LoopInv, SocketsOK, NEW fd \in Used(sel), NEW side \in {"read", "write"}, Handle(fd, side)
    PROVE  SocketsOK' /\ \A g \in Fds \ {fd} : HasEvent(g) => HasEvent(g)'
<1>0. fd \in Fds /\ RegisteredOK(fd)
  BY DEF LoopInv, Own, Used
<1>1. ASSUME Local(fd), backlog' = backlog
      PROVE  SocketsOK' /\ \A g \in Fds \ {fd} : HasEvent(g) => HasEvent(g)'
  BY <1>0, <1>1, LocalKeepsSockets DEF HasEvent, Local, Clients
<1>2. CASE sel.item[fd].handler = "pop3"
  <2>1. client[fd].kind = "pop3" /\ (Pop3Read(fd) \/ Pop3Write(fd) \/ Pop3WriteMail(fd))
    BY <1>0, <1>2 DEF RegisteredOK, Handle
  <2>. QED BY <1>0, <1>1, <2>1, Pop3Local DEF LoopInv
<1>3. CASE sel.item[fd].handler = "monitor"
  <2>1. client[fd].kind = "monitor" /\ (MonitorRead(fd) \/ MonitorWrite(fd))
    BY <1>0, <1>3 DEF RegisteredOK, Handle
  <2>. QED BY <1>0, <1>1, <2>1, MonitorLocal DEF LoopInv
<1>4. CASE sel.item[fd].handler \in {"accept_pop3", "accept_monitor"}
  <2>1. (AcceptPop3 \/ AcceptMonitor) /\ backlog' = backlog \ {fd}
    BY <1>0, <1>4 DEF Handle, SocketsOK, AcceptPop3, AcceptMonitor
  <2>2. CASE UNCHANGED <<sel, files, client>>
    BY <2>1, <2>2 DEF SocketsOK, HasEvent, Clients
  <2>3. ASSUME NEW new \in Fds, Local(new), client[new].kind = "none", new \notin Used(sel)
        PROVE  SocketsOK' /\ \A g \in Fds \ {fd} : HasEvent(g) => HasEvent(g)'
    <3>1. SocketsOK'
      BY <2>3, LocalKeepsSockets
    <3>2. ASSUME NEW g \in Fds \ {fd}, HasEvent(g) PROVE HasEvent(g)'
      BY <2>1, <2>3, <3>2 DEF HasEvent, Clients, Local
    <3>. QED BY <3>1, <3>2
  <2>. QED BY <2>1, <2>2, <2>3, AcceptLocal DEF LoopInv
<1>. QED BY <1>0, <1>2, <1>3, <1>4 DEF RegisteredOK

\* Nothing is pending at the start.
LEMMA FreshInit == Init => FreshInv
<1>. SUFFICES ASSUME Init PROVE FreshInv
  OBVIOUS
<1>1. \A fd \in Fds : /\ sel.item[fd].interest \in OneInterest
                      /\ sel.item[fd].handler = "accept_pop3" => fd = Pop3Socket
                      /\ sel.item[fd].handler = "accept_monitor" => fd = MonitorSocket
  BY InitItems DEF UnusedItem, OneInterest
<1>2. \A l \in Listeners : files[l] = "listener"
  BY InitItems DEF Init
<1>. QED BY <1>1, <1>2 DEF FreshInv, SocketsOK, Pending, Init

\* A call of a handler makes no other event stale.
LEMMA CallKeepsFresh == LoopInv /\ FreshInv /\ CallHandler => FreshInv'
<1>. SUFFICES ASSUME LoopInv, FreshInv, CallHandler PROVE FreshInv'
  OBVIOUS
<1>1. PICK fd \in Fds, side \in {"read", "write"} : NextCall = Place(fd, side) /\ Handle(fd, side)
  BY DEF CallHandler
<1>2. /\ fd \in Used(sel) /\ NextCall \in Nat /\ NextCall >= cursor /\ cursor \in Nat
      /\ side = "read" => fd \in slaveR
  BY <1>1, CalledIsRegistered, NextIsCalled, FdSetSizeAssumption
     DEF CallHandler, LoopInv, LoopOK, Idle
<1>3. SocketsOK' /\ \A g \in Fds \ {fd} : HasEvent(g) => HasEvent(g)'
  BY <1>1, <1>2, OthersKeepEvents DEF FreshInv
<1>4. cursor' = Place(fd, side) + 1 /\ UNCHANGED <<slaveR, slaveW>>
  BY <1>1 DEF CallHandler
<1>5. slaveR \subseteq Fds /\ slaveW \subseteq Fds
  BY DEF LoopInv, LoopOK
<1>6. ASSUME NEW g \in slaveR, Place(g, "read") >= cursor' PROVE HasEvent(g)'
  <2>1. g \in Nat /\ fd \in Nat
    BY <1>5, FdSetSizeAssumption DEF Fds
  <2>2. g # fd /\ Place(g, "read") >= cursor
    BY <1>1, <1>2, <1>4, <1>6, <2>1 DEF Place
  <2>. QED BY <1>3, <1>5, <2>2 DEF FreshInv, Pending
<1>7. ASSUME NEW g \in slaveW, Place(g, "write") >= cursor' PROVE HasEvent(g)'
  <2>1. g \in Nat /\ fd \in Nat
    BY <1>5, FdSetSizeAssumption DEF Fds
  <2>2. Place(g, "write") >= cursor /\ (g = fd => side = "read")
    BY <1>1, <1>2, <1>4, <1>7, <2>1 DEF Place
  <2>3. g # fd
    BY <1>2, <2>2 DEF FreshInv, Pending
  <2>. QED BY <1>3, <1>5, <2>2, <2>3 DEF FreshInv, Pending
<1>. QED BY <1>3, <1>4, <1>6, <1>7 DEF FreshInv, Pending

\* Between rounds no call is pending.
LEMMA NothingPending ==
    ASSUME LoopInv
    PROVE  \A fd \in Fds : ~(Place(fd, "read") >= Idle) /\ ~(Place(fd, "write") >= Idle)
BY FdSetSizeAssumption DEF Place, Idle, Fds

\* No step does.
LEMMA FreshStep == LoopInv /\ FreshInv /\ [Next]_vars => FreshInv'
<1>. SUFFICES ASSUME LoopInv, FreshInv, [Next]_vars PROVE FreshInv'
  OBVIOUS
<1>0. slaveR \subseteq Fds /\ slaveW \subseteq Fds
  BY DEF LoopInv, LoopOK
<1>1. CASE Select
  <2>1. SocketsOK'
    BY <1>1 DEF Select, FreshInv, SocketsOK
  <2>2. slaveR' \subseteq sel.read /\ slaveW' \subseteq sel.write
    BY <1>1 DEF Select
  <2>3. /\ sel.read \subseteq Fds /\ sel.write \subseteq Fds
        /\ \A fd \in Fds : /\ fd \in sel.read => "READ" \in sel.item[fd].interest
                           /\ fd \in sel.write => "WRITE" \in sel.item[fd].interest
    BY DEF LoopInv, Own, GoodSelector, SelectorType, OnlyAsked
  <2>4. sel.read \cap sel.write = {}
    BY <2>3 DEF FreshInv, SocketsOK, OneInterest
  <2>5. \A fd \in slaveR' \cup slaveW' : HasEvent(fd)'
    BY <1>1 DEF Select, HasEvent, Clients
  <2>. QED BY <2>1, <2>2, <2>4, <2>5 DEF FreshInv, Pending
<1>2. CASE CallHandler
  BY <1>2, CallKeepsFresh
<1>3. CASE EndRound
  BY <1>3 DEF EndRound, FreshInv, SocketsOK, Pending
<1>4. CASE Terminate
  <2>1. \A fd \in Fds : sel'.item[fd] = UnusedItem
    BY <1>4 DEF Terminate, NewSelector
  <2>2. \A fd \in Fds : /\ sel'.item[fd].interest \in OneInterest
                        /\ sel'.item[fd].handler = "none"
    BY <2>1 DEF UnusedItem, OneInterest
  <2>3. \A l \in Listeners : l \in AllFiles /\ (l \in Fds => client[l].kind = "none")
    BY FilesAssumption
       DEF FreshInv, SocketsOK, LoopInv, Own, RegisteredOK, Listeners, AllFiles, Pop3Socket, MonitorSocket
  <2>4. \A l \in Listeners : files'[l] = "listener"
    BY <1>4, <2>3 DEF Terminate, Clients, FreshInv, SocketsOK
  <2>5. cursor' = Idle /\ UNCHANGED <<slaveR, slaveW>>
    BY <1>4 DEF Terminate
  <2>. QED BY <1>0, <2>2, <2>4, <2>5, NothingPending DEF FreshInv, SocketsOK, Pending
<1>5. CASE Outside
  <2>1. CASE ~PeerReads
    <3>1. UNCHANGED <<slaveR, slaveW, cursor, sel, files>> /\ cursor = Idle
      BY <1>5, <2>1 DEF Outside, Connect, Arise, PeerGoes, PeerStops, loopVars
    <3>. QED BY <1>0, <3>1, NothingPending DEF FreshInv, SocketsOK, Pending
  <2>2. CASE PeerReads
    BY <2>2 DEF PeerReads, loopVars, FreshInv, SocketsOK, Pending, HasEvent, Clients
  <2>. QED BY <2>1, <2>2
<1>6. CASE UNCHANGED vars
  BY <1>6 DEF vars, loopVars, FreshInv, SocketsOK, Pending, HasEvent, Clients
<1>. QED BY <1>1, <1>2, <1>3, <1>4, <1>5, <1>6 DEF Next, Loop

\* Every step keeps the invariant.
LEMMA LoopInvStep == LoopInv /\ [Next]_vars => LoopInv'
<1>. SUFFICES ASSUME LoopInv, [Next]_vars PROVE LoopInv'
  OBVIOUS
<1>1. CASE Next
  BY <1>1, LoopKeepsInv, TerminateKeepsInv, OutsideKeepsInv DEF Next
<1>2. CASE UNCHANGED vars
  <2>1. UNCHANGED <<sel, files, client>> /\ UNCHANGED <<process, slaveR, slaveW, cursor, top, backlog, slow>>
    BY <1>2 DEF vars, loopVars
  <2>. QED BY <2>1, UnchangedKeeps DEF LoopInv, LoopOK
<1>. QED BY <1>1, <1>2

\* However many connections end in a round, and whichever descriptors are
\* given to new ones in it, no handler is called for an event that is not
\* there, so that none waits in recv() or accept() with the whole server.
THEOREM CallsAreForEvents == Spec => []EventsAreFresh
BY PendingIsFresh, InitLoopInv, LoopInvStep, FreshInit, FreshStep, PTL DEF Spec, FreshInv

----------------------------------------------------------------------------
(* Requests: what was sent is cut into what has come in and what has not. *)

WordsOf(s) == {s[i] : i \in DOMAIN s}

Cut(s, r, w) ==
    /\ s \in Seq(WordsOf(s)) /\ r \in Seq(WordsOf(s)) /\ w \in Seq(WordsOf(s))
    /\ Len(s) = Len(r) + Len(w)
    /\ \A i \in 1..Len(r) : r[i] = s[i]
    /\ \A i \in 1..Len(w) : w[i] = s[Len(r) + i]

\* recv() moves the cut.
LEMMA CutAdvances ==
    ASSUME NEW s, NEW r, NEW w, Cut(s, r, w), NEW n \in 1..Len(w)
    PROVE  /\ Cut(s, r \o SubSeq(w, 1, n), SubSeq(w, n + 1, Len(w)))
           /\ Len(r \o SubSeq(w, 1, n)) = Len(r) + n
<1>. DEFINE W == WordsOf(s)
            chunk == SubSeq(w, 1, n)
            rest == SubSeq(w, n + 1, Len(w))
<1>1. r \in Seq(W) /\ w \in Seq(W) /\ Len(r) \in Nat /\ Len(w) \in Nat
  BY DEF Cut
<1>. HIDE DEF W
<1>2. chunk \in Seq(W) /\ Len(chunk) = n /\ \A i \in 1..n : chunk[i] = w[i]
  BY <1>1
<1>3. rest \in Seq(W) /\ Len(rest) = Len(w) - n /\ \A i \in 1..(Len(w) - n) : rest[i] = w[n + i]
  BY <1>1
<1>. HIDE DEF chunk, rest
<1>. DEFINE q == r \o chunk
<1>4. /\ q \in Seq(W) /\ Len(q) = Len(r) + n
      /\ \A i \in 1..Len(r) : q[i] = r[i]
      /\ \A i \in 1..n : q[Len(r) + i] = chunk[i]
  BY <1>1, <1>2
<1>. HIDE DEF q
<1>5. \A i \in 1..Len(q) : q[i] = s[i]
  <2>. SUFFICES ASSUME NEW i \in 1..Len(q) PROVE q[i] = s[i]
    OBVIOUS
  <2>1. CASE i <= Len(r)
    BY <1>1, <1>4, <2>1 DEF Cut
  <2>2. CASE ~(i <= Len(r))
    <3>1. i - Len(r) \in 1..n /\ i - Len(r) \in 1..Len(w) /\ i = Len(r) + (i - Len(r))
      BY <1>1, <1>4, <2>2
    <3>2. q[i] = chunk[i - Len(r)] /\ w[i - Len(r)] = s[i]
      BY <1>4, <3>1 DEF Cut
    <3>. QED BY <1>2, <3>1, <3>2
  <2>. QED BY <2>1, <2>2
<1>6. \A i \in 1..Len(rest) : rest[i] = s[Len(q) + i]
  <2>. SUFFICES ASSUME NEW i \in 1..Len(rest) PROVE rest[i] = s[Len(q) + i]
    OBVIOUS
  <2>1. n + i \in 1..Len(w) /\ Len(r) + (n + i) = Len(q) + i
    BY <1>1, <1>3, <1>4
  <2>2. w[n + i] = s[Len(r) + (n + i)]
    BY <2>1 DEF Cut
  <2>. QED BY <1>3, <2>1, <2>2
<1>7. s \in Seq(W) /\ Len(s) = Len(r) + Len(w)
  BY DEF Cut, W
<1>8. Len(s) = Len(q) + Len(rest)
  BY <1>1, <1>3, <1>4, <1>7
<1>9. Cut(s, q, rest)
  BY <1>3, <1>4, <1>5, <1>6, <1>7, <1>8 DEF Cut, W
<1>. QED BY <1>4, <1>9 DEF q, chunk, rest

\* The line ends of what has come in are those of what was sent.
LEMMA CutEnds ==
    ASSUME NEW s, NEW r, NEW w, Cut(s, r, w)
    PROVE  /\ Ends(r) = {i \in Ends(s) : i <= Len(r)}
           /\ Ends(s) \in SUBSET Nat /\ \A i \in Ends(s) : i > 1 /\ i <= Len(s)
           /\ Len(r) \in Nat /\ Len(s) \in Nat /\ Len(r) <= Len(s)
<1>1. /\ DOMAIN r = 1..Len(r) /\ DOMAIN s = 1..Len(s) /\ Len(r) \in Nat /\ Len(s) \in Nat
      /\ Len(r) <= Len(s) /\ \A i \in 1..Len(r) : r[i] = s[i]
  BY DEF Cut
<1>2. \A i \in 1..Len(r) : EndsAt(r, i) <=> EndsAt(s, i)
  BY <1>1 DEF EndsAt
<1>3. \A i \in Ends(s) : i \in 1..Len(s) /\ i > 1
  BY <1>1 DEF Ends, EndsAt
<1>. QED BY <1>1, <1>2, <1>3 DEF Ends

\* Once a line has come in, it is the first line that was sent.
LEMMA CutLine ==
    ASSUME NEW s, NEW r, NEW w, Cut(s, r, w), Ends(r) # {}
    PROVE  /\ Ends(s) # {} /\ Min(Ends(r)) = Min(Ends(s))
           /\ Min(Ends(s)) \in Nat /\ Min(Ends(s)) > 1 /\ Min(Ends(s)) <= Len(r)
           /\ FirstLine(s) = SubSeq(r, 1, Min(Ends(r)) - 2)
           /\ FirstLine(s) \in Seq(WordsOf(s))
<1>. DEFINE e == Min(Ends(s))
            W == WordsOf(s)
<1>1. /\ Ends(r) = {i \in Ends(s) : i <= Len(r)}
      /\ Ends(s) \in SUBSET Nat /\ \A i \in Ends(s) : i > 1 /\ i <= Len(s)
      /\ Len(r) \in Nat /\ Len(s) \in Nat
  BY CutEnds
<1>2. Ends(s) # {} /\ Ends(r) \in SUBSET Nat
  BY <1>1
<1>3. /\ e \in Ends(s) /\ \A y \in Ends(s) : e <= y
      /\ Min(Ends(r)) \in Ends(r) /\ \A y \in Ends(r) : Min(Ends(r)) <= y
  BY <1>1, <1>2, MinIsLeast
<1>4. Min(Ends(r)) = e /\ e <= Len(r) /\ e \in Nat /\ e > 1
  <2>1. PICK y \in Ends(r) : TRUE
    OBVIOUS
  <2>2. e <= y /\ y <= Len(r) /\ e \in Nat /\ y \in Nat
    BY <1>1, <1>3, <2>1
  <2>3. e \in Ends(r)
    BY <1>1, <1>3, <2>2
  <2>4. Min(Ends(r)) <= e /\ e <= Min(Ends(r)) /\ Min(Ends(r)) \in Nat
    BY <1>1, <1>3, <2>3
  <2>. QED BY <1>1, <1>3, <2>2, <2>3, <2>4
<1>5. FirstLine(s) = SubSeq(s, 1, e - 2)
  BY <1>2 DEF FirstLine
<1>. HIDE DEF e, W
<1>6. /\ s \in Seq(W) /\ r \in Seq(W) /\ \A i \in 1..Len(r) : r[i] = s[i]
      /\ Len(r) <= Len(s)
  BY DEF Cut, W
<1>7. e - 2 \in 0..Len(r) /\ e - 2 \in 0..Len(s)
  BY <1>1, <1>4, <1>6
<1>8. SubSeq(s, 1, e - 2) = SubSeq(r, 1, e - 2)
  BY <1>6, <1>7
<1>9. SubSeq(s, 1, e - 2) \in Seq(W)
  BY <1>6, <1>7
<1>. QED BY <1>2, <1>4, <1>5, <1>8, <1>9 DEF e, W

\* What a line makes the server do, and when it has no answer to it.
ActsOn(line, p) ==
    \/ p = <<>>
    \/ line = <<Token>>
    \/ line # <<>> /\ line[1] = Token /\ p = <<Tail(line)>>

\* Whatever a request is answered, what it does is what its line says, once.
LEMMA OutcomeOfLine ==
    ASSUME NEW W, NEW line \in Seq(W), NEW o \in RequestOutcomes(line)
    PROVE  /\ ActsOn(line, o.performed) /\ <<>> \o o.performed = o.performed
           /\ o.answer = "none" => Len(line) \notin 1..MaxWords
<1>0. Len(line) \in Nat
  OBVIOUS
<1>1. CASE Len(line) \notin 1..MaxWords
  <2>1. o = [answer |-> "none", performed |-> <<>>]
    BY <1>0, <1>1 DEF RequestOutcomes, MaxWords
  <2>2. o.performed = <<>>
    BY <2>1
  <2>. QED BY <1>1, <2>2 DEF ActsOn
<1>2. CASE Len(line) \in 1..MaxWords /\ line[1] # Token
  <2>1. o = [answer |-> "ERR", performed |-> <<>>]
    BY <1>2 DEF RequestOutcomes
  <2>2. o.performed = <<>> /\ o.answer = "ERR"
    BY <2>1
  <2>. QED BY <2>2 DEF ActsOn
<1>3. CASE Len(line) = 1 /\ line[1] = Token
  <2>1. line = <<Token>>
    BY <1>3
  <2>2. \/ \E a \in {"ERR", "crash"} : o = [answer |-> a, performed |-> <<>>]
        \/ \E c \in Listings : o = [answer |-> "BODY", performed |-> <<<<c>>>>]
    BY <1>3 DEF RequestOutcomes, MaxWords
  <2>3. /\ o.answer # "none"
        /\ o.performed = <<>> \/ \E c \in Listings : o.performed = <<<<c>>>>
    BY <2>2
  <2>4. <<>> \o o.performed = o.performed
    BY <2>3
  <2>. QED BY <2>1, <2>3, <2>4 DEF ActsOn
<1>4. CASE Len(line) \in 1..MaxWords /\ line[1] = Token /\ Len(line) # 1
  <2>1. \E a \in HandlerAnswers(line[2], SubSeq(line, 3, Len(line))) :
           o = [answer |-> a, performed |-> <<Tail(line)>>]
    BY <1>4 DEF RequestOutcomes
  <2>2. \A a \in HandlerAnswers(line[2], SubSeq(line, 3, Len(line))) : a # "none"
    BY DEF HandlerAnswers
  <2>3. o.answer # "none" /\ o.performed = <<Tail(line)>>
    BY <2>1, <2>2
  <2>4. <<>> \o o.performed = o.performed
    BY <2>3
  <2>5. line # <<>>
    BY <1>4
  <2>. QED BY <1>4, <2>3, <2>4, <2>5 DEF ActsOn
<1>. QED BY <1>0, <1>1, <1>2, <1>3, <1>4 DEF MaxWords

\* An empty output buffer means that the answer is all out.
LEMMA NothingFilled ==
    ASSUME NEW answer, NEW index \in Nat, index <= AnswerLength(answer), Filled(answer, index) = 0
    PROVE  index = AnswerLength(answer)
<1>1. AnswerLength(answer) \in Nat /\ OutSize \in Nat \ {0}
  BY RequestSizes DEF AnswerLength
<1>. DEFINE S == {OutSize, AnswerLength(answer) - index}
<1>2. S \in SUBSET Nat /\ S # {}
  BY <1>1
<1>3. Min(S) \in S
  <2>. HIDE DEF S
  <2>. QED BY <1>2, MinIsLeast
<1>. QED BY <1>1, <1>3 DEF Filled

----------------------------------------------------------------------------
(* What the server has made of a request. *)

\* Of a connection and what it waits for: nothing is done, and nothing is
\* written, before the line is complete, and nothing is read behind it.
Heard(c, interest) ==
    /\ c.script \in Scripts /\ Cut(c.script, c.request, c.wire)
    /\ Ends(c.request) = {} => interest = {"READ"} /\ c.performed = <<>>
    /\ Ends(c.request) # {} =>
          /\ interest = {"WRITE"}
          /\ ActsOn(FirstLine(c.script), c.performed)
          /\ c.answer = "none" => Len(FirstLine(c.script)) \notin 1..MaxWords
          /\ c.answer # "none" /\ c.out = 0 => c.index = AnswerLength(c.answer)

Fatal(c) == c.answer = "crash" /\ Ends(c.request) # {}

HeardInv ==
    \A fd \in Fds : client[fd].kind = "monitor" =>
        /\ Heard(client[fd], sel.item[fd].interest)
        /\ Fatal(client[fd]) => process # "up"

\* A new monitor connection has been heard saying nothing yet.
LEMMA NewHeard ==
    ASSUME NEW script \in Scripts
    PROVE  /\ Heard(NewMonitor(script), {"READ"}) /\ ~Fatal(NewMonitor(script))
<1>. DEFINE c == NewMonitor(script)
<1>1. c.script = script /\ c.wire = script /\ c.request = <<>> /\ c.performed = <<>>
  BY DEF NewMonitor
<1>2. script \in Seq(WordsOf(script)) /\ Ends(<<>>) = {}
  BY ScriptsAssumption DEF WordsOf, Ends
<1>3. Cut(script, <<>>, script)
  BY <1>2 DEF Cut
<1>. HIDE DEF c
<1>. QED BY <1>1, <1>2, <1>3 DEF Heard, Fatal, c

\* What recv() brings.
LEMMA ReceiveHeard ==
    ASSUME Own, SocketsOK, NEW fd \in Used(sel), client[fd].kind = "monitor",
           Heard(client[fd], sel.item[fd].interest), sel.item[fd].interest = {"READ"},
           process = "up", NEW n \in 1..Len(client[fd].wire), MonitorReceive(fd, n), ~Close(fd)
    PROVE  /\ Heard(client'[fd], sel'.item[fd].interest)
           /\ Fatal(client'[fd]) => process' # "up"
<1>. DEFINE c == client[fd]
            chunk == SubSeq(c.wire, 1, n)
            rest == SubSeq(c.wire, n + 1, Len(c.wire))
            request == c.request \o chunk
            end == RequestEnd(c.request, chunk)
            whole == SubSeq(request, 1, end - 2)
<1>0. fd \in Fds /\ MonitorOK(c) /\ DOMAIN client = Fds
  BY DEF Own, ClientOK, Pop3OK, Used
<1>1. /\ Cut(c.script, c.request, c.wire) /\ c.script \in Scripts
      /\ Ends(c.request) = {} /\ c.performed = <<>>
  BY DEF Heard
<1>2. Cut(c.script, request, rest)
  <2>. HIDE DEF c
  <2>. QED BY <1>1, CutAdvances DEF c
<1>3. end = IF Ends(request) = {} THEN 0 ELSE Min(Ends(request))
  BY DEF RequestEnd
<1>. HIDE DEF c
<1>4. Ends(request) # {} =>
         /\ end \in Nat /\ end > 1 /\ end = Min(Ends(request))
         /\ FirstLine(c.script) = SubSeq(request, 1, Min(Ends(request)) - 2)
         /\ FirstLine(c.script) \in Seq(WordsOf(c.script))
  <2>. HIDE DEF request, rest, end
  <2>. QED BY <1>2, <1>3, CutLine
<1>5. Ends(request) # {} => whole = FirstLine(c.script)
  <2>. HIDE DEF request, end
  <2>. QED BY <1>4
<1>6. CASE end = 0
  <2>1. /\ client' = [client EXCEPT ![fd].event = FALSE, ![fd].wire = rest, ![fd].request = request]
        /\ sel' = sel
    BY <1>6 DEF MonitorReceive, c
  <2>. HIDE DEF request, rest, end, whole
  <2>2. /\ client'[fd].script = c.script /\ client'[fd].wire = rest
        /\ client'[fd].request = request /\ client'[fd].performed = c.performed
    BY <1>0, <2>1 DEF MonitorOK, c
  <2>3. Ends(request) = {}
    BY <1>4, <1>6
  <2>. QED BY <1>1, <1>2, <2>1, <2>2, <2>3 DEF Heard, Fatal
<1>7. CASE end # 0
  <2>. HIDE DEF rest, whole, end
  <2>1. PICK o \in RequestOutcomes(whole) :
           /\ process' = IF o.answer = "crash" THEN "crashed" ELSE process
           /\ client' = [client EXCEPT
                    ![fd].event = FALSE, ![fd].wire = rest, ![fd].request = request,
                    ![fd].answer = o.answer, ![fd].performed = c.performed \o o.performed,
                    ![fd].out = Filled(o.answer, 0), ![fd].index = Filled(o.answer, 0)]
           /\ sel' = SetInterest(sel, fd, {"WRITE"})
    BY <1>7 DEF MonitorReceive, c, rest, whole, end
  <2>. HIDE DEF request
  <2>2. Ends(request) # {}
    BY <1>3, <1>7
  <2>3. sel'.item[fd].interest = {"WRITE"}
    BY <1>0, <2>1, SetInterestItems
  <2>4. PICK answer, performed : answer = o.answer /\ performed = c.performed \o o.performed
    OBVIOUS
  <2>5. PICK filled : filled = Filled(answer, 0)
    OBVIOUS
  <2>6. /\ ActsOn(FirstLine(c.script), performed)
        /\ answer = "none" => Len(FirstLine(c.script)) \notin 1..MaxWords
    <3>1. whole \in Seq(WordsOf(c.script)) /\ whole = FirstLine(c.script)
      BY <1>4, <1>5, <2>2
    <3>2. /\ ActsOn(whole, o.performed) /\ <<>> \o o.performed = o.performed
          /\ o.answer = "none" => Len(whole) \notin 1..MaxWords
      BY <3>1, OutcomeOfLine
    <3>3. performed = o.performed
      BY <1>1, <2>4, <3>2
    <3>. QED BY <2>4, <3>1, <3>2, <3>3
  <2>7. /\ client'[fd].script = c.script /\ client'[fd].wire = rest
        /\ client'[fd].request = request /\ client'[fd].performed = performed
        /\ client'[fd].answer = answer /\ client'[fd].out = filled /\ client'[fd].index = filled
    <3>1. client' = [client EXCEPT
                    ![fd].event = FALSE, ![fd].wire = rest, ![fd].request = request,
                    ![fd].answer = answer, ![fd].performed = performed,
                    ![fd].out = filled, ![fd].index = filled]
      BY <2>1, <2>4, <2>5
    <3>. QED BY <1>0, <3>1 DEF MonitorOK, c
  <2>8. filled = 0 => filled = AnswerLength(answer)
    <3>1. 0 <= AnswerLength(answer) /\ 0 \in Nat
      BY RequestSizes DEF AnswerLength
    <3>. QED BY <2>5, <3>1, NothingFilled
  <2>9. answer = "crash" => process' # "up"
    BY <2>1, <2>4
  <2>10. Heard(client'[fd], {"WRITE"})
    BY <1>1, <1>2, <2>2, <2>6, <2>7, <2>8 DEF Heard
  <2>. QED BY <2>3, <2>7, <2>9, <2>10 DEF Fatal
<1>. QED BY <1>6, <1>7

\* What send() takes away.
LEMMA WriteHeard ==
    ASSUME Own, SocketsOK, NEW fd \in Used(sel), client[fd].kind = "monitor",
           Heard(client[fd], sel.item[fd].interest), ~Fatal(client[fd]),
           MonitorWrite(fd), ~Close(fd)
    PROVE  Heard(client'[fd], sel'.item[fd].interest) /\ ~Fatal(client'[fd])
<1>0. fd \in Fds /\ MonitorOK(client[fd]) /\ DOMAIN client = Fds
  BY DEF Own, ClientOK, Pop3OK, Used
<1>1. PICK filled : filled = Filled(client[fd].answer, client[fd].index)
  OBVIOUS
<1>2. /\ client' = [client EXCEPT ![fd].event = FALSE, ![fd].out = filled, ![fd].index = @ + filled]
      /\ sel' = sel
  BY <1>1 DEF MonitorWrite
<1>3. /\ client'[fd].script = client[fd].script /\ client'[fd].wire = client[fd].wire
      /\ client'[fd].request = client[fd].request /\ client'[fd].performed = client[fd].performed
      /\ client'[fd].answer = client[fd].answer
      /\ client'[fd].out = filled /\ client'[fd].index = client[fd].index + filled
  BY <1>0, <1>2 DEF MonitorOK
<1>4. filled = 0 => client'[fd].index = AnswerLength(client[fd].answer)
  <2>1. client[fd].index \in Nat /\ client[fd].index <= AnswerLength(client[fd].answer)
    BY <1>0 DEF MonitorOK
  <2>2. filled = 0 => client[fd].index = AnswerLength(client[fd].answer)
    BY <1>1, <2>1, NothingFilled
  <2>3. filled = 0 => client'[fd].index = client[fd].index
    BY <1>3, <2>1
  <2>. QED BY <2>2, <2>3
<1>. QED BY <1>2, <1>3, <1>4 DEF Heard, Fatal

\* A call of a handler keeps what has been heard of every request.
LEMMA HeardCall == LoopInv /\ FreshInv /\ HeardInv /\ CallHandler => HeardInv'
<1>. SUFFICES ASSUME LoopInv, FreshInv, HeardInv, CallHandler PROVE HeardInv'
  OBVIOUS
<1>1. PICK fd \in Fds, side \in {"read", "write"} : NextCall = Place(fd, side) /\ Handle(fd, side)
  BY DEF CallHandler
<1>2. /\ fd \in Used(sel) /\ process = "up" /\ RegisteredOK(fd)
      /\ side = "read" => "READ" \in sel.item[fd].interest
  BY <1>1, CalledIsRegistered, NextIsCalled DEF CallHandler, LoopInv, Own
<1>3. ASSUME NEW f \in Fds, Local(f),
             client'[f].kind = "monitor" => /\ Heard(client'[f], sel'.item[f].interest)
                                            /\ Fatal(client'[f]) => process' # "up"
      PROVE  HeardInv'
  <2>. SUFFICES ASSUME NEW g \in Fds, client'[g].kind = "monitor"
                PROVE  /\ Heard(client'[g], sel'.item[g].interest)
                       /\ Fatal(client'[g]) => process' # "up"
    BY DEF HeardInv
  <2>1. CASE g = f
    BY <1>3, <2>1
  <2>2. CASE g # f
    <3>1. client'[g] = client[g] /\ sel'.item[g] = sel.item[g]
      BY <1>3, <2>2 DEF Local
    <3>2. Heard(client[g], sel.item[g].interest) /\ ~Fatal(client[g])
      BY <1>2, <3>1 DEF HeardInv
    <3>. QED BY <3>1, <3>2
  <2>. QED BY <2>1, <2>2
<1>4. CASE sel.item[fd].handler = "pop3"
  <2>1. client[fd].kind = "pop3" /\ (Pop3Read(fd) \/ Pop3Write(fd) \/ Pop3WriteMail(fd))
    BY <1>1, <1>2, <1>4 DEF RegisteredOK, Handle
  <2>2. Local(fd)
    BY <2>1, Pop3Local DEF LoopInv, FreshInv
  <2>3. client'[fd].kind # "monitor"
    <3>0. Pop3OK(client[fd]) /\ DOMAIN client = Fds
      BY <2>1 DEF LoopInv, Own, ClientOK, MonitorOK
    <3>1. CASE Close(fd) \/ CloseByJump(fd) \/ PassFails(fd)
      BY <2>1, <3>1, CloseLocal DEF LoopInv, NoClient
    <3>2. ASSUME NEW what, NEW interest, Doing(fd, what, interest) PROVE client'[fd].kind = "pop3"
      BY <2>1, <3>0, <3>2 DEF Doing, Pop3OK
    <3>3. CASE SendMail(fd)
      <4>. DEFINE p == Min(FreeFiles)
      <4>1. client' = [client EXCEPT ![fd].event = FALSE, ![fd].doing = "mail", ![fd].pipe = p]
        BY <3>3 DEF SendMail
      <4>. HIDE DEF p
      <4>. QED BY <2>1, <3>0, <4>1 DEF Pop3OK
    <3>4. CASE Pop3WriteMail(fd)
      BY <2>1, <3>0, <3>4 DEF Pop3WriteMail, Pop3OK
    <3>. QED BY <2>1, <3>1, <3>2, <3>3, <3>4 DEF Pop3Read, Pop3Write
  <2>. QED BY <1>3, <2>2, <2>3
<1>5. CASE sel.item[fd].handler = "monitor"
  <2>1. client[fd].kind = "monitor" /\ (MonitorRead(fd) \/ MonitorWrite(fd))
    BY <1>1, <1>2, <1>5 DEF RegisteredOK, Handle
  <2>2. Local(fd) /\ Own /\ SocketsOK
    BY <2>1, MonitorLocal DEF LoopInv, FreshInv
  <2>3. Heard(client[fd], sel.item[fd].interest) /\ ~Fatal(client[fd])
    BY <1>2, <2>1 DEF HeardInv
  <2>4. CASE Close(fd)
    <3>1. client'[fd].kind = "none"
      BY <2>1, <2>2, <2>4, CloseLocal DEF NoClient
    <3>. QED BY <1>3, <2>2, <3>1
  <2>5. ASSUME NEW n \in 1..Len(client[fd].wire), MonitorReceive(fd, n), side = "read", ~Close(fd)
        PROVE  HeardInv'
    <3>1. sel.item[fd].interest = {"READ"}
      BY <1>2, <2>2, <2>5 DEF SocketsOK, OneInterest
    <3>2. /\ Heard(client'[fd], sel'.item[fd].interest)
          /\ Fatal(client'[fd]) => process' # "up"
      BY <1>2, <2>1, <2>2, <2>3, <2>5, <3>1, ReceiveHeard
    <3>. QED BY <1>3, <2>2, <3>2
  <2>6. CASE MonitorWrite(fd) /\ ~Close(fd)
    <3>1. Heard(client'[fd], sel'.item[fd].interest) /\ ~Fatal(client'[fd])
      BY <1>2, <2>1, <2>2, <2>3, <2>6, WriteHeard
    <3>. QED BY <1>3, <2>2, <3>1
  <2>7. (side = "read" /\ MonitorRead(fd)) \/ MonitorWrite(fd)
    BY <1>1, <1>5 DEF Handle
  <2>. QED BY <2>4, <2>5, <2>6, <2>7 DEF MonitorRead
<1>6. CASE sel.item[fd].handler \in {"accept_pop3", "accept_monitor"}
  <2>1. (AcceptPop3 \/ AcceptMonitor) /\ process' = process
    BY <1>1, <1>6 DEF Handle, AcceptPop3, AcceptMonitor
  <2>2. CASE UNCHANGED <<sel, files, client>>
    BY <2>1, <2>2 DEF HeardInv
  <2>3. ASSUME NEW f \in Fds, Local(f), client'[f].kind = "pop3" PROVE HeardInv'
    BY <1>3, <2>3
  <2>4. ASSUME NEW f \in Fds, Local(f), NEW script \in Scripts, client'[f] = NewMonitor(script),
               sel'.item[f].interest = {"READ"}
        PROVE  HeardInv'
    BY <1>3, <2>4, NewHeard
  <2>. QED BY <2>1, <2>2, <2>3, <2>4, AcceptLocal DEF LoopInv, FreshInv
<1>. QED BY <1>2, <1>4, <1>5, <1>6 DEF RegisteredOK

\* The events of a peer change none of this.
LEMMA HeardOutside == LoopInv /\ HeardInv /\ Outside => HeardInv'
<1>. SUFFICES ASSUME LoopInv, HeardInv, Outside PROVE HeardInv'
  OBVIOUS
<1>1. ASSUME NEW socket \in Listeners, Connect(socket) PROVE HeardInv'
  BY <1>1 DEF Connect, HeardInv, loopVars
<1>2. ASSUME NEW fd \in Fds, Arise(fd) \/ PeerGoes(fd) PROVE HeardInv'
  <2>. SUFFICES ASSUME NEW g \in Fds, client'[g].kind = "monitor"
                PROVE  /\ Heard(client'[g], sel'.item[g].interest)
                       /\ Fatal(client'[g]) => process' # "up"
    BY DEF HeardInv
  <2>1. DOMAIN client = Fds /\ sel' = sel /\ process' = process
    BY <1>2 DEF Arise, PeerGoes, LoopInv, Own, loopVars
  <2>2. client[g].kind = "monitor" /\ MonitorOK(client[g])
    BY <1>2, <2>1 DEF Arise, PeerGoes, LoopInv, Own, ClientOK, Pop3OK, MonitorOK, Clients, ClientsOf
  <2>3. /\ client'[g].script = client[g].script /\ client'[g].wire = client[g].wire
        /\ client'[g].request = client[g].request /\ client'[g].performed = client[g].performed
        /\ client'[g].answer = client[g].answer
        /\ client'[g].out = client[g].out /\ client'[g].index = client[g].index
    <3>1. CASE client' = [client EXCEPT ![fd].event = TRUE]
      BY <2>1, <2>2, <3>1 DEF MonitorOK
    <3>2. CASE client' = [client EXCEPT ![fd].peer = "gone", ![fd].event = TRUE]
      BY <2>1, <2>2, <3>2 DEF MonitorOK
    <3>. QED BY <1>2, <3>1, <3>2 DEF Arise, PeerGoes
  <2>4. Heard(client[g], sel.item[g].interest) /\ (Fatal(client[g]) => process # "up")
    BY <2>2 DEF HeardInv
  <2>. QED BY <2>1, <2>3, <2>4 DEF Heard, Fatal
<1>3. ASSUME PeerReads \/ \E fd \in Fds : PeerStops(fd) PROVE HeardInv'
  BY <1>3 DEF PeerReads, PeerStops, HeardInv, loopVars
<1>. QED BY <1>1, <1>2, <1>3 DEF Outside

\* Every step keeps it.
LEMMA HeardStep == LoopInv /\ FreshInv /\ HeardInv /\ [Next]_vars => HeardInv'
<1>. SUFFICES ASSUME LoopInv, FreshInv, HeardInv, [Next]_vars PROVE HeardInv'
  OBVIOUS
<1>1. CASE Select
  <2>1. sel' = sel /\ client' = client /\ process = "up"
    BY <1>1 DEF Select
  <2>. QED BY <2>1 DEF HeardInv
<1>2. CASE CallHandler
  BY <1>2, HeardCall
<1>3. CASE EndRound
  BY <1>3 DEF EndRound, HeardInv
<1>4. CASE Terminate
  BY <1>4 DEF Terminate, HeardInv, NoClient
<1>5. CASE Outside
  BY <1>5, HeardOutside
<1>6. CASE UNCHANGED vars
  BY <1>6 DEF vars, loopVars, HeardInv
<1>. QED BY <1>1, <1>2, <1>3, <1>4, <1>5, <1>6 DEF Next, Loop

\* It holds at the start.
LEMMA HeardInit == Init => HeardInv
BY DEF Init, HeardInv, NoClient

\* Whatever peers send, in whatever pieces: a command is performed only when
\* its line has come in, at most once, and with the words of that line.
THEOREM RequestsActOnce == Spec => []ActsOnceOnWholeLine
<1>1. LoopInv /\ HeardInv => ActsOnceOnWholeLine
  <2>. SUFFICES ASSUME LoopInv, HeardInv, NEW fd \in ClientsOf("monitor")
                PROVE  LET c == client[fd]
                           line == FirstLine(c.script)
                           whole == /\ Ends(c.script) # {}
                                    /\ Len(c.script) - Len(c.wire) >= Min(Ends(c.script))
                       IN  /\ sel.item[fd].interest = IF whole THEN {"WRITE"} ELSE {"READ"}
                           /\ \/ c.performed = <<>>
                              \/ whole /\ line = <<Token>>
                              \/ whole /\ line[1] = Token /\ c.performed = <<Tail(line)>>
    BY DEF ActsOnceOnWholeLine
  <2>. DEFINE c == client[fd]
              whole == Ends(c.script) # {} /\ Len(c.script) - Len(c.wire) >= Min(Ends(c.script))
  <2>1. Heard(c, sel.item[fd].interest)
    BY DEF HeardInv, ClientsOf, Clients
  <2>. HIDE DEF c
  <2>2. /\ Ends(c.request) = {i \in Ends(c.script) : i <= Len(c.request)}
        /\ Ends(c.script) \in SUBSET Nat
        /\ Len(c.request) \in Nat /\ Len(c.script) - Len(c.wire) = Len(c.request)
    <3>1. Cut(c.script, c.request, c.wire)
      BY <2>1 DEF Heard
    <3>2. /\ Ends(c.request) = {i \in Ends(c.script) : i <= Len(c.request)}
          /\ Ends(c.script) \in SUBSET Nat
      BY <3>1, CutEnds
    <3>3. Len(c.script) = Len(c.request) + Len(c.wire) /\ Len(c.request) \in Nat /\ Len(c.wire) \in Nat
      BY <3>1 DEF Cut
    <3>. QED BY <3>2, <3>3
  <2>3. whole <=> Ends(c.request) # {}
    <3>1. CASE Ends(c.script) = {}
      BY <2>2, <3>1
    <3>2. CASE Ends(c.script) # {}
      <4>1. PICK m : m = Min(Ends(c.script))
        OBVIOUS
      <4>2. m \in Ends(c.script) /\ m \in Nat /\ \A y \in Ends(c.script) : m <= y
        BY <2>2, <3>2, <4>1, MinIsLeast
      <4>3. whole <=> Len(c.request) >= m
        BY <2>2, <3>2, <4>1
      <4>4. ASSUME Len(c.request) >= m PROVE Ends(c.request) # {}
        BY <2>2, <4>2, <4>4
      <4>5. ASSUME NEW y \in Ends(c.request) PROVE Len(c.request) >= m
        <5>1. y \in Ends(c.script) /\ y <= Len(c.request) /\ y \in Nat /\ m <= y
          BY <2>2, <4>2
        <5>. QED BY <2>2, <4>2, <5>1
      <4>. QED BY <4>3, <4>4, <4>5
    <3>. QED BY <3>1, <3>2
  <2>. HIDE DEF whole
  <2>4. /\ sel.item[fd].interest = IF whole THEN {"WRITE"} ELSE {"READ"}
        /\ \/ c.performed = <<>>
           \/ whole /\ FirstLine(c.script) = <<Token>>
           \/ whole /\ FirstLine(c.script)[1] = Token /\ c.performed = <<Tail(FirstLine(c.script))>>
    BY <2>1, <2>3 DEF Heard, ActsOn
  <2>. QED BY <2>4 DEF c, whole
<1>. QED BY <1>1, InitLoopInv, LoopInvStep, FreshInit, FreshStep, HeardInit, HeardStep, PTL DEF Spec

----------------------------------------------------------------------------
(* How connections end. *)

\* Closing a connection that has the whole request, or too much of it.
LEMMA UnansweredLine ==
    ASSUME NEW c, Cut(c.script, c.request, c.wire), Ends(c.request) # {},
           Len(FirstLine(c.script)) \notin 1..MaxWords
    PROVE  Unanswerable(c.script)
BY DEF Unanswerable

\* A request cut off by the end of its buffer cannot be answered.
LEMMA TooLongRequest ==
    ASSUME NEW s, NEW r, NEW w, Cut(s, r, w),
           (IF Ends(r) = {} THEN Len(r) ELSE Min(Ends(r))) > MaxRequest
    PROVE  Unanswerable(s)
<1>1. /\ Ends(r) = {i \in Ends(s) : i <= Len(r)}
      /\ Ends(s) \in SUBSET Nat
      /\ Len(r) \in Nat /\ Len(s) \in Nat /\ Len(r) <= Len(s)
  BY CutEnds
<1>2. MaxRequest \in Nat
  BY RequestSizes
<1>3. CASE Ends(r) # {}
  <2>1. Ends(s) # {} /\ Min(Ends(r)) = Min(Ends(s))
    BY <1>3, CutLine
  <2>. QED BY <1>3, <2>1 DEF Unanswerable
<1>4. CASE Ends(r) = {} /\ Ends(s) = {}
  <2>1. Len(s) > MaxRequest
    BY <1>1, <1>2, <1>4
  <2>. QED BY <1>4, <2>1 DEF Unanswerable
<1>5. CASE Ends(r) = {} /\ Ends(s) # {}
  <2>1. PICK m : m = Min(Ends(s))
    OBVIOUS
  <2>2. m \in Ends(s) /\ m \in Nat
    BY <1>1, <1>5, <2>1, MinIsLeast
  <2>3. ~(m <= Len(r))
    BY <1>1, <1>5, <2>2
  <2>4. m > MaxRequest
    BY <1>1, <1>2, <1>5, <2>2, <2>3
  <2>. QED BY <1>5, <2>1, <2>4 DEF Unanswerable
<1>. QED BY <1>3, <1>4, <1>5

\* Why the server closes a monitor connection whose peer is still there.
LEMMA WhyClosed ==
    ASSUME LoopInv, FreshInv, HeardInv, process = "up", process' = "up", NEW fd \in Used(sel),
           client[fd].kind = "monitor", client'[fd].kind = "none", client[fd].peer = "open",
           ("WRITE" \in sel.item[fd].interest /\ MonitorWrite(fd)) \/ MonitorRead(fd)
    PROVE  Answered(client[fd]) \/ Unanswerable(client[fd].script)
<1>0. /\ fd \in Fds /\ MonitorOK(client[fd]) /\ DOMAIN client = Fds
      /\ Heard(client[fd], sel.item[fd].interest) /\ ~Fatal(client[fd])
  BY DEF LoopInv, Own, ClientOK, Pop3OK, Used, HeardInv
<1>1. ASSUME NEW n \in 1..Len(client[fd].wire), MonitorReceive(fd, n)
      PROVE  Unanswerable(client[fd].script)
  <2>. DEFINE c == client[fd]
              chunk == SubSeq(c.wire, 1, n)
              rest == SubSeq(c.wire, n + 1, Len(c.wire))
              request == c.request \o chunk
              end == RequestEnd(c.request, chunk)
              length == IF end = 0 THEN Len(c.request) + n ELSE end
  <2>1. Cut(c.script, c.request, c.wire)
    BY <1>0 DEF Heard
  <2>2. Cut(c.script, request, rest) /\ Len(request) = Len(c.request) + n
    <3>. HIDE DEF c
    <3>. QED BY <1>1, <2>1, CutAdvances DEF c
  <2>3. end = IF Ends(request) = {} THEN 0 ELSE Min(Ends(request))
    BY DEF RequestEnd
  <2>4. Ends(request) # {} => end > 1
    <3>. HIDE DEF request, rest, c, end
    <3>. QED BY <2>2, <2>3, CutLine
  <2>5. length > MaxRequest
    <3>1. CASE length <= MaxRequest
      <4>1. client'[fd].kind = "monitor"
        <5>1. CASE client' = [client EXCEPT ![fd].event = FALSE, ![fd].wire = rest, ![fd].request = @ \o chunk]
          <6>. HIDE DEF rest, chunk
          <6>. QED BY <1>0, <5>1 DEF MonitorOK
        <5>2. ASSUME NEW o,
                     client' = [client EXCEPT
                        ![fd].event = FALSE, ![fd].wire = rest, ![fd].request = @ \o chunk,
                        ![fd].answer = o.answer, ![fd].performed = @ \o o.performed,
                        ![fd].out = Filled(o.answer, 0), ![fd].index = Filled(o.answer, 0)]
              PROVE  client'[fd].kind = "monitor"
          <6>1. PICK filled, answer : filled = Filled(o.answer, 0) /\ answer = o.answer
            OBVIOUS
          <6>2. client' = [client EXCEPT
                        ![fd].event = FALSE, ![fd].wire = rest, ![fd].request = @ \o chunk,
                        ![fd].answer = answer, ![fd].performed = @ \o o.performed,
                        ![fd].out = filled, ![fd].index = filled]
            BY <5>2, <6>1
          <6>. HIDE DEF rest, chunk
          <6>. QED BY <1>0, <6>2 DEF MonitorOK
        <5>. HIDE DEF rest
        <5>3. length > MaxRequest <=> ~(length <= MaxRequest)
          <6>1. length \in Nat
            <7>1. Len(request) \in Nat
              BY <2>2, CutEnds
            <7>2. Ends(request) # {} => Min(Ends(request)) \in Nat
              BY <2>2, CutLine
            <7>. HIDE DEF request, end
            <7>. QED BY <2>2, <2>3, <7>1, <7>2
          <6>. HIDE DEF length
          <6>. QED BY <6>1, RequestSizes
        <5>. QED BY <1>1, <3>1, <5>1, <5>2, <5>3 DEF MonitorReceive, rest
      <4>. QED BY <4>1
    <3>. QED BY <1>1, <3>1 DEF MonitorReceive
  <2>6. (IF Ends(request) = {} THEN Len(request) ELSE Min(Ends(request))) > MaxRequest
    <3>. HIDE DEF request, end
    <3>. QED BY <2>2, <2>3, <2>4, <2>5
  <2>. HIDE DEF request, rest, c
  <2>7. Unanswerable(c.script)
    BY <2>2, <2>6, TooLongRequest
  <2>. QED BY <2>7 DEF c
<1>2. CASE MonitorRead(fd)
  BY <1>1, <1>2 DEF MonitorRead
<1>3. CASE "WRITE" \in sel.item[fd].interest /\ MonitorWrite(fd)
  <2>1. Ends(client[fd].request) # {}
    BY <1>0, <1>3 DEF Heard
  <2>2. CASE client[fd].answer = "none"
    BY <1>0, <2>1, <2>2, UnansweredLine DEF Heard
  <2>3. CASE client[fd].answer # "none"
    <3>1. CASE client[fd].out = 0 \/ client[fd].index = AnswerLength(client[fd].answer)
      BY <1>0, <2>1, <2>3, <3>1 DEF Heard, Answered
    <3>2. CASE client[fd].out # 0 /\ client[fd].index # AnswerLength(client[fd].answer)
      <4>1. client'[fd].kind = "monitor"
        <5>1. PICK filled : filled = Filled(client[fd].answer, client[fd].index)
          OBVIOUS
        <5>2. client' = [client EXCEPT ![fd].event = FALSE, ![fd].out = filled, ![fd].index = @ + filled]
          BY <1>3, <3>2, <5>1 DEF MonitorWrite
        <5>. QED BY <1>0, <5>2 DEF MonitorOK
      <4>. QED BY <4>1
    <3>. QED BY <3>1, <3>2
  <2>. QED BY <2>2, <2>3
<1>. QED BY <1>2, <1>3

\* Whatever peers send and however it is cut, the only ones that stay and are
\* left without their complete answer are those whose request has no words,
\* too many words or too many bytes.  That there are such requests is not what
\* RFC_Monitor.txt:54-58 and 68-73 say; that there are no others is proved.
THEOREM AnswersAreComplete == Spec => AnsweredOrUnanswerable
<1>1. ASSUME LoopInv, FreshInv, HeardInv, [Next]_vars, NEW fd \in ClientsOf("monitor"),
             client' # client, client'[fd].kind = "none", client[fd].peer = "open", process' = "up"
      PROVE  Answered(client[fd]) \/ Unanswerable(client[fd].script)
  <2>0. /\ fd \in Fds /\ client[fd].kind = "monitor" /\ fd \in Used(sel)
        /\ MonitorOK(client[fd]) /\ DOMAIN client = Fds
    BY <1>1 DEF ClientsOf, Clients, LoopInv, Own, ClientOK, Pop3OK
  <2>1. CASE CallHandler
    <3>1. PICK f \in Fds, side \in {"read", "write"} : NextCall = Place(f, side) /\ Handle(f, side)
      BY <2>1 DEF CallHandler
    <3>2. /\ f \in Used(sel) /\ process = "up" /\ RegisteredOK(f)
          /\ side = "write" => "WRITE" \in sel.item[f].interest
      BY <1>1, <2>1, <3>1, CalledIsRegistered, NextIsCalled DEF CallHandler, LoopInv, Own
    <3>3. CASE sel.item[f].handler = "pop3"
      <4>1. client[f].kind = "pop3" /\ (Pop3Read(f) \/ Pop3Write(f) \/ Pop3WriteMail(f))
        BY <3>1, <3>2, <3>3 DEF RegisteredOK, Handle
      <4>2. Local(f) /\ f # fd
        BY <1>1, <2>0, <4>1, Pop3Local DEF LoopInv, FreshInv
      <4>. QED BY <1>1, <2>0, <4>2 DEF Local
    <3>4. CASE sel.item[f].handler = "monitor"
      <4>1. client[f].kind = "monitor" /\ (MonitorRead(f) \/ (side = "write" /\ MonitorWrite(f)))
        BY <3>1, <3>2, <3>4 DEF RegisteredOK, Handle
      <4>2. CASE f = fd
        BY <1>1, <3>2, <4>1, <4>2, WhyClosed
      <4>3. CASE f # fd
        <5>1. Local(f)
          BY <1>1, <4>1, MonitorLocal DEF LoopInv, FreshInv
        <5>. QED BY <1>1, <2>0, <4>3, <5>1 DEF Local
      <4>. QED BY <4>2, <4>3
    <3>5. CASE sel.item[f].handler \in {"accept_pop3", "accept_monitor"}
      <4>1. AcceptPop3 \/ AcceptMonitor
        BY <3>1, <3>5 DEF Handle
      <4>2. \E g \in Fds : Local(g) /\ g \notin Used(sel)
        BY <1>1, <4>1, AcceptLocal DEF LoopInv, FreshInv
      <4>. QED BY <1>1, <2>0, <4>2 DEF Local
    <3>. QED BY <3>2, <3>3, <3>4, <3>5 DEF RegisteredOK
  <2>2. CASE Terminate
    BY <1>1, <2>2 DEF Terminate
  <2>3. CASE Select \/ EndRound \/ UNCHANGED vars
    BY <1>1, <2>3 DEF Select, EndRound, vars
  <2>4. CASE Outside
    <3>1. client'[fd].kind = client[fd].kind
      <4>1. \E f \in Fds : \/ client' = [client EXCEPT ![f].event = TRUE]
                           \/ client' = [client EXCEPT ![f].peer = "gone", ![f].event = TRUE]
        BY <1>1, <2>4 DEF Outside, Connect, Arise, PeerGoes, PeerStops, PeerReads
      <4>. QED BY <2>0, <4>1 DEF MonitorOK
    <3>. QED BY <1>1, <2>0, <3>1
  <2>. QED BY <1>1, <2>1, <2>2, <2>3, <2>4 DEF Next, Loop
<1>2. ASSUME LoopInv, FreshInv, HeardInv, [Next]_vars
      PROVE  [\A fd \in ClientsOf("monitor") :
                 client'[fd].kind = "none" /\ client[fd].peer = "open" /\ process' = "up" =>
                    Answered(client[fd]) \/ Unanswerable(client[fd].script)]_vars
  <2>. SUFFICES ASSUME NEW fd \in ClientsOf("monitor"),
                       client'[fd].kind = "none", client[fd].peer = "open", process' = "up"
                PROVE  Answered(client[fd]) \/ Unanswerable(client[fd].script)
    OBVIOUS
  <2>1. client' # client
    BY DEF ClientsOf
  <2>. QED BY <1>1, <1>2, <2>1
<1>. QED BY <1>2, InitLoopInv, LoopInvStep, FreshInit, FreshStep, HeardInit, HeardStep, PTL
         DEF Spec, AnsweredOrUnanswerable
============================================================================
