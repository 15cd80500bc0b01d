-------------------------- MODULE Pop3Client_proofs -------------------------
(***************************************************************************)
(* One connection as a stream of bytes, for buffers of any size and        *)
(* replies, listings and mails of any length: no command is lost between   *)
(* the socket and its handler, and the bytes sent are those owed.          *)
(***************************************************************************)
EXTENDS Pop3Client, TLAPS, WellFoundedInduction, SequenceTheorems

\* Induction over the numbers, said of a set.
LEMMA SetInduction ==
    ASSUME NEW S, 0 \in S, \A n \in Nat : n \in S => n + 1 \in S
    PROVE  Nat \subseteq S
<1>. DEFINE R == {ss \in Nat \X Nat : ss[1] < ss[2]}
            D == Nat \ S
<1>1. IsWellFoundedOn(R, Nat)
  BY NatLessThanWellFounded DEF OpToRel
<1>. HIDE DEF R
<1>2. SUFFICES ASSUME D # {} PROVE FALSE
  OBVIOUS
<1>3. D \in SUBSET Nat
  OBVIOUS
<1>. HIDE DEF D
<1>4. PICK x \in D : \A y \in D : ~(<<y, x>> \in R)
  BY <1>1, <1>2, <1>3, WFMin
<1>. USE DEF D
<1>5. x \in Nat /\ x # 0 /\ x - 1 \in Nat /\ (x - 1) + 1 = x
  OBVIOUS
<1>6. x - 1 \in D
  BY <1>5
<1>7. <<x - 1, x>> \in R
  BY <1>5 DEF R
<1>. QED BY <1>4, <1>6, <1>7

\* The numbers of a set that is not empty have a least one.
LEMMA MinExists ==
    ASSUME NEW S \in SUBSET Nat, S # {}
    PROVE  Min(S) \in S /\ \A y \in S : Min(S) =< y
<1>. DEFINE R == {ss \in Nat \X Nat : ss[1] < ss[2]}
<1>1. IsWellFoundedOn(R, Nat)
  BY NatLessThanWellFounded DEF OpToRel
<1>. HIDE DEF R
<1>2. PICK x \in S : \A y \in S : ~(<<y, x>> \in R)
  BY <1>1, WFMin
<1>3. ASSUME NEW y \in S PROVE x =< y
  <2>1. x \in Nat /\ y \in Nat
    OBVIOUS
  <2>2. ~(y < x)
    BY <1>2, <2>1 DEF R
  <2>. QED BY <2>1, <2>2
<1>. QED BY <1>3 DEF Min

----------------------------------------------------------------------------
(* The commands in a run of bytes *)

InByte == Commands \cup {"part"}

Next1(f, s, i) ==
    IF i = 0 THEN <<>>
    ELSE IF IsCommand(s[i]) THEN Append(f[i - 1], s[i])
    ELSE f[i - 1]

UpTo(s) == CHOOSE f : f = [i \in 0..Len(s) |-> Next1(f, s, i)]

\* The commands in a sequence are those up to its end.
LEMMA CommandsAreUpTo == ASSUME NEW s PROVE CommandsIn(s) = UpTo(s)[Len(s)]
BY DEF CommandsIn, UpTo, Next1

\* The recursive function exists.
LEMMA UpToExists ==
    ASSUME NEW s
    PROVE  \A n \in Nat : \E f : f = [i \in 0..n |-> Next1(f, s, i)]
<1>. DEFINE S == {n \in Nat : \E f : f = [i \in 0..n |-> Next1(f, s, i)]}
<1>1. 0 \in S
  <2>. DEFINE f == [i \in 0..0 |-> <<>>]
  <2>1. f = [i \in 0..0 |-> Next1(f, s, i)]
    BY DEF Next1
  <2>. HIDE DEF f
  <2>. QED BY <2>1
<1>2. ASSUME NEW n \in Nat, n \in S PROVE n + 1 \in S
  <2>1. PICK f : f = [i \in 0..n |-> Next1(f, s, i)]
    BY <1>2
  <2>. DEFINE g == [i \in 0..(n + 1) |-> IF i = n + 1 THEN Next1(f, s, n + 1) ELSE f[i]]
  <2>2. \A i \in 0..n : f[i] = Next1(f, s, i)
    BY <2>1
  <2>3. \A i \in 0..(n + 1) : i # 0 => i - 1 \in 0..n /\ i - 1 \in 0..(n + 1) /\ i - 1 # n + 1
    OBVIOUS
  <2>4. \A i \in 0..n : g[i] = f[i]
    OBVIOUS
  <2>5. \A i \in 0..(n + 1) : Next1(g, s, i) = Next1(f, s, i)
    BY <2>3, <2>4 DEF Next1
  <2>6. \A i \in 0..(n + 1) : g[i] = Next1(f, s, i)
    <3>. TAKE i \in 0..(n + 1)
    <3>1. CASE i = n + 1
      BY <3>1
    <3>2. CASE i # n + 1
      <4>1. i \in 0..n
        BY <3>2
      <4>. QED BY <2>2, <2>4, <4>1
    <3>. QED BY <3>1, <3>2
  <2>7. g = [i \in 0..(n + 1) |-> g[i]]
    OBVIOUS
  <2>. HIDE DEF g
  <2>8. g = [i \in 0..(n + 1) |-> Next1(g, s, i)]
    BY <2>5, <2>6, <2>7
  <2>. QED BY <2>8
<1>. HIDE DEF S
<1>3. Nat \subseteq S
  BY <1>1, <1>2, SetInduction
<1>. QED BY <1>3 DEF S

\* Each place adds its command, if it holds one.
LEMMA UpToStep ==
    ASSUME NEW s \in Seq(InByte)
    PROVE  /\ UpTo(s)[0] = <<>>
           /\ \A i \in 1..Len(s) : UpTo(s)[i] = IF IsCommand(s[i]) THEN Append(UpTo(s)[i - 1], s[i])
                                                                   ELSE UpTo(s)[i - 1]
           /\ \A i \in 0..Len(s) : UpTo(s)[i] \in Seq(Commands)
<1>1. Len(s) \in Nat
  OBVIOUS
<1>2. UpTo(s) = [i \in 0..Len(s) |-> Next1(UpTo(s), s, i)]
  <2>1. \E f : f = [i \in 0..Len(s) |-> Next1(f, s, i)]
    BY <1>1, UpToExists
  <2>. QED BY <2>1 DEF UpTo
<1>3. \A i \in 0..Len(s) : UpTo(s)[i] = Next1(UpTo(s), s, i)
  BY <1>2
<1>4. UpTo(s)[0] = <<>>
  BY <1>1, <1>3 DEF Next1
<1>5. \A i \in 1..Len(s) : UpTo(s)[i] = IF IsCommand(s[i]) THEN Append(UpTo(s)[i - 1], s[i])
                                                           ELSE UpTo(s)[i - 1]
  BY <1>1, <1>3 DEF Next1
<1>. DEFINE S == {i \in Nat : i <= Len(s) => UpTo(s)[i] \in Seq(Commands)}
<1>6. 0 \in S
  <2>1. UpTo(s)[0] \in Seq(Commands)
    BY <1>4, EmptySeq
  <2>. QED BY <2>1
<1>7. ASSUME NEW n \in Nat, n \in S PROVE n + 1 \in S
  <2>. SUFFICES ASSUME n + 1 <= Len(s) PROVE UpTo(s)[n + 1] \in Seq(Commands)
    OBVIOUS
  <2>1. n + 1 \in 1..Len(s) /\ (n + 1) - 1 = n /\ UpTo(s)[n] \in Seq(Commands)
    BY <1>1, <1>7
  <2>2. CASE IsCommand(s[n + 1])
    <3>1. s[n + 1] \in Commands /\ UpTo(s)[n + 1] = Append(UpTo(s)[n], s[n + 1])
      BY <1>5, <2>1, <2>2 DEF IsCommand
    <3>. QED BY <2>1, <3>1, AppendProperties
  <2>3. CASE ~IsCommand(s[n + 1])
    BY <1>5, <2>1, <2>3
  <2>. QED BY <2>2, <2>3
<1>. HIDE DEF S
<1>8. Nat \subseteq S
  BY <1>6, <1>7, SetInduction
<1>9. \A i \in 0..Len(s) : UpTo(s)[i] \in Seq(Commands)
  BY <1>1, <1>8 DEF S
<1>. QED BY <1>4, <1>5, <1>9

\* What is found in a sequence of bytes is commands.
LEMMA CommandsAreCommands ==
    ASSUME NEW s \in Seq(InByte) PROVE CommandsIn(s) \in Seq(Commands)
<1>1. Len(s) \in 0..Len(s)
  OBVIOUS
<1>. QED BY <1>1, UpToStep, CommandsAreUpTo

\* The commands of two runs of bytes are those of the one, then the other.
LEMMA CommandsConcat ==
    ASSUME NEW s \in Seq(InByte), NEW t \in Seq(InByte)
    PROVE  CommandsIn(s \o t) = CommandsIn(s) \o CommandsIn(t)
<1>. DEFINE u == s \o t
<1>1. /\ u \in Seq(InByte) /\ Len(s) \in Nat /\ Len(t) \in Nat /\ Len(u) = Len(s) + Len(t)
      /\ \A i \in 1..Len(s) : u[i] = s[i]
      /\ \A i \in 1..Len(t) : u[Len(s) + i] = t[i]
  OBVIOUS
<1>. HIDE DEF u
<1>2. /\ UpTo(s)[0] = <<>>
      /\ \A i \in 1..Len(s) : UpTo(s)[i] = IF IsCommand(s[i]) THEN Append(UpTo(s)[i - 1], s[i])
                                                              ELSE UpTo(s)[i - 1]
      /\ \A i \in 0..Len(s) : UpTo(s)[i] \in Seq(Commands)
  BY UpToStep
<1>3. /\ UpTo(t)[0] = <<>>
      /\ \A i \in 1..Len(t) : UpTo(t)[i] = IF IsCommand(t[i]) THEN Append(UpTo(t)[i - 1], t[i])
                                                              ELSE UpTo(t)[i - 1]
      /\ \A i \in 0..Len(t) : UpTo(t)[i] \in Seq(Commands)
  BY UpToStep
<1>4. /\ UpTo(u)[0] = <<>>
      /\ \A i \in 1..Len(u) : UpTo(u)[i] = IF IsCommand(u[i]) THEN Append(UpTo(u)[i - 1], u[i])
                                                              ELSE UpTo(u)[i - 1]
  BY <1>1, UpToStep
<1>5. UpTo(u)[Len(s)] = UpTo(s)[Len(s)]
  <2>. DEFINE S == {n \in Nat : n <= Len(s) => UpTo(u)[n] = UpTo(s)[n]}
  <2>1. 0 \in S
    BY <1>2, <1>4
  <2>2. ASSUME NEW n \in Nat, n \in S PROVE n + 1 \in S
    <3>. SUFFICES ASSUME n + 1 <= Len(s) PROVE UpTo(u)[n + 1] = UpTo(s)[n + 1]
      OBVIOUS
    <3>1. n + 1 \in 1..Len(s) /\ n + 1 \in 1..Len(u) /\ (n + 1) - 1 = n /\ UpTo(u)[n] = UpTo(s)[n]
      BY <1>1, <2>2
    <3>. QED BY <1>1, <1>2, <1>4, <3>1
  <2>. HIDE DEF S
  <2>3. Nat \subseteq S
    BY <2>1, <2>2, SetInduction
  <2>4. Len(s) \in S
    BY <1>1, <2>3
  <2>. QED BY <1>1, <2>4 DEF S
<1>6. UpTo(u)[Len(s) + Len(t)] = UpTo(s)[Len(s)] \o UpTo(t)[Len(t)]
  <2>. DEFINE c == UpTo(s)[Len(s)]
              S == {n \in Nat : n <= Len(t) => UpTo(u)[Len(s) + n] = c \o UpTo(t)[n]}
  <2>1. c \in Seq(Commands)
    <3>1. Len(s) \in 0..Len(s)
      BY <1>1
    <3>. QED BY <1>2, <3>1
  <2>2. UpTo(u)[Len(s)] = c
    BY <1>5
  <2>. HIDE DEF c
  <2>3. 0 \in S
    <3>1. Len(s) + 0 = Len(s) /\ c \o UpTo(t)[0] = c
      BY <1>1, <1>3, <2>1, ConcatEmptySeq
    <3>. QED BY <2>2, <3>1
  <2>4. ASSUME NEW n \in Nat, n \in S PROVE n + 1 \in S
    <3>. SUFFICES ASSUME n + 1 <= Len(t) PROVE UpTo(u)[Len(s) + (n + 1)] = c \o UpTo(t)[n + 1]
      OBVIOUS
    <3>1. /\ n + 1 \in 1..Len(t) /\ n \in 0..Len(t) /\ Len(s) + (n + 1) \in 1..Len(u)
          /\ (n + 1) - 1 = n /\ (Len(s) + (n + 1)) - 1 = Len(s) + n
      BY <1>1
    <3>1a. UpTo(u)[Len(s) + n] = c \o UpTo(t)[n]
      <4>1. n <= Len(t)
        BY <1>1
      <4>. QED BY <2>4, <4>1
    <3>2. u[Len(s) + (n + 1)] = t[n + 1]
      BY <1>1, <3>1
    <3>3. UpTo(t)[n] \in Seq(Commands)
      BY <1>3, <3>1
    <3>4. CASE IsCommand(t[n + 1])
      <4>1. UpTo(u)[Len(s) + (n + 1)] = Append(c \o UpTo(t)[n], t[n + 1])
        BY <1>4, <3>1, <3>1a, <3>2, <3>4
      <4>2. UpTo(t)[n + 1] = Append(UpTo(t)[n], t[n + 1]) /\ t[n + 1] \in Commands
        BY <1>3, <3>1, <3>4 DEF IsCommand
      <4>3. \A x, y \in Seq(Commands), e \in Commands : Append(x \o y, e) = x \o Append(y, e)
        <5>. TAKE x, y \in Seq(Commands), e \in Commands
        <5>1. x \o y \in Seq(Commands) /\ <<e>> \in Seq(Commands)
          BY ConcatProperties
        <5>2. Append(x \o y, e) = (x \o y) \o <<e>> /\ Append(y, e) = y \o <<e>>
          BY <5>1, AppendIsConcat
        <5>. QED BY <5>1, <5>2, ConcatAssociative, SMTT(30)
      <4>. QED BY <2>1, <3>3, <4>1, <4>2, <4>3, ZenonT(40)
    <3>5. CASE ~IsCommand(t[n + 1])
      BY <1>3, <1>4, <3>1, <3>1a, <3>2, <3>5
    <3>. QED BY <3>4, <3>5
  <2>. HIDE DEF S
  <2>5. Nat \subseteq S
    BY <2>3, <2>4, SetInduction
  <2>6. Len(t) \in S
    BY <1>1, <2>5
  <2>7. UpTo(u)[Len(s) + Len(t)] = c \o UpTo(t)[Len(t)]
    BY <1>1, <2>6 DEF S
  <2>. QED BY <2>7 DEF c
<1>. QED BY <1>1, <1>6, CommandsAreUpTo DEF u

\* Bytes inside lines end no command.
LEMMA CommandsNone ==
    ASSUME NEW s \in Seq(InByte), \A i \in 1..Len(s) : ~IsCommand(s[i])
    PROVE  CommandsIn(s) = <<>>
<1>. DEFINE S == {n \in Nat : n <= Len(s) => UpTo(s)[n] = <<>>}
<1>0. Len(s) \in Nat
  OBVIOUS
<1>1. 0 \in S
  BY UpToStep
<1>2. ASSUME NEW n \in Nat, n \in S PROVE n + 1 \in S
  <2>. SUFFICES ASSUME n + 1 <= Len(s) PROVE UpTo(s)[n + 1] = <<>>
    OBVIOUS
  <2>1. n + 1 \in 1..Len(s) /\ (n + 1) - 1 = n /\ UpTo(s)[n] = <<>>
    BY <1>0, <1>2
  <2>. QED BY <2>1, UpToStep
<1>. HIDE DEF S
<1>3. Nat \subseteq S
  BY <1>1, <1>2, SetInduction
<1>4. Len(s) \in S
  BY <1>0, <1>3
<1>. QED BY <1>0, <1>4, CommandsAreUpTo DEF S

\* The bytes of one command hold that command.
LEMMA CommandsOne ==
    ASSUME NEW c \in Commands
    PROVE  CommandsIn(<<c>>) = <<c>> /\ CommandsIn(<<"part", c>>) = <<c>>
<1>1. <<c>> \in Seq(InByte) /\ Len(<<c>>) = 1 /\ <<c>>[1] = c /\ IsCommand(c)
  BY DEF InByte, IsCommand
<1>2. CommandsIn(<<c>>) = <<c>>
  <2>1. 1 \in 1..Len(<<c>>) /\ 1 - 1 = 0
    BY <1>1
  <2>2. UpTo(<<c>>)[1] = Append(UpTo(<<c>>)[0], c)
    BY <1>1, <2>1, UpToStep
  <2>3. Append(<<>>, c) = <<c>>
    OBVIOUS
  <2>. QED BY <1>1, <2>2, <2>3, UpToStep, CommandsAreUpTo
<1>3. <<"part">> \in Seq(InByte) /\ \A i \in 1..Len(<<"part">>) : ~IsCommand(<<"part">>[i])
  BY CommandsAssumption DEF InByte, IsCommand
<1>4. CommandsIn(<<"part">>) = <<>>
  BY <1>3, CommandsNone
<1>5. <<"part">> \o <<c>> = <<"part", c>>
  <2>1. <<"part">> \o <<c>> = [i \in 1..2 |-> IF i = 1 THEN "part" ELSE c]
    OBVIOUS
  <2>2. <<"part", c>> = [i \in 1..2 |-> IF i = 1 THEN "part" ELSE c]
    OBVIOUS
  <2>. QED BY <2>1, <2>2
<1>6. CommandsIn(<<"part">> \o <<c>>) = <<>> \o <<c>>
  BY <1>1, <1>2, <1>3, <1>4, CommandsConcat
<1>7. <<>> \o <<c>> = <<c>>
  OBVIOUS
<1>. QED BY <1>2, <1>5, <1>6, <1>7

\* find_command: the first command of the bytes, and those behind it.
LEMMA FirstCommand ==
    ASSUME NEW b, b.bytes \in Seq(InByte)
    PROVE  /\ CommandAt(b) = 0 => CommandsIn(b.bytes) = <<>>
           /\ CommandAt(b) # 0 =>
                 /\ CommandAt(b) \in 1..Len(b.bytes)
                 /\ b.bytes[CommandAt(b)] \in Commands
                 /\ CommandsIn(b.bytes) = <<b.bytes[CommandAt(b)]>>
                       \o CommandsIn(SubSeq(b.bytes, CommandAt(b) + 1, Len(b.bytes)))
<1>. DEFINE s == b.bytes
            I == {i \in 1..Len(s) : IsCommand(s[i])}
            at == CommandAt(b)
<1>1. at = IF I # {} THEN Min(I) ELSE 0
  BY DEF CommandAt, SelectInSeq
<1>2. s \in Seq(InByte) /\ Len(s) \in Nat /\ I \in SUBSET Nat
  OBVIOUS
<1>. HIDE DEF s, at
<1>3. CASE I = {}
  <2>1. CommandsIn(s) = <<>>
    BY <1>2, <1>3, CommandsNone
  <2>. QED BY <1>1, <1>3, <2>1 DEF s, at
<1>4. CASE I # {}
  <2>1. at \in I /\ \A y \in I : at =< y
    BY <1>1, <1>2, <1>4, MinExists
  <2>2. at \in 1..Len(s) /\ IsCommand(s[at]) /\ at # 0 /\ at \in Nat
    BY <1>2, <2>1
  <2>. DEFINE front == SubSeq(s, 1, at - 1)
              rest == SubSeq(s, at + 1, Len(s))
  <2>3. /\ front \in Seq(InByte) /\ Len(front) = at - 1
        /\ \A i \in 1..(at - 1) : front[i] = s[i]
        /\ rest \in Seq(InByte)
    BY <1>2, <2>2
  <2>4. \A i \in 1..Len(front) : ~IsCommand(front[i])
    <3>. TAKE i \in 1..Len(front)
    <3>1. i \in 1..Len(s) /\ i < at /\ front[i] = s[i]
      BY <1>2, <2>2, <2>3
    <3>. QED BY <1>2, <2>1, <2>2, <3>1
  <2>5. s[at] \in Commands /\ <<s[at]>> \in Seq(InByte)
    BY <2>2 DEF IsCommand, InByte
  <2>6. s = front \o (<<s[at]>> \o rest)
    <3>0. 1 \in 1..(Len(s) + 1) /\ at - 1 \in (1 - 1)..Len(s) /\ Len(s) \in (at - 1)..Len(s)
      BY <1>2, <2>2
    <3>1. SubSeq(s, 1, at - 1) \o SubSeq(s, (at - 1) + 1, Len(s)) = SubSeq(s, 1, Len(s))
      BY ONLY <1>2, <3>0, ConcatAdjacentSubSeq
    <3>2. SubSeq(s, at, Len(s)) = <<s[at]>> \o SubSeq(s, at + 1, Len(s))
      BY <1>2, <2>2, SubSeqRecursiveFirst
    <3>3. (at - 1) + 1 = at /\ SubSeq(s, 1, Len(s)) = s
      BY <1>2, <2>2, SubSeqFull
    <3>. QED BY <3>1, <3>2, <3>3
  <2>7. <<s[at]>> \o rest \in Seq(InByte)
    BY <2>3, <2>5, ConcatProperties
  <2>. HIDE DEF front, rest
  <2>8. CommandsIn(front \o (<<s[at]>> \o rest)) = CommandsIn(front) \o CommandsIn(<<s[at]>> \o rest)
    BY <2>3, <2>7, CommandsConcat
  <2>8a. CommandsIn(<<s[at]>> \o rest) = <<s[at]>> \o CommandsIn(rest)
    BY <2>3, <2>5, CommandsConcat, CommandsOne
  <2>9. CommandsIn(front) = <<>> 
    BY <2>3, <2>4, CommandsNone
  <2>10. CommandsIn(s) = <<>> \o CommandsIn(<<s[at]>> \o rest) 
    BY <2>6, <2>8, <2>9
  <2>11. <<>> \o CommandsIn(<<s[at]>> \o rest) = CommandsIn(<<s[at]>> \o rest)
    BY <2>7, CommandsAreCommands, ConcatEmptySeq
  <2>12. CommandsIn(s) = <<s[at]>> \o CommandsIn(rest)
    BY <2>8a, <2>10, <2>11
  <2>. QED BY <2>2, <2>5, <2>12 DEF s, at, rest
<1>. QED BY <1>3, <1>4

----------------------------------------------------------------------------
(* The buffers *)

OutByte == Nat \X {"line", "dot", "b", "ff"} \X Nat
MailByte == Nat \X {"b"} \X Nat

IsBuffer(b, Byte, size) ==
    /\ b = [bytes |-> b.bytes, room |-> b.room]
    /\ b.bytes \in Seq(Byte)
    /\ b.room \in 0..size
    /\ Len(b.bytes) + b.room <= size

\* What a reply r has left when i of its bytes are written.
Rest(r, i) == SubSeq(r, i + 1, Len(r))

\* One run of bytes behind another.
Cat(x, y) == x \o y

\* Concatenation of output.
LEMMA CatLaws ==
    /\ \A x, y, z \in Seq(OutByte) : Cat(Cat(x, y), z) = Cat(x, Cat(y, z))
    /\ \A x, y \in Seq(OutByte) : Cat(x, y) \in Seq(OutByte) /\ Len(Cat(x, y)) = Len(x) + Len(y)
    /\ \A x \in Seq(OutByte) : Cat(x, <<>>) = x /\ Cat(<<>>, x) = x /\ Len(x) \in Nat
    /\ <<>> \in Seq(OutByte)
<1>1. \A x, y, z \in Seq(OutByte) : Cat(Cat(x, y), z) = Cat(x, Cat(y, z))
  BY ConcatAssociative DEF Cat
<1>2. \A x, y \in Seq(OutByte) : Cat(x, y) \in Seq(OutByte) /\ Len(Cat(x, y)) = Len(x) + Len(y)
  BY ConcatProperties DEF Cat
<1>3. \A x \in Seq(OutByte) : Cat(x, <<>>) = x /\ Cat(<<>>, x) = x /\ Len(x) \in Nat
  BY ConcatEmptySeq, LenProperties DEF Cat
<1>. QED BY <1>1, <1>2, <1>3

\* What is left of a reply is bytes.
LEMMA RestIsSeq == ASSUME NEW S, NEW r \in Seq(S), NEW i \in Nat PROVE Rest(r, i) \in Seq(S)
BY DEF Rest

\* Nothing is left behind its end.
LEMMA RestOfAll == ASSUME NEW S, NEW r \in Seq(S), NEW i \in Nat, Len(r) <= i PROVE Rest(r, i) = <<>>
BY SubSeqEmpty DEF Rest

\* A sequence is its first part and the rest.
LEMMA SplitSeq ==
    ASSUME NEW S, NEW r \in Seq(S), NEW i \in 0..Len(r)
    PROVE  /\ SubSeq(r, 1, i) \in Seq(S) /\ Len(SubSeq(r, 1, i)) = i
           /\ SubSeq(r, i + 1, Len(r)) \in Seq(S) /\ Len(SubSeq(r, i + 1, Len(r))) = Len(r) - i
           /\ SubSeq(r, 1, i) \o SubSeq(r, i + 1, Len(r)) = r
<1>1. Len(r) \in Nat /\ i \in Nat /\ i <= Len(r)
  OBVIOUS
<1>2. 1 \in 1..(Len(r) + 1) /\ i \in (1 - 1)..Len(r) /\ Len(r) \in i..Len(r)
  BY <1>1
<1>3. SubSeq(r, 1, i) \o SubSeq(r, i + 1, Len(r)) = SubSeq(r, 1, Len(r))
  BY ONLY <1>2, r \in Seq(S), ConcatAdjacentSubSeq
<1>4. SubSeq(r, 1, Len(r)) = r
  BY SubSeqFull
<1>5. SubSeq(r, 1, i) \in Seq(S) /\ Len(SubSeq(r, 1, i)) = i
  BY <1>1
<1>6. SubSeq(r, i + 1, Len(r)) \in Seq(S) /\ Len(SubSeq(r, i + 1, Len(r))) = Len(r) - i
  BY <1>1
<1>. QED BY <1>3, <1>4, <1>5, <1>6

\* Writing to a buffer appends.
LEMMA WrittenLaw ==
    ASSUME NEW Byte, NEW size \in Nat, NEW b, IsBuffer(b, Byte, size),
           NEW s \in Seq(Byte), Len(s) <= b.room
    PROVE  /\ IsBuffer(Written(b, s), Byte, size)
           /\ Written(b, s).bytes = b.bytes \o s
           /\ Written(b, s).room = b.room - Len(s)
<1>1. /\ b.bytes \in Seq(Byte) /\ b.room \in 0..size /\ Len(b.bytes) + b.room <= size
      /\ Len(s) \in Nat /\ Len(b.bytes) \in Nat
  BY DEF IsBuffer
<1>2. Written(b, s).bytes = b.bytes \o s /\ Written(b, s).room = b.room - Len(s)
  BY DEF Written
<1>3. b.bytes \o s \in Seq(Byte) /\ Len(b.bytes \o s) = Len(b.bytes) + Len(s)
  BY <1>1
<1>4. Written(b, s) = [bytes |-> Written(b, s).bytes, room |-> Written(b, s).room]
  BY DEF Written
<1>5. b.room - Len(s) \in 0..size /\ (Len(b.bytes) + Len(s)) + (b.room - Len(s)) <= size
  BY <1>1
<1>. QED BY <1>2, <1>3, <1>4, <1>5 DEF IsBuffer

\* Reading from a buffer takes the first bytes off.
LEMMA ReadOffLaw ==
    ASSUME NEW Byte, NEW size \in Nat, NEW b, IsBuffer(b, Byte, size), NEW n \in 1..Len(b.bytes)
    PROVE  /\ IsBuffer(ReadOff(b, n, size), Byte, size)
           /\ ReadOff(b, n, size).bytes = SubSeq(b.bytes, n + 1, Len(b.bytes))
           /\ ReadOff(b, n, size).bytes = <<>> =>
                 n = Len(b.bytes) /\ ReadOff(b, n, size) = EmptyBuffer(size)
           /\ ReadOff(b, n, size).bytes # <<>> => ReadOff(b, n, size).room = b.room
<1>1. /\ b.bytes \in Seq(Byte) /\ b.room \in 0..size /\ Len(b.bytes) + b.room <= size
      /\ Len(b.bytes) \in Nat
      /\ b = [bytes |-> b.bytes, room |-> b.room]
  BY DEF IsBuffer
<1>. DEFINE t == SubSeq(b.bytes, n + 1, Len(b.bytes))
<1>2. t \in Seq(Byte) /\ Len(t) = Len(b.bytes) - n
  BY <1>1, SplitSeq, SMTT(30)
<1>. HIDE DEF t
<1>3. CASE n = Len(b.bytes)
  <2>1. ReadOff(b, n, size) = EmptyBuffer(size)
    BY <1>3 DEF ReadOff
  <2>2. t = <<>>
    BY <1>1, <1>2, <1>3
  <2>3. /\ EmptyBuffer(size).bytes = <<>> /\ EmptyBuffer(size).room = size
        /\ EmptyBuffer(size) = [bytes |-> EmptyBuffer(size).bytes, room |-> EmptyBuffer(size).room]
    BY DEF EmptyBuffer
  <2>4. IsBuffer(EmptyBuffer(size), Byte, size)
    BY <2>3 DEF IsBuffer
  <2>. QED BY <1>3, <2>1, <2>2, <2>3, <2>4 DEF t
<1>4. CASE n # Len(b.bytes)
  <2>1. ReadOff(b, n, size) = [b EXCEPT !.bytes = SubSeq(@, n + 1, Len(@))]
    BY <1>4, Zenon DEF ReadOff
  <2>2. ReadOff(b, n, size) = [bytes |-> t, room |-> b.room]
    BY <1>1, <2>1 DEF t
  <2>3. t # <<>>
    BY <1>1, <1>2, <1>4
  <2>4. Len(t) + b.room <= size
    BY <1>1, <1>2
  <2>5. IsBuffer(ReadOff(b, n, size), Byte, size)
    BY <1>1, <1>2, <2>2, <2>4 DEF IsBuffer
  <2>. QED BY <2>2, <2>3, <2>5, SMTT(30) DEF t
<1>. QED BY <1>3, <1>4

\* An empty buffer has all its room.
LEMMA EmptyBufferLaw ==
    ASSUME NEW Byte, NEW size \in Nat
    PROVE  /\ IsBuffer(EmptyBuffer(size), Byte, size)
           /\ EmptyBuffer(size).bytes = <<>> /\ EmptyBuffer(size).room = size
BY DEF EmptyBuffer, IsBuffer

\* What states_common_response_write puts into b.
Fitting(b, r, i) == SubSeq(r, i + 1, IF Len(r) - i <= b.room THEN Len(r) ELSE i + b.room)

\* The part of a reply that fits, and what is left of it, are the reply.
LEMMA FittingLaw ==
    ASSUME NEW b, IsBuffer(b, OutByte, OutSize), NEW r \in Seq(OutByte), NEW i \in Nat
    PROVE  /\ Fitting(b, r, i) \in Seq(OutByte)
           /\ Len(Fitting(b, r, i)) <= b.room
           /\ Fitting(b, r, i) \o Rest(r, i + Len(Fitting(b, r, i))) = Rest(r, i)
           /\ i <= Len(r) => i + Len(Fitting(b, r, i)) <= Len(r)
           /\ Len(r) <= i => Fitting(b, r, i) = <<>>
           /\ i < Len(r) /\ b.room > 0 => Fitting(b, r, i) # <<>>
<1>1. b.room \in 0..OutSize /\ OutSize \in Nat /\ Len(r) \in Nat /\ b.room \in Nat
  BY SizesAssumption DEF IsBuffer
<1>. DEFINE last == IF Len(r) - i <= b.room THEN Len(r) ELSE i + b.room
            s == Fitting(b, r, i)
<1>2. s = SubSeq(r, i + 1, last)
  BY DEF Fitting
<1>3. CASE Len(r) <= i
  <2>1. last = Len(r) /\ last < i + 1
    BY <1>1, <1>3
  <2>2. s = <<>>
    BY <1>1, <1>2, <2>1, SubSeqEmpty
  <2>. HIDE DEF s, last
  <2>3. Len(s) = 0 /\ s \in Seq(OutByte) /\ i + Len(s) = i
    BY <2>2
  <2>4. s \o Rest(r, i) = Rest(r, i)
    BY <2>2, RestIsSeq, ConcatEmptySeq
  <2>. QED BY <1>1, <1>3, <2>2, <2>3, <2>4 DEF s
<1>4. CASE i < Len(r)
  <2>1. last \in i..Len(r) /\ last \in Nat /\ last - i <= b.room /\ (b.room > 0 => last > i)
    BY <1>1, <1>4
  <2>. HIDE DEF s, last
  <2>2. \A k \in (i + 1)..last : r[k] \in OutByte
    BY <1>1, <2>1
  <2>3. s \in Seq(OutByte) /\ Len(s) = last - i
    BY <1>1, <1>2, <2>1, <2>2, SubSeqProperties
  <2>4. i + 1 \in 1..(Len(r) + 1) /\ last \in ((i + 1) - 1)..Len(r) /\ Len(r) \in last..Len(r)
    BY <1>1, <1>4, <2>1
  <2>5. s \o SubSeq(r, last + 1, Len(r)) = SubSeq(r, i + 1, Len(r))
    BY ONLY <1>2, <2>4, r \in Seq(OutByte), ConcatAdjacentSubSeq
  <2>6. i + Len(s) = last
    BY <1>1, <2>1, <2>3
  <2>7. s \o Rest(r, i + Len(s)) = Rest(r, i)
    BY <2>5, <2>6 DEF Rest
  <2>8. b.room > 0 => s # <<>>
    BY <1>1, <2>1, <2>3
  <2>9. ~(Len(r) <= i) /\ i + Len(s) <= Len(r) /\ Len(s) <= b.room
    BY <1>1, <1>4, <2>1, <2>3
  <2>. QED BY <2>3, <2>7, <2>8, <2>9 DEF s
<1>. QED BY <1>1, <1>3, <1>4

\* What states_common_response_write puts in the buffer and what it leaves are the reply.
LEMMA ResponseWritten ==
    ASSUME NEW b, IsBuffer(b, OutByte, OutSize), NEW r \in Seq(OutByte), NEW i \in Nat,
           ResponseWrite(b, r, i)
    PROVE  /\ IsBuffer(out', OutByte, OutSize)
           /\ response' = r
           /\ index' \in Nat
           /\ Cat(out'.bytes, Rest(response', index')) = Cat(b.bytes, Rest(r, i))
           /\ i <= Len(r) => index' <= Len(r)
           /\ Len(r) <= i => index' = i /\ out'.bytes = b.bytes /\ out'.room = b.room
           /\ b.bytes # <<>> \/ (i < Len(r) /\ b.room > 0) => out'.bytes # <<>>
<1>. DEFINE s == Fitting(b, r, i)
<1>1. out' = Written(b, s) /\ response' = r /\ index' = i + Len(s)
  BY DEF ResponseWrite, Fitting
<1>2. /\ s \in Seq(OutByte) /\ Len(s) <= b.room
      /\ s \o Rest(r, i + Len(s)) = Rest(r, i)
      /\ i <= Len(r) => i + Len(s) <= Len(r)
      /\ Len(r) <= i => s = <<>>
      /\ i < Len(r) /\ b.room > 0 => s # <<>>
  BY FittingLaw, Zenon
<1>. HIDE DEF s
<1>2a. Len(s) \in Nat
  BY <1>2
<1>3. OutSize \in Nat /\ b.bytes \in Seq(OutByte) /\ b.room \in 0..OutSize
  BY SizesAssumption DEF IsBuffer
<1>4. IsBuffer(out', OutByte, OutSize) /\ out'.bytes = b.bytes \o s /\ out'.room = b.room - Len(s)
  <2>1. /\ IsBuffer(Written(b, s), OutByte, OutSize)
        /\ Written(b, s).bytes = b.bytes \o s
        /\ Written(b, s).room = b.room - Len(s)
    BY <1>2, <1>3, WrittenLaw, ZenonT(40)
  <2>. QED BY <1>1, <2>1
<1>5. index' \in Nat /\ (i <= Len(r) => index' <= Len(r))
  BY <1>1, <1>2, <1>2a
<1>6. Cat(out'.bytes, Rest(response', index')) = Cat(b.bytes, Rest(r, i))
  <2>1. Rest(r, index') \in Seq(OutByte) /\ Rest(response', index') = Rest(r, index')
    BY <1>1, <1>5, RestIsSeq
  <2>2. out'.bytes = Cat(b.bytes, s) /\ Cat(s, Rest(r, index')) = Rest(r, i)
    BY <1>1, <1>2, <1>4 DEF Cat
  <2>3. Cat(Cat(b.bytes, s), Rest(r, index')) = Cat(b.bytes, Cat(s, Rest(r, index')))
    <3>1. PICK x, t : x = b.bytes /\ t = Rest(r, index')
      OBVIOUS
    <3>2. x \in Seq(OutByte) /\ s \in Seq(OutByte) /\ t \in Seq(OutByte)
      BY <1>2, <1>3, <2>1, <3>1
    <3>3. Cat(Cat(x, s), t) = Cat(x, Cat(s, t))
      BY <3>2, CatLaws
    <3>. QED BY <3>1, <3>3
  <2>. QED BY <2>1, <2>2, <2>3
<1>7. ASSUME Len(r) <= i PROVE index' = i /\ out'.bytes = b.bytes /\ out'.room = b.room
  <2>1. s = <<>> /\ Len(s) = 0
    BY <1>2, <1>7
  <2>2. b.bytes \o s = b.bytes
    BY <1>3, <2>1, ConcatEmptySeq
  <2>. QED BY <1>1, <1>3, <1>4, <2>1, <2>2
<1>8. ASSUME b.bytes # <<>> \/ (i < Len(r) /\ b.room > 0) PROVE out'.bytes # <<>>
  <2>1. b.bytes # <<>> \/ s # <<>>
    BY <1>2, <1>8
  <2>2. b.bytes \o s # <<>>
    BY <1>2, <1>3, <2>1, ConcatEqualIffEmpty
  <2>. QED BY <1>4, <2>2
<1>. QED BY <1>1, <1>4, <1>5, <1>6, <1>7, <1>8

----------------------------------------------------------------------------
(* Types *)

PhaseSet == {"GREETING", "AUTHORIZATION", "TRANSACTION", "UPDATE", "CLOSED"}
EndingSet ==
    {"none", "quit", "auth_quit", "pass_failed", "file_error", "peer", "sent_nothing"}

\* What TypeOK says and the shape of everything else; a buffer runs empty
\* only to give all of its room back, and a server that reads has sent
\* everything.
Typed ==
    /\ phase \in PhaseSet /\ interest \in {"READ", "WRITE"}
    /\ IsBuffer(in, InByte, InSize) /\ IsBuffer(out, OutByte, OutSize)
    /\ out.bytes = <<>> => out = EmptyBuffer(OutSize)
    /\ interest = "READ" /\ phase # "CLOSED" => out.bytes = <<>>
    /\ response \in Seq(OutByte) /\ index \in Nat
    /\ streaming \in BOOLEAN /\ eof \in BOOLEAN
    /\ file \in Seq(OutByte)
    /\ net \in Seq(InByte) /\ asked \in Seq(Commands) /\ done \in Seq(Commands)
    /\ owed \in Seq(OutByte) /\ sent \in Seq(OutByte)
    /\ peer \in {"open", "closed", "reset"} /\ ending \in EndingSet

\* A part of a reply is as many bytes as said.
LEMMA PartLaw ==
    ASSUME NEW k \in Nat, NEW name \in {"line", "dot"}, NEW n \in Nat
    PROVE  Part(k, name, n) \in Seq(OutByte) /\ Len(Part(k, name, n)) = n
<1>1. \A i \in 1..n : <<k, name, i>> \in OutByte
  BY DEF OutByte
<1>. QED BY <1>1 DEF Part

\* The line that ends a mail is not empty.
LEMMA DotLaw ==
    ASSUME NEW k \in Nat
    PROVE  DotCRLF(k) \in Seq(OutByte) /\ Len(DotCRLF(k)) = 1 /\ DotCRLF(k) # <<>>
<1>1. DotCRLF(k) \in Seq(OutByte) /\ Len(DotCRLF(k)) = 1
  BY PartLaw DEF DotCRLF
<1>. QED BY <1>1, EmptySeq

\* The bytes of a mail are bytes.
LEMMA MailLaw ==
    ASSUME NEW k \in Nat, NEW f \in Files
    PROVE  /\ MailBytes(k, f) \in Seq(OutByte)
           /\ PlainFiles => MailBytes(k, f) \in Seq(MailByte)
<1>1. f \in Seq({"b", "ff"})
  BY FilesAssumption
<1>2. MailBytes(k, f) \in Seq(OutByte)
  <2>1. \A i \in 1..Len(f) : <<k, f[i], i>> \in OutByte
    BY <1>1, ElementOfSeq DEF OutByte
  <2>2. MailBytes(k, f) = [i \in 1..Len(f) |-> <<k, f[i], i>>] /\ Len(f) \in Nat
    BY <1>1 DEF MailBytes
  <2>. QED BY <2>1, <2>2
<1>3. ASSUME f \in Seq({"b"}) PROVE MailBytes(k, f) \in Seq(MailByte)
  <2>1. \A i \in 1..Len(f) : <<k, f[i], i>> \in MailByte
    BY <1>3, ElementOfSeq DEF MailByte
  <2>2. MailBytes(k, f) = [i \in 1..Len(f) |-> <<k, f[i], i>>] /\ Len(f) \in Nat
    BY <1>3 DEF MailBytes
  <2>. QED BY <2>1, <2>2
<1>. QED BY <1>2, <1>3 DEF PlainFiles

\* What states_common_file_write takes and leaves.
LEMMA FileWritten ==
    ASSUME file \in Seq(OutByte), NEW b, b = EmptyBuffer(OutSize)
    PROVE  /\ IsBuffer(FileWrite(b).buffer, OutByte, OutSize)
           /\ FileWrite(b).buffer.bytes = <<>> => FileWrite(b).buffer = EmptyBuffer(OutSize)
           /\ FileWrite(b).rest \in Seq(OutByte)
           /\ FileWrite(b).read \in Nat
           /\ FileWrite(b).eof \in BOOLEAN
           /\ file \in Seq(MailByte) =>
                 /\ FileWrite(b).rest \in Seq(MailByte)
                 /\ file = Cat(FileWrite(b).buffer.bytes, FileWrite(b).rest)
                 /\ FileWrite(b).eof => FileWrite(b).rest = <<>>
                 /\ ~FileWrite(b).eof =>
                       FileWrite(b).buffer.bytes # <<>> /\ FileWrite(b).buffer.room = 0
<1>. DEFINE stops == {i \in DOMAIN file : file[i][2] = "ff"}
            plain == IF stops = {} THEN Len(file) ELSE Min(stops) - 1
            n == IF plain < b.room THEN plain ELSE b.room
            s == SubSeq(file, 1, n)
            rest == SubSeq(file, IF n < b.room THEN n + 2 ELSE n + 1, Len(file))
<1>1. FileWrite(b) = [buffer |-> Written(b, s), rest |-> rest, read |-> n,
                      eof |-> n < b.room /\ n = Len(file)]
  BY Zenon DEF FileWrite
<1>2. /\ b.bytes = <<>> /\ b.room = OutSize /\ IsBuffer(b, OutByte, OutSize)
      /\ OutSize \in Nat /\ OutSize > 0 /\ Len(file) \in Nat
  BY EmptyBufferLaw, SizesAssumption
<1>3. plain \in 0..Len(file)
  <2>1. CASE stops = {}
    BY <1>2, <2>1
  <2>2. CASE stops # {}
    <3>1. stops \in SUBSET Nat /\ stops \subseteq 1..Len(file)
      OBVIOUS
    <3>2. Min(stops) \in 1..Len(file)
      BY <2>2, <3>1, MinExists
    <3>. QED BY <1>2, <2>2, <3>2
  <2>. QED BY <2>1, <2>2
<1>4. ASSUME file \in Seq(MailByte) PROVE plain = Len(file)
  <2>1. \A i \in DOMAIN file : file[i] \in MailByte
    BY <1>4
  <2>2. \A m \in MailByte : m[2] # "ff"
    BY DEF MailByte
  <2>3. stops = {}
    BY <2>1, <2>2
  <2>. QED BY <2>3
<1>. HIDE DEF plain, stops
<1>5. n \in 0..Len(file) /\ n \in 0..OutSize /\ n \in Nat
  BY <1>2, <1>3
<1>6. s \in Seq(OutByte) /\ Len(s) = n /\ (n > 0 => s # <<>>) /\ (n = 0 => s = <<>>)
  BY <1>5, SplitSeq
<1>7. rest \in Seq(OutByte)
  BY <1>2, <1>5
<1>. HIDE DEF s, n, rest
<1>8. PICK e : e = (n < b.room /\ n = Len(file))
  OBVIOUS
<1>8a. FileWrite(b) = [buffer |-> Written(b, s), rest |-> rest, read |-> n, eof |-> e]
  BY <1>1, <1>8, Zenon
<1>8b. /\ FileWrite(b).buffer = Written(b, s) /\ FileWrite(b).rest = rest
       /\ FileWrite(b).read = n /\ FileWrite(b).eof = e
  BY <1>8a
<1>9. FileWrite(b).eof = (n < b.room /\ n = Len(file))
  BY <1>8, <1>8b, Zenon
<1>. USE DEF s, n, rest
<1>10. FileWrite(b).eof \in BOOLEAN
  BY <1>9, Zenon
<1>11. /\ IsBuffer(Written(b, s), OutByte, OutSize)
       /\ Written(b, s).bytes = s /\ Written(b, s).room = OutSize - n
  <2>. HIDE DEF s, n
  <2>1. Len(s) <= b.room
    BY <1>2, <1>5, <1>6
  <2>2. /\ IsBuffer(Written(b, s), OutByte, OutSize)
        /\ Written(b, s).bytes = b.bytes \o s /\ Written(b, s).room = b.room - Len(s)
    BY <1>2, <1>6, <2>1, WrittenLaw, ZenonT(40)
  <2>3. <<>> \o s = s
    BY <1>6, ConcatEmptySeq
  <2>. QED BY <1>2, <1>6, <2>2, <2>3
<1>12. ASSUME Written(b, s).bytes = <<>> PROVE Written(b, s) = EmptyBuffer(OutSize)
  <2>. HIDE DEF s, n
  <2>1. s = <<>> /\ n = 0
    BY <1>5, <1>6, <1>11, <1>12
  <2>2. Written(b, s).room = OutSize
    BY <1>2, <1>11, <2>1
  <2>3. Written(b, s) = [bytes |-> Written(b, s).bytes, room |-> Written(b, s).room]
    BY <1>11 DEF IsBuffer
  <2>. QED BY <1>12, <2>2, <2>3 DEF EmptyBuffer
<1>13. ASSUME file \in Seq(MailByte)
       PROVE  /\ rest \in Seq(MailByte)
              /\ file = Cat(s, rest)
              /\ (n < b.room /\ n = Len(file)) => rest = <<>>
              /\ ~(n < b.room /\ n = Len(file)) => s # <<>> /\ Written(b, s).room = 0
  <2>1. plain = Len(file)
    BY <1>4, <1>13
  <2>2. rest \in Seq(MailByte)
    BY <1>2, <1>5, <1>13
  <2>3. CASE n < b.room
    <3>1. n = Len(file)
      BY <1>2, <2>1, <2>3
    <3>2. rest = <<>>
      BY <1>2, <2>3, <3>1, SubSeqEmpty
    <3>3. s = file
      BY <3>1, SubSeqFull
    <3>4. Cat(file, <<>>) = file
      BY CatLaws
    <3>. HIDE DEF s, n, rest
    <3>. QED BY <2>2, <2>3, <3>1, <3>2, <3>3, <3>4
  <2>4. CASE ~(n < b.room)
    <3>1. n = OutSize /\ n > 0 /\ rest = SubSeq(file, n + 1, Len(file))
      BY <1>2, <2>4
    <3>2. s \o rest = file
      <4>. HIDE DEF n
      <4>. QED BY <1>5, <3>1, SplitSeq
    <3>. HIDE DEF s, n, rest
    <3>3. Written(b, s).room = 0
      BY <1>2, <1>11, <3>1
    <3>. QED BY <1>6, <2>2, <2>4, <3>1, <3>2, <3>3 DEF Cat
  <2>. QED BY <2>3, <2>4
<1>. HIDE DEF s, n, rest
<1>. QED BY <1>5, <1>7, <1>8b, <1>9, <1>10, <1>11, <1>12, <1>13

----------------------------------------------------------------------------
(* What the handling of a command comes to *)

\* QUIT before login, or a PASS that fails: the reply is owed, and the
\* connection is over.
Dismissed(cmd) ==
    /\ phase' = "CLOSED"
    /\ \/ cmd = "QUIT" /\ ending' = "auth_quit"
       \/ cmd = "PASS" /\ ending' = "pass_failed"
    /\ UNCHANGED <<interest, out, response, index, streaming, file, eof>>
    /\ owed' = Cat(owed, Part(Len(done'), "line", ShortReply))
    /\ Part(Len(done'), "line", ShortReply) \in Seq(OutByte)

\* A reply, as much of it as fits in the buffer.
Answered ==
    /\ phase' \in {"AUTHORIZATION", "TRANSACTION", "UPDATE"}
    /\ IsBuffer(out', OutByte, OutSize) /\ out'.bytes # <<>>
    /\ response' \in Seq(OutByte) /\ index' \in Nat /\ index' <= Len(response')
    /\ streaming' = FALSE
    /\ UNCHANGED <<file, eof, ending>>
    /\ owed' = Cat(owed, Cat(out'.bytes, Rest(response', index')))

\* The first line of RETR's reply in the buffer, and a mail to stream.
Retrieved(cmd) ==
    /\ cmd = "RETR"
    /\ phase' = phase /\ phase = "TRANSACTION"
    /\ IsBuffer(out', OutByte, OutSize) /\ out'.bytes # <<>>
    /\ response' \in Seq(OutByte) /\ index' \in Nat /\ index' = Len(response')
    /\ streaming' = TRUE /\ eof' = FALSE /\ UNCHANGED ending
    /\ file' \in Seq(OutByte)
    /\ PlainFiles => file' \in Seq(MailByte)
    /\ owed' = Cat(owed, Cat(out'.bytes, Cat(file', DotCRLF(Len(done')))))

\* A reply that is begun in an empty buffer: all of it is in the buffer or still to come.
LEMMA WrittenInto ==
    ASSUME NEW b, b = EmptyBuffer(OutSize), NEW r \in Seq(OutByte), r # <<>>,
           ResponseWrite(b, r, 0)
    PROVE  /\ IsBuffer(out', OutByte, OutSize) /\ out'.bytes # <<>>
           /\ response' \in Seq(OutByte) /\ index' \in Nat /\ index' <= Len(response')
           /\ Cat(out'.bytes, Rest(response', index')) = r
           /\ Len(r) <= OutSize => index' = Len(response') /\ out'.bytes = r
<1>1. /\ IsBuffer(b, OutByte, OutSize) /\ b.bytes = <<>> /\ b.room = OutSize
      /\ OutSize \in Nat /\ OutSize > 0 /\ Len(r) \in Nat /\ 0 < Len(r) /\ 0 \in Nat
  <2>1. OutSize \in Nat /\ OutSize > 0
    BY SizesAssumption
  <2>. QED BY <2>1, EmptyBufferLaw
<1>2. /\ IsBuffer(out', OutByte, OutSize)
      /\ response' = r
      /\ index' \in Nat
      /\ Cat(out'.bytes, Rest(response', index')) = Cat(b.bytes, Rest(r, 0))
      /\ 0 <= Len(r) => index' <= Len(r)
      /\ b.bytes # <<>> \/ (0 < Len(r) /\ b.room > 0) => out'.bytes # <<>>
  BY <1>1, ResponseWritten, Zenon
<1>3. Rest(r, 0) = r
  BY <1>1, SubSeqFull DEF Rest
<1>4. Cat(<<>>, r) = r
  BY CatLaws
<1>5. Cat(out'.bytes, Rest(response', index')) = r
  BY <1>1, <1>2, <1>3, <1>4
<1>6. 0 <= Len(r) /\ b.room > 0
  BY <1>1
<1>7. ASSUME Len(r) <= OutSize PROVE index' = Len(r) /\ out'.bytes = r
  <2>1. Fitting(b, r, 0) = SubSeq(r, 0 + 1, Len(r))
    BY <1>1, <1>7 DEF Fitting
  <2>2. SubSeq(r, 0 + 1, Len(r)) = r
    BY <1>1, SubSeqFull
  <2>3. out' = Written(b, Fitting(b, r, 0)) /\ index' = 0 + Len(Fitting(b, r, 0))
    BY DEF ResponseWrite, Fitting
  <2>4. out'.bytes = Cat(<<>>, r)
    BY <1>1, <2>1, <2>2, <2>3 DEF Written, Cat
  <2>. QED BY <1>1, <1>4, <2>1, <2>2, <2>3, <2>4
<1>. QED BY <1>1, <1>2, <1>5, <1>6, <1>7

\* A handler that answers leaves a reply under way.
LEMMA AnswerLaw ==
    ASSUME NEW b, b = EmptyBuffer(OutSize), NEW r \in Seq(OutByte), r # <<>>,
           NEW next \in {"AUTHORIZATION", "TRANSACTION", "UPDATE"}, Answer(b, r, next)
    PROVE  Answered
<1>1. /\ ResponseWrite(b, r, 0) /\ owed' = Cat(owed, r) /\ phase' = next
      /\ streaming' = FALSE /\ UNCHANGED <<file, eof, ending>>
  BY DEF Answer, Cat
<1>2. /\ IsBuffer(out', OutByte, OutSize) /\ out'.bytes # <<>>
      /\ response' \in Seq(OutByte) /\ index' \in Nat /\ index' <= Len(response')
      /\ Cat(out'.bytes, Rest(response', index')) = r
  BY <1>1, WrittenInto
<1>. QED BY <1>1, <1>2 DEF Answered

\* RETR leaves a reply under way and a mail behind it.
LEMMA RetrieveLaw ==
    ASSUME phase = "TRANSACTION", owed \in Seq(OutByte),
           NEW b, b = EmptyBuffer(OutSize), NEW k \in Nat, k = Len(done'), NEW f \in Files,
           Retrieve(b, k, f)
    PROVE  Retrieved("RETR")
<1>. DEFINE r == Part(k, "line", ShortReply)
            m == MailBytes(k, f)
            d == DotCRLF(k)
<1>1. r \in Seq(OutByte) /\ Len(r) = ShortReply /\ ShortReply <= OutSize /\ r # <<>>
  <2>1. ShortReply \in Nat /\ ShortReply > 0 /\ ShortReply <= OutSize
    BY SizesAssumption
  <2>2. r \in Seq(OutByte) /\ Len(r) = ShortReply
    BY <2>1, PartLaw
  <2>. HIDE DEF r
  <2>3. r # <<>>
    BY <2>1, <2>2, EmptySeq
  <2>. QED BY <2>1, <2>2, <2>3
<1>2. m \in Seq(OutByte) /\ (PlainFiles => m \in Seq(MailByte))
  BY MailLaw DEF PlainFiles
<1>3. d \in Seq(OutByte)
  BY DotLaw
<1>4. /\ ResponseWrite(b, r, 0)
      /\ owed' = Cat(Cat(Cat(owed, r), m), d)
      /\ streaming' = TRUE /\ file' = m /\ eof' = FALSE
      /\ UNCHANGED <<phase, ending>>
  BY DEF Retrieve, Cat
<1>. HIDE DEF r, m, d
<1>5. /\ IsBuffer(out', OutByte, OutSize) /\ out'.bytes # <<>>
      /\ response' \in Seq(OutByte) /\ index' \in Nat
      /\ index' = Len(response') /\ out'.bytes = r
  BY <1>1, <1>4, WrittenInto
<1>6. Cat(Cat(Cat(owed, r), m), d) = Cat(owed, Cat(r, Cat(m, d)))
  BY <1>1, <1>2, <1>3, CatLaws, SMTT(30)
<1>7. d = DotCRLF(Len(done'))
  BY DEF d
<1>. QED BY <1>2, <1>4, <1>5, <1>6, <1>7 DEF Retrieved

\* A handler ends in one of three ways: dismissed, answered, or with a mail to send.
LEMMA HandleLaw ==
    ASSUME done \in Seq(Commands), owed \in Seq(OutByte),
           NEW cmd \in Commands, NEW b, b = EmptyBuffer(OutSize), Handle(cmd, b)
    PROVE  /\ phase \in {"AUTHORIZATION", "TRANSACTION"}
           /\ done' = Append(done, cmd)
           /\ Dismissed(cmd) \/ Answered \/ Retrieved(cmd)
<1>. DEFINE k == Len(done) + 1
            line == Part(k, "line", ShortReply)
<1>1. k \in Nat
  OBVIOUS
<1>2. /\ done' = Append(done, cmd)
      /\ InAuthorization(cmd, b, line) \/ InTransaction(cmd, b, k, line)
  BY DEF Handle
<1>3. line \in Seq(OutByte) /\ line # <<>>
  <2>1. ShortReply \in Nat /\ ShortReply > 0
    BY SizesAssumption
  <2>2. line \in Seq(OutByte) /\ Len(line) = ShortReply
    BY <1>1, <2>1, PartLaw
  <2>. HIDE DEF line
  <2>. QED BY <2>1, <2>2, EmptySeq
<1>4. Part(k, "line", LongReply) \in Seq(OutByte) /\ Part(k, "line", LongReply) # <<>>
  <2>1. LongReply \in Nat /\ LongReply > 0
    BY SizesAssumption
  <2>2. PICK l : l = Part(k, "line", LongReply)
    OBVIOUS
  <2>3. l \in Seq(OutByte) /\ Len(l) = LongReply
    BY <1>1, <2>1, <2>2, PartLaw
  <2>. QED BY <2>1, <2>2, <2>3, EmptySeq
<1>5. k = Len(done')
  <2>1. Len(Append(done, cmd)) = Len(done) + 1
    BY AppendProperties
  <2>. QED BY <1>2, <2>1
<1>. HIDE DEF k, line
<1>6. CASE InAuthorization(cmd, b, line)
  <2>1. phase = "AUTHORIZATION"
    BY <1>6 DEF InAuthorization
  <2>2. CASE Answer(b, line, phase) \/ Answer(b, line, "TRANSACTION")
    BY <1>2, <1>3, <2>1, <2>2, AnswerLaw
  <2>3. ASSUME NEW why, (cmd = "PASS" /\ why = "pass_failed") \/ (cmd = "QUIT" /\ why = "auth_quit"),
               LeaveUnanswered(line, why)
        PROVE  Dismissed(cmd)
    <3>1. owed' = Cat(owed, line) /\ End(why)
      BY <2>3 DEF LeaveUnanswered, Cat
    <3>2. line = Part(Len(done'), "line", ShortReply)
      BY <1>5 DEF line
    <3>. QED BY <1>3, <2>3, <3>1, <3>2 DEF Dismissed, End
  <2>4. CASE \/ cmd = "PASS" /\ LeaveUnanswered(line, "pass_failed")
             \/ cmd = "QUIT" /\ LeaveUnanswered(line, "auth_quit")
    <3>1. Dismissed(cmd)
      BY <2>3, <2>4
    <3>. QED BY <1>2, <2>1, <3>1
  <2>. QED BY <1>6, <2>2, <2>4 DEF InAuthorization
<1>7. CASE InTransaction(cmd, b, k, line)
  <2>1. phase = "TRANSACTION"
    BY <1>7 DEF InTransaction
  <2>2. CASE Answer(b, line, phase) \/ Answer(b, line, "UPDATE")
    BY <1>2, <1>3, <2>1, <2>2, AnswerLaw
  <2>3. CASE Answer(b, Part(k, "line", LongReply), phase)
    BY <1>2, <1>4, <2>1, <2>3, AnswerLaw
  <2>4. CASE cmd = "RETR" /\ \E f \in Files : Retrieve(b, k, f)
    <3>1. Retrieved("RETR")
      BY <1>1, <1>5, <2>1, <2>4, RetrieveLaw
    <3>. QED BY <1>2, <2>1, <2>4, <3>1
  <2>. QED BY <1>7, <2>2, <2>3, <2>4 DEF InTransaction
<1>. QED BY <1>2, <1>6, <1>7

----------------------------------------------------------------------------
(* The types are an invariant *)

\* The types hold at the start.
LEMMA InitTyped == Init => Typed
<1>. SUFFICES ASSUME Init PROVE Typed
  OBVIOUS
<1>1. /\ ShortReply \in Nat /\ ShortReply > 0 /\ ShortReply <= OutSize
      /\ OutSize \in Nat /\ InSize \in Nat
  BY SizesAssumption
<1>2. Greeting \in Seq(OutByte) /\ Len(Greeting) = ShortReply
  BY <1>1, PartLaw DEF Greeting
<1>3. IsBuffer(in, InByte, InSize)
  BY <1>1, EmptyBufferLaw DEF Init
<1>4. /\ IsBuffer(EmptyBuffer(OutSize), OutByte, OutSize)
      /\ EmptyBuffer(OutSize).bytes = <<>> /\ EmptyBuffer(OutSize).room = OutSize
  BY <1>1, EmptyBufferLaw
<1>5. IsBuffer(out, OutByte, OutSize) /\ out.bytes = Cat(<<>>, Greeting)
  <2>1. Len(Greeting) <= EmptyBuffer(OutSize).room
    BY <1>1, <1>2, <1>4
  <2>. DEFINE e == EmptyBuffer(OutSize)
  <2>2. /\ IsBuffer(Written(e, Greeting), OutByte, OutSize)
        /\ Written(e, Greeting).bytes = e.bytes \o Greeting
    <3>. HIDE DEF e
    <3>1. PICK g : g = Greeting
      OBVIOUS
    <3>2. IsBuffer(e, OutByte, OutSize) /\ Len(g) <= e.room /\ g \in Seq(OutByte) /\ OutSize \in Nat
      BY <1>1, <1>2, <1>4, <2>1, <3>1 DEF e
    <3>3. /\ IsBuffer(Written(e, g), OutByte, OutSize)
          /\ Written(e, g).bytes = e.bytes \o g
      BY <3>2, WrittenLaw, Zenon
    <3>. QED BY <3>1, <3>3
  <2>3. out = Written(e, Greeting)
    BY DEF Init
  <2>. QED BY <1>4, <2>2, <2>3 DEF Cat
<1>6. out.bytes # <<>>
  <2>1. Cat(<<>>, Greeting) = Greeting
    BY <1>2, CatLaws
  <2>2. Greeting # <<>>
    BY <1>1, <1>2, EmptySeq
  <2>. QED BY <1>5, <2>1, <2>2
<1>7. /\ net \in Seq(InByte) /\ asked \in Seq(Commands) /\ done \in Seq(Commands)
      /\ sent \in Seq(OutByte) /\ file \in Seq(OutByte)
  BY DEF Init
<1>8. /\ phase = "GREETING" /\ interest = "WRITE" /\ response = Greeting /\ index = ShortReply
      /\ streaming = FALSE /\ eof = FALSE /\ peer = "open" /\ owed = Greeting /\ ending = "none"
  BY DEF Init
<1>. QED BY <1>1, <1>2, <1>3, <1>5, <1>6, <1>7, <1>8 DEF Typed, PhaseSet, EndingSet

\* recv() of n bytes, and the commands among them.
LEMMA ReceivedLaw ==
    ASSUME Typed, NEW n \in 1..Len(net), n <= in.room
    PROVE  /\ IsBuffer(Written(in, SubSeq(net, 1, n)), InByte, InSize)
           /\ Written(in, SubSeq(net, 1, n)).bytes = in.bytes \o SubSeq(net, 1, n)
           /\ SubSeq(net, 1, n) \in Seq(InByte) /\ SubSeq(net, n + 1, Len(net)) \in Seq(InByte)
           /\ SubSeq(net, 1, n) \o SubSeq(net, n + 1, Len(net)) = net
<1>. DEFINE s == SubSeq(net, 1, n)
<1>1. net \in Seq(InByte) /\ IsBuffer(in, InByte, InSize) /\ InSize \in Nat
  BY SizesAssumption DEF Typed
<1>2. n \in 0..Len(net)
  OBVIOUS
<1>3. /\ s \in Seq(InByte) /\ Len(s) = n /\ SubSeq(net, n + 1, Len(net)) \in Seq(InByte)
      /\ s \o SubSeq(net, n + 1, Len(net)) = net
  BY <1>1, <1>2, SplitSeq
<1>. HIDE DEF s
<1>4. Len(s) <= in.room
  BY <1>3
<1>5. /\ IsBuffer(Written(in, s), InByte, InSize)
      /\ Written(in, s).bytes = in.bytes \o s
  BY <1>1, <1>3, <1>4, WrittenLaw, Zenon
<1>. QED BY <1>3, <1>5 DEF s

\* Taking a command out of the input buffer leaves a buffer with the rest.
LEMMA FilledIsBuffer ==
    ASSUME NEW b, IsBuffer(b, InByte, InSize), CommandAt(b) # 0
    PROVE  /\ IsBuffer(ReadOff(b, CommandAt(b), InSize), InByte, InSize)
           /\ ReadOff(b, CommandAt(b), InSize).bytes
                 = SubSeq(b.bytes, CommandAt(b) + 1, Len(b.bytes))
           /\ b.bytes[CommandAt(b)] \in Commands
<1>1. b.bytes \in Seq(InByte)
  BY DEF IsBuffer
<1>2. CommandAt(b) \in 1..Len(b.bytes) /\ b.bytes[CommandAt(b)] \in Commands
  BY <1>1, FirstCommand
<1>3. InSize \in Nat
  BY SizesAssumption
<1>4. PICK n : n = CommandAt(b)
  OBVIOUS
<1>5. /\ IsBuffer(ReadOff(b, n, InSize), InByte, InSize)
      /\ ReadOff(b, n, InSize).bytes = SubSeq(b.bytes, n + 1, Len(b.bytes))
  BY <1>2, <1>3, <1>4, ReadOffLaw
<1>. QED BY <1>2, <1>4, <1>5

\* Every outcome of a command leaves the output side typed.
LEMMA HandledTyped ==
    ASSUME Typed, NEW cmd, done' \in Seq(Commands), Dismissed(cmd) \/ Answered \/ Retrieved(cmd),
           phase \in {"AUTHORIZATION", "TRANSACTION"}
    PROVE  /\ phase' \in PhaseSet /\ ending' \in EndingSet
           /\ IsBuffer(out', OutByte, OutSize)
           /\ phase' # "CLOSED" => out'.bytes # <<>>
           /\ out'.bytes = <<>> => out' = EmptyBuffer(OutSize)
           /\ response' \in Seq(OutByte) /\ index' \in Nat
           /\ streaming' \in BOOLEAN /\ eof' \in BOOLEAN
           /\ file' \in Seq(OutByte) /\ owed' \in Seq(OutByte)
<1>1. CASE Dismissed(cmd)
  <2>1. PICK r \in Seq(OutByte) : owed' = Cat(owed, r)
    BY <1>1 DEF Dismissed
  <2>2. owed' \in Seq(OutByte)
    BY <2>1, CatLaws DEF Typed
  <2>. QED BY <1>1, <2>2 DEF Dismissed, Typed, PhaseSet, EndingSet
<1>2. CASE Answered
  <2>1. owed \in Seq(OutByte) /\ out'.bytes \in Seq(OutByte)
    BY <1>2 DEF Answered, Typed, IsBuffer
  <2>2. Rest(response', index') \in Seq(OutByte)
    BY <1>2, RestIsSeq DEF Answered
  <2>3. owed' \in Seq(OutByte)
    <3>1. Cat(out'.bytes, Rest(response', index')) \in Seq(OutByte)
      BY <2>1, <2>2, CatLaws
    <3>. QED BY <1>2, <2>1, <3>1, CatLaws DEF Answered
  <2>. QED BY <1>2, <2>3 DEF Answered, Typed, PhaseSet, EndingSet
<1>3. CASE Retrieved(cmd)
  <2>1. owed \in Seq(OutByte) /\ out'.bytes \in Seq(OutByte) /\ file' \in Seq(OutByte)
    BY <1>3 DEF Retrieved, Typed, IsBuffer
  <2>2. DotCRLF(Len(done')) \in Seq(OutByte)
    <3>1. Len(done') \in Nat
      OBVIOUS
    <3>. QED BY <3>1, DotLaw
  <2>3. owed' \in Seq(OutByte)
    <3>1. Cat(out'.bytes, Cat(file', DotCRLF(Len(done')))) \in Seq(OutByte)
      BY <2>1, <2>2, CatLaws
    <3>. QED BY <1>3, <2>1, <3>1, CatLaws DEF Retrieved
  <2>. QED BY <1>3, <2>3 DEF Retrieved, Typed, PhaseSet, EndingSet
<1>. QED BY <1>1, <1>2, <1>3

\* send() of n bytes, and the buffer behind them.
LEMMA SentLaw ==
    ASSUME Typed, NEW n \in 1..Len(out.bytes), NEW b, b = ReadOff(out, n, OutSize)
    PROVE  /\ IsBuffer(b, OutByte, OutSize)
           /\ b.bytes = <<>> => b = EmptyBuffer(OutSize) /\ b.room > 0
           /\ b.bytes # <<>> => b.room = out.room
           /\ SubSeq(out.bytes, 1, n) \in Seq(OutByte) /\ b.bytes \in Seq(OutByte)
           /\ Cat(SubSeq(out.bytes, 1, n), b.bytes) = out.bytes
           /\ Cat(sent, SubSeq(out.bytes, 1, n)) \in Seq(OutByte)
<1>1. /\ IsBuffer(out, OutByte, OutSize) /\ sent \in Seq(OutByte) /\ OutSize \in Nat /\ OutSize > 0
      /\ out.bytes \in Seq(OutByte)
  BY SizesAssumption, SMTT(30) DEF Typed, IsBuffer
<1>2. /\ IsBuffer(b, OutByte, OutSize)
      /\ b.bytes = SubSeq(out.bytes, n + 1, Len(out.bytes))
      /\ b.bytes = <<>> => b = EmptyBuffer(OutSize)
      /\ b.bytes # <<>> => b.room = out.room
  BY <1>1, ReadOffLaw, ZenonT(40)
<1>3. PICK o : o = out.bytes
  OBVIOUS
<1>4. o \in Seq(OutByte) /\ n \in 0..Len(o)
  BY <1>1, <1>3
<1>5. /\ SubSeq(o, 1, n) \in Seq(OutByte) /\ SubSeq(o, n + 1, Len(o)) \in Seq(OutByte)
      /\ Cat(SubSeq(o, 1, n), SubSeq(o, n + 1, Len(o))) = o
  BY <1>4, SplitSeq DEF Cat
<1>6. Cat(sent, SubSeq(o, 1, n)) \in Seq(OutByte)
  BY <1>1, <1>5, CatLaws
<1>7. EmptyBuffer(OutSize).room > 0
  BY <1>1, EmptyBufferLaw
<1>. QED BY <1>2, <1>3, <1>5, <1>6, <1>7

\* Filling the buffer again moves bytes from the reply to the buffer.
LEMMA KeepSendingLaw ==
    ASSUME Typed, NEW b, IsBuffer(b, OutByte, OutSize), b.bytes = <<>> => b.room > 0, KeepSending(b)
    PROVE  /\ IsBuffer(out', OutByte, OutSize) /\ out'.bytes # <<>>
           /\ response' = response /\ index' \in Nat
           /\ Cat(out'.bytes, Rest(response', index')) = Cat(b.bytes, Rest(response, index))
           /\ index <= Len(response) => index' <= Len(response)
           /\ Len(response) <= index =>
                 index' = index /\ out'.bytes = b.bytes /\ out'.room = b.room
           /\ UNCHANGED <<phase, interest, in, streaming, file, eof, done, owed, ending>>
<1>1. /\ response \in Seq(OutByte) /\ index \in Nat
      /\ ResponseWrite(b, response, index) /\ MoreToSend(b)
      /\ UNCHANGED <<phase, interest, in, streaming, file, eof, done, owed, ending>>
  BY DEF KeepSending, Typed
<1>2. b.bytes # <<>> \/ (index < Len(response) /\ b.room > 0)
  BY <1>1 DEF MoreToSend, CanRead
<1>. QED BY <1>1, <1>2, ResponseWritten, Zenon

\* What a step of streaming leaves, and what it does to the bytes in order.
LEMMA StreamLaw ==
    ASSUME Typed, NEW b, IsBuffer(b, OutByte, OutSize), b.bytes = <<>> => b = EmptyBuffer(OutSize),
           Stream(b)
    PROVE  /\ b.bytes = <<>>
           /\ phase \in {"AUTHORIZATION", "TRANSACTION"}
           /\ streaming /\ streaming' \in BOOLEAN /\ eof' \in BOOLEAN
           /\ IsBuffer(out', OutByte, OutSize)
           /\ out'.bytes = <<>> => out' = EmptyBuffer(OutSize)
           /\ response' \in Seq(OutByte) /\ index' \in Nat
           /\ file' \in Seq(OutByte)
           /\ file \in Seq(MailByte) =>
                 /\ file' \in Seq(MailByte)
                 /\ streaming' => /\ out'.bytes # <<>> /\ out'.room = 0
                                  /\ index <= index' /\ response' = response
                                  /\ file = Cat(out'.bytes, file')
                 /\ ~streaming' /\ out'.bytes # <<>> =>
                       /\ index' <= Len(response')
                       /\ Cat(file, DotCRLF(Len(done))) = Cat(out'.bytes, Rest(response', index'))
                 /\ ~streaming' /\ out'.bytes = <<>> => file = <<>>
           /\ UNCHANGED <<phase, interest, in, done, owed, ending>>
<1>. DEFINE c == FileWrite(b)
            d == DotCRLF(Len(done))
<1>1. b.bytes = <<>> /\ b = EmptyBuffer(OutSize) /\ streaming
  BY DEF Stream, MoreToSend, CanRead
<1>2. /\ file' = c.rest /\ eof' = c.eof /\ streaming' = ~c.eof
      /\ IF c.eof /\ CanRead(c.buffer)
         THEN ResponseWrite(c.buffer, d, 0)
         ELSE out' = c.buffer /\ index' = index + c.read /\ UNCHANGED response
      /\ UNCHANGED <<phase, interest, in, done, owed, ending>>
      /\ phase \in {"AUTHORIZATION", "TRANSACTION"}
  BY DEF Stream, Serving
<1>3. file \in Seq(OutByte) /\ index \in Nat /\ response \in Seq(OutByte) /\ Len(done) \in Nat
  BY DEF Typed
<1>4. /\ IsBuffer(c.buffer, OutByte, OutSize)
      /\ c.buffer.bytes = <<>> => c.buffer = EmptyBuffer(OutSize)
      /\ c.rest \in Seq(OutByte)
      /\ c.read \in Nat
      /\ c.eof \in BOOLEAN
      /\ file \in Seq(MailByte) =>
            /\ c.rest \in Seq(MailByte)
            /\ file = Cat(c.buffer.bytes, c.rest)
            /\ c.eof => c.rest = <<>>
            /\ ~c.eof => c.buffer.bytes # <<>> /\ c.buffer.room = 0
  BY <1>1, <1>3, FileWritten
<1>5. d \in Seq(OutByte) /\ Len(d) = 1 /\ 0 \in Nat
  BY <1>3, DotLaw
<1>. HIDE DEF c, d
<1>6. CASE c.eof /\ CanRead(c.buffer)
  <2>1. ResponseWrite(c.buffer, d, 0)
    BY <1>2, <1>6, Zenon
  <2>2. PICK e : e = c.buffer
    OBVIOUS
  <2>3. /\ IsBuffer(out', OutByte, OutSize)
        /\ response' = d
        /\ index' \in Nat
        /\ Cat(out'.bytes, Rest(response', index')) = Cat(e.bytes, Rest(d, 0))
        /\ 0 <= Len(d) => index' <= Len(d)
        /\ e.bytes # <<>> => out'.bytes # <<>>
    <3>1. IsBuffer(e, OutByte, OutSize) /\ ResponseWrite(e, d, 0)
      BY <1>4, <2>1, <2>2
    <3>. QED BY <1>5, <3>1, ResponseWritten
  <2>4. e.bytes # <<>>
    BY <1>6, <2>2 DEF CanRead
  <2>5. Rest(d, 0) = d
    BY <1>5, SubSeqFull DEF Rest
  <2>6. index' <= Len(d)
    BY <1>5, <2>3
  <2>7. streaming' = FALSE
    BY <1>2, <1>4, <1>6, Zenon
  <2>8. ASSUME file \in Seq(MailByte)
        PROVE  Cat(file, d) = Cat(out'.bytes, Rest(response', index'))
    <3>1. file = Cat(e.bytes, <<>>)
      BY <1>4, <1>6, <2>2, <2>8
    <3>2. e.bytes \in Seq(OutByte)
      BY <1>4, <2>2 DEF IsBuffer
    <3>3. file = e.bytes
      BY <3>1, <3>2, CatLaws
    <3>. QED BY <2>3, <2>5, <3>3
  <2>9. eof' \in BOOLEAN /\ file' \in Seq(OutByte) /\ (file \in Seq(MailByte) => file' \in Seq(MailByte))
    BY <1>2, <1>4, Zenon
  <2>. QED BY <1>1, <1>2, <1>5, <2>3, <2>4, <2>6, <2>7, <2>8, <2>9 DEF d
<1>7. CASE ~(c.eof /\ CanRead(c.buffer))
  <2>1. out' = c.buffer /\ index' = index + c.read /\ response' = response
    BY <1>2, <1>7, Zenon
  <2>2. index' \in Nat /\ index <= index'
    BY <1>3, <1>4, <2>1
  <2>3. eof' \in BOOLEAN /\ file' \in Seq(OutByte) /\ (file \in Seq(MailByte) => file' \in Seq(MailByte))
    BY <1>2, <1>4, Zenon
  <2>4. IsBuffer(out', OutByte, OutSize) /\ (out'.bytes = <<>> => out' = EmptyBuffer(OutSize))
    BY <1>4, <2>1
  <2>5. CASE c.eof = TRUE
    <3>1. streaming' = FALSE /\ c.buffer.bytes = <<>>
      BY <1>2, <1>7, <2>5, Zenon DEF CanRead
    <3>2. ASSUME file \in Seq(MailByte) PROVE file = <<>>
      <4>1. file = Cat(<<>>, <<>>)
        BY <1>4, <2>5, <3>1, <3>2
      <4>. QED BY <4>1, CatLaws
    <3>. QED BY <1>1, <1>2, <1>3, <2>1, <2>2, <2>3, <2>4, <3>1, <3>2
  <2>6. CASE c.eof = FALSE
    <3>1. streaming' = TRUE
      BY <1>2, <2>6, Zenon
    <3>2. ASSUME file \in Seq(MailByte)
          PROVE  out'.bytes # <<>> /\ out'.room = 0 /\ file = Cat(out'.bytes, file')
      BY <1>2, <1>4, <2>1, <2>6, <3>2
    <3>. QED BY <1>1, <1>2, <1>3, <2>1, <2>2, <2>3, <2>4, <3>1, <3>2
  <2>. QED BY <1>4, <2>5, <2>6
<1>. QED BY <1>6, <1>7

\* The end of a connection keeps the types.
LEMMA EndTyped ==
    ASSUME Typed, NEW why \in EndingSet, End(why), UNCHANGED <<in, done, owed>>,
           net' \in Seq(InByte), asked' \in Seq(Commands), peer' \in {"open", "closed", "reset"},
           sent' \in Seq(OutByte)
    PROVE  Typed'
BY DEF End, Typed, PhaseSet

\* The read handler keeps them.
LEMMA ReadTyped == Typed /\ ReadReady => Typed'
<1>. SUFFICES ASSUME Typed, ReadReady PROVE Typed'
  OBVIOUS
<1>1. interest = "READ" /\ phase \in {"AUTHORIZATION", "TRANSACTION"}
  BY DEF ReadReady
<1>2. out = EmptyBuffer(OutSize)
  BY <1>1 DEF Typed
<1>3. ASSUME NEW n \in 1..Len(net), n <= in.room, Receive(n), UNCHANGED <<asked, peer>>
      PROVE  Typed'
  <2>1. PICK filled : filled = Written(in, SubSeq(net, 1, n))
    OBVIOUS
  <2>2. IsBuffer(filled, InByte, InSize) /\ SubSeq(net, n + 1, Len(net)) \in Seq(InByte)
    BY <1>3, <2>1, ReceivedLaw
  <2>3. net' \in Seq(InByte)
    BY <1>3, <2>2 DEF Receive
  <2>4. CASE CommandAt(filled) = 0
    <3>1. /\ in' = EmptyBuffer(InSize)
          /\ UNCHANGED <<phase, interest, out, response, index, streaming, file, eof, historyVars>>
      BY <1>3, <2>1, <2>4 DEF Receive
    <3>2. IsBuffer(in', InByte, InSize)
      BY <3>1, EmptyBufferLaw, SizesAssumption
    <3>. QED BY <1>3, <2>3, <3>1, <3>2 DEF Typed, historyVars
  <2>5. CASE CommandAt(filled) # 0
    <3>1. PICK cmd : cmd = filled.bytes[CommandAt(filled)]
      OBVIOUS
    <3>2. /\ in' = ReadOff(filled, CommandAt(filled), InSize)
          /\ Handle(cmd, out)
          /\ interest' = IF phase' = "CLOSED" THEN interest ELSE "WRITE"
          /\ sent' = sent
      BY <1>3, <2>1, <2>5, <3>1 DEF Receive
    <3>3. IsBuffer(in', InByte, InSize) /\ cmd \in Commands
      BY <2>2, <2>5, <3>1, <3>2, FilledIsBuffer
    <3>4. /\ done' = Append(done, cmd)
          /\ Dismissed(cmd) \/ Answered \/ Retrieved(cmd)
      BY <1>2, <3>2, <3>3, HandleLaw DEF Typed
    <3>5. done' \in Seq(Commands)
      BY <3>3, <3>4, AppendProperties DEF Typed
    <3>6. /\ phase' \in PhaseSet /\ ending' \in EndingSet
          /\ IsBuffer(out', OutByte, OutSize)
          /\ phase' # "CLOSED" => out'.bytes # <<>>
          /\ out'.bytes = <<>> => out' = EmptyBuffer(OutSize)
          /\ response' \in Seq(OutByte) /\ index' \in Nat
          /\ streaming' \in BOOLEAN /\ eof' \in BOOLEAN
          /\ file' \in Seq(OutByte) /\ owed' \in Seq(OutByte)
      BY <1>1, <3>4, <3>5, HandledTyped
    <3>. QED BY <1>1, <1>3, <2>3, <3>2, <3>3, <3>5, <3>6 DEF Typed
  <2>. QED BY <2>4, <2>5
<1>4. CASE End("peer") /\ UNCHANGED <<in, clientVars, done, owed, sent>>
  <2>1. "peer" \in EndingSet
    BY DEF EndingSet
  <2>2. net' \in Seq(InByte) /\ asked' \in Seq(Commands) /\ peer' \in {"open", "closed", "reset"} /\ sent' \in Seq(OutByte)
    BY <1>4 DEF clientVars, Typed
  <2>. QED BY <1>4, <2>1, <2>2, EndTyped
<1>. QED BY <1>3, <1>4 DEF ReadReady

\* The write handlers keep them.
LEMMA WriteTyped == Typed /\ WriteReady => Typed'
<1>. SUFFICES ASSUME Typed, WriteReady PROVE Typed'
  OBVIOUS
<1>1. interest = "WRITE" /\ phase # "CLOSED"
  BY DEF WriteReady
<1>2. ASSUME NEW n \in 1..OutSize, Send(n) PROVE Typed'
  <2>1. PICK b : b = ReadOff(out, n, OutSize)
    OBVIOUS
  <2>2. n \in 1..Len(out.bytes) /\ UNCHANGED <<net, asked>> /\ peer' \in {"open", "closed", "reset"}
    BY <1>2 DEF Send, Typed
  <2>3. KeepSending(b) \/ GreetingSent(b) \/ UpdateSent(b) \/ Stream(b) \/ MailUnreadable(b) \/ NextCommand(b)
    BY <1>2, <2>1 DEF Send
  <2>4. /\ IsBuffer(b, OutByte, OutSize)
        /\ b.bytes = <<>> => b = EmptyBuffer(OutSize) /\ b.room > 0
        /\ Cat(sent, SubSeq(out.bytes, 1, n)) \in Seq(OutByte)
    BY <2>1, <2>2, SentLaw
  <2>5. sent' \in Seq(OutByte)
    BY <1>2, <2>4 DEF Send, Cat
  <2>6. net' \in Seq(InByte) /\ asked' \in Seq(Commands)
    BY <2>2 DEF Typed
  <2>7. CASE KeepSending(b)
    <3>1. /\ IsBuffer(out', OutByte, OutSize) /\ out'.bytes # <<>>
          /\ response' = response /\ index' \in Nat
          /\ UNCHANGED <<phase, interest, in, streaming, file, eof, done, owed, ending>>
      BY <2>4, <2>7, KeepSendingLaw
    <3>. QED BY <2>2, <2>5, <2>6, <3>1 DEF Typed
  <2>8. CASE GreetingSent(b)
    <3>1. b.bytes = <<>> /\ out' = b /\ phase' = "AUTHORIZATION" /\ interest' = "READ"
          /\ UNCHANGED <<in, response, index, streaming, file, eof, done, owed, ending>>
      BY <2>8 DEF GreetingSent, MoreToSend, CanRead
    <3>. QED BY <2>2, <2>4, <2>5, <2>6, <3>1 DEF Typed, PhaseSet
  <2>9. CASE UpdateSent(b)
    <3>1. End("quit") /\ UNCHANGED <<in, done, owed>> /\ "quit" \in EndingSet
      BY <2>9 DEF UpdateSent, EndingSet
    <3>. QED BY <2>2, <2>5, <2>6, <3>1, EndTyped
  <2>9a. CASE MailUnreadable(b)
    <3>1. End("file_error") /\ UNCHANGED <<in, done, owed>> /\ "file_error" \in EndingSet
      BY <2>9a DEF MailUnreadable, EndingSet
    <3>. QED BY <2>2, <2>5, <2>6, <3>1, EndTyped
  <2>10. CASE Stream(b)
    <3>1. /\ streaming' \in BOOLEAN /\ eof' \in BOOLEAN
          /\ IsBuffer(out', OutByte, OutSize)
          /\ out'.bytes = <<>> => out' = EmptyBuffer(OutSize)
          /\ response' \in Seq(OutByte) /\ index' \in Nat
          /\ file' \in Seq(OutByte)
          /\ UNCHANGED <<phase, interest, in, done, owed, ending>>
      BY <2>4, <2>10, StreamLaw
    <3>. QED BY <1>1, <2>2, <2>5, <2>6, <3>1 DEF Typed
  <2>11. CASE NextCommand(b)
    <3>1. b.bytes = <<>> /\ b = EmptyBuffer(OutSize) /\ phase \in {"AUTHORIZATION", "TRANSACTION"}
      BY <2>4, <2>11 DEF NextCommand, MoreToSend, CanRead, Serving
    <3>2. CASE CommandAt(in) = 0
      <4>1. /\ in' = EmptyBuffer(InSize) /\ interest' = "READ" /\ out' = b
            /\ UNCHANGED <<phase, response, index, streaming, file, eof, done, owed, ending>>
        BY <2>11, <3>2 DEF NextCommand
      <4>2. IsBuffer(in', InByte, InSize)
        BY <4>1, EmptyBufferLaw, SizesAssumption
      <4>. QED BY <2>2, <2>4, <2>5, <2>6, <3>1, <4>1, <4>2 DEF Typed
    <3>3. CASE CommandAt(in) # 0
      <4>1. PICK cmd : cmd = in.bytes[CommandAt(in)]
        OBVIOUS
      <4>2. /\ in' = ReadOff(in, CommandAt(in), InSize)
            /\ Handle(cmd, b) /\ UNCHANGED interest
        BY <2>11, <3>3, <4>1 DEF NextCommand
      <4>3. IsBuffer(in, InByte, InSize)
        BY DEF Typed
      <4>4. IsBuffer(in', InByte, InSize) /\ cmd \in Commands
        BY <3>3, <4>1, <4>2, <4>3, FilledIsBuffer
      <4>5. /\ done' = Append(done, cmd)
            /\ Dismissed(cmd) \/ Answered \/ Retrieved(cmd)
        BY <3>1, <4>2, <4>4, HandleLaw DEF Typed
      <4>6. done' \in Seq(Commands)
        BY <4>4, <4>5, AppendProperties DEF Typed
      <4>7. /\ phase' \in PhaseSet /\ ending' \in EndingSet
            /\ IsBuffer(out', OutByte, OutSize)
            /\ phase' # "CLOSED" => out'.bytes # <<>>
            /\ out'.bytes = <<>> => out' = EmptyBuffer(OutSize)
            /\ response' \in Seq(OutByte) /\ index' \in Nat
            /\ streaming' \in BOOLEAN /\ eof' \in BOOLEAN
            /\ file' \in Seq(OutByte) /\ owed' \in Seq(OutByte)
        BY <3>1, <4>5, <4>6, HandledTyped
      <4>. QED BY <1>1, <2>2, <2>5, <2>6, <4>2, <4>4, <4>6, <4>7 DEF Typed
    <3>. QED BY <3>2, <3>3
  <2>. QED BY <2>3, <2>7, <2>8, <2>9, <2>9a, <2>10, <2>11
<1>3. ASSUME NEW why \in {"peer", "sent_nothing"}, SendFails(why) PROVE Typed'
  <2>1. End(why) /\ UNCHANGED <<in, clientVars, done, owed, sent>> /\ why \in EndingSet
    BY <1>3 DEF SendFails, EndingSet
  <2>2. net' \in Seq(InByte) /\ asked' \in Seq(Commands) /\ peer' \in {"open", "closed", "reset"} /\ sent' \in Seq(OutByte)
    BY <2>1 DEF clientVars, Typed
  <2>. QED BY <2>1, <2>2, EndTyped
<1>. QED BY <1>2, <1>3 DEF WriteReady

\* The client keeps them.
LEMMA ClientTyped ==
    Typed /\ (ClientCloses \/ \E cmd \in Commands : ClientSends(cmd)) => Typed'
<1>1. ASSUME Typed, ClientCloses PROVE Typed'
  BY <1>1 DEF ClientCloses, serverVars, historyVars, Typed
<1>2. ASSUME Typed, NEW cmd \in Commands, ClientSends(cmd) PROVE Typed'
  <2>1. /\ net' = net \o <<"part", cmd>> /\ asked' = Append(asked, cmd)
        /\ UNCHANGED <<serverVars, peer, historyVars>>
    BY <1>2 DEF ClientSends
  <2>2. <<"part", cmd>> \in Seq(InByte)
    BY DEF InByte
  <2>3. net' \in Seq(InByte)
    BY <1>2, <2>1, <2>2, ConcatProperties DEF Typed
  <2>4. asked' \in Seq(Commands)
    BY <1>2, <2>1, AppendProperties DEF Typed
  <2>. QED BY <1>2, <2>1, <2>3, <2>4 DEF serverVars, historyVars, Typed
<1>. QED BY <1>1, <1>2

\* They are about the variables alone.
LEMMA StutterTyped == Typed /\ UNCHANGED vars => Typed'
BY DEF vars, serverVars, clientVars, historyVars, Typed

\* They always hold.
LEMMA TypedInvariant == Spec => []Typed
<1>1. Typed /\ [Next]_vars => Typed'
  BY ReadTyped, WriteTyped, ClientTyped, StutterTyped DEF Next
<1>. QED BY InitTyped, <1>1, PTL DEF Spec

\* No buffer is written beyond its end, whatever the lengths of commands,
\* replies and mails; the 0xFF bytes of mails included.
THEOREM ConnectionTypes == Spec => []TypeOK
<1>1. Typed => TypeOK
  BY DEF Typed, TypeOK, IsBuffer, PhaseSet, EndingSet
<1>. QED BY <1>1, TypedInvariant, PTL

----------------------------------------------------------------------------
(* No command is lost *)

\* Concatenation of commands.
LEMMA CommandCatLaws ==
    /\ \A x, y, z \in Seq(Commands) : Cat(Cat(x, y), z) = Cat(x, Cat(y, z))
    /\ \A x, y \in Seq(Commands) : Cat(x, y) \in Seq(Commands)
    /\ \A x \in Seq(Commands) : Cat(x, <<>>) = x /\ Cat(<<>>, x) = x
    /\ \A x \in Seq(Commands), c \in Commands :
          Append(x, c) = Cat(x, <<c>>) /\ <<c>> \in Seq(Commands)
    /\ <<>> \in Seq(Commands)
<1>1. \A x, y, z \in Seq(Commands) : Cat(Cat(x, y), z) = Cat(x, Cat(y, z))
  BY ConcatAssociative DEF Cat
<1>2. \A x, y \in Seq(Commands) : Cat(x, y) \in Seq(Commands)
  BY ConcatProperties DEF Cat
<1>3. \A x \in Seq(Commands) : Cat(x, <<>>) = x /\ Cat(<<>>, x) = x
  BY ConcatEmptySeq DEF Cat
<1>4. \A x \in Seq(Commands), c \in Commands :
         Append(x, c) = Cat(x, <<c>>) /\ <<c>> \in Seq(Commands)
  BY AppendIsConcat DEF Cat
<1>. QED BY <1>1, <1>2, <1>3, <1>4

\* The commands handled, held and on their way.
Flow(d, i, w) == Cat(Cat(d, CommandsIn(i)), CommandsIn(w))

Kept == Flow(done, in.bytes, net) = asked

\* Receiving moves commands from the wire into the buffer.
LEMMA FlowReceived ==
    ASSUME NEW d \in Seq(Commands), NEW i \in Seq(InByte), NEW s \in Seq(InByte), NEW w \in Seq(InByte)
    PROVE  Flow(d, i \o s, w) = Flow(d, i, s \o w)
<1>1. /\ CommandsIn(i) \in Seq(Commands) /\ CommandsIn(s) \in Seq(Commands)
      /\ CommandsIn(w) \in Seq(Commands)
  BY CommandsAreCommands
<1>2. /\ CommandsIn(i \o s) = Cat(CommandsIn(i), CommandsIn(s))
      /\ CommandsIn(s \o w) = Cat(CommandsIn(s), CommandsIn(w))
  BY CommandsConcat DEF Cat
<1>3. PICK a, b, c : a = CommandsIn(i) /\ b = CommandsIn(s) /\ c = CommandsIn(w)
  OBVIOUS
<1>4. Cat(Cat(d, Cat(a, b)), c) = Cat(Cat(d, a), Cat(b, c))
  <2>1. a \in Seq(Commands) /\ b \in Seq(Commands) /\ c \in Seq(Commands)
    BY <1>1, <1>3
  <2>2. Cat(d, a) \in Seq(Commands)
    BY <2>1, CommandCatLaws
  <2>3. Cat(d, Cat(a, b)) = Cat(Cat(d, a), b)
    BY <2>1, CommandCatLaws
  <2>4. Cat(Cat(Cat(d, a), b), c) = Cat(Cat(d, a), Cat(b, c))
    BY <2>1, <2>2, CommandCatLaws
  <2>. QED BY <2>3, <2>4
<1>. QED BY <1>2, <1>3, <1>4 DEF Flow

\* Handling moves the first command of the buffer to those handled.
LEMMA FlowHandled ==
    ASSUME NEW d \in Seq(Commands), NEW b, IsBuffer(b, InByte, InSize), CommandAt(b) # 0,
           NEW w \in Seq(InByte)
    PROVE  Flow(Append(d, b.bytes[CommandAt(b)]), ReadOff(b, CommandAt(b), InSize).bytes, w)
              = Flow(d, b.bytes, w)
<1>1. PICK cmd, rest : /\ cmd = b.bytes[CommandAt(b)]
                       /\ rest = SubSeq(b.bytes, CommandAt(b) + 1, Len(b.bytes))
  OBVIOUS
<1>2. /\ ReadOff(b, CommandAt(b), InSize).bytes = rest /\ cmd \in Commands
      /\ rest \in Seq(InByte)
  BY <1>1, FilledIsBuffer DEF IsBuffer
<1>3. b.bytes \in Seq(InByte)
  BY DEF IsBuffer
<1>4. CommandsIn(b.bytes) = Cat(<<cmd>>, CommandsIn(rest))
  BY <1>1, <1>3, FirstCommand DEF Cat
<1>5. PICK c : c = CommandsIn(rest)
  OBVIOUS
<1>6. c \in Seq(Commands)
  BY <1>2, <1>5, CommandsAreCommands
<1>7. Cat(Append(d, cmd), c) = Cat(d, Cat(<<cmd>>, c))
  <2>1. PICK t : t = <<cmd>>
    OBVIOUS
  <2>2. Append(d, cmd) = Cat(d, t) /\ t \in Seq(Commands)
    BY <1>2, <2>1, CommandCatLaws
  <2>3. Cat(Cat(d, t), c) = Cat(d, Cat(t, c))
    BY <1>6, <2>2, CommandCatLaws
  <2>. QED BY <2>1, <2>2, <2>3
<1>. QED BY <1>1, <1>2, <1>4, <1>5, <1>7 DEF Flow

\* No command where none is found.
LEMMA FlowIdle ==
    ASSUME NEW d, NEW b, IsBuffer(b, InByte, InSize), CommandAt(b) = 0, NEW w
    PROVE  Flow(d, EmptyBuffer(InSize).bytes, w) = Flow(d, b.bytes, w)
<1>1. b.bytes \in Seq(InByte)
  BY DEF IsBuffer
<1>2. CommandsIn(b.bytes) = <<>>
  BY <1>1, FirstCommand
<1>3. CommandsIn(<<>>) = <<>>
  <2>1. PICK e : e = <<>>
    OBVIOUS
  <2>2. e \in Seq(InByte) /\ Len(e) = 0
    BY <2>1
  <2>3. \A i \in 1..Len(e) : ~IsCommand(e[i])
    BY <2>2
  <2>. QED BY <2>1, <2>2, <2>3, CommandsNone
<1>. QED BY <1>2, <1>3 DEF EmptyBuffer, Flow

\* The read handler loses no command.
LEMMA ReadKeeps == Typed /\ Kept /\ ReadReady => Kept'
<1>. SUFFICES ASSUME Typed, Kept, ReadReady PROVE Kept'
  OBVIOUS
<1>1. ASSUME NEW n \in 1..Len(net), n <= in.room, Receive(n), UNCHANGED <<asked, peer>>
      PROVE  Kept'
  <2>1. PICK filled : filled = Written(in, SubSeq(net, 1, n))
    OBVIOUS
  <2>2. PICK s, w : s = SubSeq(net, 1, n) /\ w = SubSeq(net, n + 1, Len(net))
    OBVIOUS
  <2>3. /\ IsBuffer(filled, InByte, InSize) /\ filled.bytes = in.bytes \o s
        /\ s \in Seq(InByte) /\ w \in Seq(InByte) /\ s \o w = net
    BY <1>1, <2>1, <2>2, ReceivedLaw
  <2>4. net' = w /\ asked' = asked
    BY <1>1, <2>2 DEF Receive
  <2>5. in.bytes \in Seq(InByte) /\ done \in Seq(Commands)
    BY DEF Typed, IsBuffer
  <2>6. Flow(done, filled.bytes, w) = asked
    <3>1. PICK i : i = in.bytes
      OBVIOUS
    <3>2. Flow(done, i \o s, w) = Flow(done, i, s \o w)
      BY <2>3, <2>5, <3>1, FlowReceived
    <3>. QED BY <2>3, <3>1, <3>2 DEF Kept
  <2>7. CASE CommandAt(filled) = 0
    <3>1. in' = EmptyBuffer(InSize) /\ done' = done
      BY <1>1, <2>1, <2>7 DEF Receive, historyVars
    <3>2. Flow(done, EmptyBuffer(InSize).bytes, w) = Flow(done, filled.bytes, w)
      BY <2>3, <2>7, FlowIdle
    <3>. QED BY <2>4, <2>6, <3>1, <3>2 DEF Kept
  <2>8. CASE CommandAt(filled) # 0
    <3>1. /\ in' = ReadOff(filled, CommandAt(filled), InSize)
          /\ done' = Append(done, filled.bytes[CommandAt(filled)])
      BY <1>1, <2>1, <2>8 DEF Receive, Handle
    <3>2. Flow(done', in'.bytes, w) = Flow(done, filled.bytes, w)
      BY <2>3, <2>5, <2>8, <3>1, FlowHandled
    <3>. QED BY <2>4, <2>6, <3>2 DEF Kept
  <2>. QED BY <2>7, <2>8
<1>2. CASE End("peer") /\ UNCHANGED <<in, clientVars, done, owed, sent>>
  BY <1>2 DEF clientVars, Kept
<1>. QED BY <1>1, <1>2 DEF ReadReady

\* The write handlers lose none.
LEMMA WriteKeeps == Typed /\ Kept /\ WriteReady => Kept'
<1>. SUFFICES ASSUME Typed, Kept, WriteReady PROVE Kept'
  OBVIOUS
<1>1. IsBuffer(in, InByte, InSize) /\ done \in Seq(Commands) /\ net \in Seq(InByte)
  BY DEF Typed
<1>2. ASSUME NEW n \in 1..OutSize, Send(n) PROVE Kept'
  <2>1. PICK b : b = ReadOff(out, n, OutSize)
    OBVIOUS
  <2>2. UNCHANGED <<net, asked>>
    BY <1>2 DEF Send
  <2>3. KeepSending(b) \/ GreetingSent(b) \/ UpdateSent(b) \/ Stream(b) \/ MailUnreadable(b) \/ NextCommand(b)
    BY <1>2, <2>1 DEF Send
  <2>4. CASE KeepSending(b) \/ GreetingSent(b) \/ UpdateSent(b) \/ Stream(b) \/ MailUnreadable(b)
    <3>1. UNCHANGED <<in, done>>
      BY <2>4 DEF KeepSending, GreetingSent, UpdateSent, Stream, MailUnreadable
    <3>. QED BY <2>2, <3>1 DEF Kept
  <2>5. CASE NextCommand(b) /\ CommandAt(in) = 0
    <3>1. in' = EmptyBuffer(InSize) /\ done' = done
      BY <2>5 DEF NextCommand
    <3>2. Flow(done, EmptyBuffer(InSize).bytes, net) = Flow(done, in.bytes, net)
      BY <1>1, <2>5, FlowIdle
    <3>. QED BY <2>2, <3>1, <3>2 DEF Kept
  <2>6. CASE NextCommand(b) /\ CommandAt(in) # 0
    <3>1. /\ in' = ReadOff(in, CommandAt(in), InSize)
          /\ done' = Append(done, in.bytes[CommandAt(in)])
      BY <2>6 DEF NextCommand, Handle
    <3>2. Flow(done', in'.bytes, net) = Flow(done, in.bytes, net)
      BY <1>1, <2>6, <3>1, FlowHandled
    <3>. QED BY <2>2, <3>2 DEF Kept
  <2>. QED BY <2>3, <2>4, <2>5, <2>6
<1>3. ASSUME NEW why \in {"peer", "sent_nothing"}, SendFails(why) PROVE Kept'
  BY <1>3 DEF SendFails, clientVars, Kept
<1>. QED BY <1>2, <1>3 DEF WriteReady

\* The client adds commands at the end only.
LEMMA ClientKeeps ==
    Typed /\ Kept /\ (ClientCloses \/ \E cmd \in Commands : ClientSends(cmd)) => Kept'
<1>1. ASSUME Kept, ClientCloses PROVE Kept'
  BY <1>1 DEF ClientCloses, serverVars, historyVars, Kept
<1>2. ASSUME Typed, Kept, NEW cmd \in Commands, ClientSends(cmd) PROVE Kept'
  <2>1. /\ net' = net \o <<"part", cmd>> /\ asked' = Append(asked, cmd)
        /\ UNCHANGED <<in, done>>
    BY <1>2 DEF ClientSends, serverVars, historyVars
  <2>2. /\ in.bytes \in Seq(InByte) /\ done \in Seq(Commands) /\ net \in Seq(InByte)
        /\ asked \in Seq(Commands)
    BY <1>2 DEF Typed, IsBuffer
  <2>3. <<"part", cmd>> \in Seq(InByte)
    BY DEF InByte
  <2>4. CommandsIn(net') = Cat(CommandsIn(net), <<cmd>>)
    BY <2>1, <2>2, <2>3, CommandsConcat, CommandsOne DEF Cat
  <2>5. PICK x, y : x = Cat(done, CommandsIn(in.bytes)) /\ y = CommandsIn(net)
    OBVIOUS
  <2>6. CommandsIn(in.bytes) \in Seq(Commands) /\ y \in Seq(Commands)
    BY <2>2, <2>5, CommandsAreCommands
  <2>7. x \in Seq(Commands)
    BY <2>2, <2>5, <2>6, CommandCatLaws
  <2>8. Cat(x, Cat(y, <<cmd>>)) = Append(Cat(x, y), cmd)
    <3>1. PICK t : t = <<cmd>>
      OBVIOUS
    <3>2. Cat(x, y) \in Seq(Commands)
      BY <2>6, <2>7, CommandCatLaws
    <3>3. Append(Cat(x, y), cmd) = Cat(Cat(x, y), t) /\ t \in Seq(Commands)
      BY <3>1, <3>2, CommandCatLaws
    <3>4. Cat(Cat(x, y), t) = Cat(x, Cat(y, t))
      BY <2>6, <2>7, <3>3, CommandCatLaws
    <3>. QED BY <3>1, <3>3, <3>4
  <2>. QED BY <1>2, <2>1, <2>4, <2>5, <2>8 DEF Kept, Flow
<1>. QED BY <1>1, <1>2

\* Commands are handled in the order of their arrival, each once, however
\* recv() cuts them, pipelining included.
THEOREM CommandsKept == Spec => []NoCommandLost
<1>1. Init => Kept
  <2>. SUFFICES ASSUME Init PROVE Kept
    OBVIOUS
  <2>1. PICK e : e = <<>>
    OBVIOUS
  <2>2. e \in Seq(InByte) /\ Len(e) = 0
    BY <2>1
  <2>3. \A i \in 1..Len(e) : ~IsCommand(e[i])
    BY <2>2
  <2>4. CommandsIn(<<>>) = <<>>
    BY <2>1, <2>2, <2>3, CommandsNone
  <2>5. in.bytes = <<>> /\ net = <<>> /\ asked = <<>> /\ done = <<>>
    BY DEF Init, EmptyBuffer
  <2>. QED BY <2>4, <2>5, CommandCatLaws DEF Kept, Flow
<1>2. Typed /\ Kept /\ [Next]_vars => Kept'
  <2>1. Kept /\ UNCHANGED vars => Kept'
    BY DEF vars, serverVars, clientVars, historyVars, Kept
  <2>. QED BY <2>1, ReadKeeps, WriteKeeps, ClientKeeps DEF Next
<1>3. Kept => NoCommandLost
  BY DEF Kept, Flow, Cat, NoCommandLost
<1>. QED BY <1>1, <1>2, <1>3, TypedInvariant, PTL DEF Spec

----------------------------------------------------------------------------
(* Every byte owed, in order *)

\* What is still to be written behind the bytes in the buffer.  A buffer
\* that waits empty is the one the line that ends a mail was not put into.
ToCome ==
    IF streaming THEN Cat(file, DotCRLF(Len(done)))
    ELSE IF out.bytes = <<>> THEN DotCRLF(Len(done))
    ELSE Rest(response, index)

AtRetr == phase = "TRANSACTION" /\ done # <<>> /\ Last(done) = "RETR"

Replying ==
    /\ ending = "none"
    /\ interest = "WRITE" => owed = Cat(sent, Cat(out.bytes, ToCome))
    /\ interest = "READ" =>
          /\ phase \in {"AUTHORIZATION", "TRANSACTION"} /\ ~streaming
          /\ owed = sent /\ in = EmptyBuffer(InSize)
    /\ streaming =>
          /\ interest = "WRITE" /\ out.bytes # <<>> /\ Len(response) <= index
          /\ file \in Seq(MailByte) /\ AtRetr
    /\ interest = "WRITE" /\ out.bytes = <<>> => AtRetr
    /\ phase = "GREETING" => in = EmptyBuffer(InSize)

Over ==
    /\ IsPrefix(sent, owed)
    /\ ending = "quit" => sent = owed
    /\ ending = "sent_nothing" => Last(done) = "RETR" /\ owed = Cat(sent, DotCRLF(Len(done)))
    /\ ending = "file_error" =>
          Last(done) = "RETR" /\ owed = Cat(Cat(sent, file), DotCRLF(Len(done)))
    /\ ending = "pass_failed" =>
          Last(done) = "PASS" /\ owed = Cat(sent, Part(Len(done), "line", ShortReply))
    /\ ending = "auth_quit" =>
          Last(done) = "QUIT" /\ owed = Cat(sent, Part(Len(done), "line", ShortReply))

NotOverread == out.bytes # <<>> /\ out.room > 0 => index <= Len(response)

Replies == (IF phase = "CLOSED" THEN Over ELSE Replying) /\ NotOverread

\* A sequence is a prefix of what continues it.
LEMMA PrefixLaw ==
    ASSUME NEW x \in Seq(OutByte), NEW y \in Seq(OutByte)
    PROVE  IsPrefix(x, Cat(x, y)) /\ IsPrefix(x, x)
<1>1. Len(x) \in Nat /\ Len(y) \in Nat /\ Len(x \o y) = Len(x) + Len(y)
      /\ \A i \in 1..Len(x) : (x \o y)[i] = x[i]
  OBVIOUS
<1>2. SubSeq(x \o y, 1, Len(x)) = SubSeq(x, 1, Len(x))
  <2>. DEFINE a == SubSeq(x \o y, 1, Len(x))
              c == SubSeq(x, 1, Len(x))
  <2>1. a = [i \in 1..Len(x) |-> (x \o y)[i]] /\ c = [i \in 1..Len(x) |-> x[i]]
    OBVIOUS
  <2>2. [i \in 1..Len(x) |-> (x \o y)[i]] = [i \in 1..Len(x) |-> x[i]]
    BY <1>1
  <2>. QED BY <2>1, <2>2
<1>. QED BY <1>1, <1>2 DEF IsPrefix, Cat

\* At the start the greeting is owed and under way.
LEMMA InitReplies == Init => Replies
<1>. SUFFICES ASSUME Init PROVE Replies
  OBVIOUS
<1>1. /\ ShortReply \in Nat /\ ShortReply > 0
      /\ Greeting \in Seq(OutByte) /\ Len(Greeting) = ShortReply
  BY SizesAssumption, PartLaw DEF Greeting
<1>2. Greeting # <<>>
  BY <1>1, EmptySeq
<1>3. /\ phase = "GREETING" /\ interest = "WRITE" /\ response = Greeting /\ index = ShortReply
      /\ streaming = FALSE /\ owed = Greeting /\ sent = <<>> /\ ending = "none"
      /\ out.bytes = Cat(<<>>, Greeting)
  BY DEF Init, Written, EmptyBuffer, Cat
<1>4. out.bytes = Greeting
  BY <1>1, <1>3, CatLaws
<1>5. ToCome = <<>>
  <2>1. ToCome = Rest(Greeting, ShortReply)
    BY <1>2, <1>3, <1>4 DEF ToCome
  <2>. QED BY <1>1, <2>1, RestOfAll
<1>6. owed = Cat(sent, Cat(out.bytes, ToCome))
  BY <1>1, <1>3, <1>4, <1>5, CatLaws
<1>7. Replying
  BY <1>2, <1>3, <1>4, <1>6 DEF Replying, Init
<1>8. NotOverread
  BY <1>1, <1>3 DEF NotOverread
<1>. QED BY <1>3, <1>7, <1>8 DEF Replies

\* A command taken up with everything sent.
LEMMA HandledReplies ==
    ASSUME PlainFiles, Typed, NotOverread, ending = "none", NEW cmd \in Commands,
           Dismissed(cmd) \/ Answered \/ Retrieved(cmd), done' = Append(done, cmd),
           sent' \in Seq(OutByte), owed = sent',
           phase' # "CLOSED" => interest' = "WRITE"
    PROVE  Replies'
<1>1. done' \in Seq(Commands) /\ done' # <<>> /\ Last(done') = cmd
  <2>1. done \in Seq(Commands) /\ Len(done) \in Nat
    BY DEF Typed
  <2>2. /\ Append(done, cmd) \in Seq(Commands) /\ Append(done, cmd) # <<>>
        /\ Len(Append(done, cmd)) = Len(done) + 1
        /\ Append(done, cmd)[Len(done) + 1] = cmd
    BY <2>1, AppendProperties
  <2>. QED BY <2>2 DEF Last
<1>2. CASE Dismissed(cmd)
  <2>1. PICK r \in Seq(OutByte) : r = Part(Len(done'), "line", ShortReply) /\ owed' = Cat(owed, r)
    BY <1>2 DEF Dismissed
  <2>2. IsPrefix(sent', owed') /\ owed' = Cat(sent', Part(Len(done'), "line", ShortReply))
    BY <2>1, PrefixLaw
  <2>3. /\ phase' = "CLOSED" /\ UNCHANGED <<out, index, response>>
        /\ \/ cmd = "QUIT" /\ ending' = "auth_quit"
           \/ cmd = "PASS" /\ ending' = "pass_failed"
    BY <1>2 DEF Dismissed
  <2>4. Over'
    BY <1>1, <2>2, <2>3 DEF Over
  <2>. QED BY <2>3, <2>4 DEF Replies, NotOverread
<1>3. CASE Answered
  <2>1. /\ phase' \in {"AUTHORIZATION", "TRANSACTION", "UPDATE"}
        /\ out'.bytes # <<>> /\ index' <= Len(response') /\ streaming' = FALSE
        /\ ending' = "none"
        /\ owed' = Cat(owed, Cat(out'.bytes, Rest(response', index')))
    BY <1>3 DEF Answered
  <2>2. ToCome' = Rest(response', index')
    BY <2>1 DEF ToCome
  <2>3. Replying'
    BY <2>1, <2>2 DEF Replying
  <2>. QED BY <2>1, <2>3 DEF Replies, NotOverread
<1>4. CASE Retrieved(cmd)
  <2>1. /\ cmd = "RETR" /\ phase' = "TRANSACTION"
        /\ out'.bytes # <<>> /\ index' = Len(response') /\ streaming' = TRUE
        /\ index' \in Nat /\ ending' = "none"
        /\ file' \in Seq(MailByte)
        /\ owed' = Cat(owed, Cat(out'.bytes, Cat(file', DotCRLF(Len(done')))))
    BY <1>4 DEF Retrieved
  <2>2. ToCome' = Cat(file', DotCRLF(Len(done')))
    BY <2>1 DEF ToCome
  <2>3. Replying'
    BY <1>1, <2>1, <2>2 DEF Replying, AtRetr
  <2>. QED BY <2>1, <2>3 DEF Replies, NotOverread
<1>. QED BY <1>2, <1>3, <1>4

\* The read handler adds to what is owed only when all before is sent.
LEMMA ReadReplies == PlainFiles /\ Typed /\ Typed' /\ Replies /\ ReadReady => Replies'
<1>. SUFFICES ASSUME PlainFiles, Typed, Typed', Replies, ReadReady PROVE Replies'
  OBVIOUS
<1>1. interest = "READ" /\ phase \in {"AUTHORIZATION", "TRANSACTION"}
  BY DEF ReadReady
<1>2. /\ out = EmptyBuffer(OutSize) /\ owed = sent /\ ending = "none" /\ ~streaming
      /\ in = EmptyBuffer(InSize) /\ NotOverread /\ Replying
  BY <1>1 DEF Typed, Replies, Replying
<1>3. ASSUME NEW n \in 1..Len(net), n <= in.room, Receive(n), UNCHANGED <<asked, peer>>
      PROVE  Replies'
  <2>1. PICK filled : filled = Written(in, SubSeq(net, 1, n))
    OBVIOUS
  <2>2. IsBuffer(filled, InByte, InSize)
    BY <1>3, <2>1, ReceivedLaw
  <2>3. CASE CommandAt(filled) = 0
    <3>1. /\ in' = EmptyBuffer(InSize)
          /\ UNCHANGED <<phase, interest, out, response, index, streaming, file, eof, historyVars>>
      BY <1>3, <2>1, <2>3 DEF Receive
    <3>2. Replying'
      BY <1>1, <1>2, <3>1 DEF Replying, historyVars
    <3>. QED BY <1>1, <1>2, <3>1, <3>2 DEF Replies, NotOverread
  <2>4. CASE CommandAt(filled) # 0
    <3>1. PICK cmd : cmd = filled.bytes[CommandAt(filled)]
      OBVIOUS
    <3>2. /\ Handle(cmd, out)
          /\ interest' = IF phase' = "CLOSED" THEN interest ELSE "WRITE"
          /\ sent' = sent
      BY <1>3, <2>1, <2>4, <3>1 DEF Receive
    <3>3. cmd \in Commands
      BY <2>2, <2>4, <3>1, FilledIsBuffer
    <3>4. /\ done' = Append(done, cmd)
          /\ Dismissed(cmd) \/ Answered \/ Retrieved(cmd)
      BY <1>2, <3>2, <3>3, HandleLaw DEF Typed
    <3>5. sent' \in Seq(OutByte) /\ owed = sent'
      BY <1>2, <3>2 DEF Typed
    <3>. QED BY <1>2, <3>2, <3>3, <3>4, <3>5, HandledReplies
  <2>. QED BY <2>3, <2>4
<1>4. CASE End("peer") /\ UNCHANGED <<in, clientVars, done, owed, sent>>
  <2>1. phase' = "CLOSED" /\ ending' = "peer" /\ UNCHANGED <<out, index, response, owed, sent>>
    BY <1>4 DEF End
  <2>2. IsPrefix(sent', owed')
    BY <1>2, <2>1, PrefixLaw DEF Typed
  <2>. QED BY <1>2, <2>1, <2>2 DEF Replies, Over, NotOverread
<1>. QED BY <1>3, <1>4 DEF ReadReady

\* What the write handlers send is the next of what is owed.
LEMMA WriteReplies == PlainFiles /\ Typed /\ Typed' /\ Replies /\ WriteReady => Replies'
<1>. SUFFICES ASSUME PlainFiles, Typed, Typed', Replies, WriteReady PROVE Replies'
  OBVIOUS
<1>1. interest = "WRITE" /\ phase # "CLOSED" /\ Replying /\ NotOverread /\ ending = "none"
  BY DEF WriteReady, Replies, Replying
<1>2. /\ DotCRLF(Len(done)) \in Seq(OutByte) /\ file \in Seq(OutByte) /\ sent \in Seq(OutByte)
      /\ out.bytes \in Seq(OutByte)
      /\ response \in Seq(OutByte) /\ index \in Nat /\ Len(response) \in Nat
  <2>1. Len(done) \in Nat
    BY DEF Typed
  <2>2. DotCRLF(Len(done)) \in Seq(OutByte)
    BY <2>1, DotLaw
  <2>3. /\ file \in Seq(OutByte) /\ sent \in Seq(OutByte) /\ out.bytes \in Seq(OutByte)
        /\ response \in Seq(OutByte) /\ index \in Nat
    BY DEF Typed, IsBuffer
  <2>4. Len(response) \in Nat
    BY <2>3
  <2>. QED BY <2>2, <2>3, <2>4
<1>3. ASSUME NEW n \in 1..OutSize, Send(n) PROVE Replies'
  <2>1. PICK b : b = ReadOff(out, n, OutSize)
    OBVIOUS
  <2>2. n \in 1..Len(out.bytes) /\ sent' = Cat(sent, SubSeq(out.bytes, 1, n))
    BY <1>3 DEF Send, Cat
  <2>3. KeepSending(b) \/ GreetingSent(b) \/ UpdateSent(b) \/ Stream(b) \/ MailUnreadable(b) \/ NextCommand(b)
    BY <1>3, <2>1 DEF Send
  <2>4. /\ IsBuffer(b, OutByte, OutSize)
        /\ b.bytes = <<>> => b = EmptyBuffer(OutSize) /\ b.room > 0
        /\ b.bytes # <<>> => b.room = out.room
        /\ SubSeq(out.bytes, 1, n) \in Seq(OutByte) /\ b.bytes \in Seq(OutByte)
        /\ Cat(SubSeq(out.bytes, 1, n), b.bytes) = out.bytes
        /\ sent' \in Seq(OutByte)
    BY <2>1, <2>2, SentLaw
  <2>5. out.bytes # <<>>
    BY <2>2
  <2>6. PICK t : t = ToCome
    OBVIOUS
  <2>7. t = IF streaming THEN Cat(file, DotCRLF(Len(done))) ELSE Rest(response, index)
    BY <2>5, <2>6 DEF ToCome
  <2>8. t \in Seq(OutByte)
    BY <1>2, <2>7, CatLaws, RestIsSeq
  <2>9. owed = Cat(sent', Cat(b.bytes, t))
    <3>1. owed = Cat(sent, Cat(out.bytes, t))
      BY <1>1, <2>6 DEF Replying
    <3>2. PICK s, r : s = SubSeq(out.bytes, 1, n) /\ r = b.bytes
      OBVIOUS
    <3>3. s \in Seq(OutByte) /\ r \in Seq(OutByte) /\ out.bytes = Cat(s, r) /\ sent' = Cat(sent, s)
      BY <2>2, <2>4, <3>2
    <3>4. Cat(Cat(s, r), t) = Cat(s, Cat(r, t))
      BY <2>8, <3>3, CatLaws
    <3>5. Cat(r, t) \in Seq(OutByte)
      BY <2>8, <3>3, CatLaws
    <3>6. Cat(sent, Cat(s, Cat(r, t))) = Cat(Cat(sent, s), Cat(r, t))
      BY <1>2, <3>3, <3>5, CatLaws
    <3>. QED BY <3>1, <3>2, <3>3, <3>4, <3>6
  <2>10. ASSUME b.bytes = <<>>, ~streaming, Len(response) <= index PROVE owed = sent'
    <3>1. t = <<>>
      BY <1>2, <2>7, <2>10, RestOfAll
    <3>2. Cat(<<>>, <<>>) = <<>> /\ Cat(sent', <<>>) = sent'
      BY <2>4, CatLaws
    <3>. QED BY <2>9, <2>10, <3>1, <3>2
  <2>11. CASE KeepSending(b)
    <3>1. /\ IsBuffer(out', OutByte, OutSize) /\ out'.bytes # <<>>
          /\ response' = response /\ index' \in Nat
          /\ Cat(out'.bytes, Rest(response', index')) = Cat(b.bytes, Rest(response, index))
          /\ index <= Len(response) => index' <= Len(response)
          /\ Len(response) <= index =>
                index' = index /\ out'.bytes = b.bytes /\ out'.room = b.room
          /\ UNCHANGED <<phase, interest, in, streaming, file, eof, done, owed, ending>>
      BY <2>4, <2>11, KeepSendingLaw
    <3>2. owed' = Cat(sent', Cat(out'.bytes, ToCome'))
      <4>1. CASE streaming
        <5>1. ToCome' = t
          BY <2>7, <3>1, <4>1 DEF ToCome
        <5>2. out'.bytes = b.bytes
          BY <1>1, <3>1, <4>1 DEF Replying
        <5>. QED BY <2>9, <3>1, <5>1, <5>2
      <4>2. CASE ~streaming
        <5>1. ToCome' = Rest(response', index') /\ t = Rest(response, index)
          BY <2>7, <3>1, <4>2 DEF ToCome
        <5>. QED BY <2>9, <3>1, <5>1
      <4>. QED BY <4>1, <4>2
    <3>3. NotOverread'
      <4>1. CASE index <= Len(response)
        BY <3>1, <4>1 DEF NotOverread
      <4>2. CASE ~(index <= Len(response))
        <5>1. index' = index /\ out'.bytes = b.bytes /\ out'.room = b.room
          BY <1>2, <3>1, <4>2
        <5>2. out'.room = out.room
          BY <2>4, <3>1, <5>1
        <5>3. ~(out.room > 0)
          BY <1>1, <2>5, <4>2 DEF NotOverread
        <5>. QED BY <5>2, <5>3 DEF NotOverread
      <4>. QED BY <4>1, <4>2
    <3>4. streaming => Len(response') <= index'
      BY <1>1, <3>1 DEF Replying
    <3>5. Replying'
      BY <1>1, <3>1, <3>2, <3>4 DEF Replying, AtRetr
    <3>. QED BY <1>1, <3>1, <3>3, <3>5 DEF Replies
  <2>12. CASE GreetingSent(b)
    <3>1. /\ b.bytes = <<>> /\ out' = b /\ phase = "GREETING" /\ phase' = "AUTHORIZATION"
          /\ interest' = "READ" /\ (streaming \/ ~(index < Len(response)))
          /\ UNCHANGED <<in, response, index, streaming, file, eof, done, owed, ending>>
      BY <2>12 DEF GreetingSent, MoreToSend, CanRead
    <3>2. ~streaming /\ in = EmptyBuffer(InSize)
      BY <1>1, <3>1 DEF Replying, AtRetr
    <3>3. Len(response) <= index
      BY <1>2, <3>1, <3>2
    <3>4. owed' = sent'
      BY <2>10, <3>1, <3>2, <3>3
    <3>5. Replying'
      BY <1>1, <3>1, <3>2, <3>4 DEF Replying
    <3>. QED BY <3>1, <3>5 DEF Replies, NotOverread
  <2>13. CASE UpdateSent(b)
    <3>1. /\ b.bytes = <<>> /\ phase = "UPDATE" /\ phase' = "CLOSED" /\ ending' = "quit"
          /\ streaming \/ ~(index < Len(response))
          /\ UNCHANGED <<out, response, index, done, owed>>
      BY <2>13 DEF UpdateSent, MoreToSend, CanRead, End
    <3>2. ~streaming
      BY <1>1, <3>1 DEF Replying, AtRetr
    <3>3. Len(response) <= index
      BY <1>2, <3>1, <3>2
    <3>4. owed' = sent'
      BY <2>10, <3>1, <3>2, <3>3
    <3>5. IsPrefix(sent', owed')
      BY <2>4, <3>4, PrefixLaw
    <3>. QED BY <1>1, <3>1, <3>4, <3>5 DEF Replies, Over, NotOverread
  <2>14. CASE Stream(b)
    <3>1. AtRetr /\ file \in Seq(MailByte) /\ streaming
      BY <1>1, <2>14 DEF Replying, Stream
    <3>2. /\ b.bytes = <<>>
          /\ streaming' \in BOOLEAN
          /\ IsBuffer(out', OutByte, OutSize)
          /\ file' \in Seq(OutByte)
          /\ file' \in Seq(MailByte)
          /\ streaming' => /\ out'.bytes # <<>> /\ out'.room = 0
                           /\ index <= index' /\ response' = response
                           /\ file = Cat(out'.bytes, file')
          /\ ~streaming' /\ out'.bytes # <<>> =>
                /\ index' <= Len(response')
                /\ Cat(file, DotCRLF(Len(done))) = Cat(out'.bytes, Rest(response', index'))
          /\ ~streaming' /\ out'.bytes = <<>> => file = <<>>
          /\ index' \in Nat
          /\ UNCHANGED <<phase, interest, in, done, owed, ending>>
      BY <2>4, <2>14, <3>1, StreamLaw
    <3>3. owed = Cat(sent', Cat(file, DotCRLF(Len(done))))
      <4>1. Cat(<<>>, t) = t /\ t = Cat(file, DotCRLF(Len(done)))
        BY <2>7, <2>8, <3>1, CatLaws
      <4>. QED BY <2>9, <3>2, <4>1
    <3>4. AtRetr'
      BY <3>1, <3>2 DEF AtRetr
    <3>5. CASE streaming'
      <4>1. ToCome' = Cat(file', DotCRLF(Len(done)))
        BY <3>2, <3>5 DEF ToCome
      <4>2. out'.bytes \in Seq(OutByte)
        BY <3>2 DEF IsBuffer
      <4>3. PICK o, f, d : o = out'.bytes /\ f = file' /\ d = DotCRLF(Len(done))
        OBVIOUS
      <4>4. Cat(Cat(o, f), d) = Cat(o, Cat(f, d))
        <5>1. o \in Seq(OutByte) /\ f \in Seq(OutByte) /\ d \in Seq(OutByte)
          BY <1>2, <3>2, <4>2, <4>3
        <5>. QED BY <5>1, CatLaws
      <4>5. owed' = Cat(sent', Cat(out'.bytes, ToCome'))
        BY <3>2, <3>3, <3>5, <4>1, <4>3, <4>4
      <4>6. Len(response') <= index'
        BY <1>1, <1>2, <3>1, <3>2, <3>5 DEF Replying
      <4>7. Replying'
        BY <1>1, <3>2, <3>4, <3>5, <4>5, <4>6 DEF Replying
      <4>. QED BY <1>1, <3>2, <3>5, <4>7 DEF Replies, NotOverread
    <3>6. CASE ~streaming' /\ out'.bytes # <<>>
      <4>1. ToCome' = Rest(response', index')
        BY <3>6 DEF ToCome
      <4>2. owed' = Cat(sent', Cat(out'.bytes, ToCome'))
        BY <3>2, <3>3, <3>6, <4>1
      <4>3. Replying'
        BY <1>1, <3>2, <3>4, <3>6, <4>2 DEF Replying
      <4>. QED BY <1>1, <3>2, <3>6, <4>3 DEF Replies, NotOverread
    <3>7. CASE ~streaming' /\ out'.bytes = <<>>
      <4>1. ToCome' = DotCRLF(Len(done))
        BY <3>2, <3>7 DEF ToCome
      <4>2. Cat(<<>>, DotCRLF(Len(done))) = DotCRLF(Len(done))
        BY <1>2, CatLaws
      <4>3. owed' = Cat(sent', Cat(out'.bytes, ToCome'))
        BY <3>2, <3>3, <3>7, <4>1, <4>2
      <4>4. Replying'
        BY <1>1, <3>2, <3>4, <3>7, <4>3 DEF Replying
      <4>. QED BY <1>1, <3>2, <3>7, <4>4 DEF Replies, NotOverread
    <3>. QED BY <3>2, <3>5, <3>6, <3>7
  <2>14a. CASE MailUnreadable(b)
    <3>1. /\ b.bytes = <<>> /\ streaming /\ phase' = "CLOSED" /\ ending' = "file_error"
          /\ UNCHANGED <<out, response, index, file, done, owed>>
      BY <2>14a DEF MailUnreadable, MoreToSend, CanRead, End
    <3>2. AtRetr
      BY <1>1, <3>1 DEF Replying
    <3>3. Cat(<<>>, t) = t /\ t = Cat(file, DotCRLF(Len(done)))
      BY <2>7, <2>8, <3>1, CatLaws
    <3>4. owed' = Cat(Cat(sent', file'), DotCRLF(Len(done')))
      <4>1. PICK d : d = DotCRLF(Len(done)) /\ d \in Seq(OutByte)
        BY <1>2
      <4>2. Cat(Cat(sent', file), d) = Cat(sent', Cat(file, d))
        BY <1>2, <2>4, <4>1, CatLaws
      <4>. QED BY <2>9, <3>1, <3>3, <4>1, <4>2
    <3>5. IsPrefix(sent', owed')
      BY <2>4, <2>8, <2>9, <3>1, <3>3, PrefixLaw
    <3>6. Over'
      BY <3>1, <3>2, <3>4, <3>5 DEF Over, AtRetr
    <3>. QED BY <1>1, <3>1, <3>6 DEF Replies, NotOverread
  <2>15. CASE NextCommand(b)
    <3>1. /\ b.bytes = <<>> /\ b = EmptyBuffer(OutSize) /\ phase \in {"AUTHORIZATION", "TRANSACTION"}
          /\ ~streaming /\ ~(index < Len(response))
      BY <2>4, <2>15 DEF NextCommand, MoreToSend, CanRead, Serving
    <3>2. Len(response) <= index
      BY <1>2, <3>1
    <3>3. owed = sent'
      BY <2>10, <3>1, <3>2
    <3>4. CASE CommandAt(in) = 0
      <4>1. /\ in' = EmptyBuffer(InSize) /\ interest' = "READ" /\ out' = b
            /\ UNCHANGED <<phase, response, index, streaming, file, eof, done, owed, ending>>
        BY <2>15, <3>4 DEF NextCommand
      <4>2. Replying'
        BY <1>1, <3>1, <3>3, <4>1 DEF Replying
      <4>. QED BY <1>1, <3>1, <4>1, <4>2 DEF Replies, NotOverread
    <3>5. CASE CommandAt(in) # 0
      <4>1. PICK cmd : cmd = in.bytes[CommandAt(in)]
        OBVIOUS
      <4>2. Handle(cmd, b) /\ interest' = interest
        BY <2>15, <3>5, <4>1 DEF NextCommand
      <4>3. IsBuffer(in, InByte, InSize)
        BY DEF Typed
      <4>4. cmd \in Commands
        BY <3>5, <4>1, <4>3, FilledIsBuffer
      <4>5. /\ done' = Append(done, cmd)
            /\ Dismissed(cmd) \/ Answered \/ Retrieved(cmd)
        BY <3>1, <4>2, <4>4, HandleLaw DEF Typed
      <4>. QED BY <1>1, <2>4, <3>3, <4>2, <4>4, <4>5, HandledReplies
    <3>. QED BY <3>4, <3>5
  <2>. QED BY <2>3, <2>11, <2>12, <2>13, <2>14, <2>14a, <2>15
<1>4. ASSUME NEW why \in {"peer", "sent_nothing"}, SendFails(why) PROVE Replies'
  <2>1. /\ why = (IF peer = "reset" THEN "peer" ELSE "sent_nothing")
        /\ peer = "reset" \/ out.bytes = <<>>
        /\ phase' = "CLOSED" /\ ending' = why
        /\ UNCHANGED <<out, index, response, done, owed, sent>>
    BY <1>4 DEF SendFails, End, CanRead
  <2>2. ToCome \in Seq(OutByte) /\ owed = Cat(sent, Cat(out.bytes, ToCome))
    BY <1>1, <1>2, CatLaws, RestIsSeq DEF ToCome, Replying
  <2>3. IsPrefix(sent', owed')
    <3>1. Cat(out.bytes, ToCome) \in Seq(OutByte)
      BY <1>2, <2>2, CatLaws
    <3>. QED BY <1>2, <2>1, <2>2, <3>1, PrefixLaw
  <2>4. ASSUME why = "sent_nothing"
        PROVE  Last(done') = "RETR" /\ owed' = Cat(sent', DotCRLF(Len(done')))
    <3>1. out.bytes = <<>>
      BY <2>1, <2>4
    <3>2. AtRetr /\ ~streaming
      BY <1>1, <3>1 DEF Replying
    <3>3. ToCome = DotCRLF(Len(done))
      BY <3>1, <3>2 DEF ToCome
    <3>4. Cat(<<>>, DotCRLF(Len(done))) = DotCRLF(Len(done))
      BY <1>2, CatLaws
    <3>. QED BY <2>1, <2>2, <3>1, <3>2, <3>3, <3>4 DEF AtRetr
  <2>5. why # "quit"
    BY <1>4
  <2>6. NotOverread'
    BY <1>1, <2>1 DEF NotOverread
  <2>. QED BY <2>1, <2>3, <2>4, <2>5, <2>6 DEF Replies, Over
<1>. QED BY <1>3, <1>4 DEF WriteReady

\* The client changes nothing that is owed or sent.
LEMMA ClientReplies ==
    Replies /\ (ClientCloses \/ (\E cmd \in Commands : ClientSends(cmd)) \/ UNCHANGED vars) => Replies'
<1>. SUFFICES ASSUME Replies, UNCHANGED <<serverVars, historyVars>> PROVE Replies'
  BY DEF ClientCloses, ClientSends, vars
<1>. QED BY DEF serverVars, historyVars, Replies, Over, Replying, NotOverread, ToCome, AtRetr

\* What is sent, under way and still in the mail is what is owed.
LEMMA RepliesInvariant == PlainFiles => (Spec => []Replies)
<1>. SUFFICES ASSUME PlainFiles PROVE Spec => []Replies
  OBVIOUS
<1>1. Typed /\ Typed' /\ Replies /\ [Next]_vars => Replies'
  BY ReadReplies, WriteReplies, ClientReplies DEF Next
<1>. QED BY InitReplies, <1>1, TypedInvariant, PTL DEF Spec

\* The bytes sent are those of the replies, in order: none lost, repeated or
\* mixed by partial writes, long listings, streamed mails or pipelining.
THEOREM RepliesAreOrdered == PlainFiles => (Spec => []RepliesInOrder)
<1>. SUFFICES ASSUME PlainFiles PROVE Spec => []RepliesInOrder
  OBVIOUS
<1>1. Typed /\ Replies => RepliesInOrder
  <2>. SUFFICES ASSUME Typed, Replies, phase # "CLOSED" PROVE IsPrefix(sent, owed)
    BY DEF Replies, Over, RepliesInOrder
  <2>1. CASE interest = "READ"
    BY <2>1, PrefixLaw DEF Replies, Replying, Typed
  <2>2. CASE interest = "WRITE"
    <3>1. /\ DotCRLF(Len(done)) \in Seq(OutByte) /\ file \in Seq(OutByte)
          /\ sent \in Seq(OutByte) /\ out.bytes \in Seq(OutByte)
          /\ response \in Seq(OutByte) /\ index \in Nat
      <4>1. Len(done) \in Nat
        BY DEF Typed
      <4>. QED BY <4>1, DotLaw DEF Typed, IsBuffer
    <3>2. ToCome \in Seq(OutByte)
      BY <3>1, CatLaws, RestIsSeq DEF ToCome
    <3>3. Cat(out.bytes, ToCome) \in Seq(OutByte)
      BY <3>1, <3>2, CatLaws
    <3>4. owed = Cat(sent, Cat(out.bytes, ToCome))
      BY <2>2 DEF Replies, Replying
    <3>. QED BY <3>1, <3>3, <3>4, PrefixLaw
  <2>. QED BY <2>1, <2>2 DEF Typed
<1>. QED BY <1>1, RepliesInvariant, TypedInvariant, PTL

\* The server reads only when everything owed is sent.
THEOREM ReadsWhenAnswered == PlainFiles => (Spec => []IdleMeansAnswered)
<1>. SUFFICES ASSUME PlainFiles PROVE Spec => []IdleMeansAnswered
  OBVIOUS
<1>1. Typed /\ Replies => IdleMeansAnswered
  BY DEF Typed, Replies, Replying, IdleMeansAnswered, CanRead
<1>. QED BY <1>1, RepliesInvariant, TypedInvariant, PTL

\* A session that quits got its last reply, however often send() was cut.
THEOREM QuitIsAnswered == PlainFiles => (Spec => []QuitAnswered)
<1>. SUFFICES ASSUME PlainFiles PROVE Spec => []QuitAnswered
  OBVIOUS
<1>1. Replies => QuitAnswered
  BY DEF Replies, Over, Replying, QuitAnswered
<1>. QED BY <1>1, RepliesInvariant, PTL

\* Where the server hangs up by itself, what is missing is the end of the
\* last thing owed: the line behind a mail, the rest of a mail that cannot
\* be read, or the whole reply to a failed PASS or to a QUIT before login.
THEOREM DropsMissOnlyTheEnd == PlainFiles => (Spec => []UnsentAtDrop)
<1>. SUFFICES ASSUME PlainFiles PROVE Spec => []UnsentAtDrop
  OBVIOUS
<1>1. Replies => UnsentAtDrop
  BY DEF Replies, Over, Replying, UnsentAtDrop, Cat
<1>. QED BY <1>1, RepliesInvariant, PTL

\* response_index is inside the reply when a partial send() is followed up.
THEOREM ReplyReadInside == PlainFiles => (Spec => []ReplyNotOverread)
<1>. SUFFICES ASSUME PlainFiles PROVE Spec => []ReplyNotOverread
  OBVIOUS
<1>1. Replies => ReplyNotOverread
  BY DEF Replies, NotOverread, ReplyNotOverread, CanRead, CanWrite
<1>. QED BY <1>1, RepliesInvariant, PTL
=============================================================================
