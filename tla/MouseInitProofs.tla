-------------------------- MODULE MouseInitProofs --------------------------
(***************************************************************************)
(* Proofs about MouseInit, for every configuration the firmware may leave, *)
(* whatever bytes are left in the data port and in the mouse, and any      *)
(* number of packets and of key bytes with any values.                     *)
(***************************************************************************)
EXTENDS MouseInit, SequenceTheorems, FiniteSetTheorems, TLAPS

\* The operations of the program by their numbers.
Commands == {2, 7, 11, 15, 21, 27}
DataBytes == {4, 13, 17, 23, 29}
Answers == {5, 19, 25, 31}
OpOf(p) == IF p \in Commands THEN "outCommand"
           ELSE IF p \in DataBytes THEN "outData"
           ELSE IF p \in Answers THEN "readUntil"
           ELSE IF p = 8 THEN "waitToRead"
           ELSE IF p = 9 THEN "readStatusByte" ELSE "waitToWrite"
ArgOf(p) == IF p = 4 THEN "FF" ELSE IF p = 5 THEN "AA"
            ELSE IF p = 7 THEN "20" ELSE IF p = 11 THEN "60"
            ELSE IF p = 13 THEN "statusByte" ELSE IF p = 17 THEN "F4"
            ELSE IF p = 23 THEN "F3" ELSE IF p = 29 THEN "40"
            ELSE IF p \in Commands THEN "D4"
            ELSE IF p \in Answers THEN "FA" ELSE "none"

Operation == [op : {"waitToWrite", "waitToRead", "outCommand", "outData",
                    "readUntil", "readStatusByte"},
              arg : {"none", "FF", "AA", "20", "60", "statusByte", "F4", "F3",
                     "40", "D4", "FA"}]

\* The n operations of s are those from number p on.
Lists(s, p, n) ==
    /\ s \in Seq(Operation) /\ Len(s) = n
    /\ \A i \in 1 .. n :
           s[i].op = OpOf(p + i - 1) /\ s[i].arg = ArgOf(p + i - 1)

\* A list followed by the list of the next operations.
LEMMA ListsMore ==
    ASSUME NEW p \in Nat, NEW m \in Nat, NEW n \in Nat, NEW s, NEW t,
           Lists(s, p, m), Lists(t, p + m, n)
    PROVE  Lists(s \o t, p, m + n)
<1>1. /\ s \o t \in Seq(Operation) /\ Len(s \o t) = m + n
      /\ \A i \in 1 .. m + n : (s \o t)[i] = IF i <= m THEN s[i] ELSE t[i - m]
  BY ConcatProperties DEF Lists
<1>2. ASSUME NEW i \in 1 .. m + n
      PROVE  /\ (s \o t)[i].op = OpOf(p + i - 1)
             /\ (s \o t)[i].arg = ArgOf(p + i - 1)
  <2>1. CASE i <= m
    BY <1>1, <2>1 DEF Lists
  <2>2. CASE i > m
    <3>1. i - m \in 1 .. n /\ (p + m) + (i - m) - 1 = p + i - 1
      BY <2>2
    <3>2. /\ t[i - m].op = OpOf((p + m) + (i - m) - 1)
          /\ t[i - m].arg = ArgOf((p + m) + (i - m) - 1)
      BY <3>1 DEF Lists
    <3>3. QED
      BY <1>1, <2>2, <3>1, <3>2
  <2>3. i <= m \/ i > m
    OBVIOUS
  <2>4. QED
    BY <2>1, <2>2, <2>3
<1>3. QED
  BY <1>1, <1>2 DEF Lists

\* A list of one operation.
LEMMA ListsOne ==
    ASSUME NEW p \in Nat
    PROVE  Lists(<<[op |-> OpOf(p), arg |-> ArgOf(p)]>>, p, 1)
<1>1. [op |-> OpOf(p), arg |-> ArgOf(p)] \in Operation
  BY DEF Operation, OpOf, ArgOf
<1>3. <<[op |-> OpOf(p), arg |-> ArgOf(p)]>> \in Seq(Operation)
  BY <1>1
<1>4. p + 1 - 1 = p
  OBVIOUS
<1>5. QED
 BY <1>3, <1>4 DEF Lists

\* The four operations of sendToMouse, at the places where it is called.
LEMMA SendNumbers ==
    ASSUME NEW p \in {1, 14, 20, 26}
    PROVE  /\ OpOf(p) = "waitToWrite" /\ ArgOf(p) = "none"
           /\ OpOf(p + 1) = "outCommand" /\ ArgOf(p + 1) = "D4"
           /\ OpOf(p + 2) = "waitToWrite" /\ ArgOf(p + 2) = "none"
           /\ OpOf(p + 3) = "outData"
<1> USE DEF OpOf, ArgOf, Commands, DataBytes, Answers
<1>1. OpOf(p) = "waitToWrite" /\ ArgOf(p) = "none"
  OBVIOUS
<1>2. OpOf(p + 1) = "outCommand" /\ ArgOf(p + 1) = "D4"
  OBVIOUS
<1>3. OpOf(p + 2) = "waitToWrite" /\ ArgOf(p + 2) = "none"
  OBVIOUS
<1>4. OpOf(p + 3) = "outData"
  OBVIOUS
<1>5. QED
  BY <1>1, <1>2, <1>3, <1>4

\* sendToMouse lists them.
LEMMA ListsSend ==
    ASSUME NEW p \in {1, 14, 20, 26}, NEW d, d = ArgOf(p + 3)
    PROVE  Lists(SendToMouse(d), p, 4)
<1>1. p + 1 \in Nat /\ p + 2 \in Nat /\ p + 3 \in Nat
  OBVIOUS
<1>2. Lists(WaitToWrite, p, 1)
  BY <1>1, SendNumbers, ListsOne DEF WaitToWrite
<1>3. Lists(WaitToWrite, p + 2, 1)
  BY <1>1, SendNumbers, ListsOne DEF WaitToWrite
<1>4. Lists(OutCommand("D4"), p + 1, 1)
  BY <1>1, SendNumbers, ListsOne DEF OutCommand
<1>5. Lists(OutData(d), p + 3, 1)
  BY <1>1, SendNumbers, ListsOne DEF OutData
<1>6. Lists(WaitToWrite \o OutCommand("D4"), p, 2)
  BY <1>2, <1>4, ListsMore
<1>7. Lists(WaitToWrite \o OutCommand("D4") \o WaitToWrite, p, 3)
  BY <1>3, <1>6, ListsMore
<1>8. QED
  BY <1>5, <1>7, ListsMore DEF SendToMouse

\* reset has 19 operations, and setSampleRate the 12 behind them.
LEMMA ProgramLists == /\ Lists(Reset, 1, 19)
                      /\ Lists(Program, 1, 31)
                      /\ Done = 32
<1>1. /\ Lists(SendToMouse("FF"), 1, 4) /\ Lists(SendToMouse("F4"), 14, 4)
      /\ Lists(SendToMouse("F3"), 20, 4) /\ Lists(SendToMouse("40"), 26, 4)
  <2>1. /\ ArgOf(1 + 3) = "FF" /\ ArgOf(14 + 3) = "F4"
        /\ ArgOf(20 + 3) = "F3" /\ ArgOf(26 + 3) = "40"
    BY DEF ArgOf
  <2>2. QED
    BY <2>1, ListsSend
<1>2. ASSUME NEW p \in {6, 10, 12, 18, 24, 30} PROVE Lists(WaitToWrite, p, 1)
  <2>1. OpOf(p) = "waitToWrite" /\ ArgOf(p) = "none"
    BY DEF OpOf, ArgOf, Commands, DataBytes, Answers
  <2>2. QED
    BY <2>1, ListsOne DEF WaitToWrite
<1>3. ASSUME NEW p \in {19, 25, 31} PROVE Lists(ReadUntil("FA"), p, 1)
  <2>1. OpOf(p) = "readUntil" /\ ArgOf(p) = "FA"
    BY DEF OpOf, ArgOf, Commands, DataBytes, Answers
  <2>2. QED
    BY <2>1, ListsOne DEF ReadUntil
<1>4. /\ Lists(ReadUntil("AA"), 5, 1) /\ Lists(OutCommand("20"), 7, 1)
      /\ Lists(WaitToRead, 8, 1) /\ Lists(ReadStatusByte, 9, 1)
      /\ Lists(OutCommand("60"), 11, 1) /\ Lists(OutData("statusByte"), 13, 1)
  <2>1. /\ OpOf(5) = "readUntil" /\ ArgOf(5) = "AA"
        /\ OpOf(7) = "outCommand" /\ ArgOf(7) = "20"
        /\ OpOf(8) = "waitToRead" /\ ArgOf(8) = "none"
        /\ OpOf(9) = "readStatusByte" /\ ArgOf(9) = "none"
        /\ OpOf(11) = "outCommand" /\ ArgOf(11) = "60"
        /\ OpOf(13) = "outData" /\ ArgOf(13) = "statusByte"
    BY DEF OpOf, ArgOf, Commands, DataBytes, Answers
  <2>2. QED
    BY <2>1, ListsOne
       DEF ReadUntil, OutCommand, OutData, WaitToRead, ReadStatusByte
<1>5. Lists(Reset, 1, 19)
  <2> DEFINE a == SendToMouse("FF") \o ReadUntil("AA") \o WaitToWrite
             b == a \o OutCommand("20") \o WaitToRead \o ReadStatusByte
             c == b \o WaitToWrite \o OutCommand("60") \o WaitToWrite
  <2>1. Lists(a, 1, 6)
    <3>1. Lists(SendToMouse("FF") \o ReadUntil("AA"), 1, 5)
      BY <1>1, <1>4, ListsMore
    <3>2. QED
      BY <1>2, <3>1, ListsMore
  <2>2. Lists(b, 1, 9)
    <3> HIDE DEF a
    <3>1. Lists(a \o OutCommand("20"), 1, 7)
      BY <1>4, <2>1, ListsMore
    <3>2. Lists(a \o OutCommand("20") \o WaitToRead, 1, 8)
      BY <1>4, <3>1, ListsMore
    <3>3. QED
      BY <1>4, <3>2, ListsMore
  <2>3. Lists(c, 1, 12)
    <3> HIDE DEF b
    <3>1. Lists(b \o WaitToWrite, 1, 10)
      BY <1>2, <2>2, ListsMore
    <3>2. Lists(b \o WaitToWrite \o OutCommand("60"), 1, 11)
      BY <1>4, <3>1, ListsMore
    <3>3. QED
      BY <1>2, <3>2, ListsMore
  <2>4. Lists(c \o OutData("statusByte") \o SendToMouse("F4") \o WaitToWrite
                \o ReadUntil("FA"), 1, 19)
    <3> HIDE DEF c
    <3>1. Lists(c \o OutData("statusByte"), 1, 13)
      BY <1>4, <2>3, ListsMore
    <3>2. Lists(c \o OutData("statusByte") \o SendToMouse("F4"), 1, 17)
      BY <1>1, <3>1, ListsMore
    <3>3. Lists(c \o OutData("statusByte") \o SendToMouse("F4") \o WaitToWrite,
                1, 18)
      BY <1>2, <3>2, ListsMore
    <3>4. QED
      BY <1>3, <3>3, ListsMore
  <2>5. QED
    BY <2>4 DEF Reset
<1>6. Lists(SetSampleRate, 20, 12)
  <2> DEFINE a == SendToMouse("F3") \o WaitToWrite \o ReadUntil("FA")
  <2>1. Lists(a, 20, 6)
    <3>1. Lists(SendToMouse("F3") \o WaitToWrite, 20, 5)
      BY <1>1, <1>2, ListsMore
    <3>2. QED
      BY <1>3, <3>1, ListsMore
  <2>2. Lists(a \o SendToMouse("40") \o WaitToWrite \o ReadUntil("FA"), 20, 12)
    <3> HIDE DEF a
    <3>1. Lists(a \o SendToMouse("40"), 20, 10)
      BY <1>1, <2>1, ListsMore
    <3>2. Lists(a \o SendToMouse("40") \o WaitToWrite, 20, 11)
      BY <1>2, <3>1, ListsMore
    <3>3. QED
      BY <1>3, <3>2, ListsMore
  <2>3. QED
    BY <2>2 DEF SetSampleRate
<1>7. Lists(Program, 1, 31)
  BY <1>5, <1>6, ListsMore DEF Program
<1>8. QED
  BY <1>5, <1>7 DEF Done, Lists
-----------------------------------------------------------------------------
\* reset waits for the end of the mouse's reset first, and then for answers.
LEMMA ExpectedAt ==
    /\ \A p \in Nat : ExpectedNext(p) = IF p <= 5 THEN EndOfReset ELSE Ack
    /\ Expected("AA") = EndOfReset /\ Expected("FA") = Ack
<1>1. ArgOf(1 + 3) = "FF"
  BY DEF ArgOf
<1>send. Lists(SendToMouse("FF"), 1, 4)
  BY <1>1, ListsSend
<1> DEFINE n == Len(SendToMouse("FF"))
<1>len. n = 4
  BY <1>send, Zenon DEF Lists
<1> HIDE DEF n
<1>2. n + 1 = 5
  BY <1>len
<1>3. Expected("AA") = EndOfReset /\ Expected("FA") = Ack
  BY DEF Expected
<1>4. QED
  BY <1>2, <1>3 DEF ExpectedNext, n

\* The two bytes waited for, the mouse's identification and a configuration
\* differ in some bit.
LEMMA ValuesDiffer ==
    /\ Ack \in Values /\ EndOfReset \in Values /\ MouseId \in Values
    /\ Ack # EndOfReset /\ MouseId # Ack /\ MouseId # EndOfReset
    /\ \A c \in Configs : c \in Values /\ c # Ack
<1>1. /\ Ack \in Values /\ EndOfReset \in Values /\ MouseId \in Values
  BY DEF Ack, EndOfReset, MouseId, Values
<1>2. 4 \in Ack /\ 4 \notin EndOfReset /\ 7 \in Ack /\ 7 \in EndOfReset
      /\ 7 \notin MouseId
  BY DEF Ack, EndOfReset, MouseId
<1>3. ASSUME NEW c \in Configs PROVE c \in Values /\ 7 \notin c
  BY <1>3, MouseInitAssumption DEF Values
<1>4. QED
  BY <1>1, <1>2, <1>3

\* Whole packets of movement with no byte like an answer; and an answer, with
\* nothing like one in front of it and such packets behind it.
Moves(s) == /\ \A k \in 1 .. Len(s) : s[k].from = "move" /\ s[k].value # Ack
            /\ Len(s) % 3 = 0
AnswerThenMoves(s) ==
    \E k \in 1 .. Len(s) :
        /\ s[k].value = Ack /\ \A j \in 1 .. k - 1 : s[j].value # Ack
        /\ \A j \in k + 1 .. Len(s) : s[j].from = "move" /\ s[j].value # Ack
        /\ (Len(s) - k) % 3 = 0

Packet(m) == <<Byte("move", m[1]), Byte("move", m[2]), Byte("move", m[3])>>

\* What a movement sends are three bytes of the mouse.
LEMMA PacketType ==
    ASSUME NEW m \in [1 .. 3 -> Values]
    PROVE  /\ Packet(m) \in Seq(MouseSent) /\ Len(Packet(m)) = 3
           /\ \A i \in 1 .. 3 : Packet(m)[i] = Byte("move", m[i])
<1>1. \A i \in 1 .. 3 : Byte("move", m[i]) \in MouseSent
  BY DEF Byte, MouseSent
<1>2. QED
  BY <1>1 DEF Packet

\* A packet more is whole packets again, also behind an answer.
LEMMA PacketMore ==
    ASSUME NEW s \in Seq(MouseSent), NEW m \in [1 .. 3 -> Values],
           Ack \notin {m[1], m[2], m[3]}
    PROVE  /\ Moves(s) => Moves(s \o Packet(m))
           /\ AnswerThenMoves(s) => AnswerThenMoves(s \o Packet(m))
<1> DEFINE t == s \o Packet(m)
           quiet(b) == b.from = "move" /\ b.value # Ack
<1>1. /\ t \in Seq(MouseSent) /\ Len(t) = Len(s) + 3 /\ Len(s) \in Nat
      /\ \A i \in 1 .. Len(s) : t[i] = s[i]
      /\ \A i \in Len(s) + 1 .. Len(s) + 3 : quiet(t[i])
  <2> DEFINE q == Packet(m)
  <2>1. q \in Seq(MouseSent) /\ Len(q) = 3
    BY PacketType
  <2>q. ASSUME NEW i \in 1 .. 3 PROVE quiet(q[i])
    <3>1. q[i] = Byte("move", m[i]) /\ m[i] # Ack
      BY PacketType
    <3> HIDE DEF q
    <3>2. QED
      BY <3>1 DEF Byte
  <2> HIDE DEF q, quiet
  <2>all. /\ s \o q \in Seq(MouseSent) /\ Len(s \o q) = Len(s) + Len(q)
          /\ \A i \in 1 .. Len(s) + Len(q) :
                 (s \o q)[i] = IF i <= Len(s) THEN s[i] ELSE q[i - Len(s)]
    BY <2>1, ConcatProperties
  <2>same. t = s \o q
    BY DEF q
  <2> HIDE DEF t
  <2>2. /\ t \in Seq(MouseSent) /\ Len(t) = Len(s) + 3 /\ Len(s) \in Nat
        /\ \A i \in 1 .. Len(s) + 3 : t[i] = IF i <= Len(s) THEN s[i]
                                           ELSE q[i - Len(s)]
    BY <2>all, <2>same, <2>1
  <2>3. ASSUME NEW i \in Len(s) + 1 .. Len(s) + 3 PROVE quiet(t[i])
    <3>1. i - Len(s) \in 1 .. 3 /\ i \in 1 .. Len(s) + 3 /\ ~(i <= Len(s))
      BY <2>2
    <3>2. t[i] = q[i - Len(s)]
      BY <2>2, <3>1
    <3>3. QED
      BY <2>q, <3>1, <3>2
  <2>4. QED
    BY <2>2, <2>3
<1> HIDE DEF t
<1>2. ASSUME Moves(s) PROVE Moves(t)
  <2>1. ASSUME NEW k \in 1 .. Len(t) PROVE quiet(t[k])
    <3>1. CASE k <= Len(s)
      BY <1>1, <1>2, <3>1 DEF Moves
    <3>2. CASE k > Len(s)
      BY <1>1, <3>2
    <3>3. QED
      BY <1>1, <3>1, <3>2
  <2>2. Len(t) % 3 = 0
    BY <1>1, <1>2 DEF Moves
  <2>3. QED
    BY <2>1, <2>2 DEF Moves
<1>3. ASSUME AnswerThenMoves(s) PROVE AnswerThenMoves(t)
  <2>1. PICK k \in 1 .. Len(s) :
            /\ s[k].value = Ack /\ \A j \in 1 .. k - 1 : s[j].value # Ack
            /\ \A j \in k + 1 .. Len(s) : quiet(s[j])
            /\ (Len(s) - k) % 3 = 0
    BY <1>3 DEF AnswerThenMoves
  <2>2. (Len(t) - k) % 3 = 0
    BY <1>1, <2>1
  <2>3. t[k].value = Ack /\ \A j \in 1 .. k - 1 : t[j].value # Ack
    <3>1. t[k] = s[k] /\ \A j \in 1 .. k - 1 : t[j] = s[j]
      BY <1>1
    <3>2. QED
      BY <2>1, <3>1
  <2>4. ASSUME NEW j \in k + 1 .. Len(t) PROVE quiet(t[j])
    <3>1. CASE j <= Len(s)
      <4>1. j \in k + 1 .. Len(s) /\ j \in 1 .. Len(s)
        BY <1>1, <3>1
      <4>2. QED
        BY <1>1, <2>1, <4>1
    <3>2. CASE j > Len(s)
      BY <1>1, <3>2
    <3>3. QED
      BY <1>1, <3>1, <3>2
  <2>5. k \in 1 .. Len(t)
    BY <1>1
  <2>6. QED
    BY <2>2, <2>3, <2>4, <2>5 DEF AnswerThenMoves
<1>4. QED
  BY <1>2, <1>3 DEF t

\* An answer behind bytes that are none.
LEMMA AnswerMore ==
    ASSUME NEW s \in Seq(MouseSent), NEW b \in MouseSent, b.value = Ack,
           \A k \in 1 .. Len(s) : s[k].value # Ack
    PROVE  AnswerThenMoves(Append(s, b))
<1> DEFINE t == Append(s, b)
<1>1. /\ Len(t) = Len(s) + 1 /\ Len(s) \in Nat /\ t[Len(s) + 1] = b
      /\ \A i \in 1 .. Len(s) : t[i] = s[i]
  BY AppendProperties
<1> HIDE DEF t
<1>2. (Len(t) - (Len(s) + 1)) % 3 = 0
  BY <1>1
<1>3. AnswerThenMoves(t)
  BY <1>1, <1>2 DEF AnswerThenMoves
<1>4. QED
  BY <1>3 DEF t

\* A sequence with a byte in front.
LEMMA Prepended ==
    ASSUME NEW b \in MouseSent, NEW s \in Seq(MouseSent)
    PROVE  /\ <<b>> \o s \in Seq(MouseSent) /\ Len(<<b>> \o s) = Len(s) + 1
           /\ (<<b>> \o s)[1] = b
           /\ \A i \in 1 .. Len(s) : (<<b>> \o s)[i + 1] = s[i]
  BY ConcatProperties

\* The kernel reads the first byte: it was the answer, or the answer is
\* still to come.
LEMMA FirstRead ==
    ASSUME NEW b \in MouseSent, NEW s \in Seq(MouseSent),
           AnswerThenMoves(<<b>> \o s)
    PROVE  IF b.value = Ack THEN Moves(s) ELSE AnswerThenMoves(s)
<1> DEFINE t == <<b>> \o s
           quiet(c) == c.from = "move" /\ c.value # Ack
<1>1. /\ Len(t) = Len(s) + 1 /\ Len(s) \in Nat /\ t[1] = b
      /\ \A i \in 1 .. Len(s) : t[i + 1] = s[i]
  BY Prepended
<1>2. AnswerThenMoves(t)
  OBVIOUS
<1> HIDE DEF t
<1>3. PICK k \in 1 .. Len(t) :
          /\ t[k].value = Ack /\ \A j \in 1 .. k - 1 : t[j].value # Ack
          /\ \A j \in k + 1 .. Len(t) : quiet(t[j])
          /\ (Len(t) - k) % 3 = 0
  BY <1>2 DEF AnswerThenMoves
<1>4. CASE b.value = Ack
  <2>1. k = 1
    BY <1>1, <1>3, <1>4
  <2>2. Len(s) % 3 = 0
    BY <1>1, <1>3, <2>1
  <2>3. ASSUME NEW i \in 1 .. Len(s) PROVE quiet(s[i])
    <3>1. i + 1 \in k + 1 .. Len(t) /\ t[i + 1] = s[i]
      BY <1>1, <2>1
    <3>2. quiet(t[i + 1])
      BY <1>3, <3>1
    <3>3. QED
      BY <3>1, <3>2
  <2>4. QED
    BY <1>4, <2>2, <2>3 DEF Moves
<1>5. CASE b.value # Ack
  <2>1. k - 1 \in 1 .. Len(s) /\ k # 1
    BY <1>1, <1>3, <1>5
  <2>2. s[k - 1].value = Ack /\ (Len(s) - (k - 1)) % 3 = 0
    BY <1>1, <1>3, <2>1
  <2>3. ASSUME NEW j \in 1 .. k - 1 - 1 PROVE s[j].value # Ack
    <3>1. t[j + 1].value # Ack /\ t[j + 1] = s[j]
      BY <1>1, <1>3, <2>1
    <3>2. QED
      BY <3>1
  <2>4. ASSUME NEW j \in k - 1 + 1 .. Len(s) PROVE quiet(s[j])
    <3>1. quiet(t[j + 1]) /\ t[j + 1] = s[j]
      BY <1>1, <1>3, <2>1
    <3>2. QED
      BY <3>1
  <2>5. AnswerThenMoves(s)
    BY <2>1, <2>2, <2>3, <2>4 DEF AnswerThenMoves
  <2>6. QED
    BY <1>5, <2>5
<1>6. QED
  BY <1>4, <1>5
-----------------------------------------------------------------------------
\* The bytes the program has for the mouse, in their order.
MouseBytes == <<"FF", "F4", "F3", "40">>

\* How many of them it has written when its next operation is number p, and
\* how many of their answers it has waited for.
Sent(p) == IF p < 5 THEN 0 ELSE IF p < 18 THEN 1 ELSE IF p < 24 THEN 2
           ELSE IF p < 30 THEN 3 ELSE 4
Awaited(p) == IF p < 6 THEN 0 ELSE IF p < 20 THEN 1 ELSE IF p < 26 THEN 2
              ELSE IF p < 32 THEN 3 ELSE 4

\* Where it has sent the prefix, has waited behind it, has sent the byte.
AfterPrefix == {3, 16, 22, 28}
BeforeByte == {4, 17, 23, 29}
AfterByte == {5, 6, 18, 24, 30}

\* How many the mouse has accepted.
Taken == Len(accepted)

Written == {"none", "FF", "F4", "F3", "40", "D4", "20", "60", "statusByte"}

TypeOK ==
    /\ emulated \in BOOLEAN /\ pc \in 1 .. 32
    /\ config0 \in Configs /\ reply \in {<<>>, <<config0>>}
    /\ input \in [full : BOOLEAN, command : BOOLEAN, byte : Written]
    /\ wire \in Written
    /\ ob \in [full : BOOLEAN,
               byte : [from : {"answer", "move", "left", "key", "reply"},
                       value : Values]]
    /\ out \in Seq(MouseSent) /\ accepted \in Seq(Written)
    /\ streaming \in BOOLEAN /\ disturbed \in BOOLEAN

\* The controller finds in its input buffer what the program has written
\* last, and sends to the mouse what is for the mouse.
Routed ==
    /\ input.full => pc \in AfterPrefix \union AfterByte
                                \union {8, 9, 10, 12, 14}
    /\ pc \in AfterPrefix => IF input.full
                             THEN input.command /\ input.byte = "D4"
                             ELSE route = "mouse"
    /\ pc \in BeforeByte => route = "mouse"
    /\ pc \in AfterByte /\ input.full =>
           /\ ~input.command /\ route = "mouse"
           /\ input.byte = MouseBytes[Sent(pc)]
    /\ pc \in {8, 9, 10} /\ input.full => input.command /\ input.byte = "20"
    /\ pc = 12 => IF input.full THEN input.command /\ input.byte = "60"
                  ELSE route = "config"
    /\ pc = 13 => route = "config"
    /\ pc = 14 /\ input.full => ~input.command /\ route = "config"

\* Every byte written for the mouse has been accepted, is being sent, or is
\* still in the input buffer; and the mouse streams again only behind F4.
Delivered ==
    /\ \A k \in 1 .. Taken : accepted[k] = MouseBytes[k]
    /\ wire # "none" => wire = MouseBytes[Taken + 1]
    /\ Taken + (IF wire # "none" THEN 1 ELSE 0)
         + (IF pc \in AfterByte /\ input.full THEN 1 ELSE 0) = Sent(pc)
    /\ streaming => Taken # 1

\* On an emulator the mouse has accepted what the program has waited for.
Waited == emulated => Taken >= Awaited(pc)

\* The configuration is the firmware's until the program writes its own, in
\* which the mouse is enabled whatever was read.
Configured ==
    /\ reply # <<>> => pc >= 8
    /\ pc < 14 \/ (pc = 14 /\ input.full) => config = config0
    /\ pc > 14 \/ (pc = 14 /\ ~input.full) => config = statusByte
    /\ pc > 9 => 1 \in statusByte /\ 5 \notin statusByte

NoneIs(v, s) == \A k \in 1 .. Len(s) : s[k].value # v

\* Nothing looks like the end of a reset until the mouse accepts the reset.
\* Until it accepts F4, what it sends is the answer to the reset, of which
\* reset waits for the second byte.
ResetAnswer ==
    ~disturbed =>
        /\ Taken = 0 =>
               /\ pc <= 5 /\ ob.byte.value # EndOfReset
               /\ NoneIs(EndOfReset, out)
        /\ Taken = 1 /\ pc = 5 =>
               \/ /\ out = <<Byte("answer", Ack), Byte("answer", EndOfReset),
                             Byte("answer", MouseId)>>
                  /\ ob.byte.value # EndOfReset
               \/ /\ out = <<Byte("answer", EndOfReset), Byte("answer", MouseId)>>
                  /\ ob.byte.value # EndOfReset
               \/ /\ out = <<Byte("answer", MouseId)>>
                  /\ ob.full /\ ob.byte = Byte("answer", EndOfReset)
        /\ Taken = 1 /\ pc > 5 => ob.byte.value # Ack /\ NoneIs(Ack, out)
        /\ pc > 5 /\ ob.byte.from \in {"key", "reply"} => ob.byte.value # Ack
        /\ pc > 19 => Taken >= 2

\* On an emulator, an answer nobody has waited for yet is the only one on its
\* way, and apart from that only whole packets follow the enable byte.
Aligned ==
    emulated /\ ~disturbed =>
        /\ Taken >= 2 /\ Taken > Awaited(pc) => AnswerThenMoves(Pending)
        /\ Taken >= 2 /\ Taken <= Awaited(pc) => Moves(Pending)

IInv == /\ TypeOK
        /\ Routed
        /\ Delivered
        /\ Waited
        /\ Configured
        /\ ResetAnswer
        /\ Aligned
-----------------------------------------------------------------------------
\* The kernel's next operation by its number.
LEMMA AtNumber ==
    ASSUME NEW o, TypeOK, At(o)
    PROVE  /\ pc \in 1 .. 31 /\ pc + 1 \in 1 .. 32
           /\ OpOf(pc) = o /\ Program[pc].arg = ArgOf(pc)
           /\ emulated => ~CanReact
<1>1. pc \in 1 .. 31 /\ pc + 1 \in 1 .. 32
  BY ProgramLists DEF At, TypeOK
<1>2. 1 + pc - 1 = pc
  BY <1>1
<1>3. Program[pc].op = OpOf(pc) /\ Program[pc].arg = ArgOf(pc)
  BY <1>1, <1>2, ProgramLists DEF Lists
<1>4. QED
  BY <1>1, <1>3 DEF At

\* Where the program waits to write.
LEMMA WaitWriteAt ==
    ASSUME TypeOK, WaitWrite
    PROVE  /\ pc \in {1, 3, 6, 10, 12, 14, 16, 18, 20, 22, 24, 26, 28, 30}
           /\ pc' = pc + 1
<1>1. pc \in 1 .. 31 /\ OpOf(pc) = "waitToWrite"
  BY AtNumber DEF WaitWrite
<1>2. pc \in {1, 3, 6, 10, 12, 14, 16, 18, 20, 22, 24, 26, 28, 30}
  BY <1>1 DEF OpOf, Commands, DataBytes, Answers
<1>3. QED
  BY <1>2 DEF WaitWrite

\* Where it waits to read.
LEMMA WaitReadAt ==
    ASSUME TypeOK, WaitRead
    PROVE  pc = 8 /\ pc' = 9
<1>1. pc \in 1 .. 31 /\ OpOf(pc) = "waitToRead"
  BY AtNumber DEF WaitRead
<1>2. QED
  BY <1>1 DEF OpOf, Commands, DataBytes, Answers, WaitRead

\* Where it sends a command, and which.
LEMMA CommandAt ==
    ASSUME TypeOK, WriteCommand
    PROVE  /\ pc \in Commands /\ pc' = pc + 1
           /\ input' = [full |-> TRUE, command |-> TRUE, byte |-> ArgOf(pc)]
<1>1. pc \in 1 .. 31 /\ OpOf(pc) = "outCommand" /\ Program[pc].arg = ArgOf(pc)
  BY AtNumber DEF WriteCommand
<1>2. pc \in Commands
  BY <1>1 DEF OpOf, Commands, DataBytes, Answers
<1>3. QED
  BY <1>1, <1>2 DEF WriteCommand

\* Where it sends a byte, and which.
LEMMA DataAt ==
    ASSUME TypeOK, WriteData
    PROVE  /\ pc \in DataBytes /\ pc' = pc + 1
           /\ input' = [full |-> TRUE, command |-> FALSE, byte |-> ArgOf(pc)]
<1>1. pc \in 1 .. 31 /\ OpOf(pc) = "outData" /\ Program[pc].arg = ArgOf(pc)
  BY AtNumber DEF WriteData
<1>2. pc \in DataBytes
  BY <1>1 DEF OpOf, Commands, DataBytes, Answers
<1>3. QED
  BY <1>1, <1>2 DEF WriteData

\* Where it waits for an answer, and for which.
LEMMA ReadAt ==
    ASSUME TypeOK, ReadTurn
    PROVE  /\ pc \in Answers
           /\ pc' = IF ob.byte.value = ExpectedNext(pc) THEN pc + 1 ELSE pc
<1>1. pc \in 1 .. 31 /\ OpOf(pc) = "readUntil" /\ Program[pc].arg = ArgOf(pc)
  BY AtNumber DEF ReadTurn
<1>2. pc \in Answers
  BY <1>1 DEF OpOf, Commands, DataBytes, Answers
<1>3. ArgOf(pc) = IF pc = 5 THEN "AA" ELSE "FA"
  BY <1>2 DEF ArgOf, Commands, Answers
<1>4. Expected(ArgOf(pc)) = ExpectedNext(pc)
  BY <1>2, <1>3, ExpectedAt DEF Answers
<1>5. QED
  BY <1>1, <1>2, <1>4 DEF ReadTurn

\* Where it reads the configuration.
LEMMA ReadStatusAt ==
    ASSUME TypeOK, ReadStatus
    PROVE  pc = 9 /\ pc' = 10
<1>1. pc \in 1 .. 31 /\ OpOf(pc) = "readStatusByte"
  BY AtNumber DEF ReadStatus
<1>2. QED
  BY <1>1 DEF OpOf, Commands, DataBytes, Answers, ReadStatus

\* What the kernel knows of an emulator when it accesses a port.
LEMMA Settled ==
    ASSUME TypeOK, Kernel, emulated
    PROVE  /\ ~input.full /\ wire = "none"
           /\ ob.full \/ out = <<>> \/ 5 \in config
<1>1. ~CanReact
  BY AtNumber DEF Kernel, WaitWrite, WaitRead, WriteCommand, WriteData,
                  ReadTurn, ReadStatus
<1>2. QED
  BY <1>1 DEF CanReact, TypeOK

\* The route behind a command.
LEMMA RouteOf ==
    ASSUME TakeCommand
    PROVE  /\ input.byte = "D4" => route' = "mouse"
           /\ input.byte = "60" => route' = "config"
<1>1. ASSUME input.byte = "D4" PROVE route' = "mouse"
  BY <1>1, Zenon DEF TakeCommand
<1>2. ASSUME input.byte = "60" PROVE route' = "config"
  BY <1>2, Zenon DEF TakeCommand
<1>3. QED
  BY <1>1, <1>2

\* The machine does not change, and what has disturbed stays.
LEMMA MachineStep ==
    ASSUME TypeOK, [Next]_vars
    PROVE  UNCHANGED machine /\ (~disturbed' => ~disturbed)
<1> USE DEF device, machine
<1>1. CASE Kernel
  BY <1>1 DEF Kernel, WaitWrite, WaitRead, WriteCommand, WriteData, ReadTurn,
              ReadStatus
<1>2. CASE Controller
  BY <1>2 DEF Controller, TakeCommand, TakeConfig, TakeForMouse, MouseAccept,
              GiveReply, GiveMouseByte
<1>3. CASE MouseMove \/ Key
  BY <1>3 DEF MouseMove, Key, TypeOK
<1>4. CASE UNCHANGED vars
  BY <1>4 DEF vars
<1>5. QED
  BY <1>1, <1>2, <1>3, <1>4 DEF Next
-----------------------------------------------------------------------------
\* The mouse's byte in the output buffer, if it is one of its own.
LEMMA PortByte ==
    ASSUME TypeOK, ob.byte.from \notin {"key", "reply"}
    PROVE  ob.byte \in MouseSent
  BY DEF TypeOK, MouseSent

\* What the kernel has not read yet, whatever the output buffer holds.
LEMMA PendingType == TypeOK => Pending \in Seq(MouseSent) /\ out \in Seq(MouseSent)
<1> SUFFICES ASSUME TypeOK PROVE Pending \in Seq(MouseSent) /\ out \in Seq(MouseSent)
  OBVIOUS
<1>1. out \in Seq(MouseSent)
  BY DEF TypeOK
<1>2. CASE ob.full /\ ob.byte.from \notin {"key", "reply"}
  <2>1. <<ob.byte>> \in Seq(MouseSent)
    BY <1>2, PortByte
  <2>2. QED
    BY <1>1, <1>2, <2>1, ConcatProperties DEF Pending
<1>3. CASE ~(ob.full /\ ob.byte.from \notin {"key", "reply"})
  <2>1. Pending = <<>> \o out
    BY <1>3 DEF Pending
  <2>2. QED
    BY <1>1, <2>1, ConcatEmptySeq
<1>4. QED
  BY <1>2, <1>3

\* What is pending when the port holds nothing of the mouse, and when it does.
LEMMA PendingOut ==
    ASSUME TypeOK
    PROVE  IF ob.full /\ ob.byte.from \notin {"key", "reply"}
           THEN Pending = <<ob.byte>> \o out ELSE Pending = out
<1>1. out \in Seq(MouseSent)
  BY DEF TypeOK
<1>2. <<>> \o out = out
  BY <1>1, ConcatEmptySeq
<1>3. QED
  BY <1>2 DEF Pending

\* The same in the next state.
LEMMA PendingOutNext ==
    ASSUME TypeOK'
    PROVE  IF ob'.full /\ ob'.byte.from \notin {"key", "reply"}
           THEN Pending' = <<ob'.byte>> \o out' ELSE Pending' = out'
<1>1. out' \in Seq(MouseSent)
  BY DEF TypeOK
<1>2. <<>> \o out' = out'
  BY <1>1, ConcatEmptySeq
<1>3. QED
  BY <1>2 DEF Pending

\* A byte that moves to the output buffer stays the next one.
LEMMA GivenStays == TypeOK /\ GiveMouseByte => UNCHANGED Pending
<1> SUFFICES ASSUME TypeOK, GiveMouseByte PROVE Pending' = Pending
  OBVIOUS
<1>1. /\ out \in Seq(MouseSent) /\ out # <<>>
      /\ ob' = [full |-> TRUE, byte |-> Head(out)] /\ out' = Tail(out)
      /\ Pending = out
  BY PendingOut DEF TypeOK, GiveMouseByte
<1>2. /\ Tail(out) \in Seq(MouseSent) /\ Len(Tail(out)) = Len(out) - 1
      /\ Head(out) \in MouseSent /\ Head(out) = out[1] /\ Len(out) \in Nat
      /\ \A i \in 1 .. Len(Tail(out)) : Tail(out)[i] = out[i + 1]
  BY <1>1, HeadTailProperties
<1> DEFINE s == <<Head(out)>> \o Tail(out)
<1>first. Pending' = s
  <2>1. Head(out).from \notin {"key", "reply"}
    BY <1>2 DEF MouseSent
  <2>2. QED
    BY <1>1, <2>1 DEF Pending
<1>3. /\ s \in Seq(MouseSent) /\ Len(s) = Len(Tail(out)) + 1 /\ s[1] = Head(out)
      /\ \A i \in 1 .. Len(Tail(out)) : s[i + 1] = Tail(out)[i]
  BY <1>2, Prepended
<1> HIDE DEF s
<1>4. ASSUME NEW i \in 1 .. Len(s) PROVE s[i] = out[i]
  <2>1. CASE i = 1
    BY <1>2, <1>3, <2>1
  <2>2. CASE i # 1
    <3>1. i - 1 \in 1 .. Len(Tail(out)) /\ i - 1 + 1 = i
      BY <1>2, <1>3, <2>2
    <3>2. QED
      BY <1>2, <1>3, <3>1
  <2>3. QED
    BY <2>1, <2>2
<1>5. s = out
  BY <1>1, <1>2, <1>3, <1>4, SeqEqual
<1>6. QED
  BY <1>1, <1>5, <1>first

\* What the mouse appends comes last.
LEMMA AppendedLast ==
    ASSUME TypeOK, NEW s \in Seq(MouseSent), UNCHANGED ob, out' = out \o s
    PROVE  Pending' = Pending \o s
<1>1. out \in Seq(MouseSent) /\ out \o s \in Seq(MouseSent)
  BY ConcatProperties DEF TypeOK
<1>2. CASE ob.full /\ ob.byte.from \notin {"key", "reply"}
  <2>1. <<ob.byte>> \in Seq(MouseSent)
    BY <1>2, PortByte
  <2>2. (<<ob.byte>> \o out) \o s = <<ob.byte>> \o (out \o s)
    BY <1>1, <2>1, ConcatAssociative
  <2>3. QED
    BY <1>2, <2>2 DEF Pending
<1>3. CASE ~(ob.full /\ ob.byte.from \notin {"key", "reply"})
  <2>1. Pending = <<>> \o out /\ Pending' = <<>> \o (out \o s)
    BY <1>3 DEF Pending
  <2>2. QED
    BY <1>1, <2>1, ConcatEmptySeq
<1>4. QED
  BY <1>2, <1>3
-----------------------------------------------------------------------------
\* The initial state has every part of the invariant.
LEMMA InitIInv == Init => IInv
<1> SUFFICES ASSUME Init PROVE IInv
  OBVIOUS
<1>1. pc = 1 /\ wire = "none" /\ reply = <<>> /\ ~input.full
  BY DEF Init
<1>accepted. accepted = <<>> /\ Taken = 0
  BY DEF Init, Taken
<1>out. out \in Seq(MouseSent)
  BY MouseInitAssumption DEF Init
<1>ob. /\ ob.byte.value \in Values
       /\ \E f \in BOOLEAN : ob = [full |-> f, byte |-> Byte("left", ob.byte.value)]
  <2>1. PICK b \in Leftover, f \in BOOLEAN :
            ob = [full |-> f, byte |-> Byte("left", b)]
    BY DEF Init
  <2>2. ob.byte.value = b /\ b \in Values
    BY <2>1, MouseInitAssumption DEF Byte
  <2>3. QED
    BY <2>1, <2>2
<1>quiet. ~disturbed =>
              /\ ob.byte.value # EndOfReset /\ NoneIs(EndOfReset, out)
  BY <1>out DEF Init, NoneIs
<1>2. TypeOK
  <2>1. /\ emulated \in BOOLEAN /\ config0 \in Configs /\ streaming \in BOOLEAN
        /\ disturbed \in BOOLEAN
    BY DEF Init
  <2>2. input \in [full : BOOLEAN, command : BOOLEAN, byte : Written]
    BY DEF Init, Written
  <2>3. ob \in [full : BOOLEAN,
                byte : [from : {"answer", "move", "left", "key", "reply"},
                        value : Values]]
    BY <1>ob DEF Byte
  <2>4. wire \in Written /\ accepted \in Seq(Written)
    BY <1>1, <1>accepted DEF Written
  <2>5. QED
    BY <1>1, <1>out, <2>1, <2>2, <2>3, <2>4 DEF TypeOK
<1>3. Routed
  BY <1>1, <1>2 DEF TypeOK, Routed, AfterPrefix, BeforeByte, AfterByte
<1>4. Delivered
  BY <1>1, <1>2, <1>accepted DEF TypeOK, Delivered, Sent, AfterByte
<1>5. Waited
  BY <1>1, <1>accepted DEF Waited, Awaited
<1>6. Configured
  BY <1>1 DEF Init, Configured
<1>7. ResetAnswer
  BY <1>1, <1>accepted, <1>quiet DEF ResetAnswer
<1>8. Aligned
  BY <1>accepted DEF Aligned
<1>9. QED
  BY <1>2, <1>3, <1>4, <1>5, <1>6, <1>7, <1>8 DEF IInv

\* Every step keeps the types.
LEMMA TypeStep == IInv /\ [Next]_vars => TypeOK'
<1> SUFFICES ASSUME IInv, [Next]_vars PROVE TypeOK'
  OBVIOUS
<1>parts. TypeOK
  BY DEF IInv
<1>machine. UNCHANGED <<emulated, config0>>
  BY <1>parts, MachineStep DEF machine
<1> USE DEF controller, device, machine
<1>1. CASE WaitWrite
  BY <1>parts, <1>1, WaitWriteAt DEF WaitWrite, TypeOK
<1>2. CASE WaitRead
  BY <1>parts, <1>2, WaitReadAt DEF WaitRead, TypeOK
<1>3. CASE WriteCommand
  <2>1. ArgOf(pc) \in Written /\ pc' \in 1 .. 32
    BY <1>parts, <1>3, CommandAt DEF ArgOf, Commands, Answers, Written
  <2>2. QED
    BY <1>parts, <1>3, <2>1, CommandAt DEF WriteCommand, TypeOK
<1>4. CASE WriteData
  <2>1. ArgOf(pc) \in Written /\ pc' \in 1 .. 32
    BY <1>parts, <1>4, DataAt DEF ArgOf, DataBytes, Answers, Written
  <2>2. QED
    BY <1>parts, <1>4, <2>1, DataAt DEF WriteData, TypeOK
<1>5. CASE ReadTurn
  <2>1. pc' \in 1 .. 32
    BY <1>parts, <1>5, ReadAt DEF Answers
  <2>2. QED
    BY <1>parts, <1>5, <2>1 DEF ReadTurn, TypeOK
<1>6. CASE ReadStatus
  <2>1. pc' \in 1 .. 32
    BY <1>parts, <1>6, ReadStatusAt
  <2>2. QED
    BY <1>parts, <1>6, <2>1 DEF ReadStatus, TypeOK
<1>7. CASE TakeCommand
  <2>1. /\ UNCHANGED <<pc, wire, ob, out, accepted, streaming, disturbed>>
        /\ input' = [input EXCEPT !.full = FALSE]
        /\ reply' = <<config>> \/ reply' = reply
        /\ input.byte # "20" => reply' = reply
        /\ input.full /\ input.command
    BY <1>7 DEF TakeCommand, Ready
  <2>2. input.byte = "20" => config = config0
    <3>1. input.byte = "20" => pc < 14
      BY <1>parts, <2>1
         DEF IInv, Routed, TypeOK, AfterPrefix, AfterByte, BeforeByte
    <3>2. QED
      BY <3>1 DEF IInv, Configured
  <2>3. reply' \in {<<>>, <<config0>>}
    BY <1>parts, <2>1, <2>2 DEF TypeOK
  <2>4. QED
    BY <1>parts, <1>machine, <2>1, <2>3 DEF TypeOK
<1>8. CASE TakeConfig
  BY <1>parts, <1>8 DEF TakeConfig, TypeOK
<1>9. CASE TakeForMouse
  BY <1>parts, <1>9 DEF TakeForMouse, TypeOK
<1>10. CASE MouseAccept
  <2>1. Append(accepted, wire) \in Seq(Written)
    BY <1>parts, AppendProperties DEF TypeOK
  <2>2. /\ <<Byte("answer", Ack), Byte("answer", EndOfReset),
             Byte("answer", MouseId)>> \in Seq(MouseSent)
        /\ Append(out, Byte("answer", Ack)) \in Seq(MouseSent)
    <3>1. /\ Byte("answer", Ack) \in MouseSent
          /\ Byte("answer", EndOfReset) \in MouseSent
          /\ Byte("answer", MouseId) \in MouseSent
      BY ValuesDiffer DEF Byte, MouseSent
    <3>2. QED
      BY <1>parts, <3>1, AppendProperties DEF TypeOK
  <2>3. accepted' \in Seq(Written) /\ out' \in Seq(MouseSent)
    BY <1>10, <2>1, <2>2 DEF MouseAccept
  <2>4. wire' \in Written /\ streaming' \in BOOLEAN
    BY <1>10 DEF MouseAccept, Written
  <2>5. QED
    BY <1>parts, <1>10, <2>3, <2>4 DEF MouseAccept, TypeOK
<1>11. CASE GiveReply
  <2>1. Byte("reply", reply[1]) \in [from : {"answer", "move", "left", "key",
                                             "reply"}, value : Values]
    BY <1>parts, <1>11, ValuesDiffer DEF GiveReply, TypeOK, Byte
  <2>2. QED
    BY <1>parts, <1>11, <2>1 DEF GiveReply, TypeOK
<1>12. CASE GiveMouseByte
  <2>1. Head(out) \in MouseSent /\ Tail(out) \in Seq(MouseSent)
    BY <1>parts, <1>12, HeadTailProperties DEF GiveMouseByte, TypeOK
  <2>2. Head(out) \in [from : {"answer", "move", "left", "key", "reply"},
                       value : Values]
    BY <2>1 DEF MouseSent
  <2>3. QED
    BY <1>parts, <1>12, <2>1, <2>2 DEF GiveMouseByte, TypeOK
<1>13. CASE MouseMove
  <2>1. PICK m \in Movements :
            /\ out' = out \o Packet(m)
            /\ disturbed' = (disturbed \/ ExpectedNext(pc) \in {m[1], m[2], m[3]})
    BY <1>13 DEF MouseMove, Packet
  <2>2. m \in [1 .. 3 -> Values]
    BY MouseInitAssumption
  <2>3. Packet(m) \in Seq(MouseSent) /\ out \in Seq(MouseSent)
    BY <1>parts, <2>2, PacketType DEF TypeOK
  <2>4. out' \in Seq(MouseSent) /\ disturbed' \in BOOLEAN
    BY <2>1, <2>3, ConcatProperties
  <2>5. QED
    BY <1>parts, <1>13, <2>4 DEF MouseMove, TypeOK
<1>14. CASE Key
  <2>1. PICK b \in KeyBytes :
            /\ ob' = [full |-> TRUE, byte |-> Byte("key", b)]
            /\ disturbed' = (disturbed \/ ExpectedNext(pc) = b)
    BY <1>14 DEF Key
  <2>2. b \in Values
    BY MouseInitAssumption
  <2>3. QED
    BY <1>parts, <1>14, <2>1, <2>2 DEF Key, TypeOK, Byte
<1>15. CASE UNCHANGED vars
  BY <1>parts, <1>15 DEF vars, TypeOK
<1>16. QED
  BY <1>1, <1>2, <1>3, <1>4, <1>5, <1>6, <1>7, <1>8, <1>9, <1>10, <1>11,
     <1>12, <1>13, <1>14, <1>15 DEF Next, Kernel, Controller
-----------------------------------------------------------------------------
\* How far the mouse has come when a byte is on its way to it.
LEMMA SentBytes ==
    ASSUME TypeOK, Delivered
    PROVE  /\ Taken \in 0 .. 4
           /\ Taken <= Sent(pc)
           /\ wire # "none" => /\ Taken < Sent(pc)
                               /\ Taken = 0 <=> wire = "FF"
           /\ Taken = 1 /\ wire # "none" => wire = "F4"
<1> DEFINE n == Taken
           w == IF wire # "none" THEN 1 ELSE 0
           i == IF pc \in AfterByte /\ input.full THEN 1 ELSE 0
<1>1. n \in Nat /\ Sent(pc) \in 0 .. 4 /\ w \in {0, 1} /\ i \in {0, 1}
  BY DEF TypeOK, Sent, Taken
<1>2. n + w + i = Sent(pc)
  BY DEF Delivered
<1>3. (w = 1) <=> (wire # "none")
  OBVIOUS
<1>4. wire # "none" => wire = MouseBytes[n + 1]
  BY DEF Delivered
<1> HIDE DEF n, w, i
<1>5. n \in 0 .. 4 /\ n <= Sent(pc)
  BY <1>1, <1>2
<1>6. ASSUME wire # "none"
      PROVE  n < Sent(pc) /\ (n = 0 <=> wire = "FF") /\ (n = 1 => wire = "F4")
  <2>1. n \in 0 .. 3 /\ n < Sent(pc)
    BY <1>1, <1>2, <1>3, <1>6
  <2>2. n + 1 \in 1 .. 4 /\ wire = MouseBytes[n + 1]
    BY <1>4, <1>6, <2>1
  <2>3. QED
    BY <2>1, <2>2 DEF MouseBytes
<1>7. QED
  BY <1>5, <1>6 DEF n

\* Every step keeps the controller's view of the dialogue.
LEMMA RoutedStep == IInv /\ [Next]_vars => Routed'
<1> SUFFICES ASSUME IInv, [Next]_vars PROVE Routed'
  OBVIOUS
<1>parts. TypeOK /\ Routed
  BY DEF IInv
<1>bounds. pc \in 1 .. 32
  BY <1>parts DEF TypeOK
<1> USE DEF Routed, AfterPrefix, BeforeByte, AfterByte
<1>1. CASE WaitWrite
  <2>1. UNCHANGED <<input, route>> /\ ~input.full
    BY <1>1 DEF WaitWrite, controller
  <2>2. QED
    BY <1>parts, <1>1, <2>1, WaitWriteAt
<1>2. CASE WaitRead
  <2>1. UNCHANGED <<input, route>>
    BY <1>2 DEF WaitRead, controller
  <2>2. QED
    BY <1>parts, <1>2, <2>1, WaitReadAt
<1>3. CASE WriteCommand
  <2>1. input'.full /\ input'.command /\ input'.byte = ArgOf(pc)
    BY <1>parts, <1>3, CommandAt
  <2>2. pc \in Commands /\ pc' = pc + 1 /\ UNCHANGED route
    BY <1>parts, <1>3, CommandAt DEF WriteCommand
  <2>3. QED
    BY <2>1, <2>2 DEF Commands, ArgOf
<1>4. CASE WriteData
  <2>1. input'.full /\ ~input'.command /\ input'.byte = ArgOf(pc)
    BY <1>parts, <1>4, DataAt
  <2>2. pc \in DataBytes /\ pc' = pc + 1 /\ UNCHANGED route
    BY <1>parts, <1>4, DataAt DEF WriteData
  <2>3. pc # 13 => ArgOf(pc) = MouseBytes[Sent(pc + 1)]
    BY <2>2 DEF DataBytes, ArgOf, Sent, MouseBytes
  <2>4. QED
    BY <1>parts, <2>1, <2>2, <2>3 DEF DataBytes
<1>5. CASE ReadTurn
  <2>1. UNCHANGED <<input, route>> /\ pc \in Answers
    BY <1>parts, <1>5, ReadAt DEF ReadTurn
  <2>2. pc' = pc \/ pc' = pc + 1
    BY <1>parts, <1>5, ReadAt
  <2>3. Sent(5) = Sent(6)
    BY DEF Sent
  <2>4. QED
    BY <1>parts, <2>1, <2>2, <2>3 DEF Answers
<1>6. CASE ReadStatus
  <2>1. UNCHANGED <<input, route>>
    BY <1>6 DEF ReadStatus
  <2>2. QED
    BY <1>parts, <1>6, <2>1, ReadStatusAt
<1>7. CASE TakeCommand
  <2>1. /\ input.full /\ input.command /\ ~input'.full /\ UNCHANGED pc
    BY <1>parts, <1>7 DEF TakeCommand, Ready, TypeOK
  <2>2. /\ input.byte = "D4" => route' = "mouse"
        /\ input.byte = "60" => route' = "config"
    BY <1>7, RouteOf
  <2>3. QED
    BY <1>parts, <1>bounds, <2>1, <2>2
<1>8. CASE TakeConfig
  <2>1. input.full /\ ~input.command /\ ~input'.full /\ UNCHANGED pc
    BY <1>parts, <1>8 DEF TakeConfig, Ready, TypeOK
  <2>2. route = "config"
    BY <1>8 DEF TakeConfig
  <2>3. pc = 14
    BY <1>parts, <2>1, <2>2
  <2>4. QED
    BY <2>1, <2>3
<1>9. CASE TakeForMouse
  <2>1. input.full /\ ~input.command /\ ~input'.full /\ UNCHANGED pc
    BY <1>parts, <1>9 DEF TakeForMouse, Ready, TypeOK
  <2>2. route = "mouse"
    BY <1>9 DEF TakeForMouse
  <2>3. pc \in AfterByte
    BY <1>parts, <2>1, <2>2
  <2>4. QED
    BY <2>1, <2>3
<1>10. CASE MouseAccept \/ GiveReply \/ GiveMouseByte
  <2>1. UNCHANGED <<pc, input, route>>
    BY <1>10 DEF MouseAccept, GiveReply, GiveMouseByte
  <2>2. QED
    BY <1>parts, <2>1
<1>11. CASE MouseMove \/ Key \/ UNCHANGED vars
  <2>1. UNCHANGED <<pc, input, route>>
    BY <1>11 DEF MouseMove, Key, vars, controller
  <2>2. QED
    BY <1>parts, <2>1
<1>12. QED
  BY <1>1, <1>2, <1>3, <1>4, <1>5, <1>6, <1>7, <1>8, <1>9, <1>10, <1>11
     DEF Next, Kernel, Controller

\* Every step delivers the bytes for the mouse in their order.
LEMMA DeliveredStep == IInv /\ [Next]_vars => Delivered'
<1> SUFFICES ASSUME IInv, [Next]_vars PROVE Delivered'
  OBVIOUS
<1>parts. TypeOK /\ Routed /\ Delivered
  BY DEF IInv
<1>bounds. pc \in 1 .. 32 /\ Taken \in 0 .. 4
  BY <1>parts, SentBytes DEF TypeOK
<1> DEFINE same == UNCHANGED <<wire, accepted, Taken, streaming>>
<1>1. CASE WaitWrite
  <2>1. same /\ UNCHANGED input /\ ~input.full
    BY <1>1 DEF WaitWrite, controller, device, Taken
  <2>2. Sent(pc') = Sent(pc)
    BY <1>parts, <1>1, WaitWriteAt DEF Sent
  <2>3. QED
    BY <1>parts, <2>1, <2>2 DEF Delivered
<1>2. CASE WaitRead
  <2>1. same /\ UNCHANGED input
    BY <1>2 DEF WaitRead, controller, device, Taken
  <2>2. pc = 8 /\ pc' = 9
    BY <1>parts, <1>2, WaitReadAt
  <2>3. QED
    BY <1>parts, <2>1, <2>2 DEF Delivered, AfterByte, Sent
<1>3. CASE WriteCommand
  <2>1. same
    BY <1>3 DEF WriteCommand, device, Taken
  <2>2. pc \in Commands /\ pc' = pc + 1
    BY <1>parts, <1>3, CommandAt
  <2>3. Sent(pc') = Sent(pc) /\ pc \notin AfterByte /\ pc' \notin AfterByte
    BY <2>2 DEF Sent, Commands, AfterByte
  <2>4. QED
    BY <1>parts, <2>1, <2>3 DEF Delivered
<1>4. CASE WriteData
  <2>1. same
    BY <1>4 DEF WriteData, device, Taken
  <2>2. pc \in DataBytes /\ pc' = pc + 1 /\ input'.full
    BY <1>parts, <1>4, DataAt
  <2>3. CASE pc = 13
    <3>1. Sent(pc') = Sent(pc) /\ pc \notin AfterByte /\ pc' \notin AfterByte
      BY <2>2, <2>3 DEF Sent, AfterByte
    <3>2. QED
      BY <1>parts, <2>1, <3>1 DEF Delivered
  <2>4. CASE pc # 13
    <3>1. /\ Sent(pc') = Sent(pc) + 1 /\ Sent(pc) \in 0 .. 4
          /\ pc \notin AfterByte /\ pc' \in AfterByte
      BY <2>2, <2>4 DEF Sent, AfterByte, DataBytes
    <3>2. QED
      BY <1>parts, <1>bounds, <2>1, <2>2, <3>1 DEF Delivered
  <2>5. QED
    BY <2>3, <2>4
<1>5. CASE ReadTurn
  <2>1. same /\ UNCHANGED input
    BY <1>5 DEF ReadTurn, device, Taken
  <2>2. pc \in Answers /\ (pc' = pc \/ pc' = pc + 1)
    BY <1>parts, <1>5, ReadAt
  <2>3. Sent(pc') = Sent(pc) /\ (pc' \in AfterByte <=> pc \in AfterByte)
    BY <2>2 DEF Sent, Answers, AfterByte
  <2>4. QED
    BY <1>parts, <2>1, <2>3 DEF Delivered
<1>6. CASE ReadStatus
  <2>1. same /\ UNCHANGED input
    BY <1>6 DEF ReadStatus, device, Taken
  <2>2. pc = 9 /\ pc' = 10
    BY <1>parts, <1>6, ReadStatusAt
  <2>3. QED
    BY <1>parts, <2>1, <2>2 DEF Delivered, AfterByte, Sent
<1>7. CASE TakeCommand
  <2>1. same /\ UNCHANGED pc /\ ~input'.full
    BY <1>parts, <1>7 DEF TakeCommand, TypeOK, device, Taken
  <2>2. ~(pc \in AfterByte /\ input.full)
    BY <1>parts, <1>7 DEF TakeCommand, Routed
  <2>3. QED
    BY <1>parts, <2>1, <2>2 DEF Delivered
<1>8. CASE TakeConfig
  <2>1. same /\ UNCHANGED pc /\ ~input'.full
    BY <1>parts, <1>8 DEF TakeConfig, TypeOK, device, Taken
  <2>2. ~(pc \in AfterByte /\ input.full)
    BY <1>parts, <1>8 DEF TakeConfig, Routed
  <2>3. QED
    BY <1>parts, <2>1, <2>2 DEF Delivered
<1>9. CASE TakeForMouse
  <2>1. /\ UNCHANGED <<pc, accepted, Taken, streaming>> /\ ~input'.full
        /\ input.full /\ wire = "none" /\ wire' = input.byte
    BY <1>parts, <1>9 DEF TakeForMouse, Ready, TypeOK, device, Taken
  <2>2. pc \in AfterByte /\ input.byte = MouseBytes[Sent(pc)]
    BY <1>parts, <1>9, <2>1 DEF TakeForMouse, Routed, AfterPrefix
  <2>3. Taken + 1 = Sent(pc) /\ Sent(pc) \in 1 .. 4
    BY <1>parts, <1>bounds, <2>1, <2>2 DEF Delivered, Sent, AfterByte
  <2>4. MouseBytes[Sent(pc)] # "none"
    BY <2>3 DEF MouseBytes
  <2>5. QED
    BY <1>parts, <2>1, <2>2, <2>3, <2>4 DEF Delivered
<1>10. CASE MouseAccept
  <2>1. /\ UNCHANGED <<pc, input>> /\ wire # "none" /\ wire' = "none"
        /\ accepted' = Append(accepted, wire)
        /\ streaming' = (wire = "F4" \/ (streaming /\ wire # "FF"))
    BY <1>10 DEF MouseAccept
  <2>2. /\ Taken' = Taken + 1
        /\ accepted'[Taken + 1] = wire
        /\ \A k \in 1 .. Taken : accepted'[k] = accepted[k]
    BY <1>parts, <2>1, AppendProperties DEF TypeOK, Taken
  <2>3. wire = MouseBytes[Taken + 1]
    BY <1>parts, <2>1 DEF Delivered
  <2>4. \A k \in 1 .. Taken' : accepted'[k] = MouseBytes[k]
    BY <1>parts, <1>bounds, <2>2, <2>3 DEF Delivered
  <2> DEFINE i == IF pc \in AfterByte /\ input.full THEN 1 ELSE 0
  <2>5. Taken + 1 + i = Sent(pc) /\ i \in {0, 1}
    BY <1>parts, <2>1 DEF Delivered
  <2>6. i' = i /\ Sent(pc') = Sent(pc)
    BY <2>1
  <2> HIDE DEF i
  <2>7. Taken' + 0 + i' = Sent(pc')
    BY <1>bounds, <2>2, <2>5, <2>6
  <2>8. Taken' + (IF wire' # "none" THEN 1 ELSE 0)
          + (IF pc' \in AfterByte /\ input'.full THEN 1 ELSE 0) = Sent(pc')
    BY <2>1, <2>7 DEF i
  <2>9. streaming' => Taken' # 1
    <3>1. Taken = 0 => wire = "FF"
      BY <1>parts, <2>1, SentBytes
    <3>2. wire = "FF" => ~streaming'
      BY <2>1
    <3>3. Taken # 0 => Taken' # 1
      BY <1>bounds, <2>2
    <3>4. QED
      BY <3>1, <3>2, <3>3
  <2>10. QED
    BY <2>1, <2>4, <2>8, <2>9 DEF Delivered
<1>11. CASE GiveReply \/ GiveMouseByte
  <2>1. same /\ UNCHANGED <<pc, input>>
    BY <1>11 DEF GiveReply, GiveMouseByte, device, Taken
  <2>2. QED
    BY <1>parts, <2>1 DEF Delivered
<1>12. CASE MouseMove \/ Key \/ UNCHANGED vars
  <2>1. same /\ UNCHANGED <<pc, input>>
    BY <1>12 DEF MouseMove, Key, vars, controller, device, Taken
  <2>2. QED
    BY <1>parts, <2>1 DEF Delivered
<1>13. QED
  BY <1>1, <1>2, <1>3, <1>4, <1>5, <1>6, <1>7, <1>8, <1>9, <1>10, <1>11, <1>12
     DEF Next, Kernel, Controller
-----------------------------------------------------------------------------
\* Every step keeps an emulator ahead of the program.
LEMMA WaitedStep == IInv /\ [Next]_vars => Waited'
<1> SUFFICES ASSUME IInv, [Next]_vars PROVE Waited'
  OBVIOUS
<1>parts. TypeOK /\ Delivered /\ Waited
  BY DEF IInv
<1>fixed. UNCHANGED emulated
  BY <1>parts, MachineStep DEF machine
<1> SUFFICES ASSUME emulated PROVE Taken' >= Awaited(pc')
  BY <1>fixed DEF Waited
<1>bounds. pc \in 1 .. 32 /\ Taken \in 0 .. 4 /\ Taken >= Awaited(pc)
  BY <1>parts, SentBytes DEF TypeOK, Waited
<1>1. CASE WaitWrite \/ WaitRead
  <2>1. UNCHANGED Taken
    BY <1>1 DEF WaitWrite, WaitRead, device, Taken
  <2>2. Awaited(pc') = Awaited(pc)
    BY <1>parts, <1>1, WaitWriteAt, WaitReadAt DEF Awaited
  <2>3. QED
    BY <1>bounds, <2>1, <2>2
<1>2. CASE WriteCommand \/ WriteData
  <2>1. UNCHANGED Taken
    BY <1>2 DEF WriteCommand, WriteData, device, Taken
  <2>2. Awaited(pc') = Awaited(pc)
    BY <1>parts, <1>2, CommandAt, DataAt DEF Awaited, Commands, DataBytes
  <2>3. QED
    BY <1>bounds, <2>1, <2>2
<1>3. CASE ReadTurn
  <2>1. UNCHANGED Taken
    BY <1>3 DEF ReadTurn, device, Taken
  <2>2. pc \in Answers /\ (pc' = pc \/ pc' = pc + 1)
    BY <1>parts, <1>3, ReadAt
  <2>3. ~input.full /\ wire = "none"
    BY <1>parts, <1>3, Settled DEF Kernel
  <2>4. Taken = Sent(pc)
    BY <1>parts, <1>bounds, <2>2, <2>3 DEF Delivered, Sent
  <2>5. Awaited(pc + 1) = Sent(pc)
    BY <2>2 DEF Awaited, Sent, Answers
  <2>6. QED
    BY <1>bounds, <2>1, <2>2, <2>4, <2>5
<1>4. CASE ReadStatus
  <2>1. pc = 9 /\ pc' = 10 /\ UNCHANGED Taken
    BY <1>parts, <1>4, ReadStatusAt DEF ReadStatus, device, Taken
  <2>2. QED
    BY <1>bounds, <2>1 DEF Awaited
<1>5. CASE MouseAccept
  <2>1. UNCHANGED pc /\ accepted' = Append(accepted, wire)
    BY <1>5 DEF MouseAccept
  <2>2. Taken' = Taken + 1
    BY <1>parts, <2>1, AppendProperties DEF TypeOK, Taken
  <2>3. Awaited(pc) \in Nat
    BY DEF Awaited
  <2>4. QED
    BY <1>bounds, <2>1, <2>2, <2>3
<1>6. CASE \/ TakeCommand \/ TakeConfig \/ TakeForMouse \/ GiveReply
           \/ GiveMouseByte \/ MouseMove \/ Key \/ UNCHANGED vars
  <2>1. UNCHANGED <<pc, Taken>>
    BY <1>6 DEF TakeCommand, TakeConfig, TakeForMouse, GiveReply,
                GiveMouseByte, MouseMove, Key, vars, device, Taken
  <2>2. QED
    BY <1>bounds, <2>1
<1>7. QED
  BY <1>1, <1>2, <1>3, <1>4, <1>5, <1>6 DEF Next, Kernel, Controller

\* Every step keeps what becomes of the configuration.
LEMMA ConfiguredStep == IInv /\ [Next]_vars => Configured'
<1> SUFFICES ASSUME IInv, [Next]_vars PROVE Configured'
  OBVIOUS
<1>parts. TypeOK /\ Routed /\ Configured
  BY DEF IInv
<1>bounds. pc \in 1 .. 32
  BY <1>parts DEF TypeOK
<1>fixed. UNCHANGED config0
  BY <1>parts, MachineStep DEF machine
<1> DEFINE same == UNCHANGED <<reply, config, statusByte>>
<1>1. CASE WaitWrite
  <2>1. same /\ UNCHANGED input /\ ~input.full
    BY <1>1 DEF WaitWrite, controller
  <2>2. pc' = pc + 1 /\ pc \notin {8, 9, 13}
    BY <1>parts, <1>1, WaitWriteAt
  <2>3. QED
    BY <1>parts, <1>bounds, <1>fixed, <2>1, <2>2 DEF Configured
<1>2. CASE WaitRead
  <2>1. same /\ UNCHANGED input /\ pc = 8 /\ pc' = 9
    BY <1>parts, <1>2, WaitReadAt DEF WaitRead, controller
  <2>2. QED
    BY <1>parts, <1>fixed, <2>1 DEF Configured
<1>3. CASE WriteCommand
  <2>1. same /\ pc' = pc + 1 /\ pc \in Commands
    BY <1>parts, <1>3, CommandAt DEF WriteCommand
  <2>2. QED
    BY <1>parts, <1>fixed, <2>1 DEF Configured, Commands
<1>4. CASE WriteData
  <2>1. same /\ pc' = pc + 1 /\ pc \in DataBytes /\ input'.full
    BY <1>parts, <1>4, DataAt DEF WriteData
  <2>2. QED
    BY <1>parts, <1>fixed, <2>1 DEF Configured, DataBytes
<1>5. CASE ReadTurn
  <2>1. same /\ pc \in Answers /\ (pc' = pc \/ pc' = pc + 1)
    BY <1>parts, <1>5, ReadAt DEF ReadTurn
  <2>2. QED
    BY <1>parts, <1>fixed, <2>1 DEF Configured, Answers
<1>6. CASE ReadStatus
  <2>1. /\ UNCHANGED <<reply, config>> /\ pc = 9 /\ pc' = 10
        /\ statusByte' = (ob.byte.value \union {1}) \ {5}
    BY <1>parts, <1>6, ReadStatusAt DEF ReadStatus
  <2>2. 1 \in statusByte' /\ 5 \notin statusByte'
    BY <2>1
  <2>3. QED
    BY <1>parts, <1>fixed, <2>1, <2>2 DEF Configured
<1>7. CASE TakeCommand
  <2>1. /\ UNCHANGED <<pc, config, statusByte>>
        /\ input.byte # "20" => reply' = reply
        /\ input.full /\ input.command /\ ~input'.full
    BY <1>parts, <1>7 DEF TakeCommand, Ready, TypeOK
  <2>2. input.byte = "20" => pc >= 8
    BY <1>parts, <1>bounds, <2>1
       DEF Routed, AfterPrefix, AfterByte, BeforeByte
  <2>3. pc # 14
    BY <1>parts, <2>1 DEF Routed
  <2>4. QED
    BY <1>parts, <1>fixed, <2>1, <2>2, <2>3 DEF Configured
<1>8. CASE TakeConfig
  <2>1. /\ UNCHANGED <<pc, reply, statusByte>> /\ ~input'.full
        /\ config' = statusByte /\ input.full /\ ~input.command
        /\ route = "config"
    BY <1>parts, <1>8 DEF TakeConfig, Ready, TypeOK
  <2>2. pc = 14
    BY <1>parts, <1>bounds, <2>1 DEF Routed, AfterPrefix, AfterByte, BeforeByte
  <2>3. QED
    BY <1>parts, <1>fixed, <2>1, <2>2 DEF Configured
<1>9. CASE TakeForMouse
  <2>1. UNCHANGED pc /\ same /\ input.full /\ ~input.command /\ route = "mouse"
    BY <1>9 DEF TakeForMouse, Ready
  <2>2. pc # 14
    BY <1>parts, <2>1 DEF Routed
  <2>3. QED
    BY <1>parts, <1>fixed, <2>1, <2>2 DEF Configured
<1>10. CASE GiveReply
  <2>1. UNCHANGED <<pc, input, config, statusByte>> /\ reply' = <<>>
    BY <1>10 DEF GiveReply
  <2>2. QED
    BY <1>parts, <1>fixed, <2>1 DEF Configured
<1>11. CASE MouseAccept \/ GiveMouseByte \/ MouseMove \/ Key \/ UNCHANGED vars
  <2>1. UNCHANGED <<pc, input>> /\ same
    BY <1>11 DEF MouseAccept, GiveMouseByte, MouseMove, Key, vars, controller
  <2>2. QED
    BY <1>parts, <1>fixed, <2>1 DEF Configured
<1>12. QED
  BY <1>1, <1>2, <1>3, <1>4, <1>5, <1>6, <1>7, <1>8, <1>9, <1>10, <1>11
     DEF Next, Kernel, Controller
-----------------------------------------------------------------------------
\* What a user's step sends that leaves nothing disturbed.
LEMMA MoveSends ==
    ASSUME TypeOK, Delivered, MouseMove
    PROVE  /\ UNCHANGED <<pc, accepted, Taken, ob>> /\ Taken # 1
           /\ \E m \in [1 .. 3 -> Values] :
                  /\ out' = out \o Packet(m)
                  /\ ~disturbed' => ExpectedNext(pc) \notin {m[1], m[2], m[3]}
<1>1. UNCHANGED <<pc, accepted, Taken, ob>> /\ Taken # 1
  BY DEF MouseMove, controller, Taken, Delivered
<1>2. PICK m \in Movements :
          /\ out' = out \o Packet(m)
          /\ disturbed' = (disturbed \/ ExpectedNext(pc) \in {m[1], m[2], m[3]})
  BY DEF MouseMove, Packet
<1>3. m \in [1 .. 3 -> Values]
  BY MouseInitAssumption
<1>4. QED
  BY <1>1, <1>2, <1>3

LEMMA KeySends ==
    ASSUME TypeOK, Key
    PROVE  /\ UNCHANGED <<pc, accepted, Taken, out>>
           /\ ~ob.full /\ ob'.full /\ ob'.byte.from = "key"
           /\ ~disturbed' => ob'.byte.value # ExpectedNext(pc)
<1>1. PICK b \in KeyBytes :
          /\ ob' = [full |-> TRUE, byte |-> Byte("key", b)]
          /\ disturbed' = (disturbed \/ ExpectedNext(pc) = b)
  BY DEF Key
<1>2. QED
  BY <1>1 DEF Key, Byte, Taken

\* Movement that holds no such byte brings none into what the mouse sends.
LEMMA MoveBrings ==
    ASSUME TypeOK, NEW m \in [1 .. 3 -> Values], NEW v,
           v \notin {m[1], m[2], m[3]}, NoneIs(v, out)
    PROVE  NoneIs(v, out \o Packet(m))
<1> DEFINE q == Packet(m)
           t == out \o q
<1>1. out \in Seq(MouseSent) /\ q \in Seq(MouseSent) /\ Len(q) = 3
  BY PacketType DEF TypeOK
<1>2. ASSUME NEW i \in 1 .. 3 PROVE q[i].value # v
  <2>1. q[i] = Byte("move", m[i]) /\ m[i] # v
    BY PacketType
  <2> HIDE DEF q
  <2>2. QED
    BY <2>1 DEF Byte
<1> HIDE DEF q
<1>all. /\ out \o q \in Seq(MouseSent) /\ Len(out \o q) = Len(out) + Len(q)
        /\ \A i \in 1 .. Len(out) + Len(q) :
               (out \o q)[i] = IF i <= Len(out) THEN out[i] ELSE q[i - Len(out)]
  BY <1>1, ConcatProperties
<1>same. t = out \o q
  OBVIOUS
<1> HIDE DEF t
<1>3. /\ Len(t) = Len(out) + 3 /\ Len(out) \in Nat
      /\ \A i \in 1 .. Len(out) + 3 :
             t[i] = IF i <= Len(out) THEN out[i] ELSE q[i - Len(out)]
  BY <1>1, <1>all, <1>same, LenProperties
<1>4. ASSUME NEW i \in 1 .. Len(t) PROVE t[i].value # v
  <2>1. CASE i <= Len(out)
    BY <1>3, <2>1 DEF NoneIs
  <2>2. CASE i > Len(out)
    <3>1. i - Len(out) \in 1 .. 3 /\ t[i] = q[i - Len(out)]
      BY <1>3, <2>2
    <3>2. QED
      BY <1>2, <3>1
  <2>3. QED
    BY <1>3, <2>1, <2>2
<1>5. QED
  BY <1>4 DEF NoneIs, t, q

\* What the mouse gives from the front was none, and none is left.
LEMMA GivenIsNone ==
    ASSUME TypeOK, out # <<>>, NEW v, NoneIs(v, out)
    PROVE  Head(out).value # v /\ NoneIs(v, Tail(out))
<1>1. /\ Head(out) = out[1] /\ Len(out) \in Nat /\ Len(out) >= 1
      /\ Len(Tail(out)) = Len(out) - 1
      /\ \A i \in 1 .. Len(Tail(out)) : Tail(out)[i] = out[i + 1]
  BY HeadTailProperties DEF TypeOK
<1>2. Head(out).value # v
  BY <1>1 DEF NoneIs
<1>3. ASSUME NEW i \in 1 .. Len(Tail(out)) PROVE Tail(out)[i].value # v
  BY <1>1 DEF NoneIs
<1>4. QED
  BY <1>2, <1>3 DEF NoneIs

\* Steps of the program that read nothing leave the reset's answer alone.
LEMMA ResetAnswerPassed ==
    ASSUME TypeOK, Delivered, ResetAnswer,
           pc' = pc + 1, pc \notin {5, 9, 19},
           UNCHANGED <<Taken, out, ob, disturbed>>
    PROVE  ResetAnswer'
<1>1. pc \in 1 .. 32 /\ Taken \in 0 .. 4 /\ Taken <= Sent(pc)
  BY SentBytes DEF TypeOK
<1>2. pc' = 5 => Taken = 0
  BY <1>1 DEF Sent
<1>3. /\ pc' > 5 => pc > 5
      /\ pc' > 19 => pc > 19
      /\ pc <= 5 => pc' <= 5
  BY <1>1
<1>4. QED
  BY <1>1, <1>2, <1>3 DEF ResetAnswer

\* A step that changes nothing the reset's answer is about.
LEMMA ResetAnswerKept ==
    ASSUME ResetAnswer, UNCHANGED <<pc, Taken, out, ob, disturbed>>
    PROVE  ResetAnswer'
  BY DEF ResetAnswer

\* Every step keeps what the mouse's answer to the reset can look like.
LEMMA ResetAnswerStep == IInv /\ [Next]_vars => ResetAnswer'
<1> SUFFICES ASSUME IInv, [Next]_vars PROVE ResetAnswer'
  OBVIOUS
<1>parts. TypeOK /\ Routed /\ Delivered /\ Configured /\ ResetAnswer
  BY DEF IInv
<1>bounds. /\ pc \in 1 .. 32 /\ Taken \in 0 .. 4
       /\ Taken <= Sent(pc)
  BY <1>parts, SentBytes DEF TypeOK
<1>next. ExpectedNext(pc) = IF pc <= 5 THEN EndOfReset ELSE Ack
  BY <1>bounds, ExpectedAt
<1> DEFINE same == UNCHANGED <<Taken, out, disturbed>>
<1>1. CASE WaitWrite \/ WaitRead
  <2>1. same /\ UNCHANGED ob
    BY <1>1 DEF WaitWrite, WaitRead, controller, device, Taken
  <2>2. pc' = pc + 1 /\ pc \notin {5, 9, 19}
    BY <1>parts, <1>1, WaitWriteAt, WaitReadAt
  <2>3. QED
    BY <1>parts, <2>1, <2>2, ResetAnswerPassed
<1>2. CASE WriteCommand \/ WriteData
  <2>1. same /\ UNCHANGED ob
    BY <1>2 DEF WriteCommand, WriteData, device, Taken
  <2>2. pc' = pc + 1 /\ pc \notin {5, 9, 19}
    BY <1>parts, <1>2, CommandAt, DataAt DEF Commands, DataBytes
  <2>3. QED
    BY <1>parts, <2>1, <2>2, ResetAnswerPassed
<1>3. CASE ReadTurn
  <2>1. same /\ ob'.byte = ob.byte /\ ~ob'.full
    BY <1>parts, <1>3 DEF ReadTurn, device, TypeOK, Taken
  <2>2. /\ pc \in Answers
        /\ pc' = IF ob.byte.value = ExpectedNext(pc) THEN pc + 1 ELSE pc
    BY <1>parts, <1>3, ReadAt
  <2> SUFFICES ASSUME ~disturbed PROVE ResetAnswer'
    BY <2>1 DEF ResetAnswer
  <2>3. CASE pc = 5
    <3>1. Taken \in {0, 1} /\ ExpectedNext(pc) = EndOfReset
      BY <1>bounds, <1>next, <2>3 DEF Sent
    <3>2. CASE ob.byte.value # EndOfReset
      <4>1. pc' = 5
        BY <2>2, <2>3, <3>1, <3>2
      <4>2. Taken = 1 =>
              \/ out = <<Byte("answer", Ack), Byte("answer", EndOfReset),
                         Byte("answer", MouseId)>>
              \/ out = <<Byte("answer", EndOfReset), Byte("answer", MouseId)>>
        BY <1>parts, <2>3, <3>2 DEF ResetAnswer, Byte
      <4>3. QED
        BY <1>parts, <2>1, <2>3, <3>1, <3>2, <4>1, <4>2 DEF ResetAnswer
    <3>3. CASE ob.byte.value = EndOfReset
      <4>1. Taken = 1 /\ pc' = 6
        BY <1>parts, <2>2, <2>3, <3>1, <3>3 DEF ResetAnswer
      <4>2. out = <<Byte("answer", MouseId)>>
        BY <1>parts, <2>3, <3>3, <4>1 DEF ResetAnswer
      <4>3. NoneIs(Ack, out)
        BY <4>2, ValuesDiffer DEF NoneIs, Byte
      <4>4. ob.byte.value # Ack
        BY <3>3, ValuesDiffer
      <4>5. QED
        BY <2>1, <4>1, <4>3, <4>4 DEF ResetAnswer
    <3>4. QED
      BY <3>2, <3>3
  <2>4. CASE pc # 5
    <3>1. pc \in {19, 25, 31} /\ (pc' = pc \/ pc' = pc + 1)
      BY <2>2, <2>4 DEF Answers
    <3>2. Taken >= 1
      BY <1>parts, <1>bounds, <3>1 DEF ResetAnswer
    <3>3. pc' = pc + 1 => Taken >= 2
      BY <1>parts, <1>bounds, <1>next, <2>2, <3>1, <3>2 DEF ResetAnswer
    <3>4. pc' > 19 => Taken >= 2
      BY <1>parts, <3>1, <3>3 DEF ResetAnswer
    <3>5. QED
      BY <1>parts, <2>1, <3>1, <3>2, <3>4 DEF ResetAnswer
  <2>5. QED
    BY <2>3, <2>4
<1>4. CASE ReadStatus
  <2>1. same /\ ob'.byte = ob.byte /\ pc = 9 /\ pc' = 10
    BY <1>parts, <1>4, ReadStatusAt DEF ReadStatus, device, TypeOK, Taken
  <2>2. Taken # 0 \/ disturbed
    BY <1>parts, <2>1 DEF ResetAnswer
  <2>3. QED
    BY <1>parts, <2>1, <2>2 DEF ResetAnswer
<1>5. CASE TakeCommand \/ TakeConfig \/ TakeForMouse
  <2>1. UNCHANGED <<pc, Taken, out, ob, disturbed>>
    BY <1>5 DEF TakeCommand, TakeConfig, TakeForMouse, device, Taken
  <2>2. QED
    BY <1>parts, <2>1, ResetAnswerKept
<1>6. CASE MouseAccept
  <2>1. /\ UNCHANGED <<pc, ob, disturbed>>
        /\ wire # "none" /\ accepted' = Append(accepted, wire)
        /\ wire = "FF" => out' = <<Byte("answer", Ack),
                                   Byte("answer", EndOfReset),
                                   Byte("answer", MouseId)>>
    BY <1>6 DEF MouseAccept
  <2>2. Taken' = Taken + 1
    BY <1>parts, <2>1, AppendProperties DEF TypeOK, Taken
  <2>3. Taken < Sent(pc) /\ (Taken = 0 <=> wire = "FF")
    BY <1>parts, <2>1, SentBytes
  <2> SUFFICES ASSUME ~disturbed PROVE ResetAnswer'
    BY <2>1 DEF ResetAnswer
  <2>4. CASE Taken = 0
    <3>1. pc = 5 /\ ob.byte.value # EndOfReset
      BY <1>parts, <1>bounds, <2>3, <2>4 DEF ResetAnswer, Sent
    <3>2. QED
      BY <2>1, <2>2, <2>3, <2>4, <3>1 DEF ResetAnswer
  <2>5. CASE Taken # 0
    <3>1. Taken' >= 2
      BY <1>bounds, <2>2, <2>5
    <3>2. pc' > 5 /\ ob'.byte.from \in {"key", "reply"} => ob'.byte.value # Ack
      BY <1>parts, <2>1 DEF ResetAnswer
    <3>3. QED
      BY <1>bounds, <2>2, <3>1, <3>2 DEF ResetAnswer
  <2>6. QED
    BY <2>4, <2>5
<1>7. CASE GiveReply
  <2>1. /\ same /\ UNCHANGED pc /\ reply # <<>>
        /\ ob' = [full |-> TRUE, byte |-> Byte("reply", reply[1])]
    BY <1>7 DEF GiveReply, device, Taken
  <2>2. reply = <<config0>> /\ config0 \in Configs /\ pc >= 8
    BY <1>parts, <2>1 DEF TypeOK, Configured
  <2>3. ob'.byte.value # Ack
    BY <2>1, <2>2, ValuesDiffer DEF Byte
  <2>4. QED
    BY <1>parts, <1>bounds, <2>1, <2>2, <2>3 DEF ResetAnswer
<1>8. CASE GiveMouseByte
  <2>1. /\ UNCHANGED <<pc, Taken, disturbed>>
        /\ ~ob.full /\ out # <<>>
        /\ ob'.full /\ ob'.byte = Head(out) /\ out' = Tail(out)
    BY <1>8 DEF GiveMouseByte, Taken
  <2> SUFFICES ASSUME ~disturbed PROVE ResetAnswer'
    BY <2>1 DEF ResetAnswer
  <2>2. Head(out).from \notin {"key", "reply"}
    <3>1. out \in Seq(MouseSent)
      BY <1>parts DEF TypeOK
    <3>2. Head(out) \in MouseSent
      BY <2>1, <3>1, HeadTailProperties
    <3>3. QED
      BY <3>2 DEF MouseSent
  <2>3. CASE Taken = 0
    <3>1. Head(out).value # EndOfReset /\ NoneIs(EndOfReset, Tail(out))
      BY <1>parts, <2>1, <2>3, GivenIsNone DEF ResetAnswer
    <3>2. QED
      BY <1>parts, <2>1, <2>2, <2>3, <3>1 DEF ResetAnswer
  <2>4. CASE Taken = 1 /\ pc = 5
    <3>1. CASE out = <<Byte("answer", Ack), Byte("answer", EndOfReset),
                       Byte("answer", MouseId)>>
      <4>1. /\ Head(out) = Byte("answer", Ack)
            /\ Tail(out) = <<Byte("answer", EndOfReset), Byte("answer", MouseId)>>
        BY <3>1
      <4>2. Head(out).value # EndOfReset
        BY <4>1, ValuesDiffer DEF Byte
      <4>3. QED
        BY <2>1, <2>4, <4>1, <4>2 DEF ResetAnswer
    <3>2. CASE out = <<Byte("answer", EndOfReset), Byte("answer", MouseId)>>
      <4>1. /\ Head(out) = Byte("answer", EndOfReset)
            /\ Tail(out) = <<Byte("answer", MouseId)>>
        BY <3>2
      <4>2. QED
        BY <2>1, <2>4, <4>1 DEF ResetAnswer
    <3>3. QED
      BY <1>parts, <2>1, <2>4, <3>1, <3>2 DEF ResetAnswer
  <2>5. CASE Taken = 1 /\ pc # 5
    <3>1. pc > 5
      BY <1>parts, <1>bounds, <2>5 DEF Sent
    <3>2. Head(out).value # Ack /\ NoneIs(Ack, Tail(out))
      BY <1>parts, <2>1, <2>5, <3>1, GivenIsNone DEF ResetAnswer
    <3>3. QED
      BY <1>parts, <2>1, <2>5, <3>1, <3>2 DEF ResetAnswer
  <2>6. CASE Taken > 1
    BY <1>parts, <1>bounds, <2>1, <2>2, <2>6 DEF ResetAnswer
  <2>7. QED
    BY <1>bounds, <2>3, <2>4, <2>5, <2>6
<1>9. CASE MouseMove
  <2>1. UNCHANGED <<pc, Taken, ob>> /\ Taken # 1
    BY <1>parts, <1>9, MoveSends
  <2>2. PICK m \in [1 .. 3 -> Values] :
            /\ out' = out \o Packet(m)
            /\ ~disturbed' => ExpectedNext(pc) \notin {m[1], m[2], m[3]}
    BY <1>parts, <1>9, MoveSends
  <2> SUFFICES ASSUME ~disturbed' PROVE ResetAnswer'
    BY DEF ResetAnswer
  <2>3. ~disturbed
    BY <1>parts, MachineStep
  <2>4. CASE Taken = 0
    <3>1. pc <= 5 /\ NoneIs(EndOfReset, out)
      BY <1>parts, <2>3, <2>4 DEF ResetAnswer
    <3>2. EndOfReset \notin {m[1], m[2], m[3]}
      BY <1>next, <2>2, <3>1
    <3>3. NoneIs(EndOfReset, out')
      BY <1>parts, <2>2, <3>1, <3>2, MoveBrings
    <3>4. QED
      BY <1>parts, <2>1, <2>3, <2>4, <3>3 DEF ResetAnswer
  <2>5. CASE Taken # 0
    BY <1>parts, <2>1, <2>3, <2>5 DEF ResetAnswer
  <2>6. QED
    BY <2>4, <2>5
<1>10. CASE Key
  <2>1. /\ UNCHANGED <<pc, Taken, out>> /\ ~ob.full
        /\ ~disturbed' => ob'.byte.value # ExpectedNext(pc)
    BY <1>parts, <1>10, KeySends
  <2> SUFFICES ASSUME ~disturbed' PROVE ResetAnswer'
    BY DEF ResetAnswer
  <2>2. ~disturbed
    BY <1>parts, MachineStep
  <2>3. CASE pc <= 5
    <3>1. Taken = 0 \/ (Taken = 1 /\ pc = 5)
      BY <1>bounds, <2>3 DEF Sent
    <3>2. ob'.byte.value # EndOfReset
      BY <1>next, <2>1, <2>3
    <3>3. QED
      BY <1>parts, <1>bounds, <2>1, <2>2, <2>3, <3>1, <3>2 DEF ResetAnswer
  <2>4. CASE pc > 5
    <3>1. ob'.byte.value # Ack
      BY <1>bounds, <1>next, <2>1, <2>4
    <3>2. QED
      BY <1>parts, <1>bounds, <2>1, <2>2, <2>4, <3>1 DEF ResetAnswer
  <2>5. QED
    BY <1>bounds, <2>3, <2>4
<1>11. CASE UNCHANGED vars
  <2>1. UNCHANGED <<pc, Taken, out, ob, disturbed>>
    BY <1>11 DEF vars, controller, device, Taken
  <2>2. QED
    BY <1>parts, <2>1, ResetAnswerKept
<1>12. QED
  BY <1>1, <1>2, <1>3, <1>4, <1>5, <1>6, <1>7, <1>8, <1>9, <1>10, <1>11
     DEF Next, Kernel, Controller
-----------------------------------------------------------------------------
\* A step that leaves the stream and the number of answers alone.
LEMMA AlignedPassed ==
    ASSUME Aligned, UNCHANGED <<emulated, Taken, Pending>>,
           ~disturbed' => ~disturbed, Awaited(pc') = Awaited(pc)
    PROVE  Aligned'
  BY DEF Aligned

\* Every step keeps the answers in step with the program.
LEMMA AlignedStep == IInv /\ [Next]_vars => Aligned'
<1> SUFFICES ASSUME IInv, [Next]_vars PROVE Aligned'
  OBVIOUS
<1>parts. TypeOK /\ Delivered /\ ResetAnswer /\ Configured /\ Aligned /\ Waited
  BY DEF IInv
<1>typed. TypeOK'
  BY TypeStep
<1>bounds. /\ pc \in 1 .. 32 /\ Taken \in 0 .. 4 /\ Awaited(pc) \in 0 .. 4
       /\ Taken <= Sent(pc)
  BY <1>parts, SentBytes DEF TypeOK, Awaited
<1>fixed. UNCHANGED emulated /\ (~disturbed' => ~disturbed)
  BY <1>parts, MachineStep DEF machine
<1> SUFFICES ASSUME emulated, ~disturbed, ~disturbed' PROVE Aligned'
  BY <1>fixed DEF Aligned
<1>ahead. Taken >= Awaited(pc)
  BY <1>parts DEF Waited
<1> DEFINE still == UNCHANGED <<Taken, Pending>>
<1>1. CASE WaitWrite \/ WaitRead
  <2>1. still
    BY <1>1 DEF WaitWrite, WaitRead, controller, device, Taken, Pending
  <2>2. Awaited(pc') = Awaited(pc)
    BY <1>parts, <1>1, WaitWriteAt, WaitReadAt DEF Awaited
  <2>3. QED
    BY <1>parts, <1>fixed, <2>1, <2>2, AlignedPassed
<1>2. CASE WriteCommand \/ WriteData
  <2>1. still
    BY <1>2 DEF WriteCommand, WriteData, device, Taken, Pending
  <2>2. Awaited(pc') = Awaited(pc)
    BY <1>parts, <1>2, CommandAt, DataAt DEF Awaited, Commands, DataBytes
  <2>3. QED
    BY <1>parts, <1>fixed, <2>1, <2>2, AlignedPassed
<1>3. CASE ReadTurn
  <2>1. /\ UNCHANGED <<Taken, out>> /\ ~ob'.full
    BY <1>parts, <1>3 DEF ReadTurn, device, Taken, TypeOK
  <2>2. /\ pc \in Answers
        /\ pc' = IF ob.byte.value = ExpectedNext(pc) THEN pc + 1 ELSE pc
    BY <1>parts, <1>3, ReadAt
  <2>rest. Pending' = out
    BY <1>typed, <2>1, PendingOutNext
  <2>3. CASE pc = 5
    BY <1>bounds, <2>1, <2>3 DEF Aligned, Sent
  <2>4. CASE pc # 5
    <3>1. pc \in {19, 25, 31} /\ ExpectedNext(pc) = Ack
      BY <2>2, <2>4, ExpectedAt DEF Answers
    <3>2. /\ ~input.full /\ wire = "none"
          /\ ob.full \/ out = <<>> \/ 5 \in config
      BY <1>parts, <1>3, Settled DEF Kernel
    <3>3. Taken = Sent(pc)
      BY <1>parts, <1>bounds, <3>1, <3>2 DEF Delivered, AfterByte
    <3>4. /\ Taken >= 2 /\ Taken > Awaited(pc)
          /\ Awaited(pc + 1) = Taken
      BY <3>1, <3>3 DEF Sent, Awaited
    <3>5. AnswerThenMoves(Pending)
      BY <1>parts, <3>4 DEF Aligned
    <3>6. ob.full
      <4>1. ~AnswerThenMoves(<< >>)
        BY DEF AnswerThenMoves
      <4>2. 5 \notin config
        BY <1>parts, <3>1 DEF Configured
      <4>3. ~ob.full => Pending = <<>>
        BY <1>parts, <3>2, <4>2, PendingOut
      <4>4. QED
        BY <3>5, <4>1, <4>3 DEF TypeOK
    <3>7. IF ob.byte.value = Ack THEN Moves(out) ELSE AnswerThenMoves(out)
      <4>1. CASE ob.byte.from \in {"key", "reply"}
        <5>1. ob.byte.value # Ack
          BY <1>parts, <3>1, <4>1 DEF ResetAnswer
        <5>2. Pending = out
          BY <1>parts, <4>1, PendingOut
        <5>3. QED
          BY <3>5, <5>1, <5>2
      <4>2. CASE ob.byte.from \notin {"key", "reply"}
        <5>1. AnswerThenMoves(<<ob.byte>> \o out)
          BY <1>parts, <3>5, <3>6, <4>2, PendingOut
        <5>2. ob.byte \in MouseSent /\ out \in Seq(MouseSent)
          BY <1>parts, <4>2, PortByte, PendingType
        <5>3. QED
          BY <5>1, <5>2, FirstRead
      <4>3. QED
        BY <4>1, <4>2
    <3>8. CASE ob.byte.value = Ack
      <4>1. pc' = pc + 1 /\ Moves(Pending')
        BY <2>2, <2>rest, <3>1, <3>7, <3>8
      <4>2. Taken' >= 2 /\ Taken' = Awaited(pc')
        BY <2>1, <3>4, <4>1
      <4>3. QED
        BY <1>bounds, <2>1, <4>1, <4>2 DEF Aligned
    <3>9. CASE ob.byte.value # Ack
      <4>1. pc' = pc /\ AnswerThenMoves(Pending')
        BY <2>2, <2>rest, <3>1, <3>7, <3>9
      <4>2. Taken' >= 2 /\ Taken' > Awaited(pc')
        BY <2>1, <3>4, <4>1
      <4>3. QED
        BY <1>bounds, <2>1, <4>1, <4>2 DEF Aligned
    <3>10. QED
      BY <3>8, <3>9
  <2>5. QED
    BY <2>3, <2>4
<1>4. CASE ReadStatus
  <2>1. pc = 9 /\ UNCHANGED Taken
    BY <1>parts, <1>4, ReadStatusAt DEF ReadStatus, device, Taken
  <2>2. QED
    BY <1>bounds, <2>1 DEF Aligned, Sent
<1>5. CASE TakeCommand \/ TakeConfig \/ TakeForMouse
  <2>1. still /\ UNCHANGED pc
    BY <1>5 DEF TakeCommand, TakeConfig, TakeForMouse, device, Taken, Pending
  <2>2. QED
    BY <1>parts, <1>fixed, <2>1, AlignedPassed
<1>6. CASE MouseAccept
  <2>1. /\ UNCHANGED <<pc, ob>>
        /\ wire # "none" /\ accepted' = Append(accepted, wire)
        /\ wire # "FF" => out' = Append(out, Byte("answer", Ack))
    BY <1>6 DEF MouseAccept
  <2>2. /\ Taken' = Taken + 1 /\ Taken < Sent(pc)
        /\ Taken # 0 => wire # "FF"
    BY <1>parts, <2>1, SentBytes, AppendProperties DEF TypeOK, Taken
  <2>3. Taken = Awaited(pc)
    <3>1. Sent(pc) <= Awaited(pc) + 1 /\ Sent(pc) \in Nat
      BY <1>bounds DEF Sent, Awaited
    <3>2. QED
      BY <1>bounds, <1>ahead, <2>2, <3>1
  <2>4. CASE Taken = 0
    BY <2>2, <2>4 DEF Aligned
  <2>5. CASE Taken # 0
    <3> DEFINE b == Byte("answer", Ack)
    <3>b. b \in MouseSent /\ b.value = Ack
      BY ValuesDiffer DEF Byte, MouseSent
    <3>out. out \in Seq(MouseSent) /\ Pending \in Seq(MouseSent)
      BY <1>parts, PendingType
    <3> HIDE DEF b
    <3>1. \A k \in 1 .. Len(Pending) : Pending[k].value # Ack
      <4>1. CASE Taken = 1
        <5>1. pc > 5
          BY <1>bounds, <2>2, <4>1 DEF Sent
        <5>2. ob.byte.value # Ack /\ NoneIs(Ack, out)
          BY <1>parts, <4>1, <5>1 DEF ResetAnswer
        <5>3. CASE ob.full /\ ob.byte.from \notin {"key", "reply"}
          <6>1. ob.byte \in MouseSent /\ Pending = <<ob.byte>> \o out
            BY <1>parts, <5>3, PortByte, PendingOut
          <6>2. /\ Len(<<ob.byte>> \o out) = Len(out) + 1
                /\ (<<ob.byte>> \o out)[1] = ob.byte
                /\ \A i \in 1 .. Len(out) : (<<ob.byte>> \o out)[i + 1] = out[i]
            BY <3>out, <6>1, Prepended
          <6>3. /\ Len(Pending) = Len(out) + 1 /\ Pending[1] = ob.byte
                /\ \A i \in 1 .. Len(out) : Pending[i + 1] = out[i]
            BY <6>1, <6>2
          <6>4. ASSUME NEW k \in 1 .. Len(Pending) PROVE Pending[k].value # Ack
            <7>1. CASE k = 1
              BY <5>2, <6>3, <7>1
            <7>2. CASE k # 1
              <8>1. k - 1 \in 1 .. Len(out) /\ k - 1 + 1 = k
                BY <3>out, <6>3, <7>2
              <8>2. Pending[k] = out[k - 1]
                BY <6>3, <8>1
              <8>3. QED
                BY <5>2, <8>1, <8>2 DEF NoneIs
            <7>3. QED
              BY <7>1, <7>2
          <6>5. QED
            BY <6>4
        <5>4. CASE ~(ob.full /\ ob.byte.from \notin {"key", "reply"})
          <6>1. Pending = out
            BY <1>parts, <5>4, PendingOut
          <6>2. QED
            BY <5>2, <6>1 DEF NoneIs
        <5>5. QED
          BY <5>3, <5>4
      <4>2. CASE Taken >= 2
        <5>1. Moves(Pending)
          BY <1>parts, <1>bounds, <2>3, <4>2 DEF Aligned
        <5>2. QED
          BY <5>1 DEF Moves
      <4>3. QED
        BY <1>bounds, <2>5, <4>1, <4>2
    <3>2. Pending' = Append(Pending, b)
      <4>1. /\ out' = Append(out, b) /\ <<b>> \in Seq(MouseSent)
            /\ Append(out, b) = out \o <<b>>
            /\ Append(Pending, b) = Pending \o <<b>>
        BY <2>1, <2>2, <2>5, <3>b, <3>out, AppendIsConcat DEF b
      <4>2. QED
        BY <1>parts, <2>1, <4>1, AppendedLast
    <3>3. AnswerThenMoves(Pending')
      BY <3>b, <3>out, <3>1, <3>2, AnswerMore
    <3>4. UNCHANGED pc /\ Taken' > Awaited(pc')
      BY <1>bounds, <2>1, <2>2, <2>3
    <3>5. QED
      BY <1>bounds, <2>2, <3>3, <3>4 DEF Aligned
  <2>6. QED
    BY <2>4, <2>5
<1>7. CASE GiveReply \/ Key
  <2>1. /\ UNCHANGED <<pc, out, Taken>> /\ ~ob.full
        /\ ob'.byte.from \in {"key", "reply"}
    <3>1. CASE GiveReply
      BY <3>1 DEF GiveReply, device, Taken, Byte
    <3>2. CASE Key
      BY <1>parts, <3>2, KeySends
    <3>3. QED
      BY <1>7, <3>1, <3>2
  <2>2. Pending = out
    BY <1>parts, <2>1, PendingOut
  <2>3. Pending' = out'
    BY <1>typed, <2>1, PendingOutNext
  <2>4. QED
    BY <1>parts, <1>fixed, <2>1, <2>2, <2>3, AlignedPassed
<1>8. CASE GiveMouseByte
  <2>1. still /\ UNCHANGED pc
    BY <1>parts, <1>8, GivenStays DEF GiveMouseByte, Taken
  <2>2. QED
    BY <1>parts, <1>fixed, <2>1, AlignedPassed
<1>9. CASE MouseMove
  <2>1. UNCHANGED <<pc, Taken, ob>>
    BY <1>parts, <1>9, MoveSends
  <2>2. PICK m \in [1 .. 3 -> Values] :
            /\ out' = out \o Packet(m)
            /\ ExpectedNext(pc) \notin {m[1], m[2], m[3]}
    BY <1>parts, <1>9, MoveSends
  <2> SUFFICES ASSUME Taken >= 2 PROVE Aligned'
    BY <1>bounds, <2>1 DEF Aligned
  <2>3. Ack \notin {m[1], m[2], m[3]}
    <3>1. pc > 5
      BY <1>bounds DEF Sent
    <3>2. QED
      BY <1>bounds, <2>2, <3>1, ExpectedAt
  <2>4. Pending' = Pending \o Packet(m) /\ Pending \in Seq(MouseSent)
    BY <1>parts, <2>1, <2>2, PacketType, AppendedLast, PendingType
  <2>5. CASE Taken > Awaited(pc)
    <3>1. AnswerThenMoves(Pending')
      BY <1>parts, <2>3, <2>4, <2>5, PacketMore DEF Aligned
    <3>2. Taken' > Awaited(pc') /\ Awaited(pc') = Awaited(pc)
      BY <2>1, <2>5
    <3>3. QED
      BY <1>bounds, <2>1, <3>1, <3>2 DEF Aligned
  <2>6. CASE Taken <= Awaited(pc)
    <3>1. Moves(Pending')
      BY <1>parts, <2>3, <2>4, <2>6, PacketMore DEF Aligned
    <3>2. Taken' <= Awaited(pc') /\ Awaited(pc') = Awaited(pc)
      BY <2>1, <2>6
    <3>3. QED
      BY <1>bounds, <2>1, <3>1, <3>2 DEF Aligned
  <2>7. QED
    BY <1>bounds, <2>5, <2>6
<1>10. CASE UNCHANGED vars
  <2>1. still /\ UNCHANGED pc
    BY <1>10 DEF vars, controller, device, Taken, Pending
  <2>2. QED
    BY <1>parts, <1>fixed, <2>1, AlignedPassed
<1>11. QED
  BY <1>1, <1>2, <1>3, <1>4, <1>5, <1>6, <1>7, <1>8, <1>9, <1>10
     DEF Next, Kernel, Controller
-----------------------------------------------------------------------------
\* The invariant holds in every behaviour.
THEOREM InductiveInvariant == Spec => []IInv
<1>1. Init => IInv
  BY InitIInv
<1>2. IInv /\ [Next]_vars => IInv'
  BY TypeStep, RoutedStep, DeliveredStep, WaitedStep, ConfiguredStep,
     ResetAnswerStep, AlignedStep DEF IInv
<1>3. QED
  BY <1>1, <1>2, PTL DEF Spec

\* The waits before operation p are as many as the answers awaited.
LEMMA WaitsBefore ==
    ASSUME NEW p \in 1 .. 32
    PROVE  Cardinality({k \in 1 .. p - 1 : Program[k].op = "readUntil"})
               = Awaited(p)
<1>1. ASSUME NEW k \in 1 .. p - 1
      PROVE  Program[k].op = "readUntil" <=> k \in Answers
  <2>1. k \in 1 .. 31 /\ 1 + k - 1 = k
    OBVIOUS
  <2>2. Program[k].op = OpOf(k)
    BY <2>1, ProgramLists DEF Lists
  <2>3. OpOf(k) = "readUntil" <=> k \in Answers
    BY <2>1 DEF OpOf, Commands, DataBytes, Answers
  <2>4. QED
    BY <2>2, <2>3
<1>2. {k \in 1 .. p - 1 : Program[k].op = "readUntil"}
          = Answers \cap 1 .. p - 1
  BY <1>1
<1>3. Cardinality(Answers \cap 1 .. p - 1) = Awaited(p)
  <2>1. /\ IsFiniteSet({}) /\ Cardinality({}) = 0
        /\ IsFiniteSet({5}) /\ Cardinality({5}) = 1
    BY FS_EmptySet, FS_Singleton
  <2>2. IsFiniteSet({5, 19}) /\ Cardinality({5, 19}) = 2
    <3>1. {5, 19} = {5} \union {19} /\ 19 \notin {5}
      OBVIOUS
    <3>2. QED
      BY <2>1, <3>1, FS_AddElement
  <2>3. IsFiniteSet({5, 19, 25}) /\ Cardinality({5, 19, 25}) = 3
    <3>1. {5, 19, 25} = {5, 19} \union {25} /\ 25 \notin {5, 19}
      OBVIOUS
    <3>2. QED
      BY <2>2, <3>1, FS_AddElement
  <2>4. IsFiniteSet(Answers) /\ Cardinality(Answers) = 4
    <3>1. Answers = {5, 19, 25} \union {31} /\ 31 \notin {5, 19, 25}
      BY DEF Answers
    <3>2. QED
      BY <2>3, <3>1, FS_AddElement
  <2>5. CASE p < 6
    <3>1. Answers \cap 1 .. p - 1 = {} /\ Awaited(p) = 0
      BY <2>5 DEF Answers, Awaited
    <3>2. QED
      BY <2>1, <3>1
  <2>6. CASE p >= 6 /\ p < 20
    <3>1. Answers \cap 1 .. p - 1 = {5} /\ Awaited(p) = 1
      BY <2>6 DEF Answers, Awaited
    <3>2. QED
      BY <2>1, <3>1
  <2>7. CASE p >= 20 /\ p < 26
    <3>1. Answers \cap 1 .. p - 1 = {5, 19} /\ Awaited(p) = 2
      BY <2>7 DEF Answers, Awaited
    <3>2. QED
      BY <2>2, <3>1
  <2>8. CASE p >= 26 /\ p < 32
    <3>1. Answers \cap 1 .. p - 1 = {5, 19, 25} /\ Awaited(p) = 3
      BY <2>8 DEF Answers, Awaited
    <3>2. QED
      BY <2>3, <3>1
  <2>9. CASE p = 32
    <3>1. Answers \cap 1 .. p - 1 = Answers /\ Awaited(p) = 4
      BY <2>9 DEF Answers, Awaited
    <3>2. QED
      BY <2>4, <3>1
  <2>10. QED
    BY <2>5, <2>6, <2>7, <2>8, <2>9
<1>4. QED
  BY <1>2, <1>3

\* What the mouse has accepted begins with the first bytes it was sent.
LEMMA FirstAccepted ==
    ASSUME TypeOK, Delivered, NEW n \in 0 .. 4, n <= Taken
    PROVE  IsPrefix(SubSeq(MouseBytes, 1, n), accepted)
<1> DEFINE t == SubSeq(MouseBytes, 1, n)
           u == SubSeq(accepted, 1, n)
<1>1. MouseBytes \in Seq(Written) /\ Len(MouseBytes) = 4
  BY DEF MouseBytes, Written
<1>2. /\ accepted \in Seq(Written) /\ n \in Nat /\ Taken \in Nat
      /\ Taken = Len(accepted)
  BY DEF TypeOK, Taken
<1>four. \A i \in 1 .. 4 : MouseBytes[i] \in Written
  BY DEF MouseBytes, Written
<1>in. \A i \in 1 .. n : MouseBytes[i] \in Written
  BY <1>four
<1>int. n - 1 + 1 = n /\ 1 \in Int /\ n \in Int
  BY <1>2
<1>len. /\ t \in Seq(Written) /\ Len(t) = (IF 1 <= n THEN n - 1 + 1 ELSE 0)
        /\ \A i \in 1 .. n - 1 + 1 : t[i] = MouseBytes[1 + i - 1]
  BY <1>in, <1>int, SubSeqProperties
<1>3. t \in Seq(Written) /\ Len(t) = n /\ \A i \in 1 .. n : t[i] = MouseBytes[i]
  BY <1>int, <1>len, <1>2
<1>4. u \in Seq(Written) /\ Len(u) = n /\ \A i \in 1 .. n : u[i] = accepted[i]
  BY <1>2, SubSeqProperties
<1>5. \A i \in 1 .. n : accepted[i] = MouseBytes[i]
  BY <1>2 DEF Delivered
<1> HIDE DEF t, u
<1>6. t = u
  BY <1>3, <1>4, <1>5, SeqEqual
<1>7. Len(t) <= Len(accepted) /\ t = SubSeq(accepted, 1, Len(t))
  BY <1>2, <1>3, <1>6 DEF u
<1>8. QED
  BY <1>7 DEF t, IsPrefix

\* On an emulator the mouse has accepted a byte before the program passes the
\* wait for its answer (mouse.cpp:74, 99, 110 and 117), whatever the user does
\* and whatever was left unread.
THEOREM AnswersGiven == Spec => []AnswersAreReal
<1>1. ASSUME IInv PROVE AnswersAreReal
  <2>1. TypeOK /\ Delivered /\ Waited /\ pc \in 1 .. 32
    BY <1>1 DEF IInv, TypeOK
  <2>2. Confirmed(pc) = SubSeq(MouseBytes, 1, Awaited(pc))
    BY <2>1, WaitsBefore DEF Confirmed, MouseBytes
  <2>3. Awaited(pc) \in 0 .. 4
    BY <2>1 DEF Awaited
  <2>4. emulated => Awaited(pc) <= Taken
    BY <2>1, <2>3, SentBytes DEF Waited
  <2>5. QED
    BY <2>1, <2>2, <2>3, <2>4, FirstAccepted DEF AnswersAreReal
<1>2. QED
  BY <1>1, InductiveInvariant, PTL

\* Real or emulated, the mouse has accepted the reset and the enable byte
\* when reset returns, unless a byte that was no answer looked like the one
\* waited for.
THEOREM ResetWaits == Spec => []ResetIsReal
<1>1. ASSUME IInv PROVE ResetIsReal
  <2>1. TypeOK /\ Delivered /\ ResetAnswer /\ Len(Reset) = 19
    BY <1>1, ProgramLists DEF IInv, Lists
  <2>2. SubSeq(MouseBytes, 1, 2) = <<"FF", "F4">>
    <3> DEFINE s == SubSeq(MouseBytes, 1, 2)
    <3>1. \A i \in 1 .. 2 : MouseBytes[i] \in Written
      BY DEF MouseBytes, Written
    <3>2. /\ s \in Seq(Written) /\ Len(s) = 2
          /\ \A i \in 1 .. 2 : s[i] = MouseBytes[i]
      BY <3>1, SubSeqProperties
    <3> HIDE DEF s
    <3>3. s[1] = "FF" /\ s[2] = "F4"
      BY <3>2 DEF MouseBytes
    <3>4. <<"FF", "F4">> \in Seq(Written)
      BY DEF Written
    <3>5. s = <<"FF", "F4">>
      BY <3>2, <3>3, <3>4, SeqEqual
    <3>6. QED
      BY <3>5 DEF s
  <2>3. ~disturbed /\ pc > 19 => 2 <= Taken
    BY <2>1, SentBytes DEF ResetAnswer
  <2>4. ~disturbed /\ pc > 19 => IsPrefix(<<"FF", "F4">>, accepted)
    <3>1. 2 \in 0 .. 4
      OBVIOUS
    <3>2. QED
      BY <2>1, <2>2, <2>3, <3>1, FirstAccepted
  <2>5. QED
    BY <2>1, <2>4 DEF ResetIsReal
<1>2. QED
  BY <1>1, InductiveInvariant, PTL

\* The mouse's interrupt is on and its clock runs when reset returns,
\* whichever byte was read for the configuration.
THEOREM MouseIsEnabled == Spec => []MouseEnabled
<1>1. ASSUME IInv PROVE MouseEnabled
  <2>1. TypeOK /\ Configured /\ Len(Reset) = 19
    BY <1>1, ProgramLists DEF IInv, Lists
  <2>2. pc > 19 => 1 \in config /\ 5 \notin config
    BY <2>1 DEF TypeOK, Configured
  <2>3. QED
    BY <2>1, <2>2 DEF MouseEnabled
<1>2. QED
  BY <1>1, InductiveInvariant, PTL

\* On an emulator, only whole packets of movement wait for the kernel when it
\* enables interrupts, unless a byte that was no answer looked like the one
\* waited for.
THEOREM NothingLeftOver == Spec => []AlignedStart
<1>1. ASSUME IInv PROVE AlignedStart
  <2>1. TypeOK /\ Delivered /\ Aligned /\ Pending \in Seq(MouseSent)
    BY <1>1, PendingType DEF IInv
  <2>2. ASSUME emulated, ~disturbed, pc = Done PROVE Moves(Pending)
    <3>1. pc = 32 /\ Awaited(pc) = 4 /\ Sent(pc) = 4
      BY <2>2, ProgramLists DEF Awaited, Sent
    <3>2. Taken \in 0 .. 4
      BY <2>1, SentBytes
    <3>3. Taken >= 2 /\ Taken <= Awaited(pc)
      <4>1. pc \notin AfterByte
        BY <3>1 DEF AfterByte
      <4>2. wire # "none" => Taken = 3
        BY <2>1, <3>1, <3>2, <4>1 DEF Delivered
      <4>3. wire = "none" => Taken = 4
        BY <2>1, <3>1, <3>2, <4>1 DEF Delivered
      <4>4. QED
        BY <3>1, <3>2, <4>2, <4>3
    <3>4. QED
      BY <2>1, <2>2, <3>3 DEF Aligned
  <2>3. emulated /\ ~disturbed /\ pc = Done =>
            /\ \A k \in DOMAIN Pending : Pending[k].from = "move"
            /\ Len(Pending) % 3 = 0
    BY <2>1, <2>2 DEF Moves
  <2>4. QED
    BY <2>3 DEF AlignedStart
<1>2. QED
  BY <1>1, InductiveInvariant, PTL
=============================================================================
