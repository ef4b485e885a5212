---------------------------- MODULE BrokerProofs ----------------------------
(***************************************************************************)
(* Proofs about the broker of the Facilities partition: whatever is lost   *)
(* when a process ends, and however often that is, messages go through     *)
(* each pipe in order and at most once.                                    *)
(***************************************************************************)
EXTENDS FacilitiesProofs

(* A line of messages: a is the number of the last one that has left it, b *)
(* the numbers in the hands of the process in its middle, q those in the   *)
(* packets on their way to it, and top the last number given out.          *)
UpTo(p, top) == \A x \in DOMAIN p : p[x] <= top

Line(a, b, q, top) ==
  /\ a <= top
  /\ UpTo(b, top)
  /\ Sorted(b)
  /\ Below(<<a>>, b)
  /\ \A i \in DOMAIN q :
       UpTo(q[i], top) /\ Sorted(q[i]) /\ Below(<<a>>, q[i]) /\ Below(b, q[i])
  /\ \A i, j \in DOMAIN q : i < j => Below(q[i], q[j])

Packs == Seq(Seq(Nat))

(* The line is in order as a whole.                                        *)
LEMMA LineRising ==
  ASSUME NEW a \in Nat, NEW b \in Seq(Nat), NEW q \in Packs, NEW top \in Nat,
         Line(a, b, q, top)
  PROVE  Rising(<<<<a>>, b>> \o q)
<1> DEFINE s == <<<<a>>, b>> \o q
<1>1. /\ DOMAIN s = 1 .. 2 + Len(q)
      /\ s[1] = <<a>> /\ s[2] = b
      /\ \A i \in 3 .. 2 + Len(q) : s[i] = q[i - 2] /\ i - 2 \in DOMAIN q
  BY DEF Packs
<1>2. Sorted(<<a>>)
  BY DEF Sorted
<1>3. \A i \in DOMAIN s : Sorted(s[i])
  BY <1>1, <1>2, SMTT(30) DEF Line
<1>4. ASSUME NEW i \in DOMAIN s, NEW j \in DOMAIN s, i < j
      PROVE  Below(s[i], s[j])
  <2>1. CASE i = 1 /\ j = 2
    BY <1>1, <2>1 DEF Line
  <2>2. CASE i = 1 /\ j > 2
    BY <1>1, <2>2, SMTT(30) DEF Line
  <2>3. CASE i = 2
    BY <1>1, <1>4, <2>3 DEF Line
  <2>4. CASE i > 2
    BY <1>1, <1>4, <2>4 DEF Line
  <2> QED BY <1>1, <1>4, <2>1, <2>2, <2>3, <2>4
<1> QED BY <1>3, <1>4 DEF Rising

(* Parts of a sequence keep its order.                                     *)
LEMMA PartInOrder ==
  ASSUME NEW p \in Seq(Nat), NEW m \in 1 .. Len(p) + 1, NEW n \in 0 .. Len(p)
  PROVE  LET part == SubSeq(p, m, n)
         IN /\ part \in Seq(Nat)
            /\ Sorted(p) => Sorted(part)
            /\ \A r \in Seq(Nat) : (Below(p, r) => Below(part, r)) /\ (Below(r, p) => Below(r, part))
            /\ \A top \in Nat : UpTo(p, top) => UpTo(part, top)
<1> DEFINE part == SubSeq(p, m, n)
<1>1. /\ part \in Seq(Nat)
      /\ \A x \in DOMAIN part : x + m - 1 \in DOMAIN p /\ part[x] = p[x + m - 1]
  BY SMTT(30)
<1>2. \A x \in DOMAIN part : x \in Nat
  BY <1>1
<1> HIDE DEF part
<1>3. Sorted(p) => Sorted(part)
  BY <1>1, <1>2 DEF Sorted
<1>4. \A r \in Seq(Nat) : (Below(p, r) => Below(part, r)) /\ (Below(r, p) => Below(r, part))
  BY <1>1 DEF Below
<1>5. \A top \in Nat : UpTo(p, top) => UpTo(part, top)
  BY <1>1 DEF UpTo
<1> QED BY <1>1, <1>3, <1>4, <1>5 DEF part

(* What is left after the first is taken, and the first, are still in      *)
(* order.                                                                  *)
LEMMA HeadTailInOrder ==
  ASSUME NEW p \in Seq(Nat), p # <<>>
  PROVE  /\ Head(p) \in Nat /\ Tail(p) \in Seq(Nat)
         /\ Sorted(p) => Sorted(Tail(p)) /\ Below(<<Head(p)>>, Tail(p))
         /\ \A r \in Seq(Nat) :
              /\ Below(p, r) => Below(Tail(p), r) /\ Below(<<Head(p)>>, r)
              /\ Below(r, p) => Below(r, Tail(p)) /\ Below(r, <<Head(p)>>)
         /\ \A top \in Nat : UpTo(p, top) => UpTo(Tail(p), top) /\ Head(p) <= top
<1>1. /\ Head(p) \in Nat /\ Tail(p) \in Seq(Nat)
      /\ 1 \in DOMAIN p /\ p[1] = Head(p)
      /\ \A x \in DOMAIN Tail(p) : x \in Nat /\ x + 1 \in DOMAIN p /\ x + 1 > 1 /\ Tail(p)[x] = p[x + 1]
  OBVIOUS
<1>2. /\ DOMAIN <<Head(p)>> = {1} /\ <<Head(p)>>[1] = Head(p)
  OBVIOUS
<1>3. ASSUME Sorted(p)
      PROVE  Sorted(Tail(p)) /\ Below(<<Head(p)>>, Tail(p))
  <2>1. Sorted(Tail(p))
    BY <1>1, <1>3, SMTT(30) DEF Sorted
  <2>2. Below(<<Head(p)>>, Tail(p))
    <3> SUFFICES ASSUME NEW x \in DOMAIN Tail(p), Head(p) # 0, Tail(p)[x] # 0
                 PROVE  Head(p) < Tail(p)[x]
      BY <1>2 DEF Below
    <3> QED BY <1>1, <1>3, SMTT(30) DEF Sorted
  <2> QED BY <2>1, <2>2
<1>4. ASSUME NEW r \in Seq(Nat)
      PROVE  /\ Below(p, r) => Below(Tail(p), r) /\ Below(<<Head(p)>>, r)
             /\ Below(r, p) => Below(r, Tail(p)) /\ Below(r, <<Head(p)>>)
  BY <1>1, <1>2 DEF Below
<1>5. \A top \in Nat : UpTo(p, top) => UpTo(Tail(p), top) /\ Head(p) <= top
  BY <1>1 DEF UpTo
<1> QED BY <1>1, <1>3, <1>4, <1>5

(* Two sequences of which one lies below the other are in order when       *)
(* joined.                                                                 *)
LEMMA JoinInOrder ==
  ASSUME NEW p \in Seq(Nat), NEW r \in Seq(Nat)
  PROVE  /\ p \o r \in Seq(Nat)
         /\ Sorted(p) /\ Sorted(r) /\ Below(p, r) => Sorted(p \o r)
         /\ \A t \in Seq(Nat) : /\ Below(p, t) /\ Below(r, t) => Below(p \o r, t)
                                /\ Below(t, p) /\ Below(t, r) => Below(t, p \o r)
         /\ \A top \in Nat : UpTo(p, top) /\ UpTo(r, top) => UpTo(p \o r, top)
<1> DEFINE s == p \o r
<1>1. /\ s \in Seq(Nat)
      /\ \A x \in DOMAIN s : \/ x \in DOMAIN p /\ s[x] = p[x]
                             \/ x - Len(p) \in DOMAIN r /\ s[x] = r[x - Len(p)] /\ x > Len(p)
      /\ DOMAIN p = 1 .. Len(p) /\ Len(p) \in Nat /\ DOMAIN s \subseteq Nat
  OBVIOUS
<1> HIDE DEF s
<1>2. ASSUME Sorted(p), Sorted(r), Below(p, r),
             NEW x \in DOMAIN s, NEW y \in DOMAIN s, x < y, s[x] # 0, s[y] # 0
      PROVE  s[x] < s[y]
  <2>1. CASE x \in DOMAIN p /\ s[x] = p[x] /\ y \in DOMAIN p /\ s[y] = p[y]
    BY <1>2, <2>1 DEF Sorted
  <2>2. CASE x \in DOMAIN p /\ s[x] = p[x] /\ y - Len(p) \in DOMAIN r /\ s[y] = r[y - Len(p)]
    BY <1>2, <2>2 DEF Below
  <2>3. CASE x > Len(p) /\ y > Len(p)
    <3>1. /\ x - Len(p) \in DOMAIN r /\ s[x] = r[x - Len(p)]
          /\ y - Len(p) \in DOMAIN r /\ s[y] = r[y - Len(p)]
          /\ x - Len(p) < y - Len(p)
      BY <1>1, <1>2, <2>3, SMTT(30)
    <3> QED BY <1>2, <3>1 DEF Sorted
  <2> QED BY <1>1, <1>2, <2>1, <2>2, <2>3
<1>3. \A t \in Seq(Nat) : /\ Below(p, t) /\ Below(r, t) => Below(s, t)
                          /\ Below(t, p) /\ Below(t, r) => Below(t, s)
  BY <1>1 DEF Below
<1>4. \A top \in Nat : UpTo(p, top) /\ UpTo(r, top) => UpTo(s, top)
  BY <1>1 DEF UpTo
<1> QED BY <1>1, <1>2, <1>3, <1>4 DEF s, Sorted

-----------------------------------------------------------------------------
(* What may happen to a line.                                              *)

(* Nothing is in order with anything.                                      *)
LEMMA EmptyInOrder ==
  /\ <<>> \in Seq(Nat) /\ Sorted(<<>>)
  /\ \A r : Below(<<>>, r) /\ Below(r, <<>>)
  /\ \A top : UpTo(<<>>, top)
BY DEF Sorted, Below, UpTo

(* The numbers given out grow.                                             *)
LEMMA LineTop ==
  ASSUME NEW a \in Nat, NEW b \in Seq(Nat), NEW q \in Packs, NEW top \in Nat, NEW up \in Nat,
         top <= up, Line(a, b, q, top)
  PROVE  Line(a, b, q, up)
<1>1. ASSUME NEW p \in Seq(Nat), UpTo(p, top)
      PROVE  UpTo(p, up)
  BY <1>1 DEF UpTo
<1>2. \A i \in DOMAIN q : q[i] \in Seq(Nat)
  BY DEF Packs
<1>3. UpTo(b, up) /\ a <= up
  BY <1>1 DEF Line
<1>4. ASSUME NEW i \in DOMAIN q
      PROVE  UpTo(q[i], up)
  BY <1>1, <1>2 DEF Line
<1> QED BY <1>3, <1>4 DEF Line

(* What the process holds is lost, or the packets at either end are.       *)
LEMMA LineDrop ==
  ASSUME NEW a \in Nat, NEW b \in Seq(Nat), NEW q \in Packs, NEW top \in Nat,
         Line(a, b, q, top)
  PROVE  Line(a, <<>>, q, top)
BY EmptyInOrder DEF Line

(* The elements of a part are those of the whole, at their places.         *)
LEMMA PartIndex ==
  ASSUME NEW S, NEW s \in Seq(S), NEW m \in 1 .. Len(s) + 1, NEW n \in 0 .. Len(s)
  PROVE  \A x \in DOMAIN SubSeq(s, m, n) :
           x \in Nat /\ x + m - 1 \in DOMAIN s /\ SubSeq(s, m, n)[x] = s[x + m - 1]
OBVIOUS

(* So are those of the tail.                                               *)
LEMMA TailIndex ==
  ASSUME NEW S, NEW s \in Seq(S), s # <<>>
  PROVE  /\ 1 \in DOMAIN s /\ Head(s) = s[1] /\ Head(s) \in S
         /\ \A x \in DOMAIN Tail(s) :
              x \in Nat /\ x + 1 \in DOMAIN s /\ x + 1 > 1 /\ Tail(s)[x] = s[x + 1] /\ Tail(s)[x] \in S
OBVIOUS

(* A line of which packets are lost at either end is a line.               *)
LEMMA LinePart ==
  ASSUME NEW a \in Nat, NEW b \in Seq(Nat), NEW q \in Packs, NEW top \in Nat,
         NEW m \in 1 .. Len(q) + 1, NEW n \in 0 .. Len(q), Line(a, b, q, top)
  PROVE  Line(a, b, SubSeq(q, m, n), top)
<1> DEFINE part == SubSeq(q, m, n)
<1>1. \A x \in DOMAIN part : x \in Nat /\ x + m - 1 \in DOMAIN q /\ part[x] = q[x + m - 1]
  BY PartIndex DEF Packs
<1> HIDE DEF part
<1>2. \A i \in DOMAIN part :
        UpTo(part[i], top) /\ Sorted(part[i]) /\ Below(<<a>>, part[i]) /\ Below(b, part[i])
  BY <1>1 DEF Line
<1>3. \A i, j \in DOMAIN part : i < j => Below(part[i], part[j])
  BY <1>1 DEF Line
<1>4. Line(a, b, part, top)
  BY <1>2, <1>3 DEF Line
<1> QED BY <1>4 DEF part

(* The first of the numbers the process holds leaves it, and is passed on, *)
(* or was no message.                                                      *)
LEMMA LineServe ==
  ASSUME NEW a \in Nat, NEW b \in Seq(Nat), NEW q \in Packs, NEW top \in Nat,
         b # <<>>, Line(a, b, q, top)
  PROVE  Line(a, Tail(b), q, top) /\ Line(Head(b), Tail(b), q, top)
<1>1. \A i \in DOMAIN q : q[i] \in Seq(Nat)
  BY DEF Packs
<1>2. <<a>> \in Seq(Nat)
  OBVIOUS
<1>3. /\ Sorted(Tail(b)) /\ Below(<<Head(b)>>, Tail(b)) /\ Below(<<a>>, Tail(b))
      /\ UpTo(Tail(b), top) /\ Head(b) <= top
  <2>1. Sorted(b) /\ Below(<<a>>, b) /\ UpTo(b, top)
    BY DEF Line
  <2> QED BY <1>2, <2>1, HeadTailInOrder
<1>4. ASSUME NEW i \in DOMAIN q
      PROVE  Below(Tail(b), q[i]) /\ Below(<<Head(b)>>, q[i])
  BY <1>1, HeadTailInOrder DEF Line
<1> QED BY <1>3, <1>4 DEF Line

(* The process takes the first packet.                                     *)
LEMMA LineTake ==
  ASSUME NEW a \in Nat, NEW b \in Seq(Nat), NEW q \in Packs, NEW top \in Nat,
         q # <<>>, Line(a, b, q, top)
  PROVE  Line(a, Head(q), Tail(q), top)
<1>1. /\ 1 \in DOMAIN q /\ Head(q) = q[1]
      /\ \A x \in DOMAIN Tail(q) : x \in Nat /\ x + 1 \in DOMAIN q /\ x + 1 > 1 /\ Tail(q)[x] = q[x + 1]
  BY DEF Packs
<1>2. /\ UpTo(Head(q), top) /\ Sorted(Head(q)) /\ Below(<<a>>, Head(q))
  BY <1>1 DEF Line
<1>3. \A i \in DOMAIN Tail(q) :
        /\ UpTo(Tail(q)[i], top) /\ Sorted(Tail(q)[i]) /\ Below(<<a>>, Tail(q)[i])
        /\ Below(Head(q), Tail(q)[i])
  BY <1>1 DEF Line
<1>4. \A i, j \in DOMAIN Tail(q) : i < j => Below(Tail(q)[i], Tail(q)[j])
  BY <1>1 DEF Line
<1> QED BY <1>2, <1>3, <1>4 DEF Line

(* Some of the first packet's numbers join those the process holds.        *)
LEMMA LineJoin ==
  ASSUME NEW a \in Nat, NEW b \in Seq(Nat), NEW q \in Packs, NEW top \in Nat,
         q # <<>>, NEW n \in 0 .. Len(Head(q)), Line(a, b, q, top)
  PROVE  Line(a, b \o SubSeq(Head(q), 1, n), Tail(q), top)
<1> DEFINE p == SubSeq(Head(q), 1, n)
<1>1. /\ 1 \in DOMAIN q /\ Head(q) = q[1] /\ Head(q) \in Seq(Nat)
      /\ \A x \in DOMAIN Tail(q) : x \in Nat /\ x + 1 \in DOMAIN q /\ x + 1 > 1 /\ Tail(q)[x] = q[x + 1]
                                   /\ Tail(q)[x] \in Seq(Nat)
      /\ <<a>> \in Seq(Nat)
  BY TailIndex DEF Packs
<1>2. /\ UpTo(Head(q), top) /\ Sorted(Head(q)) /\ Below(<<a>>, Head(q)) /\ Below(b, Head(q))
      /\ \A i \in DOMAIN Tail(q) :
           /\ UpTo(Tail(q)[i], top) /\ Sorted(Tail(q)[i]) /\ Below(<<a>>, Tail(q)[i])
           /\ Below(Head(q), Tail(q)[i]) /\ Below(b, Tail(q)[i])
      /\ \A i, j \in DOMAIN Tail(q) : i < j => Below(Tail(q)[i], Tail(q)[j])
  <2>1. UpTo(Head(q), top) /\ Sorted(Head(q)) /\ Below(<<a>>, Head(q)) /\ Below(b, Head(q))
    BY <1>1 DEF Line
  <2>2. ASSUME NEW i \in DOMAIN Tail(q)
        PROVE  /\ UpTo(Tail(q)[i], top) /\ Sorted(Tail(q)[i]) /\ Below(<<a>>, Tail(q)[i])
               /\ Below(Head(q), Tail(q)[i]) /\ Below(b, Tail(q)[i])
    BY <1>1 DEF Line
  <2>3. \A i, j \in DOMAIN Tail(q) : i < j => Below(Tail(q)[i], Tail(q)[j])
    BY <1>1 DEF Line
  <2> QED BY <2>1, <2>2, <2>3
<1>3. 1 \in 1 .. Len(Head(q)) + 1
  BY <1>1
<1>4. /\ p \in Seq(Nat) /\ UpTo(p, top) /\ Sorted(p) /\ Below(<<a>>, p) /\ Below(b, p)
      /\ \A i \in DOMAIN Tail(q) : Below(p, Tail(q)[i])
  BY <1>1, <1>2, <1>3, PartInOrder
<1> HIDE DEF p
<1>5. /\ UpTo(b \o p, top) /\ Sorted(b \o p) /\ Below(<<a>>, b \o p)
      /\ \A i \in DOMAIN Tail(q) : Below(b \o p, Tail(q)[i])
  BY <1>1, <1>2, <1>4, JoinInOrder DEF Line
<1> QED BY <1>2, <1>5 DEF Line, p

(* A packet of new numbers is sent.                                        *)
LEMMA LinePost ==
  ASSUME NEW a \in Nat, NEW b \in Seq(Nat), NEW q \in Packs, NEW top \in Nat, NEW up \in Nat,
         NEW p \in Seq(Nat), Line(a, b, q, top), top <= up,
         Sorted(p), UpTo(p, up), \A x \in DOMAIN p : p[x] # 0 => p[x] > top
  PROVE  Line(a, b, Append(q, p), up)
<1>1. Line(a, b, q, up)
  BY LineTop
<1>2. ASSUME NEW r \in Seq(Nat), UpTo(r, top)
      PROVE  Below(r, p)
  <2> SUFFICES ASSUME NEW x \in DOMAIN r, NEW y \in DOMAIN p, p[y] # 0
               PROVE  r[x] < p[y]
    BY DEF Below
  <2>1. r[x] \in Nat /\ p[y] \in Nat /\ r[x] <= top /\ p[y] > top
    BY <1>2 DEF UpTo
  <2> QED BY <2>1
<1>3. /\ Below(<<a>>, p) /\ Below(b, p)
      /\ \A i \in DOMAIN q : Below(q[i], p)
  <2>1. <<a>> \in Seq(Nat) /\ UpTo(<<a>>, top)
    BY DEF Line, UpTo
  <2>2. \A i \in DOMAIN q : q[i] \in Seq(Nat) /\ UpTo(q[i], top)
    BY DEF Packs, Line
  <2>3. UpTo(b, top)
    BY DEF Line
  <2> QED BY <1>2, <2>1, <2>2, <2>3
<1>4. /\ DOMAIN Append(q, p) = 1 .. Len(q) + 1 /\ DOMAIN q = 1 .. Len(q) /\ Len(q) \in Nat
      /\ Append(q, p)[Len(q) + 1] = p
      /\ \A i \in 1 .. Len(q) : Append(q, p)[i] = q[i]
  BY DEF Packs
<1> DEFINE s == Append(q, p)
<1>5. \A i \in DOMAIN s : (i \in DOMAIN q /\ s[i] = q[i]) \/ (i = Len(q) + 1 /\ s[i] = p)
  BY <1>4
<1> HIDE DEF s
<1>6. \A i \in DOMAIN s : UpTo(s[i], up) /\ Sorted(s[i]) /\ Below(<<a>>, s[i]) /\ Below(b, s[i])
  BY <1>1, <1>3, <1>5 DEF Line
<1>7. ASSUME NEW i \in DOMAIN s, NEW j \in DOMAIN s, i < j
      PROVE  Below(s[i], s[j])
  <2>1. i \in DOMAIN q /\ s[i] = q[i]
    <3>1. \A x \in DOMAIN s : x \in Nat /\ x <= Len(q) + 1
      BY <1>4 DEF s
    <3> QED BY <1>4, <1>5, <1>7, <3>1
  <2>2. CASE j \in DOMAIN q /\ s[j] = q[j]
    BY <1>1, <1>7, <2>1, <2>2 DEF Line
  <2>3. CASE s[j] = p
    BY <1>3, <2>1, <2>3
  <2> QED BY <1>5, <2>2, <2>3
<1> QED BY <1>1, <1>6, <1>7 DEF Line, s

-----------------------------------------------------------------------------
(* The numbers of packets.                                                 *)

(* The numbers of a packet are a sequence as long as it.                   *)
LEMMA NumbersSeq ==
  ASSUME NEW p \in Seq(Calls)
  PROVE  /\ Numbers(p) \in Seq(Nat) /\ Len(Numbers(p)) = Len(p)
         /\ \A x \in 1 .. Len(p) :
              Numbers(p)[x] = IF p[x].type = "BE_MSG" THEN p[x].value ELSE 0
<1>1. ASSUME NEW x \in DOMAIN p
      PROVE  (IF p[x].type = "BE_MSG" THEN p[x].value ELSE 0) \in Nat
  <2>1. p[x] \in Calls
    OBVIOUS
  <2> QED BY <2>1, CallFields, SystemAssumption
<1>2. DOMAIN p = 1 .. Len(p) /\ Len(p) \in Nat
  OBVIOUS
<1> QED BY <1>1, <1>2 DEF Numbers

(* Taking and adding a call takes and adds its number.                     *)
LEMMA NumbersParts ==
  ASSUME NEW p \in Seq(Calls)
  PROVE  /\ p = <<>> => Numbers(p) = <<>>
         /\ p # <<>> => /\ Numbers(p) # <<>> /\ Numbers(Tail(p)) = Tail(Numbers(p))
                        /\ Head(Numbers(p)) = IF Head(p).type = "BE_MSG" THEN Head(p).value ELSE 0
                        /\ Numbers(<<Head(p)>>) = <<Head(Numbers(p))>>
         /\ \A c \in Calls :
              Numbers(Append(p, c))
                = Append(Numbers(p), IF c.type = "BE_MSG" THEN c.value ELSE 0)
<1>1. ASSUME p = <<>> PROVE Numbers(p) = <<>>
  BY <1>1 DEF Numbers
<1>2. ASSUME p # <<>>
      PROVE  /\ Numbers(p) # <<>> /\ Numbers(Tail(p)) = Tail(Numbers(p))
             /\ Head(Numbers(p)) = IF Head(p).type = "BE_MSG" THEN Head(p).value ELSE 0
             /\ Numbers(<<Head(p)>>) = <<Head(Numbers(p))>>
  <2>1. /\ Numbers(p) \in Seq(Nat) /\ Len(Numbers(p)) = Len(p) /\ Len(p) >= 1
        /\ Tail(p) \in Seq(Calls) /\ Len(Tail(p)) = Len(p) - 1
        /\ Numbers(Tail(p)) \in Seq(Nat) /\ Len(Numbers(Tail(p))) = Len(p) - 1
    <3>1. Len(p) >= 1 /\ Tail(p) \in Seq(Calls) /\ Len(Tail(p)) = Len(p) - 1
      BY <1>2
    <3>2. Numbers(p) \in Seq(Nat) /\ Len(Numbers(p)) = Len(p)
      BY NumbersSeq
    <3>3. Numbers(Tail(p)) \in Seq(Nat) /\ Len(Numbers(Tail(p))) = Len(Tail(p))
      BY <3>1, NumbersSeq
    <3> QED BY <3>1, <3>2, <3>3
  <2>2. Tail(Numbers(p)) \in Seq(Nat) /\ Len(Tail(Numbers(p))) = Len(p) - 1
    BY <2>1
  <2>3. \A x \in 1 .. Len(p) - 1 : Numbers(Tail(p))[x] = Tail(Numbers(p))[x]
    <3> SUFFICES ASSUME NEW x \in 1 .. Len(p) - 1 PROVE Numbers(Tail(p))[x] = Tail(Numbers(p))[x]
      OBVIOUS
    <3>1. Tail(p)[x] = p[x + 1] /\ Tail(Numbers(p))[x] = Numbers(p)[x + 1] /\ x + 1 \in 1 .. Len(p)
      BY <1>2, <2>1, SMTT(30)
    <3>2. Numbers(Tail(p))[x] = IF Tail(p)[x].type = "BE_MSG" THEN Tail(p)[x].value ELSE 0
      BY <2>1, NumbersSeq
    <3>3. Numbers(p)[x + 1] = IF p[x + 1].type = "BE_MSG" THEN p[x + 1].value ELSE 0
      BY <3>1, NumbersSeq
    <3> QED BY <3>1, <3>2, <3>3
  <2>4. Numbers(Tail(p)) = Tail(Numbers(p))
    BY <2>1, <2>2, <2>3, SeqEqual
  <2>5. Head(Numbers(p)) = IF Head(p).type = "BE_MSG" THEN Head(p).value ELSE 0
    <3>1. Head(Numbers(p)) = Numbers(p)[1] /\ Head(p) = p[1] /\ 1 \in 1 .. Len(p)
      BY <1>2, <2>1
    <3> QED BY <3>1, NumbersSeq
  <2>6. Numbers(<<Head(p)>>) = <<Head(Numbers(p))>>
    BY <2>5 DEF Numbers
  <2>7. Numbers(p) # <<>>
    BY <2>1
  <2> QED BY <2>4, <2>5, <2>6, <2>7
<1>3. ASSUME NEW c \in Calls
      PROVE  Numbers(Append(p, c)) = Append(Numbers(p), IF c.type = "BE_MSG" THEN c.value ELSE 0)
  <2> DEFINE y == IF c.type = "BE_MSG" THEN c.value ELSE 0
  <2>1. y \in Nat
    BY CallFields, SystemAssumption
  <2>2. /\ Append(p, c) \in Seq(Calls) /\ Len(Append(p, c)) = Len(p) + 1
        /\ Append(p, c)[Len(p) + 1] = c /\ \A x \in 1 .. Len(p) : Append(p, c)[x] = p[x]
    BY AppendProperties
  <2>3. /\ Numbers(Append(p, c)) \in Seq(Nat) /\ Len(Numbers(Append(p, c))) = Len(p) + 1
        /\ \A x \in 1 .. Len(p) + 1 :
             Numbers(Append(p, c))[x] =
               IF Append(p, c)[x].type = "BE_MSG" THEN Append(p, c)[x].value ELSE 0
    BY <2>2, NumbersSeq
  <2>4. /\ Append(Numbers(p), y) \in Seq(Nat) /\ Len(Append(Numbers(p), y)) = Len(p) + 1
        /\ Append(Numbers(p), y)[Len(p) + 1] = y
        /\ \A x \in 1 .. Len(p) : Append(Numbers(p), y)[x] = Numbers(p)[x]
    BY <2>1, NumbersSeq, AppendProperties
  <2>5. \A x \in 1 .. Len(p) + 1 : Numbers(Append(p, c))[x] = Append(Numbers(p), y)[x]
    <3> SUFFICES ASSUME NEW x \in 1 .. Len(p) + 1
                 PROVE  Numbers(Append(p, c))[x] = Append(Numbers(p), y)[x]
      OBVIOUS
    <3>1. CASE x = Len(p) + 1
      BY <2>2, <2>3, <2>4, <3>1
    <3>2. CASE x \in 1 .. Len(p)
      <4>1. Append(p, c)[x] = p[x] /\ Append(Numbers(p), y)[x] = Numbers(p)[x]
        BY <2>2, <2>4, <3>2
      <4>2. Numbers(p)[x] = IF p[x].type = "BE_MSG" THEN p[x].value ELSE 0
        BY <3>2, NumbersSeq
      <4>3. Numbers(Append(p, c))[x] =
              IF Append(p, c)[x].type = "BE_MSG" THEN Append(p, c)[x].value ELSE 0
        BY <2>3
      <4> QED BY <4>1, <4>2, <4>3
    <3>3. x \in 1 .. Len(p) \/ x = Len(p) + 1
      OBVIOUS
    <3> QED BY <3>1, <3>2, <3>3
  <2> HIDE DEF y
  <2>6. Numbers(Append(p, c)) = Append(Numbers(p), y)
    BY <2>3, <2>4, <2>5, SeqEqual
  <2> QED BY <2>6 DEF y
<1> QED BY <1>1, <1>2, <1>3

(* Taking, adding and losing packets does the same to their numbers.       *)
LEMMA NumbersOfParts ==
  ASSUME NEW s \in Seq(Seq(Calls))
  PROVE  /\ NumbersOf(s) \in Packs
         /\ s # <<>> => /\ NumbersOf(s) # <<>> /\ NumbersOf(Tail(s)) = Tail(NumbersOf(s))
                        /\ Head(NumbersOf(s)) = Numbers(Head(s))
         /\ \A p \in Seq(Calls) : NumbersOf(Append(s, p)) = Append(NumbersOf(s), Numbers(p))
         /\ \A n \in 0 .. Len(s) :
              /\ NumbersOf(SubSeq(s, n + 1, Len(s))) = SubSeq(NumbersOf(s), n + 1, Len(NumbersOf(s)))
              /\ NumbersOf(SubSeq(s, 1, n)) = SubSeq(NumbersOf(s), 1, n)
         /\ Len(NumbersOf(s)) = Len(s)
<1>1. ASSUME NEW t \in Seq(Seq(Calls))
      PROVE  /\ NumbersOf(t) \in Seq(Seq(Nat)) /\ Len(NumbersOf(t)) = Len(t)
             /\ \A x \in 1 .. Len(t) : NumbersOf(t)[x] = Numbers(t[x])
  <2>1. \A x \in DOMAIN t : Numbers(t[x]) \in Seq(Nat)
    BY NumbersSeq
  <2>2. DOMAIN t = 1 .. Len(t) /\ Len(t) \in Nat
    OBVIOUS
  <2> QED BY <2>1, <2>2 DEF NumbersOf
<1>2. NumbersOf(s) \in Packs
  BY <1>1 DEF Packs
<1>3. ASSUME s # <<>>
      PROVE  /\ NumbersOf(s) # <<>> /\ NumbersOf(Tail(s)) = Tail(NumbersOf(s))
             /\ Head(NumbersOf(s)) = Numbers(Head(s))
  <2>1. /\ NumbersOf(s) \in Seq(Seq(Nat)) /\ Len(NumbersOf(s)) = Len(s) /\ Len(s) >= 1
        /\ Tail(s) \in Seq(Seq(Calls)) /\ Len(Tail(s)) = Len(s) - 1
    BY <1>1, <1>3
  <2>2. Tail(NumbersOf(s)) \in Seq(Seq(Nat)) /\ Len(Tail(NumbersOf(s))) = Len(s) - 1
    BY <2>1
  <2>3. NumbersOf(Tail(s)) \in Seq(Seq(Nat)) /\ Len(NumbersOf(Tail(s))) = Len(s) - 1
    BY <1>1, <2>1
  <2>4. \A x \in 1 .. Len(s) - 1 : NumbersOf(Tail(s))[x] = Tail(NumbersOf(s))[x]
    <3> SUFFICES ASSUME NEW x \in 1 .. Len(s) - 1 PROVE NumbersOf(Tail(s))[x] = Tail(NumbersOf(s))[x]
      OBVIOUS
    <3>1. Tail(s)[x] = s[x + 1] /\ x + 1 \in 1 .. Len(s)
      BY <1>3, <2>1
    <3>2. Tail(NumbersOf(s))[x] = NumbersOf(s)[x + 1]
      BY <2>1
    <3> QED BY <1>1, <2>1, <3>1, <3>2
  <2>5. NumbersOf(Tail(s)) = Tail(NumbersOf(s))
    BY <2>2, <2>3, <2>4, SeqEqual
  <2>6. Head(NumbersOf(s)) = NumbersOf(s)[1] /\ Head(s) = s[1] /\ 1 \in 1 .. Len(s)
    BY <1>3, <2>1
  <2> QED BY <1>1, <2>1, <2>5, <2>6
<1>4. ASSUME NEW p \in Seq(Calls)
      PROVE  NumbersOf(Append(s, p)) = Append(NumbersOf(s), Numbers(p))
  <2>1. /\ Append(s, p) \in Seq(Seq(Calls)) /\ Len(Append(s, p)) = Len(s) + 1
        /\ Append(s, p)[Len(s) + 1] = p /\ \A x \in 1 .. Len(s) : Append(s, p)[x] = s[x]
    BY AppendProperties
  <2>2. Numbers(p) \in Seq(Nat)
    BY NumbersSeq
  <2>3. /\ NumbersOf(Append(s, p)) \in Seq(Seq(Nat)) /\ Len(NumbersOf(Append(s, p))) = Len(s) + 1
        /\ \A x \in 1 .. Len(s) + 1 : NumbersOf(Append(s, p))[x] = Numbers(Append(s, p)[x])
    BY <1>1, <2>1
  <2>4. /\ NumbersOf(s) \in Seq(Seq(Nat)) /\ Len(NumbersOf(s)) = Len(s)
        /\ \A x \in 1 .. Len(s) : NumbersOf(s)[x] = Numbers(s[x])
    BY <1>1
  <2>5. /\ Append(NumbersOf(s), Numbers(p)) \in Seq(Seq(Nat))
        /\ Len(Append(NumbersOf(s), Numbers(p))) = Len(s) + 1
        /\ Append(NumbersOf(s), Numbers(p))[Len(s) + 1] = Numbers(p)
        /\ \A x \in 1 .. Len(s) : Append(NumbersOf(s), Numbers(p))[x] = NumbersOf(s)[x]
    <3> DEFINE t == NumbersOf(s)
               e == Numbers(p)
    <3>1. t \in Seq(Seq(Nat)) /\ Len(t) = Len(s) /\ e \in Seq(Nat)
      BY <2>2, <2>4
    <3> HIDE DEF t, e
    <3>2. /\ Append(t, e) \in Seq(Seq(Nat)) /\ Len(Append(t, e)) = Len(t) + 1
          /\ Append(t, e)[Len(t) + 1] = e /\ \A x \in 1 .. Len(t) : Append(t, e)[x] = t[x]
      BY <3>1, AppendProperties
    <3> QED BY <3>1, <3>2 DEF t, e
  <2>6. \A x \in 1 .. Len(s) + 1 :
          NumbersOf(Append(s, p))[x] = Append(NumbersOf(s), Numbers(p))[x]
    <3> SUFFICES ASSUME NEW x \in 1 .. Len(s) + 1
                 PROVE  NumbersOf(Append(s, p))[x] = Append(NumbersOf(s), Numbers(p))[x]
      OBVIOUS
    <3>1. CASE x = Len(s) + 1
      BY <2>1, <2>3, <2>5, <3>1
    <3>2. CASE x \in 1 .. Len(s)
      BY <2>1, <2>3, <2>4, <2>5, <3>2
    <3>3. x \in 1 .. Len(s) \/ x = Len(s) + 1
      OBVIOUS
    <3> QED BY <3>1, <3>2, <3>3
  <2> QED BY <2>3, <2>5, <2>6, SeqEqual
<1>5. ASSUME NEW m \in 1 .. Len(s) + 1, NEW n \in 0 .. Len(s), m <= n + 1
      PROVE  NumbersOf(SubSeq(s, m, n)) = SubSeq(NumbersOf(s), m, n)
  <2>1. /\ SubSeq(s, m, n) \in Seq(Seq(Calls)) /\ Len(SubSeq(s, m, n)) = n - m + 1
        /\ \A x \in 1 .. n - m + 1 : SubSeq(s, m, n)[x] = s[x + m - 1] /\ x + m - 1 \in 1 .. Len(s)
    BY <1>5
  <2>2. NumbersOf(s) \in Seq(Seq(Nat)) /\ Len(NumbersOf(s)) = Len(s)
    BY <1>1
  <2>3. /\ SubSeq(NumbersOf(s), m, n) \in Seq(Seq(Nat)) /\ Len(SubSeq(NumbersOf(s), m, n)) = n - m + 1
        /\ \A x \in 1 .. n - m + 1 : SubSeq(NumbersOf(s), m, n)[x] = NumbersOf(s)[x + m - 1]
    BY <1>5, <2>2
  <2>4. /\ NumbersOf(SubSeq(s, m, n)) \in Seq(Seq(Nat)) /\ Len(NumbersOf(SubSeq(s, m, n))) = n - m + 1
        /\ \A x \in 1 .. n - m + 1 : NumbersOf(SubSeq(s, m, n))[x] = Numbers(SubSeq(s, m, n)[x])
    BY <1>1, <2>1
  <2>5. \A x \in 1 .. n - m + 1 : NumbersOf(SubSeq(s, m, n))[x] = SubSeq(NumbersOf(s), m, n)[x]
    BY <1>1, <2>1, <2>3, <2>4
  <2> QED BY <2>3, <2>4, <2>5, SeqEqual
<1>6. ASSUME NEW n \in 0 .. Len(s)
      PROVE  /\ NumbersOf(SubSeq(s, n + 1, Len(s))) = SubSeq(NumbersOf(s), n + 1, Len(NumbersOf(s)))
             /\ NumbersOf(SubSeq(s, 1, n)) = SubSeq(NumbersOf(s), 1, n)
  <2>1. n + 1 \in 1 .. Len(s) + 1 /\ Len(s) \in 0 .. Len(s) /\ 1 \in 1 .. Len(s) + 1 /\ 1 <= n + 1
        /\ n + 1 <= Len(s) + 1
    OBVIOUS
  <2> QED BY <1>1, <1>5, <2>1
<1> QED BY <1>1, <1>2, <1>3, <1>4, <1>6

-----------------------------------------------------------------------------
(* The four lines of the system, and what each step does to them.          *)

NotifyLine    == Line(toBackend, Numbers(Serving(FALSE)), NumbersOf(dealerFac), sentUp)
RequestLine   == Line(asked, Numbers(Waiting), <<Numbers(reqFac)>>, sentUp)
AnswerLine    == Line(got["notify"], toFe, fromBe, sentDown)
BroadcastLine == Line(got["broadcast"], pubFe, bcast, sentDown)

BrokerInv == TypeInv /\ NotifyLine /\ RequestLine /\ AnswerLine /\ BroadcastLine

(* The types of what the four lines are made of.                           *)
LEMMA LineTypes ==
  ASSUME TypeInv
  PROVE  /\ toBackend \in Nat /\ asked \in Nat /\ sentUp \in Nat /\ sentDown \in Nat
         /\ got["notify"] \in Nat /\ got["broadcast"] \in Nat
         /\ calls \in Seq(Calls) /\ Serving(FALSE) \in Seq(Calls) /\ Serving(TRUE) \in Seq(Calls)
         /\ Waiting \in Seq(Calls) /\ reqFac \in Seq(Calls) /\ dealerFac \in Seq(Seq(Calls))
         /\ toFe \in Seq(Nat) /\ pubFe \in Seq(Nat) /\ fromBe \in Packs /\ bcast \in Packs
<1>1. calls \in Seq(Calls) /\ dealerFac \in Seq(Seq(Calls)) /\ reqFac \in Seq(Calls)
  BY DEF TypeInv, TypeOK, FacTypeOK
<1>2. Serving(FALSE) \in Seq(Calls) /\ Serving(TRUE) \in Seq(Calls) /\ Waiting \in Seq(Calls)
  BY <1>1, EmptyIsSeq DEF Serving, Waiting
<1>3. /\ toBackend \in Nat /\ asked \in Nat /\ sentUp \in Nat /\ sentDown \in Nat
      /\ got["notify"] \in Nat /\ got["broadcast"] \in Nat
  BY SystemAssumption DEF TypeInv, TypeOK, Kinds
<1>4. toFe \in Seq(Nat) /\ pubFe \in Seq(Nat) /\ fromBe \in Packs /\ bcast \in Packs
  <2>1. 1 .. MaxDown \subseteq Nat
    OBVIOUS
  <2>2. Seq(1 .. MaxDown) \subseteq Seq(Nat) /\ Seq(Seq(1 .. MaxDown)) \subseteq Packs
    BY <2>1, SeqSubset DEF Packs
  <2> QED BY <2>2 DEF TypeInv, TypeOK
<1> QED BY <1>1, <1>2, <1>3, <1>4

(* The numbers in packets of calls are naturals.                           *)
LEMMA LineNumbers ==
  ASSUME TypeInv
  PROVE  /\ Numbers(Serving(FALSE)) \in Seq(Nat) /\ Numbers(Serving(TRUE)) \in Seq(Nat)
         /\ Numbers(Waiting) \in Seq(Nat) /\ Numbers(calls) \in Seq(Nat)
         /\ NumbersOf(dealerFac) \in Packs
         /\ Numbers(reqFac) \in Seq(Nat) /\ <<Numbers(reqFac)>> \in Packs
<1>1. \A p \in Seq(Calls) : Numbers(p) \in Seq(Nat) /\ <<Numbers(p)>> \in Packs
  <2> SUFFICES ASSUME NEW p \in Seq(Calls) PROVE Numbers(p) \in Seq(Nat) /\ <<Numbers(p)>> \in Packs
    OBVIOUS
  <2>1. Numbers(p) \in Seq(Nat)
    BY NumbersSeq
  <2> QED BY <2>1, OneSeq DEF Packs
<1> QED BY <1>1, LineTypes, NumbersOfParts

(* Notifications.                                                          *)

(* notify puts its number at the end of its line; the other calls of the   *)
(* API leave it.                                                           *)
LEMMA NotifyLineApi ==
  ASSUME BrokerInv, Api
  PROVE  NotifyLine'
<1>1. /\ TypeInv /\ Line(toBackend, Numbers(Serving(FALSE)), NumbersOf(dealerFac), sentUp)
      /\ toBackend \in Nat /\ Numbers(Serving(FALSE)) \in Seq(Nat) /\ NumbersOf(dealerFac) \in Packs
      /\ sentUp \in Nat /\ dealerFac \in Seq(Seq(Calls))
  BY LineTypes, LineNumbers DEF BrokerInv, NotifyLine
<1>2. UNCHANGED <<toBackend, calls, sync>>
  BY DEF Api, Notify, Post, Request, IoSet, IoGet, AskFac, facVars, beVars
<1>3. CASE dealerFac' = dealerFac /\ sentUp' \in {sentUp, sentUp + 1}
  BY <1>1, <1>2, <1>3, LineTop DEF NotifyLine, Serving
<1>4. CASE Notify
  <2>1. /\ sentUp' = sentUp + 1 /\ sentUp + 1 \in Messages
        /\ dealerFac' = Append(dealerFac, <<MsgCall(sentUp + 1)>>)
    BY <1>1, <1>4, SystemAssumption DEF Notify
  <2>2. <<MsgCall(sentUp + 1)>> \in Seq(Calls)
    BY <2>1, SentCalls, OneSeq
  <2>3. Numbers(<<MsgCall(sentUp + 1)>>) = <<sentUp + 1>>
    BY DEF Numbers, MsgCall
  <2>4. NumbersOf(dealerFac') = Append(NumbersOf(dealerFac), <<sentUp + 1>>)
    BY <1>1, <2>1, <2>2, <2>3, NumbersOfParts
  <2>5. /\ <<sentUp + 1>> \in Seq(Nat) /\ Sorted(<<sentUp + 1>>) /\ UpTo(<<sentUp + 1>>, sentUp + 1)
        /\ \A x \in DOMAIN <<sentUp + 1>> : <<sentUp + 1>>[x] # 0 => <<sentUp + 1>>[x] > sentUp
    BY <1>1 DEF Sorted, UpTo
  <2>6. Line(toBackend, Numbers(Serving(FALSE)), Append(NumbersOf(dealerFac), <<sentUp + 1>>), sentUp + 1)
    <3>1. sentUp + 1 \in Nat /\ sentUp <= sentUp + 1
      BY <1>1
    <3> DEFINE p == <<sentUp + 1>>
               up == sentUp + 1
    <3>2. /\ p \in Seq(Nat) /\ Sorted(p) /\ UpTo(p, up)
          /\ \A x \in DOMAIN p : p[x] # 0 => p[x] > sentUp
          /\ up \in Nat /\ sentUp <= up
      BY <2>5, <3>1
    <3> HIDE DEF p, up
    <3>3. Line(toBackend, Numbers(Serving(FALSE)), Append(NumbersOf(dealerFac), p), up)
      BY <1>1, <3>2, LinePost
    <3> QED BY <3>3 DEF p, up
  <2> QED BY <1>2, <2>1, <2>4, <2>6 DEF NotifyLine, Serving
<1>5. CASE Post
  <2>1. PICK p \in Packets : dealerFac' = Append(dealerFac, p)
    BY <1>5 DEF Post
  <2>2. p \in Seq({c \in Calls : c.type # "BE_MSG"}) /\ p \in Seq(Calls)
    BY SystemAssumption, PacketCalls
  <2>3. Numbers(p) \in Seq(Nat) /\ \A x \in DOMAIN Numbers(p) : Numbers(p)[x] = 0
    <3>1. \A x \in DOMAIN p : p[x].type # "BE_MSG"
      BY <2>2
    <3> QED BY <2>2, <3>1, NumbersSeq DEF Numbers
  <2>4. Sorted(Numbers(p)) /\ UpTo(Numbers(p), sentUp)
    BY <1>1, <2>3 DEF Sorted, UpTo
  <2>5. Line(toBackend, Numbers(Serving(FALSE)), Append(NumbersOf(dealerFac), Numbers(p)), sentUp)
    <3>1. \A x \in DOMAIN Numbers(p) : Numbers(p)[x] # 0 => Numbers(p)[x] > sentUp
      BY <2>3
    <3>2. sentUp <= sentUp
      BY <1>1
    <3> QED BY <1>1, <2>3, <2>4, <3>1, <3>2, LinePost
  <2>6. NumbersOf(dealerFac') = Append(NumbersOf(dealerFac), Numbers(p))
    BY <1>1, <2>1, <2>2, NumbersOfParts
  <2>7. sentUp' = sentUp
    BY <1>5 DEF Post
  <2> QED BY <1>2, <2>5, <2>6, <2>7 DEF NotifyLine, Serving
<1> QED BY <1>3, <1>4, <1>5 DEF Api, Request, IoSet, IoGet, AskFac

(* An empty packet has no numbers.                                         *)
LEMMA NoNumbers == Numbers(<<>>) = <<>>
BY DEF Numbers

(* The end of the process, for each line.                                  *)
LEMMA LinesBreak ==
  ASSUME BrokerInv, GoDown, PipesBreak
  PROVE  NotifyLine' /\ RequestLine' /\ AnswerLine' /\ BroadcastLine'
<1>1. TypeInv /\ NotifyLine /\ RequestLine /\ AnswerLine /\ BroadcastLine
  BY DEF BrokerInv
<1>2. calls' = <<>> /\ Serving(FALSE)' = <<>> /\ Waiting' = <<>>
  BY DEF GoDown, Serving, Waiting
<1>3. UNCHANGED <<toBackend, asked, sentUp, got, toFe, pubFe, sentDown>>
  BY DEF PipesBreak
<1>4. NotifyLine'
  <2>1. PICK n \in 0 .. Len(dealerFac) : dealerFac' = SubSeq(dealerFac, n + 1, Len(dealerFac))
    BY DEF PipesBreak
  <2>2. NumbersOf(dealerFac') = SubSeq(NumbersOf(dealerFac), n + 1, Len(NumbersOf(dealerFac)))
    BY <1>1, <2>1, LineTypes, NumbersOfParts
  <2>3. Line(toBackend, <<>>, NumbersOf(dealerFac), sentUp)
    BY <1>1, LineTypes, LineNumbers, LineDrop DEF NotifyLine
  <2>4. /\ n + 1 \in 1 .. Len(NumbersOf(dealerFac)) + 1
        /\ Len(NumbersOf(dealerFac)) \in 0 .. Len(NumbersOf(dealerFac))
    BY <1>1, LineTypes, NumbersOfParts
  <2>5. Line(toBackend, <<>>, NumbersOf(dealerFac'), sentUp)
    BY <1>1, <2>2, <2>3, <2>4, LineTypes, LineNumbers, LinePart, EmptyInOrder
  <2> QED BY <1>2, <1>3, <2>5, NoNumbers DEF NotifyLine
<1>5. RequestLine'
  <2>1. Line(asked, <<>>, <<Numbers(reqFac)>>, sentUp)
    BY <1>1, LineTypes, LineNumbers, LineDrop DEF RequestLine
  <2>2. Line(asked, <<>>, <<<<>>>>, sentUp)
    BY <2>1, EmptyInOrder DEF Line
  <2>3. reqFac' = reqFac \/ reqFac' = <<>>
    BY DEF PipesBreak
  <2> QED BY <1>2, <1>3, <2>1, <2>2, <2>3, NoNumbers DEF RequestLine
<1>6. AnswerLine' /\ BroadcastLine'
  <2>1. fromBe' = <<>> /\ bcast' = <<>>
    BY DEF PipesBreak
  <2> QED BY <1>1, <1>3, <2>1, EmptyInOrder DEF AnswerLine, BroadcastLine, Line
<1> QED BY <1>4, <1>5, <1>6

(* Every step keeps the line of the notifications.                         *)
LEMMA NotifyLineStep ==
  ASSUME BrokerInv, [Next]_vars
  PROVE  NotifyLine'
<1>1. /\ TypeInv /\ Line(toBackend, Numbers(Serving(FALSE)), NumbersOf(dealerFac), sentUp)
      /\ toBackend \in Nat /\ Numbers(Serving(FALSE)) \in Seq(Nat) /\ NumbersOf(dealerFac) \in Packs
      /\ sentUp \in Nat /\ dealerFac \in Seq(Seq(Calls)) /\ calls \in Seq(Calls)
  BY LineTypes, LineNumbers DEF BrokerInv, NotifyLine
<1>2. Line(toBackend, <<>>, NumbersOf(dealerFac), sentUp)
  BY <1>1, LineDrop
<1>3. CASE UNCHANGED <<toBackend, calls, sync, dealerFac, sentUp>>
  BY <1>1, <1>3 DEF NotifyLine, Serving
<1>4. CASE Api
  BY <1>4, NotifyLineApi
<1>5. CASE FeLoop \/ LoopNotify \/ LoopBroadcast \/ Reply \/ BackendSends \/ FacRestarts \/ LoopAsk
  BY <1>3, <1>5 DEF FeLoop, TakeBroadcast, TakeNotify, LoopNotify, LoopBroadcast, Reply,
      BackendSends, FacRestarts, FacStart, LoopAsk, Ask, facVars, feVars, beVars
<1>6. CASE LoopAsync
  <2>1. /\ dealerFac # <<>> /\ dealerFac' = Tail(dealerFac) /\ Serving(FALSE)' = Head(dealerFac)
        /\ UNCHANGED <<toBackend, sentUp>>
    BY <1>6 DEF LoopAsync, TakePacket, Serving, beVars
  <2>2. Line(toBackend, Head(NumbersOf(dealerFac)), Tail(NumbersOf(dealerFac)), sentUp)
    BY <1>1, <2>1, LineTake, NumbersOfParts
  <2>3. /\ NumbersOf(dealerFac') = Tail(NumbersOf(dealerFac))
        /\ Numbers(Serving(FALSE)') = Head(NumbersOf(dealerFac))
    BY <1>1, <2>1, NumbersOfParts
  <2> QED BY <2>1, <2>2, <2>3 DEF NotifyLine
<1>7. CASE LoopSync \/ LoopAnswered
  <2>1. Serving(FALSE)' = <<>> /\ UNCHANGED <<toBackend, dealerFac, sentUp>>
    BY <1>1, <1>7 DEF LoopSync, TakePacket, LoopAnswered, BackendAnswers, TypeInv, SyncOne, Serving,
        beVars, feVars
  <2> QED BY <1>2, <2>1, NoNumbers DEF NotifyLine
<1>8. CASE LoopPassOn
  <2>1. /\ calls # <<>> /\ Head(calls).type = "BE_MSG"
        /\ Serving(FALSE) = calls /\ Serving(FALSE)' = Tail(calls)
        /\ toBackend' = Head(calls).value /\ UNCHANGED <<dealerFac, sentUp>>
    BY <1>8 DEF LoopPassOn, PassOn, IsNext, Serving, feVars
  <2>2. /\ Numbers(calls) # <<>> /\ Numbers(Tail(calls)) = Tail(Numbers(calls))
        /\ Head(Numbers(calls)) = Head(calls).value
    BY <1>1, <2>1, NumbersParts
  <2>3. Line(Head(Numbers(calls)), Tail(Numbers(calls)), NumbersOf(dealerFac), sentUp)
    BY <1>1, <2>1, <2>2, LineServe
  <2> QED BY <2>1, <2>2, <2>3 DEF NotifyLine
<1>9. CASE LoopCall
  <2>1. CASE /\ facPc' \in {"poll", "calls"} /\ PipesStay
             /\ sync' = sync
             /\ calls' = <<>> \/ (calls # <<>> /\ calls' = Tail(calls))
    <3>1. UNCHANGED <<toBackend, dealerFac, sentUp>>
      BY <2>1 DEF PipesStay, feVars, beVars
    <3>2. CASE sync \/ calls' = <<>>
      <4>1. Serving(FALSE)' = <<>>
        BY <2>1, <3>2 DEF Serving
      <4> QED BY <1>2, <3>1, <4>1, NoNumbers DEF NotifyLine
    <3>3. CASE ~sync /\ calls # <<>> /\ calls' = Tail(calls)
      <4>1. Serving(FALSE) = calls /\ Serving(FALSE)' = Tail(calls)
        BY <1>1, <2>1, <3>3 DEF Serving, TypeInv, TypeOK, FacTypeOK
      <4>2. /\ Numbers(calls) # <<>> /\ Numbers(Tail(calls)) = Tail(Numbers(calls))
        BY <1>1, <3>3, NumbersParts
      <4>3. Line(toBackend, Tail(Numbers(calls)), NumbersOf(dealerFac), sentUp)
        BY <1>1, <4>1, <4>2, LineServe
      <4> QED BY <3>1, <4>1, <4>2, <4>3 DEF NotifyLine
    <3> QED BY <2>1, <3>2, <3>3
  <2> QED BY <1>1, <1>9, <2>1, CallEnds, LinesBreak
<1>10. CASE FacStops
  BY <1>10, LinesBreak DEF FacStops
<1>11. CASE FeRestarts
  <2>1. PICK n \in 0 .. Len(dealerFac) : dealerFac' = SubSeq(dealerFac, 1, n)
    BY <1>11 DEF FeRestarts
  <2>2. NumbersOf(dealerFac') = SubSeq(NumbersOf(dealerFac), 1, n)
    BY <1>1, <2>1, NumbersOfParts
  <2>3. 1 \in 1 .. Len(NumbersOf(dealerFac)) + 1 /\ n \in 0 .. Len(NumbersOf(dealerFac))
    BY <1>1, NumbersOfParts
  <2>4. Line(toBackend, Numbers(Serving(FALSE)), NumbersOf(dealerFac'), sentUp)
    BY <1>1, <2>2, <2>3, LinePart
  <2>5. UNCHANGED <<toBackend, calls, sync, sentUp>>
    BY <1>11 DEF FeRestarts, facVars, beVars
  <2> QED BY <2>4, <2>5 DEF NotifyLine, Serving
<1>12. CASE UNCHANGED vars
  BY <1>3, <1>12 DEF vars, facVars, feVars, beVars
<1> QED BY <1>4, <1>5, <1>6, <1>7, <1>8, <1>9, <1>10, <1>11, <1>12 DEF Next, FacLoop

(* Requests.                                                               *)

(* A line of one packet.                                                   *)
LEMMA LineOne ==
  ASSUME NEW a, NEW b, NEW s, NEW top
  PROVE  Line(a, b, <<s>>, top) <=>
           /\ a <= top /\ UpTo(b, top) /\ Sorted(b) /\ Below(<<a>>, b)
           /\ UpTo(s, top) /\ Sorted(s) /\ Below(<<a>>, s) /\ Below(b, s)
<1> DEFINE q == <<s>>
<1>1. DOMAIN q = {1} /\ q[1] = s
  OBVIOUS
<1> HIDE DEF q
<1>2. \A i, j \in DOMAIN q : ~(i < j)
  BY <1>1
<1>3. Line(a, b, q, top) <=>
        /\ a <= top /\ UpTo(b, top) /\ Sorted(b) /\ Below(<<a>>, b)
        /\ UpTo(s, top) /\ Sorted(s) /\ Below(<<a>>, s) /\ Below(b, s)
  BY <1>1, <1>2 DEF Line
<1> QED BY <1>3 DEF q

(* A call joins those on their way.                                        *)
LEMMA LineLonger ==
  ASSUME NEW a \in Nat, NEW b \in Seq(Nat), NEW s \in Seq(Nat), NEW top \in Nat, NEW up \in Nat,
         NEW x \in Nat, Line(a, b, <<s>>, top), top <= up, x <= up, x # 0 => x > top
  PROVE  Line(a, b, <<Append(s, x)>>, up)
<1>1. <<s>> \in Packs
  BY OneSeq DEF Packs
<1>2. Line(a, b, <<s>>, up)
  BY <1>1, LineTop
<1>3. UpTo(s, up) /\ Sorted(s) /\ Below(<<a>>, s) /\ Below(b, s)
  BY <1>2, LineOne
<1>4. /\ <<x>> \in Seq(Nat) /\ UpTo(<<x>>, up) /\ Sorted(<<x>>)
  BY DEF UpTo, Sorted
<1>5. ASSUME NEW r \in Seq(Nat), UpTo(r, top)
      PROVE  Below(r, <<x>>)
  <2> SUFFICES ASSUME NEW i \in DOMAIN r, x # 0
               PROVE  r[i] < x
    BY DEF Below
  <2>1. r[i] \in Nat /\ r[i] <= top
    BY <1>5 DEF UpTo
  <2> QED BY <2>1
<1>6. Below(<<a>>, <<x>>) /\ Below(b, <<x>>) /\ Below(s, <<x>>)
  <2>1. a <= top /\ UpTo(b, top) /\ UpTo(s, top)
    BY LineOne
  <2>2. <<a>> \in Seq(Nat) /\ UpTo(<<a>>, top)
    BY <2>1 DEF UpTo
  <2> QED BY <1>5, <2>1, <2>2
<1>7. Append(s, x) = s \o <<x>>
  BY AppendIsConcat
<1>8. <<a>> \in Seq(Nat)
  OBVIOUS
<1>9. /\ UpTo(s \o <<x>>, up) /\ Sorted(s \o <<x>>) /\ Below(<<a>>, s \o <<x>>)
      /\ Below(b, s \o <<x>>)
  BY <1>3, <1>4, <1>6, <1>8, JoinInOrder
<1> DEFINE t == Append(s, x)
<1>10. UpTo(t, up) /\ Sorted(t) /\ Below(<<a>>, t) /\ Below(b, t)
  BY <1>7, <1>9
<1> HIDE DEF t
<1>11. Line(a, b, <<t>>, up)
  BY <1>2, <1>10, LineOne
<1> QED BY <1>11 DEF t

(* The first of them is taken.                                             *)
LEMMA LineFirst ==
  ASSUME NEW a \in Nat, NEW b \in Seq(Nat), NEW s \in Seq(Nat), NEW top \in Nat,
         Line(a, b, <<s>>, top), s # <<>>
  PROVE  Line(a, <<Head(s)>>, <<Tail(s)>>, top)
<1>1. a <= top /\ UpTo(s, top) /\ Sorted(s) /\ Below(<<a>>, s)
  BY LineOne
<1>2. <<a>> \in Seq(Nat)
  OBVIOUS
<1>3. /\ UpTo(Tail(s), top) /\ Sorted(Tail(s)) /\ Below(<<a>>, Tail(s))
      /\ Head(s) <= top /\ Below(<<Head(s)>>, Tail(s)) /\ Below(<<a>>, <<Head(s)>>)
  BY <1>1, <1>2, HeadTailInOrder
<1>4. Sorted(<<Head(s)>>) /\ UpTo(<<Head(s)>>, top)
  BY <1>3 DEF Sorted, UpTo
<1> DEFINE h == <<Head(s)>>
           t == Tail(s)
<1>5. /\ UpTo(t, top) /\ Sorted(t) /\ Below(<<a>>, t) /\ Below(h, t) /\ Below(<<a>>, h)
      /\ Sorted(h) /\ UpTo(h, top)
  BY <1>3, <1>4
<1> HIDE DEF h, t
<1>6. Line(a, h, <<t>>, top)
  BY <1>1, <1>5, LineOne
<1> QED BY <1>6 DEF h, t

(* Every step keeps the line of the requests.                              *)
LEMMA RequestLineStep ==
  ASSUME BrokerInv, [Next]_vars
  PROVE  RequestLine'
<1>1. /\ TypeInv /\ Line(asked, Numbers(Waiting), <<Numbers(reqFac)>>, sentUp)
      /\ asked \in Nat /\ Numbers(Waiting) \in Seq(Nat) /\ Numbers(reqFac) \in Seq(Nat)
      /\ <<Numbers(reqFac)>> \in Packs
      /\ sentUp \in Nat /\ reqFac \in Seq(Calls) /\ calls \in Seq(Calls)
  BY LineTypes, LineNumbers DEF BrokerInv, RequestLine
<1>2. Line(asked, <<>>, <<Numbers(reqFac)>>, sentUp)
  BY <1>1, LineDrop
<1>3. CASE UNCHANGED <<asked, facPc, calls, sync, reqFac, sentUp>>
  <2>1. Waiting' = Waiting
    BY <1>3 DEF Waiting, Serving
  <2> QED BY <1>1, <1>3, <2>1 DEF RequestLine
<1>4. CASE Api
  <2>1. Waiting' = Waiting /\ asked' = asked
    BY <1>4 DEF Api, Notify, Post, Request, IoSet, IoGet, AskFac, facVars, beVars, Waiting, Serving
  <2>2. CASE reqFac' = reqFac /\ sentUp' \in {sentUp, sentUp + 1}
    BY <1>1, <2>1, <2>2, LineTop DEF RequestLine
  <2>3. ASSUME NEW c \in Calls, reqFac' = Append(reqFac, c), NEW x \in Nat, sentUp' \in Nat,
               x = IF c.type = "BE_MSG" THEN c.value ELSE 0,
               sentUp <= sentUp', x <= sentUp', x # 0 => x > sentUp
        PROVE  RequestLine'
    <3>1. Numbers(reqFac') = Append(Numbers(reqFac), x)
      BY <1>1, <2>3, NumbersParts
    <3>2. Line(asked, Numbers(Waiting), <<Append(Numbers(reqFac), x)>>, sentUp')
      <4> DEFINE up == sentUp'
      <4>1. up \in Nat /\ sentUp <= up /\ x <= up
        BY <2>3
      <4> HIDE DEF up
      <4>2. Line(asked, Numbers(Waiting), <<Append(Numbers(reqFac), x)>>, up)
        BY <1>1, <2>3, <4>1, LineLonger
      <4> QED BY <4>2 DEF up
    <3> QED BY <2>1, <3>1, <3>2 DEF RequestLine
  <2>4. CASE Request
    <3>1. /\ sentUp' = sentUp + 1 /\ sentUp + 1 \in Messages
          /\ reqFac' = Append(reqFac, MsgCall(sentUp + 1))
      BY <1>1, <2>4, SystemAssumption DEF Request, AskFac
    <3>2. /\ MsgCall(sentUp + 1) \in Calls
          /\ MsgCall(sentUp + 1).type = "BE_MSG" /\ MsgCall(sentUp + 1).value = sentUp + 1
      BY <3>1, SentCalls DEF MsgCall
    <3> QED BY <1>1, <2>3, <3>1, <3>2
  <2>5. ASSUME NEW c \in Calls, c.type # "BE_MSG", AskFac(c), sentUp' = sentUp
        PROVE  RequestLine'
    <3>1. /\ reqFac' = Append(reqFac, c) /\ 0 \in Nat /\ sentUp' \in Nat
          /\ 0 = IF c.type = "BE_MSG" THEN c.value ELSE 0
          /\ sentUp <= sentUp' /\ 0 <= sentUp' /\ (0 # 0 => 0 > sentUp)
      BY <1>1, <2>5 DEF AskFac
    <3> QED BY <2>3, <3>1
  <2>6. CASE IoSet
    <3>1. PICK k \in Keys, v \in Values : AskFac(SetCall(k, v)) /\ sentUp' = sentUp
      BY <2>6 DEF IoSet
    <3>2. SetCall(k, v) \in Calls /\ SetCall(k, v).type # "BE_MSG"
      BY DEF SetCall, Calls
    <3> QED BY <2>5, <3>1, <3>2
  <2>7. CASE IoGet
    <3>1. PICK k \in Keys : AskFac(GetCall(k)) /\ sentUp' = sentUp
      BY <2>7 DEF IoGet
    <3>2. GetCall(k) \in Calls /\ GetCall(k).type # "BE_MSG"
      BY DEF GetCall, Calls
    <3> QED BY <2>5, <3>1, <3>2
  <2> QED BY <1>4, <2>2, <2>4, <2>6, <2>7 DEF Api, Notify, Post
<1>5. CASE FeLoop \/ LoopNotify \/ LoopBroadcast \/ Reply \/ BackendSends
  BY <1>3, <1>5 DEF FeLoop, TakeBroadcast, TakeNotify, LoopNotify, LoopBroadcast, Reply,
      BackendSends, facVars, feVars, beVars
<1>6. CASE FacRestarts
  <2>1. Waiting' = Waiting /\ UNCHANGED <<asked, reqFac, sentUp>>
    BY <1>1, <1>6 DEF FacRestarts, FacStart, Waiting, Serving, TypeInv, DownEmpty, feVars, beVars
  <2> QED BY <1>1, <2>1 DEF RequestLine
<1>7. CASE LoopSync
  <2>1. /\ reqFac # <<>> /\ reqFac' = Tail(reqFac) /\ Waiting' = <<Head(reqFac)>>
        /\ UNCHANGED <<asked, sentUp>>
    BY <1>7 DEF LoopSync, TakePacket, Waiting, Serving, beVars
  <2>2. /\ Numbers(reqFac) # <<>> /\ Numbers(Tail(reqFac)) = Tail(Numbers(reqFac))
        /\ Numbers(<<Head(reqFac)>>) = <<Head(Numbers(reqFac))>>
    BY <1>1, <2>1, NumbersParts
  <2>3. Line(asked, <<Head(Numbers(reqFac))>>, <<Tail(Numbers(reqFac))>>, sentUp)
    BY <1>1, <2>2, LineFirst
  <2> QED BY <2>1, <2>2, <2>3 DEF RequestLine
<1>8. CASE LoopAsync \/ LoopPassOn \/ LoopAnswered
  <2>1. Waiting' = <<>>
    <3>1. CASE LoopAsync \/ LoopPassOn
      BY <3>1 DEF LoopAsync, TakePacket, LoopPassOn, PassOn, Waiting, Serving
    <3>2. CASE LoopAnswered
      <4>1. calls # <<>> /\ Len(calls) <= 1 /\ calls' = Tail(calls) /\ facPc' = "calls"
        BY <1>1, <3>2 DEF LoopAnswered, BackendAnswers, TypeInv, SyncOne
      <4>2. calls' = <<>>
        BY <1>1, <4>1
      <4> QED BY <4>2 DEF Waiting, Serving
    <3> QED BY <1>8, <3>1, <3>2
  <2>2. UNCHANGED <<asked, reqFac, sentUp>>
    BY <1>8 DEF LoopAsync, LoopPassOn, LoopAnswered, feVars, beVars
  <2> QED BY <1>2, <2>1, <2>2, NoNumbers DEF RequestLine
<1>9. CASE LoopAsk
  <2>1. /\ calls # <<>> /\ Head(calls).type = "BE_MSG"
        /\ Waiting = calls /\ Waiting' = <<>>
        /\ asked' = Head(calls).value /\ UNCHANGED <<reqFac, sentUp>>
    BY <1>9 DEF LoopAsk, Ask, IsNext, Waiting, Serving, feVars
  <2>2. Numbers(calls) # <<>> /\ Head(Numbers(calls)) = Head(calls).value
    BY <1>1, <2>1, NumbersParts
  <2>3. /\ Line(Head(Numbers(calls)), Tail(Numbers(calls)), <<Numbers(reqFac)>>, sentUp)
        /\ Head(Numbers(calls)) \in Nat /\ Tail(Numbers(calls)) \in Seq(Nat)
    BY <1>1, <2>1, <2>2, LineServe, HeadTailInOrder
  <2>4. Line(Head(Numbers(calls)), <<>>, <<Numbers(reqFac)>>, sentUp)
    BY <1>1, <2>3, LineDrop
  <2> QED BY <2>1, <2>2, <2>4, NoNumbers DEF RequestLine
<1>10. CASE LoopCall
  <2>1. CASE /\ facPc' \in {"poll", "calls"} /\ PipesStay
             /\ sync' = sync
             /\ calls' = <<>> \/ (calls # <<>> /\ calls' = Tail(calls))
    <3>1. UNCHANGED <<asked, reqFac, sentUp>>
      BY <2>1 DEF PipesStay, feVars, beVars
    <3>2. CASE ~sync \/ calls' = <<>>
      <4>1. Waiting' = <<>>
        <5>1. sync' \in BOOLEAN
          BY <1>1, <2>1 DEF TypeInv, TypeOK, FacTypeOK
        <5> QED BY <2>1, <3>2, <5>1 DEF Waiting, Serving
      <4> QED BY <1>2, <3>1, <4>1, NoNumbers DEF RequestLine
    <3>3. CASE sync /\ calls # <<>> /\ calls' = Tail(calls)
      <4>1. facPc # "recv"
        BY <1>10 DEF LoopCall, ServeCall, Get, SetBadName, SetRefused, SetFails, SetDone, IsNext,
                     EndPacket
      <4>2. Waiting = calls /\ Waiting' = Tail(calls)
        BY <1>1, <2>1, <3>3, <4>1 DEF Waiting, Serving, TypeInv, TypeOK, FacTypeOK
      <4>3. Numbers(calls) # <<>> /\ Numbers(Tail(calls)) = Tail(Numbers(calls))
        BY <1>1, <3>3, NumbersParts
      <4>4. Line(asked, Tail(Numbers(calls)), <<Numbers(reqFac)>>, sentUp)
        BY <1>1, <4>2, <4>3, LineServe
      <4> QED BY <3>1, <4>2, <4>3, <4>4 DEF RequestLine
    <3> QED BY <2>1, <3>2, <3>3
  <2> QED BY <1>1, <1>10, <2>1, CallEnds, LinesBreak
<1>11. CASE FacStops
  BY <1>11, LinesBreak DEF FacStops
<1>12. CASE FeRestarts
  <2>1. Waiting' = Waiting /\ UNCHANGED <<asked, sentUp>> /\ reqFac' \in {reqFac, <<>>}
    BY <1>12 DEF FeRestarts, facVars, beVars, Waiting, Serving
  <2>2. Line(asked, Numbers(Waiting), <<<<>>>>, sentUp)
    BY <1>1, EmptyInOrder DEF Line
  <2> QED BY <1>1, <2>1, <2>2, NoNumbers DEF RequestLine
<1>13. CASE UNCHANGED vars
  BY <1>3, <1>13 DEF vars, facVars, feVars, beVars
<1> QED BY <1>4, <1>5, <1>6, <1>7, <1>8, <1>9, <1>10, <1>11, <1>12, <1>13 DEF Next, FacLoop

(* Messages of the backend.                                                *)

(* The backend's next packet.                                              *)
LEMMA NextNumbers ==
  ASSUME NEW n \in 1 .. 2, NEW top \in Nat
  PROVE  LET p == [i \in 1 .. n |-> top + i]
         IN /\ p \in Seq(Nat) /\ Sorted(p) /\ UpTo(p, top + n)
            /\ \A x \in DOMAIN p : p[x] # 0 => p[x] > top
<1> DEFINE p == [i \in 1 .. n |-> top + i]
<1>1. DOMAIN p = 1 .. n /\ (\A x \in 1 .. n : p[x] = top + x) /\ n \in Nat
  OBVIOUS
<1>2. p \in Seq(Nat)
  OBVIOUS
<1> HIDE DEF p
<1>3. Sorted(p) /\ UpTo(p, top + n) /\ \A x \in DOMAIN p : p[x] # 0 => p[x] > top
  BY <1>1 DEF Sorted, UpTo
<1> QED BY <1>2, <1>3 DEF p

(* What the backend sends adds to one of its two lines.                    *)
LEMMA LinesSent ==
  ASSUME BrokerInv, BackendSends
  PROVE  AnswerLine' /\ BroadcastLine'
<1>1. /\ TypeInv /\ Line(got["notify"], toFe, fromBe, sentDown)
      /\ Line(got["broadcast"], pubFe, bcast, sentDown)
      /\ got["notify"] \in Nat /\ got["broadcast"] \in Nat /\ toFe \in Seq(Nat) /\ pubFe \in Seq(Nat)
      /\ fromBe \in Packs /\ bcast \in Packs /\ sentDown \in Nat
  BY LineTypes DEF BrokerInv, AnswerLine, BroadcastLine
<1>2. UNCHANGED <<got, toFe, pubFe>>
  BY DEF BackendSends, feVars
<1>3. PICK n \in 1 .. 2 :
        /\ sentDown' = sentDown + n
        /\ \/ fromBe' = Append(fromBe, [i \in 1 .. n |-> sentDown + i]) /\ bcast' = bcast
           \/ bcast' = Append(bcast, [i \in 1 .. n |-> sentDown + i]) /\ fromBe' = fromBe
  BY DEF BackendSends
<1> DEFINE p == [i \in 1 .. n |-> sentDown + i]
           up == sentDown + n
<1>4. /\ p \in Seq(Nat) /\ Sorted(p) /\ UpTo(p, up) /\ \A x \in DOMAIN p : p[x] # 0 => p[x] > sentDown
  BY <1>1, NextNumbers
<1>5. up \in Nat /\ sentDown <= up
  BY <1>1
<1>6. /\ sentDown' = up
      /\ \/ fromBe' = Append(fromBe, p) /\ bcast' = bcast
         \/ bcast' = Append(bcast, p) /\ fromBe' = fromBe
  BY <1>3
<1> HIDE DEF p, up
<1>7. /\ Line(got["notify"], toFe, fromBe, up) /\ Line(got["notify"], toFe, Append(fromBe, p), up)
  BY <1>1, <1>4, <1>5, LineTop, LinePost
<1>8. /\ Line(got["broadcast"], pubFe, bcast, up) /\ Line(got["broadcast"], pubFe, Append(bcast, p), up)
  BY <1>1, <1>4, <1>5, LineTop, LinePost
<1> QED BY <1>2, <1>6, <1>7, <1>8 DEF AnswerLine, BroadcastLine

(* Every step keeps the line of the backend's messages to the app.         *)
LEMMA AnswerLineStep ==
  ASSUME BrokerInv, [Next]_vars
  PROVE  AnswerLine'
<1>1. /\ TypeInv /\ Line(got["notify"], toFe, fromBe, sentDown)
      /\ got["notify"] \in Nat /\ toFe \in Seq(Nat) /\ fromBe \in Packs /\ sentDown \in Nat
      /\ got \in [Kinds -> 0 .. MaxDown]
  BY LineTypes DEF BrokerInv, AnswerLine, TypeInv, TypeOK
<1>2. CASE UNCHANGED <<got["notify"], toFe, fromBe, sentDown>>
  BY <1>1, <1>2 DEF AnswerLine
<1>3. CASE Api \/ Reply \/ FacRestarts \/ LoopAsync \/ LoopSync \/ LoopBroadcast \/ LoopPassOn
           \/ LoopAsk \/ LoopAnswered
  BY <1>2, <1>3 DEF Api, Notify, Post, Request, IoSet, IoGet, AskFac, Reply, FacRestarts, LoopAsync,
       LoopSync, LoopBroadcast, LoopPassOn, LoopAsk, LoopAnswered, feVars, beVars
<1>4. CASE TakeBroadcast
  <2>1. got["notify"]' = got["notify"] /\ UNCHANGED <<toFe, fromBe, sentDown>>
    BY <1>1, <1>4 DEF TakeBroadcast, beVars, Kinds
  <2> QED BY <1>2, <2>1
<1>5. CASE TakeNotify
  <2>1. /\ toFe # <<>> /\ got["notify"]' = Head(toFe) /\ toFe' = Tail(toFe)
        /\ UNCHANGED <<fromBe, sentDown>>
    BY <1>1, <1>5 DEF TakeNotify, beVars, Kinds
  <2> QED BY <1>1, <2>1, LineServe DEF AnswerLine
<1>6. CASE LoopNotify
  <2> DEFINE room == IF Len(toFe) < Hwm THEN Hwm - Len(toFe) ELSE 0
             m == Head(fromBe)
             n == IF Len(m) < room THEN Len(m) ELSE room
  <2>1. /\ fromBe # <<>> /\ toFe' = toFe \o SubSeq(m, 1, n) /\ fromBe' = Tail(fromBe)
        /\ UNCHANGED <<got, sentDown>>
    BY <1>6 DEF LoopNotify
  <2>2. Len(m) \in Nat
    BY <1>1, <2>1 DEF Packs
  <2>3. n \in 0 .. Len(m)
    BY <1>1, <2>2, SystemAssumption
  <2> HIDE DEF n
  <2>4. Line(got["notify"], toFe \o SubSeq(m, 1, n), Tail(fromBe), sentDown)
    BY <1>1, <2>1, <2>3, LineJoin
  <2> QED BY <2>1, <2>4 DEF AnswerLine
<1>7. CASE BackendSends
  BY <1>7, LinesSent
<1>8. CASE LoopCall
  <2>1. CASE PipesStay
    BY <1>2, <2>1 DEF PipesStay, feVars, beVars
  <2> QED BY <1>1, <1>8, <2>1, CallEnds, LinesBreak
<1>9. CASE FacStops
  BY <1>9, LinesBreak DEF FacStops
<1>10. CASE FeRestarts
  <2>1. toFe' = <<>> /\ UNCHANGED <<got, fromBe, sentDown>>
    BY <1>10 DEF FeRestarts, beVars
  <2> QED BY <1>1, <2>1, LineDrop DEF AnswerLine
<1>11. CASE UNCHANGED vars
  BY <1>2, <1>11 DEF vars, feVars, beVars
<1> QED BY <1>3, <1>4, <1>5, <1>6, <1>7, <1>8, <1>9, <1>10, <1>11 DEF Next, FeLoop, FacLoop

(* Every step keeps the line of its broadcasts.                            *)
LEMMA BroadcastLineStep ==
  ASSUME BrokerInv, [Next]_vars
  PROVE  BroadcastLine'
<1>1. /\ TypeInv /\ Line(got["broadcast"], pubFe, bcast, sentDown)
      /\ got["broadcast"] \in Nat /\ pubFe \in Seq(Nat) /\ bcast \in Packs /\ sentDown \in Nat
      /\ got \in [Kinds -> 0 .. MaxDown]
  BY LineTypes DEF BrokerInv, BroadcastLine, TypeInv, TypeOK
<1>2. CASE UNCHANGED <<got["broadcast"], pubFe, bcast, sentDown>>
  BY <1>1, <1>2 DEF BroadcastLine
<1>3. CASE Api \/ Reply \/ FacRestarts \/ LoopAsync \/ LoopSync \/ LoopNotify \/ LoopPassOn
           \/ LoopAsk \/ LoopAnswered
  BY <1>2, <1>3 DEF Api, Notify, Post, Request, IoSet, IoGet, AskFac, Reply, FacRestarts, LoopAsync,
       LoopSync, LoopNotify, LoopPassOn, LoopAsk, LoopAnswered, feVars, beVars
<1>4. CASE TakeNotify
  <2>1. got["broadcast"]' = got["broadcast"] /\ UNCHANGED <<pubFe, bcast, sentDown>>
    BY <1>1, <1>4 DEF TakeNotify, beVars, Kinds
  <2> QED BY <1>2, <2>1
<1>5. CASE TakeBroadcast
  <2>1. /\ pubFe # <<>> /\ got["broadcast"]' = Head(pubFe) /\ pubFe' = Tail(pubFe)
        /\ UNCHANGED <<bcast, sentDown>>
    BY <1>1, <1>5 DEF TakeBroadcast, beVars, Kinds
  <2> QED BY <1>1, <2>1, LineServe DEF BroadcastLine
<1>6. CASE LoopBroadcast
  <2>1. /\ bcast # <<>> /\ bcast' = Tail(bcast) /\ UNCHANGED <<got, sentDown>>
        /\ pubFe' = Append(pubFe, Head(bcast)[1]) \/ pubFe' = pubFe
    BY <1>6 DEF LoopBroadcast
  <2> DEFINE m == Head(bcast)
  <2>2. m \in Seq(Nat) /\ m # <<>>
    BY <1>1, <2>1 DEF Packs, TypeInv, BcastFull
  <2>3. /\ Len(m) \in Nat /\ 0 \in 0 .. Len(m) /\ 1 \in 0 .. Len(m) /\ m[1] \in Nat
        /\ SubSeq(m, 1, 0) = <<>> /\ SubSeq(m, 1, 1) = <<m[1]>>
    <3> HIDE DEF m
    <3>1. Len(m) \in Nat /\ Len(m) >= 1 /\ m[1] \in Nat
      BY <2>2
    <3>2. SubSeq(m, 1, 0) = <<>>
      BY <2>2
    <3>3. SubSeq(m, 1, 1) = <<m[1]>>
      <4>1. /\ SubSeq(m, 1, 1) \in Seq(Nat) /\ Len(SubSeq(m, 1, 1)) = 1
            /\ SubSeq(m, 1, 1)[1] = m[1]
        BY <2>2, <3>1
      <4>2. /\ <<m[1]>> \in Seq(Nat) /\ Len(<<m[1]>>) = 1 /\ <<m[1]>>[1] = m[1]
        BY <3>1
      <4>3. \A i \in 1 .. 1 : SubSeq(m, 1, 1)[i] = <<m[1]>>[i]
        BY <4>1, <4>2
      <4> QED BY <4>1, <4>2, <4>3, SeqEqual
    <3> QED BY <3>1, <3>2, <3>3
  <2>4. Append(pubFe, m[1]) = pubFe \o <<m[1]>> /\ pubFe \o <<>> = pubFe
    <3> DEFINE x == m[1]
    <3>1. x \in Nat
      BY <2>3
    <3> HIDE DEF x
    <3>2. Append(pubFe, x) = pubFe \o <<x>>
      BY <1>1, <3>1, AppendIsConcat
    <3>3. pubFe \o <<>> = pubFe
      BY <1>1
    <3> QED BY <3>2, <3>3 DEF x
  <2>5. \A n \in 0 .. Len(m) : Line(got["broadcast"], pubFe \o SubSeq(m, 1, n), Tail(bcast), sentDown)
    BY <1>1, <2>1, LineJoin
  <2> HIDE DEF m
  <2>6. /\ Line(got["broadcast"], pubFe, Tail(bcast), sentDown)
        /\ Line(got["broadcast"], Append(pubFe, m[1]), Tail(bcast), sentDown)
    BY <2>3, <2>4, <2>5
  <2> QED BY <2>1, <2>6 DEF BroadcastLine, m
<1>7. CASE BackendSends
  BY <1>7, LinesSent
<1>8. CASE LoopCall
  <2>1. CASE PipesStay
    BY <1>2, <2>1 DEF PipesStay, feVars, beVars
  <2> QED BY <1>1, <1>8, <2>1, CallEnds, LinesBreak
<1>9. CASE FacStops
  BY <1>9, LinesBreak DEF FacStops
<1>10. CASE FeRestarts
  <2>1. pubFe' = <<>> /\ UNCHANGED <<got, bcast, sentDown>>
    BY <1>10 DEF FeRestarts, beVars
  <2> QED BY <1>1, <2>1, LineDrop DEF BroadcastLine
<1>11. CASE UNCHANGED vars
  BY <1>2, <1>11 DEF vars, feVars, beVars
<1> QED BY <1>3, <1>4, <1>5, <1>6, <1>7, <1>8, <1>9, <1>10, <1>11 DEF Next, FeLoop, FacLoop

-----------------------------------------------------------------------------
(* The theorems.                                                           *)

(* At first all four are empty.                                            *)
LEMMA BrokerInit == Init => BrokerInv
<1> SUFFICES ASSUME Init PROVE BrokerInv
  OBVIOUS
<1>1. /\ TypeInv /\ facPc = "poll" /\ calls = <<>> /\ dealerFac = <<>> /\ reqFac = <<>>
      /\ toFe = <<>> /\ pubFe = <<>> /\ fromBe = <<>> /\ bcast = <<>>
      /\ toBackend = 0 /\ asked = 0 /\ sentUp = 0 /\ sentDown = 0
      /\ got["notify"] = 0 /\ got["broadcast"] = 0
  BY InitTypes DEF Init, FacInit, Kinds
<1>2. Numbers(Serving(FALSE)) = <<>> /\ Numbers(Waiting) = <<>> /\ Numbers(reqFac) = <<>>
  BY <1>1, NoNumbers DEF Serving, Waiting
<1>3. NumbersOf(dealerFac) = <<>>
  BY <1>1 DEF NumbersOf
<1>4. Line(0, <<>>, <<>>, 0)
  BY EmptyInOrder DEF Line
<1>5. Line(0, <<>>, <<<<>>>>, 0)
  <2>1. UpTo(<<>>, 0) /\ Sorted(<<>>) /\ Below(<<0>>, <<>>) /\ Below(<<>>, <<>>) /\ 0 <= 0
    BY EmptyInOrder
  <2> QED BY <2>1, LineOne
<1> QED BY <1>1, <1>2, <1>3, <1>4, <1>5
        DEF BrokerInv, NotifyLine, RequestLine, AnswerLine, BroadcastLine

(* Every step keeps the invariant.                                         *)
LEMMA BrokerStep == BrokerInv /\ [Next]_vars => BrokerInv'
<1> SUFFICES ASSUME BrokerInv, [Next]_vars PROVE BrokerInv'
  OBVIOUS
<1>1. TypeInv'
  BY TypeStep DEF BrokerInv
<1> QED BY <1>1, NotifyLineStep, RequestLineStep, AnswerLineStep, BroadcastLineStep DEF BrokerInv

(* The invariant holds in every state.                                     *)
LEMMA BrokerHolds == Spec => []BrokerInv
BY BrokerInit, BrokerStep, PTL DEF Spec

(* A notification goes through dealer_fac, the loop of the partition and   *)
(* dealer_pxy at most once and in the order in which notify was called,    *)
(* for any number of them, of packets that hold other calls and of         *)
(* restarts of either process.                                             *)
THEOREM BrokerNotificationsInOrder == Spec => []NotificationsInOrder
<1>1. BrokerInv => NotificationsInOrder
  <2> SUFFICES ASSUME BrokerInv PROVE NotificationsInOrder
    OBVIOUS
  <2> QED BY LineTypes, LineNumbers, LineRising DEF BrokerInv, NotifyLine, NotificationsInOrder
<1> QED BY <1>1, BrokerHolds, PTL

(* A request goes through req_fac, the loop and req_pxy at most once.      *)
THEOREM BrokerRequestsOnce == Spec => []RequestsOnce
<1>1. BrokerInv => RequestsOnce
  <2> SUFFICES ASSUME BrokerInv PROVE RequestsOnce
    OBVIOUS
  <2> QED BY LineTypes, LineNumbers, LineRising DEF BrokerInv, RequestLine, RequestsOnce
<1> QED BY <1>1, BrokerHolds, PTL

(* The app's callback is given each of the backend's messages at most once *)
(* and in order, however many the ROUTER and PUB sockets drop and however  *)
(* the backend divides them into packets.                                  *)
THEOREM BrokerDeliveredInOrder == Spec => []DeliveredInOrder
<1>1. BrokerInv => DeliveredInOrder
  <2> SUFFICES ASSUME BrokerInv PROVE DeliveredInOrder
    OBVIOUS
  <2> QED BY LineTypes, LineRising DEF BrokerInv, AnswerLine, BroadcastLine, DeliveredInOrder
<1> QED BY <1>1, BrokerHolds, PTL
=============================================================================
