---------------------------- MODULE CreditProofs ----------------------------
(***************************************************************************)
(* No interleaving of cc3000_send with the handler gives the host a buffer *)
(* of the device that is in use.  The buffers that the messages under way  *)
(* free are a sum over the queue: what taking and appending a message does *)
(* to it is proved by least counterexamples, as induction would.           *)
(***************************************************************************)
EXTENDS InterruptDrivenProofs, WellFoundedInduction

-----------------------------------------------------------------------------
(* Sums over the messages under way.                                       *)

\* A non-empty set of natural numbers has a least element: what stands in for
\* induction below.
LEMMA LeastElement ==
    ASSUME NEW T \in SUBSET Nat, T # {}
    PROVE  \E n \in T : \A m \in T : n <= m
<1> DEFINE Less == OpToRel(<, Nat)
<1>1. IsWellFoundedOn(Less, Nat)
  BY NatLessThanWellFounded
<1>2. \A m \in Nat : \A n \in Nat : <<m, n>> \notin Less => ~ (m < n)
  BY Zenon DEF OpToRel
<1> HIDE DEF Less
<1>3. PICK n \in T : \A m \in T : <<m, n>> \notin Less
  BY <1>1, WFMin
<1>4. ASSUME NEW m \in T PROVE n <= m
  <2>1. m \in Nat /\ n \in Nat
    OBVIOUS
  <2>2. ~ (m < n)
    BY <1>2, <1>3, <2>1
  <2>3. QED
    BY <2>1, <2>2
<1>5. QED
  BY <1>4

\* The sums of the numbers d[1], d[2], ... up to n.
AreSums(f, d, n) == f = [i \in 0..n |-> IF i = 0 THEN 0 ELSE f[i - 1] + d[i]]

\* Such sums exist, whatever the numbers.
LEMMA SumsExist ==
    ASSUME NEW n \in Nat, NEW d
    PROVE  \E f : AreSums(f, d, n)
<1> DEFINE T == {k \in Nat : ~ \E f : AreSums(f, d, k)}
<1> SUFFICES ASSUME T # {} PROVE FALSE
  OBVIOUS
<1>1. PICK k \in T : \A m \in T : k <= m
  <2>1. T \in SUBSET Nat
    OBVIOUS
  <2> HIDE DEF T
  <2>2. QED
    BY <2>1, LeastElement
<1>2. CASE k = 0
  <2> DEFINE f == [i \in 0..0 |-> 0]
  <2>1. AreSums(f, d, 0)
    BY DEF AreSums
  <2>2. QED
    BY <1>2, <2>1
<1>3. CASE k # 0
  <2>1. k - 1 \in Nat /\ k - 1 \notin T
    BY <1>1, <1>3
  <2>2. PICK g : AreSums(g, d, k - 1)
    BY <2>1
  <2> DEFINE f == [i \in 0..k |-> IF i = k THEN g[k - 1] + d[k] ELSE g[i]]
  <2>3. ASSUME NEW i \in 0..k
        PROVE  f[i] = IF i = 0 THEN 0 ELSE f[i - 1] + d[i]
    <3>1. CASE i = k
      BY <1>3, <3>1
    <3>2. CASE i # k
      <4>1. i \in 0..(k - 1) /\ (i # 0 => i - 1 \in 0..k /\ i - 1 # k)
        BY <3>2
      <4>2. g[i] = IF i = 0 THEN 0 ELSE g[i - 1] + d[i]
        BY <2>2, <4>1 DEF AreSums
      <4>3. f[i] = g[i] /\ (i # 0 => f[i - 1] = g[i - 1])
        BY <3>2, <4>1
      <4>4. QED
        BY <4>2, <4>3
    <3>3. QED
      BY <3>1, <3>2
  <2>4. f = [i \in 0..k |-> f[i]]
    OBVIOUS
  <2> HIDE DEF f
  <2>5. AreSums(f, d, k)
    BY <2>3, <2>4 DEF AreSums
  <2>6. QED
    BY <2>5
<1>4. QED
  BY <1>2, <1>3

\* f goes on from f[0] by the natural numbers d[1], d[2], ... up to n.
GoesBy(f, d, n) == \A i \in 1..n : d[i] \in Nat /\ f[i] = f[i - 1] + d[i]

\* Sums of the same numbers that begin with a difference keep it.
LEMMA SumsDiffer ==
    ASSUME NEW n \in Nat, NEW c \in Nat, NEW d, NEW f, NEW g,
           f[0] = c, GoesBy(f, d, n),
           g[0] = 0, GoesBy(g, d, n)
    PROVE  \A i \in 0..n : g[i] \in Nat /\ f[i] = c + g[i]
<1> DEFINE Good(i) == g[i] \in Nat /\ f[i] = c + g[i]
           T == {i \in 0..n : ~ Good(i)}
<1> SUFFICES ASSUME T # {} PROVE FALSE
  OBVIOUS
<1>1. PICK k \in T : \A m \in T : k <= m
  <2>1. T \in SUBSET Nat
    OBVIOUS
  <2> HIDE DEF T
  <2>2. QED
    BY <2>1, LeastElement
<1>2. k # 0
  BY <1>1
<1>3. k - 1 \in 0..n /\ k \in 1..n /\ k - 1 \notin T
  BY <1>1, <1>2
<1>4. Good(k - 1)
  BY <1>3
<1>5. Good(k)
  BY <1>3, <1>4 DEF GoesBy
<1>6. QED
  BY <1>1, <1>5

\* OnTheWay is such a sum.
LEMMA OnTheWaySums ==
    ASSUME NEW msgs \in Seq(Messages)
    PROVE  \E f : /\ f[0] = 0
                  /\ \A i \in 1..Len(msgs) : f[i] = f[i - 1] + Freed(msgs[i])
                  /\ OnTheWay(msgs) = f[Len(msgs)]
<1> DEFINE n == Len(msgs)
           d == [i \in 1..n |-> Freed(msgs[i])]
           Sum(f) == f = [i \in 0..n |->
                             IF i = 0 THEN 0 ELSE f[i - 1] + Freed(msgs[i])]
           sum == CHOOSE f : Sum(f)
<1>1. n \in Nat
  BY LenProperties
<1>2. PICK f : AreSums(f, d, n)
  BY <1>1, SumsExist
<1>3. Sum(f)
  <2>1. \A i \in 0..n : i # 0 => d[i] = Freed(msgs[i])
    BY <1>1
  <2>2. \A i \in 0..n : (IF i = 0 THEN 0 ELSE f[i - 1] + d[i])
                            = (IF i = 0 THEN 0 ELSE f[i - 1] + Freed(msgs[i]))
    BY <2>1
  <2>3. f = [i \in 0..n |-> IF i = 0 THEN 0 ELSE f[i - 1] + d[i]]
    BY <1>2 DEF AreSums
  <2> HIDE DEF d, n
  <2>4. QED
    BY <2>2, <2>3
<1>4. Sum(sum)
  <2> HIDE DEF Sum
  <2>1. QED
    BY <1>3
<1>5. OnTheWay(msgs) = sum[n]
  BY DEF OnTheWay
<1>6. sum[0] = 0 /\ \A i \in 1..n : sum[i] = sum[i - 1] + Freed(msgs[i])
  <2> HIDE DEF sum
  <2>1. \A i \in 0..n : sum[i] = IF i = 0 THEN 0
                                          ELSE sum[i - 1] + Freed(msgs[i])
    BY <1>4
  <2>2. 0 \in 0..n /\ \A i \in 1..n : i \in 0..n /\ i # 0
    BY <1>1
  <2>3. QED
    BY <2>1, <2>2
<1> HIDE DEF sum
<1>7. QED
  BY <1>5, <1>6

\* What one message says is a byte.
LEMMA FreedType == \A m \in Messages : Freed(m) \in UInt8 /\ Freed(m) \in Nat
BY DEF Freed, Messages, UInt8

\* Nothing is on its way in no message, and it never counts below zero.
LEMMA OnTheWayType ==
    /\ OnTheWay(<<>>) = 0
    /\ \A msgs \in Seq(Messages) : OnTheWay(msgs) \in Nat
<1>1. ASSUME NEW msgs \in Seq(Messages) PROVE OnTheWay(msgs) \in Nat
  <2> DEFINE n == Len(msgs)
  <2>1. n \in Nat /\ \A i \in 1..n : msgs[i] \in Messages
    BY LenProperties, ElementOfSeq
  <2>2. PICK f : /\ f[0] = 0
                 /\ \A i \in 1..n : f[i] = f[i - 1] + Freed(msgs[i])
                 /\ OnTheWay(msgs) = f[n]
    BY OnTheWaySums
  <2> DEFINE d == [i \in 1..n |-> Freed(msgs[i])]
  <2>3. GoesBy(f, d, n)
    BY <2>1, <2>2, FreedType DEF GoesBy
  <2> HIDE DEF d, n
  <2>4. n \in Nat /\ 0 \in Nat /\ f[0] = 0
    BY <2>1, <2>2
  <2>5. \A i \in 0..n : f[i] \in Nat /\ f[i] = 0 + f[i]
    BY ONLY <2>3, <2>4, SumsDiffer
  <2>6. QED
    BY <2>1, <2>2, <2>5 DEF n
<1>2. OnTheWay(<<>>) = 0
  BY EmptySeq, OnTheWaySums
<1>3. QED
  BY <1>1, <1>2

\* A message that is sent adds what it says,
LEMMA AppendOnTheWay ==
    ASSUME NEW msgs \in Seq(Messages), NEW m \in Messages
    PROVE  OnTheWay(Append(msgs, m)) = OnTheWay(msgs) + Freed(m)
<1> DEFINE n == Len(msgs)
           more == Append(msgs, m)
<1>1. /\ n \in Nat /\ more \in Seq(Messages) /\ Len(more) = n + 1
      /\ more[n + 1] = m /\ \A i \in 1..n : more[i] = msgs[i]
      /\ \A i \in 1..n : msgs[i] \in Messages
  BY LenProperties, AppendProperties, ElementOfSeq
<1> HIDE DEF n, more
<1>2. PICK g : /\ g[0] = 0
               /\ \A i \in 1..n : g[i] = g[i - 1] + Freed(msgs[i])
               /\ OnTheWay(msgs) = g[n]
  BY OnTheWaySums DEF n
<1>3. PICK f : /\ f[0] = 0
               /\ \A i \in 1..(n + 1) : f[i] = f[i - 1] + Freed(more[i])
               /\ OnTheWay(more) = f[n + 1]
  BY <1>1, OnTheWaySums
<1> DEFINE d == [i \in 1..n |-> Freed(msgs[i])]
<1>4. ASSUME NEW i \in 1..n
      PROVE  d[i] \in Nat /\ f[i] = f[i - 1] + d[i] /\ g[i] = g[i - 1] + d[i]
  <2>1. more[i] = msgs[i] /\ i \in 1..(n + 1) /\ Freed(msgs[i]) \in Nat
    BY <1>1, FreedType
  <2>2. QED
    BY <1>2, <1>3, <2>1
<1> HIDE DEF d
<1>5. \A i \in 0..n : g[i] \in Nat /\ f[i] = 0 + g[i]
  <2>1. GoesBy(f, d, n) /\ GoesBy(g, d, n) /\ 0 \in Nat
    BY <1>4 DEF GoesBy
  <2>2. QED
    BY <1>1, <1>2, <1>3, <2>1, SumsDiffer
<1>6. f[n + 1] = f[n] + Freed(m)
  <2>1. n + 1 \in 1..(n + 1) /\ (n + 1) - 1 = n
    BY <1>1
  <2>2. QED
    BY <1>1, <1>3, <2>1
<1>7. f[n] = g[n]
  BY <1>1, <1>5
<1>8. QED
  BY <1>2, <1>3, <1>6, <1>7 DEF more

\* and one that is taken off the front takes it away.
LEMMA TailOnTheWay ==
    ASSUME NEW msgs \in Seq(Messages), msgs # <<>>
    PROVE  OnTheWay(msgs) = Freed(Head(msgs)) + OnTheWay(Tail(msgs))
<1> DEFINE rest == Tail(msgs)
           n == Len(rest)
<1>1. /\ n \in Nat /\ rest \in Seq(Messages) /\ Len(msgs) = n + 1
      /\ msgs[1] = Head(msgs) /\ \A i \in 1..n : rest[i] = msgs[i + 1]
      /\ \A i \in 1..n : rest[i] \in Messages
      /\ Head(msgs) \in Messages
  BY LenProperties, HeadTailProperties, ElementOfSeq
<1> HIDE DEF n, rest
<1>2. PICK g : /\ g[0] = 0
               /\ \A i \in 1..n : g[i] = g[i - 1] + Freed(rest[i])
               /\ OnTheWay(rest) = g[n]
  BY <1>1, OnTheWaySums DEF n
<1>3. PICK h : /\ h[0] = 0
               /\ \A i \in 1..(n + 1) : h[i] = h[i - 1] + Freed(msgs[i])
               /\ OnTheWay(msgs) = h[n + 1]
  BY <1>1, OnTheWaySums
<1> DEFINE d == [i \in 1..n |-> Freed(rest[i])]
           f == [i \in 0..n |-> h[i + 1]]
           c == Freed(Head(msgs))
<1>4. c \in Nat
  BY <1>1, FreedType
<1>5. f[0] = c
  <2>1. 1 \in 1..(n + 1) /\ 1 - 1 = 0 /\ 0 + 1 = 1 /\ 0 \in 0..n
    BY <1>1
  <2>2. h[1] = h[0] + c
    BY <1>1, <1>3, <2>1
  <2> HIDE DEF c
  <2>3. QED
    BY <1>3, <1>4, <2>1, <2>2
<1>6. ASSUME NEW i \in 1..n
      PROVE  d[i] \in Nat /\ f[i] = f[i - 1] + d[i] /\ g[i] = g[i - 1] + d[i]
  <2>1. /\ i + 1 \in 1..(n + 1) /\ (i + 1) - 1 = i
        /\ i \in 0..n /\ i - 1 \in 0..n /\ (i - 1) + 1 = i
    BY <1>1
  <2>2. h[i + 1] = h[i] + Freed(rest[i])
    BY <1>1, <1>3, <2>1
  <2>3. f[i] = h[i + 1] /\ f[i - 1] = h[i]
    BY <2>1
  <2>4. d[i] = Freed(rest[i]) /\ d[i] \in Nat
    BY <1>1, FreedType
  <2> HIDE DEF f, d
  <2>5. QED
    BY <1>2, <2>2, <2>3, <2>4
<1>7. f[n] = h[n + 1]
  BY <1>1
<1> HIDE DEF c, d, f
<1>8. \A i \in 0..n : g[i] \in Nat /\ f[i] = c + g[i]
  <2>1. GoesBy(f, d, n) /\ GoesBy(g, d, n)
    BY <1>6 DEF GoesBy
  <2>2. n \in Nat /\ c \in Nat /\ f[0] = c /\ g[0] = 0
    BY <1>1, <1>2, <1>4, <1>5
  <2>3. QED
    BY ONLY <2>1, <2>2, SumsDiffer
<1>9. f[n] = c + g[n]
  BY <1>1, <1>8
<1>10. QED
  BY <1>2, <1>3, <1>7, <1>9 DEF c, rest

\* If each says at most u, all of them say at most u times their number.
LEMMA OnTheWayBound ==
    ASSUME NEW msgs \in Seq(Messages), NEW u \in Nat,
           \A i \in 1..Len(msgs) : Freed(msgs[i]) <= u
    PROVE  OnTheWay(msgs) <= u * Len(msgs)
<1> DEFINE n == Len(msgs)
<1>1. n \in Nat /\ \A i \in 1..n : msgs[i] \in Messages
  BY LenProperties, ElementOfSeq
<1>2. PICK f : /\ f[0] = 0
               /\ \A i \in 1..n : f[i] = f[i - 1] + Freed(msgs[i])
               /\ OnTheWay(msgs) = f[n]
  BY OnTheWaySums
<1>3. \A i \in 1..n : Freed(msgs[i]) \in Nat /\ Freed(msgs[i]) <= u
  BY <1>1, FreedType
<1> HIDE DEF n
<1> DEFINE Good(i) == f[i] \in Nat /\ f[i] <= u * i
           T == {i \in 0..n : ~ Good(i)}
<1>4. T = {}
  <2> SUFFICES ASSUME T # {} PROVE FALSE
    OBVIOUS
  <2>1. PICK k \in T : \A m \in T : k <= m
    <3>1. T \in SUBSET Nat
      BY <1>1
    <3> HIDE DEF T
    <3>2. QED
      BY <3>1, LeastElement
  <2>2. k # 0
    BY <1>2, <2>1
  <2>3. k \in 1..n /\ k - 1 \in 0..n /\ k - 1 \notin T /\ k \in Nat
    BY <1>1, <2>1, <2>2
  <2>4. f[k - 1] \in Nat /\ f[k - 1] <= u * (k - 1)
    BY <2>3
  <2>5. u * (k - 1) + u = u * k /\ u * (k - 1) \in Int
    BY <2>3
  <2>6. f[k] = f[k - 1] + Freed(msgs[k])
    BY <1>2, <2>3
  <2>7. Freed(msgs[k]) \in Nat /\ Freed(msgs[k]) <= u
    BY <1>3, <2>3
  <2>8. Good(k)
    BY <2>4, <2>5, <2>6, <2>7
  <2>9. QED
    BY <2>1, <2>8
<1>5. n \in 0..n
  BY <1>1
<1>6. f[n] <= u * n
  BY <1>4, <1>5
<1>7. QED
  BY <1>2, <1>6 DEF n

-----------------------------------------------------------------------------
(* The credit.                                                             *)

\* The buffers the device reports to have, together with those that may be in
\* use or under way when it does, fit in the uint8 of cc3000_free_buffers.
\* (The device has a handful.  With more, the addition in the handler may wrap
\* between the load and the store of cc3000_send, which then stores too much.)
ByteRoom == \A b \in Bytes : b + UsedMax * (OutMax + 1) <= 255

\* The types of what is added.
LEMMA CreditTypes ==
    ASSUME TypeOK
    PROVE  /\ freeBuffers \in Nat /\ devUsed \in Nat /\ reg \in Nat
           /\ devUsed <= UsedMax /\ UsedMax \in Nat /\ OutMax \in Nat
           /\ devOut \in Seq(Messages) /\ Len(devOut) \in Nat
           /\ OnTheWay(devOut) \in Nat
           /\ DriverTypeOK /\ HandlerTypeOK
BY OnTheWayType, BoundsAssumption, LenProperties
   DEF TypeOK, DriverTypeOK, HandlerTypeOK, UInt8

\* Initially the host has no buffer.
LEMMA InitCreditInv == Init => CreditInv
<1> SUFFICES ASSUME Init PROVE CreditInv
  OBVIOUS
<1>1. /\ freeBuffers = 0 /\ devUsed = 0 /\ devOut = <<>> /\ pc = "off"
      /\ retbuf.byte = 0
  BY DEF Init, DriverInit, HandlerInit
<1>2. OnTheWay(devOut) = 0 /\ Len(devOut) = 0
  BY <1>1, OnTheWayType
<1>3. Credit = 0
  BY <1>1, <1>2 DEF Credit
<1>4. QED
  BY <1>1, <1>2, <1>3, BytesAssumption, BoundsAssumption DEF CreditInv

\* Steps that move no buffer.
LEMMA CreditFrame ==
    ASSUME CreditInv, UNCHANGED <<freeBuffers, devUsed, devOut, retbuf>>,
           pc' \in {"taken", "data"} <=> pc \in {"taken", "data"},
           pc' = "credit" => reg' <= freeBuffers
    PROVE  CreditInv' /\ Credit' = Credit
<1>1. Credit' = Credit
  BY DEF Credit
<1>2. QED
  BY <1>1 DEF CreditInv, Counted, Solicited

\* cc3000_send takes one buffer, and a store after the handler has added some
\* takes those too; only the number the device reports may add any.
LEMMA HostCreditInv ==
    ASSUME ByteRoom, TypeOK, CreditInv, CallerBegins \/ HostContinues
    PROVE  CreditInv' /\ (~ GetBufferSize => Credit' <= Credit)
<1> USE DEF handlerVars, counters, hostVars, intVars, devVars
<1>0. /\ freeBuffers \in Nat /\ devUsed \in Nat /\ reg \in Nat
      /\ devUsed <= UsedMax /\ UsedMax \in Nat /\ OutMax \in Nat
      /\ devOut \in Seq(Messages) /\ Len(devOut) \in Nat
      /\ OnTheWay(devOut) \in Nat
      /\ Credit \in Int /\ Credit <= Credit
  <2>1. Credit \in Int
    BY CreditTypes DEF Credit
  <2>2. QED
    BY <2>1, CreditTypes
<1>1. CASE GetBufferSize
  <2>1. /\ freeBuffers' = retbuf.byte /\ pc = "idle"
        /\ UNCHANGED <<devUsed, devOut, retbuf, pc>>
    BY <1>1 DEF GetBufferSize, CanCollect
  <2>2. retbuf.byte \in Bytes /\ retbuf.byte \in Nat
    <3>1. retbuf.byte \in Bytes
      BY DEF CreditInv
    <3>2. \A b \in Bytes : b \in Nat
      BY BytesAssumption
    <3>3. QED
      BY <3>1, <3>2
  <2>3. OnTheWay(devOut) <= UsedMax * OutMax
    <3>1. OnTheWay(devOut) <= UsedMax * Len(devOut)
      BY <1>0, OnTheWayBound DEF CreditInv, Counted
    <3>2. UsedMax * Len(devOut) <= UsedMax * OutMax
      <4>1. \A a \in Nat : \A b \in Nat : \A c \in Nat :
                b <= c => a * b <= a * c
        OBVIOUS
      <4>2. QED
        BY <1>0, <4>1 DEF CreditInv
    <3>3. UsedMax * Len(devOut) \in Int /\ UsedMax * OutMax \in Int
      BY <1>0
    <3>4. QED
      BY <1>0, <3>1, <3>2, <3>3
  <2>4. UsedMax * (OutMax + 1) = UsedMax * OutMax + UsedMax
    BY <1>0
  <2>5. UsedMax * OutMax \in Int
    BY <1>0
  <2>6. retbuf.byte + UsedMax * OutMax + UsedMax <= 255
    BY <1>0, <2>2, <2>4, <2>5 DEF ByteRoom
  <2>7. Credit' = retbuf.byte + devUsed + OnTheWay(devOut)
    BY <1>0, <2>1, <2>2 DEF Credit
  <2>8. Credit' <= 255
    BY <1>0, <2>2, <2>3, <2>5, <2>6, <2>7
  <2>9. QED
    BY <1>1, <2>1, <2>8 DEF CreditInv, Counted, Solicited
<1>2. CASE SendLoad
  BY <1>0, <1>2, CreditFrame DEF SendLoad
<1>3. CASE SendStore
  <2>1. /\ freeBuffers' = reg - 1 /\ pc = "credit" /\ pc' = "taken"
        /\ UNCHANGED <<devUsed, devOut, retbuf>>
    BY <1>3 DEF SendStore
  <2>2. Credit' <= Credit /\ Credit' \in Int
    BY <1>0, <2>1 DEF Credit, CreditInv
  <2>3. QED
    BY <1>0, <2>1, <2>2 DEF CreditInv, Counted, Solicited
<1>4. CASE SendEndFrame
  <2>1. /\ devUsed' = devUsed + 1 /\ pc = "data" /\ pc' = "idle"
        /\ UNCHANGED <<freeBuffers, devOut, retbuf>>
    BY <1>4 DEF SendEndFrame
  <2>2. Credit' = Credit
    BY <1>0, <2>1 DEF Credit
  <2>3. QED
    BY <1>0, <2>1, <2>2 DEF CreditInv, Counted, Solicited
<1>5. CASE cc3000_stop
  <2>1. /\ devUsed' = 0 /\ devOut' = <<>> /\ pc = "idle" /\ pc' = "off"
        /\ UNCHANGED <<freeBuffers, retbuf>>
    BY <1>5 DEF cc3000_stop
  <2>2. OnTheWay(devOut') = 0 /\ Len(devOut') = 0
    BY <2>1, OnTheWayType
  <2>3. Credit' <= Credit /\ Credit' \in Int
    BY <1>0, <2>1, <2>2 DEF Credit
  <2>4. QED
    BY <1>0, <2>1, <2>2, <2>3 DEF CreditInv
<1>6. CASE GetRecvBytes
  BY <1>0, <1>6, CreditFrame DEF GetRecvBytes, CanCollect
<1>7. CASE Collect
  BY <1>0, <1>7, CreditFrame DEF Collect, CanCollect
<1>8. CASE cc3000_start
  BY <1>0, <1>8, CreditFrame DEF cc3000_start
<1>9. CASE \E r \in Requests : RequestBegin(r)
  BY <1>0, <1>9, CreditFrame DEF RequestBegin
<1>10. CASE \/ RequestStartFrame \/ RequestEndFrame \/ RequestExpect
            \/ GetRecvBytesExpect \/ SendStartFrame
  BY <1>0, <1>10, CreditFrame
     DEF RequestStartFrame, RequestEndFrame, RequestExpect,
         GetRecvBytesExpect, SendStartFrame
<1>11. QED
  BY <1>1, <1>2, <1>3, <1>4, <1>5, <1>6, <1>7, <1>8, <1>9, <1>10
     DEF CallerBegins, HostContinues

\* One more message keeps the others as they are.
LEMMA AppendCounted ==
    ASSUME NEW msgs \in Seq(Messages), NEW m \in Messages, Counted(m),
           \A i \in 1..Len(msgs) : Counted(msgs[i])
    PROVE  LET more == Append(msgs, m) IN
           /\ more \in Seq(Messages) /\ Len(more) = Len(msgs) + 1
           /\ \A i \in 1..Len(more) : Counted(more[i])
           /\ OnTheWay(more) = OnTheWay(msgs) + Freed(m)
<1> DEFINE more == Append(msgs, m)
<1>1. /\ more \in Seq(Messages) /\ Len(more) = Len(msgs) + 1
      /\ \A i \in 1..Len(msgs) : more[i] = msgs[i]
      /\ more[Len(msgs) + 1] = m /\ Len(msgs) \in Nat
  BY AppendProperties, LenProperties
<1>2. OnTheWay(more) = OnTheWay(msgs) + Freed(m)
  BY AppendOnTheWay
<1> HIDE DEF more
<1>3. ASSUME NEW i \in 1..Len(more) PROVE Counted(more[i])
  <2>1. i \in 1..Len(msgs) \/ i = Len(msgs) + 1
    BY <1>1
  <2>2. QED
    BY <1>1, <2>1
<1>4. QED
  BY <1>1, <1>2, <1>3 DEF more

\* The device frees the buffers it announces as free, and its other messages
\* announce none.
LEMMA DeviceMessages ==
    ASSUME NEW byte \in Bytes
    PROVE  /\ \A c \in WireCommands :
                 /\ Reply(c, byte) \in Messages /\ Counted(Reply(c, byte))
                 /\ Freed(Reply(c, byte)) = 0
                 /\ RecvDataMessage(c, byte) \in Messages
                 /\ Counted(RecvDataMessage(c, byte))
                 /\ Freed(RecvDataMessage(c, byte)) = 0
           /\ \A op \in Opcodes \ {HCI_EVNT_DATA_UNSOL_FREE_BUFF} :
                 /\ Unsolicited(op, 0) \in Messages
                 /\ Counted(Unsolicited(op, 0))
                 /\ Freed(Unsolicited(op, 0)) = 0
<1>1. byte \in UInt8 /\ 0 \in UInt8 /\ UsedMax \in Nat /\ 0 <= UsedMax
  BY BytesAssumption, BoundsAssumption DEF UInt8
<1>2. ASSUME NEW c \in WireCommands
      PROVE  /\ c \in Commands /\ c.cmd # HCI_EVNT_DATA_UNSOL_FREE_BUFF
             /\ HCI_DATA_RECV # HCI_EVNT_DATA_UNSOL_FREE_BUFF
  BY StoredOpcodes
     DEF WireCommands, HCI_DATA_RECV, HCI_DATA_BASE,
         HCI_EVNT_DATA_UNSOL_FREE_BUFF, HCI_EVNT_UNSOL_BASE
<1>3. ASSUME NEW c \in WireCommands
      PROVE  /\ Reply(c, byte) \in Messages /\ Counted(Reply(c, byte))
             /\ Freed(Reply(c, byte)) = 0
  <2>1. Reply(c, byte) \in Messages
    BY <1>1, <1>2, MessageTypes
  <2>2. Reply(c, byte).op = c.cmd /\ Reply(c, byte).byte = byte
    BY DEF Reply, Message
  <2>3. QED
    BY <1>1, <1>2, <2>1, <2>2 DEF Counted, Freed
<1>4. ASSUME NEW c \in WireCommands
      PROVE  /\ RecvDataMessage(c, byte) \in Messages
             /\ Counted(RecvDataMessage(c, byte))
             /\ Freed(RecvDataMessage(c, byte)) = 0
  <2>1. RecvDataMessage(c, byte) \in Messages
    BY <1>1, <1>2, MessageTypes
  <2>2. /\ RecvDataMessage(c, byte).op = HCI_DATA_RECV
        /\ RecvDataMessage(c, byte).byte = byte
    BY DEF RecvDataMessage, Message
  <2>3. QED
    BY <1>1, <1>2, <2>1, <2>2 DEF Counted, Freed
<1>5. ASSUME NEW op \in Opcodes \ {HCI_EVNT_DATA_UNSOL_FREE_BUFF}
      PROVE  /\ Unsolicited(op, 0) \in Messages
             /\ Counted(Unsolicited(op, 0))
             /\ Freed(Unsolicited(op, 0)) = 0
  <2>1. Unsolicited(op, 0) \in Messages
    BY <1>1, MessageTypes
  <2>2. Unsolicited(op, 0).op = op /\ ~ Solicited(Unsolicited(op, 0))
    BY DEF Unsolicited, Message, Solicited
  <2>3. QED
    BY <1>1, <2>1, <2>2 DEF Counted, Freed
<1>6. QED
  BY <1>3, <1>4, <1>5

\* What the device does moves buffers but makes none.
LEMMA DeviceCreditInv ==
    ASSUME TypeOK, WireInv, CreditInv, DeviceSteps
    PROVE  CreditInv' /\ Credit' = Credit
<1>0. /\ freeBuffers \in Nat /\ devUsed \in Nat
      /\ devUsed <= UsedMax /\ UsedMax \in Nat /\ OutMax \in Nat
      /\ devOut \in Seq(Messages) /\ Len(devOut) \in Nat
      /\ OnTheWay(devOut) \in Nat
      /\ UNCHANGED <<freeBuffers, retbuf, pc, reg>>
      /\ \A i \in 1..Len(devOut) : Counted(devOut[i])
  BY CreditTypes, DeviceFrame DEF CreditInv, handlerVars, hostVars
<1>1. ASSUME NEW m \in Messages, Counted(m), devOut' = Append(devOut, m),
             Len(devOut) + 1 <= OutMax,
             devUsed' \in Nat, devUsed' + Freed(m) = devUsed
      PROVE  CreditInv' /\ Credit' = Credit
  <2>1. /\ Len(devOut') = Len(devOut) + 1
        /\ \A i \in 1..Len(devOut') : Counted(devOut'[i])
        /\ OnTheWay(devOut') = OnTheWay(devOut) + Freed(m)
    BY <1>0, <1>1, AppendCounted
  <2>2. Freed(m) \in Nat
    BY FreedType
  <2>3. devUsed' + OnTheWay(devOut') = devUsed + OnTheWay(devOut)
    BY <1>0, <1>1, <2>1, <2>2
  <2>4. OnTheWay(devOut') \in Nat
    BY <1>0, <2>1, <2>2
  <2>5. Credit' = Credit
    <3>1. /\ freeBuffers \in Nat /\ devUsed \in Nat /\ OnTheWay(devOut) \in Nat
          /\ devUsed' \in Nat /\ freeBuffers' = freeBuffers /\ pc' = pc
      BY <1>0, <1>1
    <3>2. QED
      BY <2>3, <2>4, <3>1 DEF Credit
  <2>6. QED
    BY <1>0, <1>1, <2>1, <2>5 DEF CreditInv, Counted, Solicited, Freed
<1>2. CASE DeviceReply
  <2> DEFINE c == Head(devCmds)
  <2>1. c \in WireCommands
    BY <1>2, HeadTailProperties DEF WireInv, DeviceReply
  <2>2. UNCHANGED devUsed /\ Len(devOut) + 2 <= OutMax
    BY <1>2 DEF DeviceReply
  <2>3. PICK byte \in Bytes :
           \/ devOut' = Append(devOut, Reply(c, byte))
           \/ \E content \in Bytes :
                 devOut' = devOut \o
                     <<Reply(c, byte), RecvDataMessage(c, content)>>
    BY <1>2 DEF DeviceReply
  <2> HIDE DEF c
  <2>4. CASE devOut' = Append(devOut, Reply(c, byte))
    BY <1>0, <1>1, <2>1, <2>2, <2>4, DeviceMessages
  <2>5. ASSUME NEW content \in Bytes,
               devOut' = devOut \o
                   <<Reply(c, byte), RecvDataMessage(c, content)>>
        PROVE  CreditInv' /\ Credit' = Credit
    <3> DEFINE r == Reply(c, byte)
               d == RecvDataMessage(c, content)
               one == Append(devOut, r)
    <3>1. /\ r \in Messages /\ Counted(r) /\ Freed(r) = 0
          /\ d \in Messages /\ Counted(d) /\ Freed(d) = 0
      BY <2>1, DeviceMessages
    <3>2. devOut' = Append(one, d)
      <4> HIDE DEF r, d
      <4>1. devOut' = devOut \o <<r, d>>
        BY <2>5 DEF r, d
      <4>2. QED
        BY <1>0, <3>1, <4>1
    <3> HIDE DEF r, d
    <3>3. /\ one \in Seq(Messages) /\ Len(one) = Len(devOut) + 1
          /\ \A i \in 1..Len(one) : Counted(one[i])
          /\ OnTheWay(one) = OnTheWay(devOut) + Freed(r)
      BY <1>0, <3>1, AppendCounted
    <3> HIDE DEF one
    <3>4. /\ Len(devOut') = Len(one) + 1
          /\ \A i \in 1..Len(devOut') : Counted(devOut'[i])
          /\ OnTheWay(devOut') = OnTheWay(one) + Freed(d)
      BY <3>1, <3>2, <3>3, AppendCounted
    <3>5. Credit' = Credit
      BY <1>0, <2>2, <3>1, <3>3, <3>4 DEF Credit
    <3>6. QED
      BY <1>0, <2>2, <3>3, <3>4, <3>5 DEF CreditInv, Counted, Solicited, Freed
  <2>6. QED
    BY <2>3, <2>4, <2>5
<1>3. ASSUME NEW n \in 1..UsedMax, DeviceFreesBuffers(n)
      PROVE  CreditInv' /\ Credit' = Credit
  <2> DEFINE m == Unsolicited(HCI_EVNT_DATA_UNSOL_FREE_BUFF, n)
  <2>1. /\ devUsed' = devUsed - n /\ n <= devUsed
        /\ Len(devOut) + 3 <= OutMax
        /\ devOut' = Append(devOut, m)
    BY <1>3 DEF DeviceFreesBuffers, CanRaise
  <2>2. n \in UInt8 /\ n \in Nat /\ n <= UsedMax
    BY BoundsAssumption DEF UInt8
  <2>3. m \in Messages
    BY <2>2, MessageTypes, NamedOpcodes
  <2>4. Freed(m) = n /\ ~ Solicited(m)
    BY DEF Freed, Unsolicited, Message, Solicited
  <2> HIDE DEF m
  <2>5. Counted(m)
    BY <2>2, <2>4 DEF Counted
  <2>6. QED
    BY <1>0, <1>1, <2>1, <2>2, <2>3, <2>4, <2>5
<1>4. ASSUME NEW move \in LinkMoves, DeviceLinkMoves(move)
      PROVE  CreditInv' /\ Credit' = Credit
  <2>1. move.op \in Opcodes \ {HCI_EVNT_DATA_UNSOL_FREE_BUFF}
    <3>1. move.op \in LinkEvents
      BY DEF LinkMoves, LinkEvents
    <3>2. QED
      BY <3>1, LinkOpcodes, NamedOpcodes
  <2>2. /\ UNCHANGED devUsed /\ Len(devOut) + 3 <= OutMax
        /\ devOut' = Append(devOut, Unsolicited(move.op, 0))
    BY <1>4 DEF DeviceLinkMoves, CanRaise
  <2>3. QED
    BY <1>0, <1>1, <2>1, <2>2, DeviceMessages, BytesAssumption
<1>5. ASSUME NEW op \in OtherEvents, DeviceRaises(op)
      PROVE  CreditInv' /\ Credit' = Credit
  <2>1. op \in Opcodes \ {HCI_EVNT_DATA_UNSOL_FREE_BUFF}
    BY OtherEventsAssumption
  <2>2. /\ UNCHANGED devUsed /\ Len(devOut) + 3 <= OutMax
        /\ devOut' = Append(devOut, Unsolicited(op, 0))
    BY <1>5 DEF DeviceRaises, CanRaise
  <2>3. QED
    BY <1>0, <1>1, <2>1, <2>2, DeviceMessages, BytesAssumption
<1>6. QED
  BY <1>2, <1>3, <1>4, <1>5 DEF DeviceSteps

\* The handler adds what a message says, and nothing is lost in the sum.
LEMMA ReceiveCreditInv ==
    ASSUME TypeOK, AnswerInv, CreditInv, Receives
    PROVE  CreditInv' /\ Credit' = Credit
<1> DEFINE m == Head(devOut)
<1>0. /\ freeBuffers \in Nat /\ devUsed \in Nat /\ reg \in Nat
      /\ devOut \in Seq(Messages) /\ Len(devOut) \in Nat /\ devOut # <<>>
      /\ devOut' = Tail(devOut) /\ OutMax \in Nat
      /\ OnTheWay(devOut) \in Nat
      /\ UNCHANGED <<devUsed, pc, reg>>
      /\ DriverTypeOK
  BY CreditTypes DEF Receives, cc3000_spi_receive, hostVars
<1>1. /\ m \in Messages /\ cc3000_event_handler(m)
      /\ m = devOut[1] /\ 1 \in 1..Len(devOut)
      /\ m.type \in {HCI_TYPE_EVENT, HCI_TYPE_DATA}
      /\ ~ Solicited(m) => m.type = HCI_TYPE_EVENT
                           /\ m.op \notin NormalEvents
      /\ Solicited(m) => m.op # HCI_EVNT_DATA_UNSOL_FREE_BUFF
      /\ Counted(m)
  <2>1. HCI_DATA_RECV # HCI_EVNT_DATA_UNSOL_FREE_BUFF
    BY DEF HCI_DATA_RECV, HCI_DATA_BASE, HCI_EVNT_DATA_UNSOL_FREE_BUFF,
           HCI_EVNT_UNSOL_BASE
  <2>2. \A op \in NormalEvents : op # HCI_EVNT_DATA_UNSOL_FREE_BUFF
    BY StoredOpcodes
  <2>3. m \in Messages /\ m = devOut[1] /\ 1 \in 1..Len(devOut)
    BY <1>0, ReceiveFacts
  <2>4. Counted(m)
    BY <2>3 DEF CreditInv
  <2>5. QED
    BY <1>0, <2>1, <2>2, <2>4, ReceiveFacts, CurFacts DEF IsReply, IsRecvData
<1>2. /\ OnTheWay(devOut) = Freed(m) + OnTheWay(devOut')
      /\ OnTheWay(devOut') \in Nat /\ Freed(m) \in Nat
      /\ Len(devOut') <= Len(devOut) /\ Len(devOut') \in Nat
      /\ \A i \in 1..Len(devOut') : Counted(devOut'[i])
  <2>1. /\ Tail(devOut) \in Seq(Messages) /\ Len(Tail(devOut)) = Len(devOut) - 1
        /\ \A i \in 1..Len(Tail(devOut)) :
              Tail(devOut)[i] = devOut[i + 1] /\ i + 1 \in 1..Len(devOut)
    BY <1>0, HeadTailProperties
  <2>2. OnTheWay(Tail(devOut)) \in Nat /\ Freed(m) \in Nat
    BY <1>1, <2>1, OnTheWayType, FreedType
  <2>3. QED
    BY <1>0, <2>1, <2>2, TailOnTheWay DEF CreditInv
<1> HIDE DEF m
<1>3. freeBuffers + Freed(m) <= 255
  BY <1>0, <1>2 DEF CreditInv, Credit
<1>4. freeBuffers' = freeBuffers + Freed(m)
  <2>1. CASE m.op = HCI_EVNT_DATA_UNSOL_FREE_BUFF
    <3>1. ~ Solicited(m) /\ m.type = HCI_TYPE_EVENT
      BY <1>1, <2>1
    <3>2. IsUnsolicited(m.op) /\ ~ IsWlanEvent(m.op)
      <4>1. /\ HCI_EVNT_DATA_UNSOL_FREE_BUFF \div HCI_EVNT_UNSOL_BASE = 1
            /\ HCI_EVNT_DATA_UNSOL_FREE_BUFF \div HCI_EVNT_WLAN_UNSOL_BASE = 0
        BY SMT DEF HCI_EVNT_DATA_UNSOL_FREE_BUFF, HCI_EVNT_UNSOL_BASE,
                   HCI_EVNT_WLAN_UNSOL_BASE
      <4>2. 1 % 2 = 1 /\ 0 % 2 = 0
        OBVIOUS
      <4>3. QED
        BY <2>1, <4>1, <4>2 DEF IsUnsolicited, IsWlanEvent, HasBit
    <3>3. freeBuffers' = (freeBuffers + m.byte) % 256
      BY <1>1, <2>1, <3>1, <3>2, SpecialRequests
         DEF cc3000_event_handler, EventMessage, DataMessage, OtherMessage,
             UnsolicitedEvent, WlanEvent, NormalEvent
    <3>4. Freed(m) = m.byte
      BY <2>1 DEF Freed
    <3>5. freeBuffers + Freed(m) \in 0..255
      <4>1. freeBuffers + Freed(m) \in Nat
        BY <1>0, <1>2
      <4>2. QED
        BY <1>3, <4>1
    <3>6. \A x \in 0..255 : x % 256 = x
      OBVIOUS
    <3>7. QED
      BY <3>3, <3>4, <3>5, <3>6
  <2>2. CASE m.op # HCI_EVNT_DATA_UNSOL_FREE_BUFF
    <3>1. UNCHANGED freeBuffers
      BY <1>1, <2>2
         DEF cc3000_event_handler, EventMessage, DataMessage, OtherMessage,
             UnsolicitedEvent, WlanEvent, NormalEvent
    <3>2. Freed(m) = 0
      BY <2>2 DEF Freed
    <3>3. QED
      BY <1>0, <3>1, <3>2
  <2>3. QED
    BY <2>1, <2>2
<1>5. Credit' = Credit
  BY <1>0, <1>2, <1>4 DEF Credit
<1>6. retbuf'.byte \in Bytes
  <2>1. CASE Solicited(m)
    <3>1. m.byte \in Bytes
      BY <1>1, <2>1 DEF Counted
    <3>2. m.type = HCI_TYPE_DATA => m.op = HCI_DATA_RECV
      BY <1>0, ReceiveFacts, <2>1, SpecialRequests DEF IsReply, IsRecvData, m
    <3>3. retbuf' = retbuf \/ retbuf'.byte = m.byte
      BY <1>1, <3>2, HandlerEffect
    <3>4. QED
      BY <3>1, <3>3 DEF CreditInv
  <2>2. CASE ~ Solicited(m)
    BY <1>1, <2>2, HandlerEffect DEF CreditInv
  <2>3. QED
    BY <2>1, <2>2
<1>7. Len(devOut') <= OutMax
  BY <1>0, <1>2 DEF CreditInv
<1>8. pc' = "credit" => reg' <= freeBuffers'
  BY <1>0, <1>2, <1>4 DEF CreditInv
<1>9. Credit' <= 255
  BY <1>5 DEF CreditInv
<1>10. QED
  BY <1>2, <1>5, <1>6, <1>7, <1>8, <1>9
     DEF CreditInv, Counted, Solicited, Freed

\* CreditInv holds in every reachable state.
LEMMA CreditInvCorrect ==
    ASSUME ByteRoom
    PROVE  Spec => [](TypeOK /\ AnswerInv /\ WireInv /\ CreditInv)
<1>1. ASSUME TypeOK, AnswerInv, WireInv, CreditInv, [Next]_vars
      PROVE  CreditInv'
  <2>1. CASE CallerBegins \/ HostContinues
    BY <1>1, <2>1, HostCreditInv
  <2>2. CASE DeviceSteps
    BY <1>1, <2>2, DeviceCreditInv
  <2>3. CASE Isr
    BY <1>1, <2>3, IsrReceives, ReceiveCreditInv
  <2>4. CASE UNCHANGED vars
    BY <1>1, <2>4, CreditFrame
       DEF CreditInv, vars, driverVars, handlerVars, hostVars, devVars
  <2>5. QED
    BY <1>1, <2>1, <2>2, <2>3, <2>4 DEF Next
<1>2. QED
  BY <1>1, InitCreditInv, AnswerInvCorrect, LinkInvCorrect, PTL DEF Spec

\* No interleaving of cc3000_send with the handler, no message and no restart
\* gives the host a buffer that the device uses or has yet to free: the load
\* and the store of cc3000_send may forget buffers but never make one.
THEOREM CreditsNeverCreatedCorrect ==
    ASSUME ByteRoom
    PROVE  Spec => CreditsNeverCreated
<1>1. ASSUME TypeOK, AnswerInv, WireInv, CreditInv, [Next]_vars, ~ GetBufferSize
      PROVE  Credit' <= Credit
  <2>0. Credit \in Int /\ Credit <= Credit
    BY <1>1, CreditTypes DEF Credit
  <2>1. CASE CallerBegins \/ HostContinues
    BY <1>1, <2>1, HostCreditInv
  <2>2. CASE DeviceSteps
    BY <1>1, <2>0, <2>2, DeviceCreditInv
  <2>3. CASE Isr
    BY <1>1, <2>0, <2>3, IsrReceives, ReceiveCreditInv
  <2>4. CASE UNCHANGED vars
    BY <2>0, <2>4
       DEF Credit, vars, driverVars, handlerVars, hostVars, devVars
  <2>5. QED
    BY <1>1, <2>1, <2>2, <2>3, <2>4 DEF Next
<1>2. ASSUME TypeOK, AnswerInv, WireInv, CreditInv, [Next]_vars
      PROVE  [~ GetBufferSize => Credit' <= Credit]_driverVars
  BY <1>1, <1>2
<1>3. QED
  BY <1>2, CreditInvCorrect, PTL DEF Spec, CreditsNeverCreated, vars
=============================================================================
