---------------------------- MODULE InputProofs ----------------------------
(***************************************************************************)
(* Proofs about the circular buffer of CBuff and about Input: buffers of   *)
(* any size, any number of devices, events and readers.                    *)
(***************************************************************************)
EXTENDS Input, WellFoundedInduction, TLAPS

-----------------------------------------------------------------------------
(* Repeated steps.                                                           *)

\* A set of naturals that is not empty has a least element.
LEMMA LeastNat ==
    ASSUME NEW S \in SUBSET Nat, S # {}
    PROVE  \E x \in S : \A y \in S : x <= y
<1>1. PICK x \in S : \A y \in S : ~ (<<y, x>> \in OpToRel(<, Nat))
  BY NatLessThanWellFounded, WFMin, Zenon
<1>2. \A y \in S : x <= y
  <2> TAKE y \in S
  <2>1. ~ (y < x)
    BY <1>1 DEF OpToRel
  <2> QED BY <2>1
<1> QED BY <1>2

\* What the first value has, and every step keeps, the last value has.
LEMMA Stays ==
    ASSUME NEW S, NEW N \in Nat, NEW f, f[0] \in S,
           \A n \in 1..N : f[n - 1] \in S => f[n] \in S
    PROVE  \A n \in 0..N : f[n] \in S
<1> DEFINE bad == {n \in 0..N : f[n] \notin S}
<1> SUFFICES ASSUME bad # {} PROVE FALSE
  OBVIOUS
<1>1. bad \in SUBSET Nat
  OBVIOUS
<1>2. PICK m \in bad : \A y \in bad : m <= y
  <2> HIDE DEF bad
  <2> QED BY <1>1, LeastNat
<1>3. m \in 1..N /\ m - 1 \in 0..N /\ ~ (m <= m - 1)
  BY <1>2
<1>4. m - 1 \notin bad
  <2> HIDE DEF bad
  <2> QED BY <1>2, <1>3
<1> QED BY <1>2, <1>3, <1>4

-----------------------------------------------------------------------------
(* The circular buffer.                                                      *)

(* The readable bytes are a sequence of b.count bytes.                       *)
LEMMA ContentsType ==
    ASSUME NEW size \in Nat \ {0}, NEW Data, NEW b \in Cbuff(size, Data)
    PROVE  /\ Contents(b) \in Seq(Data)
           /\ Len(Contents(b)) = b.count
           /\ b.begin \in 0..(size - 1) /\ b.count \in 0..size /\ b.size = size
           /\ b.buff \in [0..(size - 1) -> Data]
<1>1. /\ b.begin \in 0..(size - 1) /\ b.count \in 0..size /\ b.size = size
      /\ b.buff \in [0..(size - 1) -> Data]
  BY DEF Cbuff
<1>2. \A i \in 1..b.count : WRAP(b.begin + i - 1, b.size) \in 0..(size - 1)
  BY <1>1 DEF WRAP
<1>3. Contents(b) \in [1..b.count -> Data]
  BY <1>1, <1>2 DEF Contents
<1> QED BY <1>1, <1>3

(* cbuff_put on a buffer with room appends the byte, wherever the queue      *)
(* begins and whether or not it wraps (cbuff.c:31-40).                       *)
THEOREM PutAppends ==
    ASSUME NEW size \in Nat \ {0}, NEW Data, NEW b \in Cbuff(size, Data), NEW d \in Data,
           CanPut(b)
    PROVE  /\ Put(b, d) \in Cbuff(size, Data)
           /\ Contents(Put(b, d)) = Append(Contents(b), d)
<1> DEFINE at == WRAP(b.begin + b.count, b.size)
           c == Put(b, d)
<1>1. /\ b.begin \in 0..(size - 1) /\ b.count \in 0..size /\ b.size = size
      /\ b.buff \in [0..(size - 1) -> Data]
      /\ Contents(b) \in Seq(Data) /\ Len(Contents(b)) = b.count
  BY ContentsType
<1>2. b.count < size
  BY <1>1 DEF CanPut
<1>3. at \in 0..(size - 1)
  BY <1>1, <1>2 DEF WRAP
<1>4. c = [b EXCEPT !.buff = [b.buff EXCEPT ![at] = d], !.count = b.count + 1]
  BY DEF Put
<1>5. /\ c.begin = b.begin /\ c.count = b.count + 1 /\ c.size = size
      /\ c.buff = [b.buff EXCEPT ![at] = d]
  BY <1>1, <1>4 DEF Cbuff
<1>6. c \in Cbuff(size, Data)
  <2>1. c = [begin |-> b.begin, count |-> b.count + 1, size |-> size,
             buff |-> [b.buff EXCEPT ![at] = d]]
    BY <1>1, <1>4 DEF Cbuff
  <2>2. [b.buff EXCEPT ![at] = d] \in [0..(size - 1) -> Data]
    BY <1>1, <1>3
  <2> QED BY <2>1, <2>2, <1>1, <1>2 DEF Cbuff
<1>7. \A i \in 1..b.count : WRAP(b.begin + i - 1, size) # at
  BY <1>1, <1>2 DEF WRAP
<1>8. WRAP(b.begin + (b.count + 1) - 1, size) = at
  BY <1>1
<1>9. Contents(c) \in Seq(Data) /\ Len(Contents(c)) = b.count + 1
  BY <1>5, <1>6, ContentsType
<1>10. \A i \in 1..(b.count + 1) : Contents(c)[i] = Append(Contents(b), d)[i]
  <2> SUFFICES ASSUME NEW i \in 1..(b.count + 1)
               PROVE  Contents(c)[i] = Append(Contents(b), d)[i]
    OBVIOUS
  <2>1. Contents(c)[i] = c.buff[WRAP(b.begin + i - 1, size)]
    BY <1>5 DEF Contents
  <2>2. CASE i = b.count + 1
    BY <2>1, <2>2, <1>1, <1>3, <1>5, <1>8
  <2>3. CASE i \in 1..b.count
    <3>1. WRAP(b.begin + i - 1, size) \in 0..(size - 1)
      BY <2>3, <1>1 DEF WRAP
    <3>2. Contents(c)[i] = b.buff[WRAP(b.begin + i - 1, size)]
      BY <2>1, <2>3, <3>1, <1>1, <1>5, <1>7
    <3>3. Contents(b)[i] = b.buff[WRAP(b.begin + i - 1, size)]
      BY <2>3, <1>1 DEF Contents
    <3> QED BY <2>3, <3>2, <3>3, <1>1
  <2> QED BY <2>2, <2>3, <1>1
<1>11. Contents(c) = Append(Contents(b), d)
  <2>1. Append(Contents(b), d) \in Seq(Data) /\ Len(Append(Contents(b), d)) = b.count + 1
    BY <1>1
  <2> QED BY <1>9, <1>10, <2>1
<1> QED BY <1>6, <1>11

(* Advancing begin by one shifts every index by one.                         *)
LEMMA WrapTwice ==
    ASSUME NEW size \in Nat \ {0}, NEW begin \in 0..(size - 1), NEW i \in 1..(size - 1)
    PROVE  WRAP(WRAP(begin + 1, size) + i - 1, size) = WRAP(begin + (i + 1) - 1, size)
<1>1. CASE begin + 1 >= size
  <2>1. begin + 1 = size /\ WRAP(begin + 1, size) = 0
    BY <1>1 DEF WRAP
  <2> QED BY <2>1 DEF WRAP
<1>2. CASE begin + 1 < size
  <2>1. WRAP(begin + 1, size) = begin + 1
    BY <1>2 DEF WRAP
  <2> QED BY <2>1
<1> QED BY <1>1, <1>2

(* cbuff_get on a buffer that is not empty returns the oldest byte and takes *)
(* it out of the queue (cbuff.c:43-53).                                      *)
THEOREM GetTakesOldest ==
    ASSUME NEW size \in Nat \ {0}, NEW Data, NEW b \in Cbuff(size, Data), CanGet(b)
    PROVE  /\ Get(b) \in Cbuff(size, Data)
           /\ GetByte(b) = Head(Contents(b))
           /\ Contents(Get(b)) = Tail(Contents(b))
<1> DEFINE c == Get(b)
<1>1. /\ b.begin \in 0..(size - 1) /\ b.count \in 0..size /\ b.size = size
      /\ b.buff \in [0..(size - 1) -> Data]
      /\ Contents(b) \in Seq(Data) /\ Len(Contents(b)) = b.count
  BY ContentsType
<1>2. b.count > 0
  BY DEF CanGet
<1>3. c = [b EXCEPT !.begin = WRAP(b.begin + 1, b.size), !.count = b.count - 1]
  BY DEF Get
<1>4. WRAP(b.begin + 1, size) \in 0..(size - 1)
  BY <1>1 DEF WRAP
<1>5. /\ c.begin = WRAP(b.begin + 1, size) /\ c.count = b.count - 1
      /\ c.size = size /\ c.buff = b.buff
  BY <1>1, <1>3 DEF Cbuff
<1>6. c \in Cbuff(size, Data)
  <2>1. c = [begin |-> WRAP(b.begin + 1, size), count |-> b.count - 1, size |-> size,
             buff |-> b.buff]
    BY <1>1, <1>3 DEF Cbuff
  <2> QED BY <2>1, <1>1, <1>2, <1>4 DEF Cbuff
<1>7. GetByte(b) = Head(Contents(b))
  <2>1. Contents(b)[1] = b.buff[b.begin]
    BY <1>1, <1>2 DEF Contents, WRAP
  <2> QED BY <2>1, <1>1, <1>2 DEF GetByte
<1>8. Contents(c) \in Seq(Data) /\ Len(Contents(c)) = b.count - 1
  BY <1>5, <1>6, ContentsType
<1>9. \A i \in 1..(b.count - 1) : Contents(c)[i] = Contents(b)[i + 1]
  <2> SUFFICES ASSUME NEW i \in 1..(b.count - 1)
               PROVE  Contents(c)[i] = Contents(b)[i + 1]
    OBVIOUS
  <2>1. Contents(c)[i] = b.buff[WRAP(WRAP(b.begin + 1, size) + i - 1, size)]
    BY <1>5 DEF Contents
  <2>2. Contents(b)[i + 1] = b.buff[WRAP(b.begin + (i + 1) - 1, size)]
    BY <1>1, i + 1 \in 1..b.count DEF Contents
  <2>3. WRAP(WRAP(b.begin + 1, size) + i - 1, size) = WRAP(b.begin + (i + 1) - 1, size)
    BY <1>1, i \in 1..(size - 1), WrapTwice
  <2> QED BY <2>1, <2>2, <2>3
<1>10. Contents(c) = Tail(Contents(b))
  <2>1. /\ Tail(Contents(b)) \in Seq(Data) /\ Len(Tail(Contents(b))) = b.count - 1
        /\ \A i \in 1..(b.count - 1) : Tail(Contents(b))[i] = Contents(b)[i + 1]
    BY <1>1, <1>2
  <2> QED BY <1>8, <1>9, <2>1
<1> QED BY <1>6, <1>7, <1>10

\* The buffers that cbuff_write goes through, and those that _read of stream.c does.
Puts(w, b, data, N) ==
    w = [n \in 0..N |-> IF n = 0 THEN b ELSE Put(w[n - 1], data[n])]
LEMMA PutsExist ==
    ASSUME NEW b, NEW data, NEW N \in Nat
    PROVE  \E w : Puts(w, b, data, N)
<1> DEFINE none == {k \in Nat : ~ \E w : Puts(w, b, data, k)}
<1> SUFFICES ASSUME none # {} PROVE FALSE
  OBVIOUS
<1>1. none \in SUBSET Nat
  OBVIOUS
<1>2. PICK k \in none : \A y \in none : k <= y
  <2> HIDE DEF none
  <2> QED BY <1>1, LeastNat
<1>3. k \in Nat /\ ~ \E w : Puts(w, b, data, k)
  BY <1>2
<1>4. k # 0
  <2> SUFFICES ASSUME k = 0 PROVE FALSE
    OBVIOUS
  <2>1. Puts([n \in 0..0 |-> b], b, data, 0)
    BY DEF Puts
  <2> QED BY <1>3, <2>1
<1>5. k - 1 \in Nat /\ k - 1 \notin none
  <2>1. k - 1 \in Nat /\ ~ (k <= k - 1)
    BY <1>3, <1>4
  <2> HIDE DEF none
  <2> QED BY <1>2, <2>1
<1>6. PICK w : Puts(w, b, data, k - 1)
  BY <1>5
<1>7. PICK last : last = Put(w[k - 1], data[k])
  OBVIOUS
<1>8. PICK h : h = [n \in 0..k |-> IF n = k THEN last ELSE w[n]]
  OBVIOUS
<1>9. ASSUME NEW n \in 0..k PROVE h[n] = IF n = 0 THEN b ELSE Put(h[n - 1], data[n])
  <2>1. n # 0 => n - 1 \in 0..k /\ n - 1 # k
    BY <1>3
  <2>2. CASE n = k
    BY <1>4, <1>7, <1>8, <2>1, <2>2
  <2>3. CASE n # k
    <3>1. n \in 0..(k - 1)
      BY <1>3, <2>3
    <3>2. w[n] = IF n = 0 THEN b ELSE Put(w[n - 1], data[n])
      BY <1>6, <3>1 DEF Puts
    <3> QED BY <1>8, <2>1, <2>3, <3>2
  <2> QED BY <2>2, <2>3
<1>10. Puts(h, b, data, k)
  BY <1>8, <1>9 DEF Puts
<1> QED BY <1>3, <1>10

Gets(w, b, N) ==
    w = [n \in 0..N |-> IF n = 0 THEN b ELSE Get(w[n - 1])]
LEMMA GetsExist ==
    ASSUME NEW b, NEW N \in Nat
    PROVE  \E w : Gets(w, b, N)
<1> DEFINE none == {k \in Nat : ~ \E w : Gets(w, b, k)}
<1> SUFFICES ASSUME none # {} PROVE FALSE
  OBVIOUS
<1>1. none \in SUBSET Nat
  OBVIOUS
<1>2. PICK k \in none : \A y \in none : k <= y
  <2> HIDE DEF none
  <2> QED BY <1>1, LeastNat
<1>3. k \in Nat /\ ~ \E w : Gets(w, b, k)
  BY <1>2
<1>4. k # 0
  <2> SUFFICES ASSUME k = 0 PROVE FALSE
    OBVIOUS
  <2>1. Gets([n \in 0..0 |-> b], b, 0)
    BY DEF Gets
  <2> QED BY <1>3, <2>1
<1>5. k - 1 \in Nat /\ k - 1 \notin none
  <2>1. k - 1 \in Nat /\ ~ (k <= k - 1)
    BY <1>3, <1>4
  <2> HIDE DEF none
  <2> QED BY <1>2, <2>1
<1>6. PICK w : Gets(w, b, k - 1)
  BY <1>5
<1>7. PICK last : last = Get(w[k - 1])
  OBVIOUS
<1>8. PICK h : h = [n \in 0..k |-> IF n = k THEN last ELSE w[n]]
  OBVIOUS
<1>9. ASSUME NEW n \in 0..k PROVE h[n] = IF n = 0 THEN b ELSE Get(h[n - 1])
  <2>1. n # 0 => n - 1 \in 0..k /\ n - 1 # k
    BY <1>3
  <2>2. CASE n = k
    BY <1>4, <1>7, <1>8, <2>1, <2>2
  <2>3. CASE n # k
    <3>1. n \in 0..(k - 1)
      BY <1>3, <2>3
    <3>2. w[n] = IF n = 0 THEN b ELSE Get(w[n - 1])
      BY <1>6, <3>1 DEF Gets
    <3> QED BY <1>8, <2>1, <2>3, <3>2
  <2> QED BY <2>2, <2>3
<1>10. Gets(h, b, k)
  BY <1>8, <1>9 DEF Gets
<1> QED BY <1>3, <1>10

(* cbuff_write appends all it is given, or nothing (cbuff.c:72-84).          *)
LEMMA WriteAppends ==
    ASSUME NEW size \in Nat \ {0}, NEW Data, NEW b \in Cbuff(size, Data), NEW data \in Seq(Data),
           CanWrite(b, data), NEW y, y = Write(b, data)
    PROVE  y \in Cbuff(size, Data) /\ Contents(y) = Contents(b) \o data
<1> DEFINE N == Len(data)
           put == CHOOSE w : Puts(w, b, data, N)
           Done(x, n) == /\ x \in Cbuff(size, Data) /\ x.count = b.count + n
                         /\ Contents(x) = Contents(b) \o SubSeq(data, 1, n)
<1>1. y = put[N]
  BY DEF Write, Puts
<1>2. N \in Nat /\ Contents(b) \in Seq(Data) /\ Len(Contents(b)) = b.count /\ b.count \in 0..size /\ b.size = size
  BY ContentsType
<1>3. Puts(put, b, data, N)
  <2>1. \E w : Puts(w, b, data, N)
    BY <1>2, PutsExist
  <2> QED BY <2>1
<1> HIDE DEF put
<1>4. put[0] = b /\ \A n \in 1..N : put[n] = Put(put[n - 1], data[n])
  BY <1>2, <1>3 DEF Puts
<1>5. b.count + N <= size
  BY <1>2 DEF CanWrite
<1>6. PICK good : good = [n \in 0..N |-> IF Done(put[n], n) THEN 1 ELSE 0]
  OBVIOUS
<1>7. good[0] = 1
  <2>1. SubSeq(data, 1, 0) = <<>> /\ Contents(b) \o <<>> = Contents(b)
    BY <1>2
  <2>2. Done(b, 0)
    BY <1>2, <2>1
  <2> HIDE DEF Done
  <2> QED BY <1>2, <1>4, <1>6, <2>2
<1>8. ASSUME NEW n \in 1..N, good[n - 1] = 1 PROVE good[n] = 1
  <2>1. PICK x, z, d : x = put[n - 1] /\ z = put[n] /\ d = data[n]
    OBVIOUS
  <2>2. Done(x, n - 1)
    <3>1. n - 1 \in 0..N
      BY <1>2
    <3> HIDE DEF Done
    <3> QED BY <1>6, <1>8, <2>1, <3>1
  <2>3. z = Put(x, d) /\ d \in Data
    BY <1>4, <2>1
  <2>4. x \in Cbuff(size, Data) /\ x.count = b.count + (n - 1)
    BY <2>2
  <2>5. CanPut(x)
    <3>1. x.size = size
      BY <2>4 DEF Cbuff
    <3> QED BY <1>2, <1>5, <2>4, <3>1 DEF CanPut
  <2>6. Put(x, d) \in Cbuff(size, Data) /\ Contents(Put(x, d)) = Append(Contents(x), d)
    BY <2>3, <2>4, <2>5, PutAppends
  <2>7. z.count = b.count + n
    <3>1. Len(Contents(x)) = x.count /\ Contents(x) \in Seq(Data)
      BY <2>4, ContentsType
    <3>2. Len(Contents(z)) = z.count
      BY <2>3, <2>6, ContentsType
    <3>3. Len(Contents(z)) = Len(Contents(x)) + 1
      BY <2>3, <2>6, <3>1
    <3> QED BY <1>2, <2>4, <3>1, <3>2, <3>3
  <2>8. Append(Contents(b) \o SubSeq(data, 1, n - 1), d) = Contents(b) \o SubSeq(data, 1, n)
    <3>1. PICK a, m : a = Contents(b) /\ m = n - 1
      OBVIOUS
    <3>2. m \in 0..(N - 1) /\ n = m + 1 /\ a \in Seq(Data)
      BY <1>2, <3>1
    <3>3. Append(SubSeq(data, 1, m), data[m + 1]) = SubSeq(data, 1, m + 1)
      BY <3>2, <1>2
    <3>4. SubSeq(data, 1, m) \in Seq(Data)
      BY <3>2
    <3>5. Append(a \o SubSeq(data, 1, m), d) = a \o Append(SubSeq(data, 1, m), d)
      BY <2>3, <3>2, <3>4
    <3> QED BY <2>1, <3>1, <3>2, <3>3, <3>5
  <2>9. Contents(z) = Contents(b) \o SubSeq(data, 1, n)
    BY <2>2, <2>3, <2>6, <2>8
  <2>10. Done(z, n)
    BY <2>3, <2>6, <2>7, <2>9
  <2> HIDE DEF Done
  <2> QED BY <1>2, <1>6, <2>1, <2>10
<1>9. good[N] = 1
  <2> HIDE DEF N
  <2>1. PICK yes : yes = {1}
    OBVIOUS
  <2>2. good[0] \in yes /\ \A n \in 1..N : good[n - 1] \in yes => good[n] \in yes
    BY <1>7, <1>8, <2>1
  <2>3. \A n \in 0..N : good[n] \in yes
    BY <1>2, <2>2, Stays
  <2> QED BY <1>2, <2>1, <2>3
<1>10. Done(put[N], N)
  <2> HIDE DEF Done
  <2> QED BY <1>2, <1>6, <1>9
<1>11. SubSeq(data, 1, N) = data
  OBVIOUS
<1> QED BY <1>1, <1>10, <1>11

Lesser(n, k) == IF n <= k THEN n ELSE k
Dropped(y, b, n) == Contents(y) = SubSeq(Contents(b), n + 1, Len(Contents(b)))

(* _read of stream.c takes the oldest bytes, as many as there are up to n.   *)
LEMMA GetUpToTakes ==
    ASSUME NEW size \in Nat \ {0}, NEW Data, NEW b \in Cbuff(size, Data), NEW n \in Nat,
           NEW y, y = GetUpTo(b, n), NEW got, got = Lesser(n, b.count)
    PROVE  y \in Cbuff(size, Data) /\ y.count = b.count - got /\ Dropped(y, b, got)
<1> DEFINE left == CHOOSE w : Gets(w, b, n)
           Took(i) == IF i <= b.count THEN i ELSE b.count
           Done(x, i) == /\ x \in Cbuff(size, Data) /\ x.count = b.count - Took(i)
                         /\ Contents(x) = SubSeq(Contents(b), Took(i) + 1, Len(Contents(b)))
<1>1. y = left[n]
  BY DEF GetUpTo, Gets
<1>2. Contents(b) \in Seq(Data) /\ Len(Contents(b)) = b.count /\ b.count \in 0..size /\ b.count \in Nat
  BY ContentsType
<1>3. Gets(left, b, n)
  <2>1. \E w : Gets(w, b, n)
    BY GetsExist
  <2> QED BY <2>1
<1> HIDE DEF left
<1>4. left[0] = b /\ \A i \in 1..n : left[i] = Get(left[i - 1])
  BY <1>3 DEF Gets
<1>5. PICK good : good = [i \in 0..n |-> IF Done(left[i], i) THEN 1 ELSE 0]
  OBVIOUS
<1>6. good[0] = 1
  <2>1. Took(0) = 0 /\ SubSeq(Contents(b), 1, Len(Contents(b))) = Contents(b)
    BY <1>2
  <2>2. Done(b, 0)
    BY <1>2, <2>1
  <2> HIDE DEF Done
  <2> QED BY <1>4, <1>5, <2>2
<1>7. ASSUME NEW i \in 1..n, good[i - 1] = 1 PROVE good[i] = 1
  <2>1. PICK x, z, c, t : x = left[i - 1] /\ z = left[i] /\ c = Contents(b) /\ t = Took(i - 1)
    OBVIOUS
  <2>2. Done(x, i - 1)
    <3>1. i - 1 \in 0..n
      OBVIOUS
    <3> HIDE DEF Done
    <3> QED BY <1>5, <1>7, <2>1, <3>1
  <2>3. z = Get(x) /\ x \in Cbuff(size, Data) /\ x.count = b.count - t /\ Contents(x) = SubSeq(c, t + 1, Len(c))
    BY <1>4, <2>1, <2>2
  <2>4. t \in 0..b.count /\ c \in Seq(Data) /\ Len(c) = b.count
    BY <1>2, <2>1
  <2>5. CASE t < b.count
    <3>1. Took(i) = t + 1
      BY <1>2, <2>1, <2>5
    <3>2. CanGet(x)
      BY <1>2, <2>3, <2>4, <2>5 DEF CanGet
    <3>3. Get(x) \in Cbuff(size, Data) /\ Contents(Get(x)) = Tail(Contents(x))
      BY <2>3, <3>2, GetTakesOldest
    <3>4. Tail(SubSeq(c, t + 1, Len(c))) = SubSeq(c, (t + 1) + 1, Len(c))
      BY <1>2, <2>4, <2>5
    <3>5. Len(Contents(Get(x))) = Get(x).count
      BY <3>3, ContentsType
    <3>6. Len(SubSeq(c, (t + 1) + 1, Len(c))) = b.count - (t + 1)
      BY <1>2, <2>4, <2>5
    <3>7. Done(z, i)
      BY <2>1, <2>3, <3>1, <3>3, <3>4, <3>5, <3>6
    <3> HIDE DEF Done, Took
    <3> QED BY <1>5, <2>1, <3>7
  <2>6. CASE t = b.count
    <3>1. Took(i) = t
      BY <1>2, <2>1, <2>6
    <3>2. ~ CanGet(x)
      BY <1>2, <2>3, <2>4, <2>6 DEF CanGet
    <3>3. z = x
      BY <2>3, <3>2 DEF Get
    <3>4. Done(z, i)
      BY <2>1, <2>3, <3>1, <3>3
    <3> HIDE DEF Done, Took
    <3> QED BY <1>5, <2>1, <3>4
  <2> QED BY <1>2, <2>4, <2>5, <2>6
<1>8. good[n] = 1
  <2>1. PICK yes : yes = {1}
    OBVIOUS
  <2>2. good[0] \in yes /\ \A i \in 1..n : good[i - 1] \in yes => good[i] \in yes
    BY <1>6, <1>7, <2>1
  <2>3. \A i \in 0..n : good[i] \in yes
    BY <2>2, Stays
  <2> QED BY <2>1, <2>3
<1>9. Done(left[n], n)
  <2> HIDE DEF Done
  <2> QED BY <1>5, <1>8
<1>10. got = Took(n)
  BY DEF Lesser
<1> QED BY <1>1, <1>9, <1>10 DEF Dropped

-----------------------------------------------------------------------------
(* Events are bytes in a row.                                                *)

Size == EventLen * EventCount

\* The byte y may come after the byte x.
Follows(x, y) == IF x.part = EventLen THEN y.part = 1 ELSE y.part = x.part + 1 /\ y.event = x.event

\* The bytes v are the beginning of an event.
OneEvent(v) == \A i \in DOMAIN v : v[i].part = i /\ v[i].event = v[1].event

\* When v has been taken, the bytes c are the rest of its event and whole events.
EventsAt(c, v) ==
    /\ \A i \in 1..(Len(c) - 1) : Follows(c[i], c[i + 1])
    /\ c # <<>> => c[Len(c)].part = EventLen
    /\ c # <<>> => IF v = <<>> \/ Len(v) = EventLen THEN c[1].part = 1
                   ELSE c[1].part = Len(v) + 1 /\ c[1].event = v[1].event

LEMMA Sizes ==
    /\ Size \in Nat \ {0} /\ StreamLen \in Nat \ {0} /\ EventLen \in Nat \ {0}
    /\ MaxTyped \in Nat /\ MaxRead \in Nat /\ Idevs \in Seq(Devices) /\ Keyboard \in Devices
<1>1. EventLen \in Nat \ {0} /\ EventCount \in Nat \ {0}
  BY InputAssumption
<1>2. EventLen * EventCount \in Nat /\ EventLen * EventCount # 0
  BY <1>1
<1> QED BY <1>2, InputAssumption DEF Size

\* cbuff_get takes the next byte of the event.
LEMMA TakeByte ==
    ASSUME NEW c \in Seq(Bytes), NEW v \in Seq(Bytes), EventsAt(c, v), OneEvent(v), Len(v) < EventLen, c # <<>>
    PROVE  EventsAt(Tail(c), Append(v, Head(c))) /\ OneEvent(Append(v, Head(c)))
<1>1. PICK x, t, k, u : x = Head(c) /\ t = Tail(c) /\ k = Len(v) /\ u = Append(v, Head(c))
  OBVIOUS
<1>2. EventLen \in Nat \ {0} /\ k \in Nat /\ k < EventLen /\ Len(c) \in Nat \ {0} /\ x = c[1] /\ x \in Bytes
  BY <1>1, Sizes
<1>3. /\ t \in Seq(Bytes) /\ Len(t) = Len(c) - 1 /\ \A i \in 1..Len(t) : t[i] = c[i + 1]
  BY <1>1
<1>4. /\ u \in Seq(Bytes) /\ Len(u) = k + 1 /\ u[k + 1] = x /\ \A i \in 1..k : u[i] = v[i]
  BY <1>1, <1>2
<1>5. x.part = k + 1 /\ (k > 0 => x.event = v[1].event)
  <2>1. IF v = <<>> \/ k = EventLen THEN x.part = 1 ELSE x.part = k + 1 /\ x.event = v[1].event
    BY <1>1, <1>2 DEF EventsAt
  <2>2. v = <<>> <=> k = 0
    BY <1>1
  <2> QED BY <1>2, <2>1, <2>2
<1>6. u[1].event = x.event /\ u # <<>>
  <2>1. u # <<>>
    <3>1. Len(u) # 0
      BY <1>2, <1>4
    <3> QED BY <3>1
  <2>2. CASE k = 0
    <3>1. k + 1 = 1
      BY <2>2
    <3> QED BY <1>4, <2>1, <3>1
  <2>3. CASE k > 0
    BY <1>2, <1>4, <1>5, <2>1, <2>3
  <2> QED BY <1>2, <2>2, <2>3
<1>7. OneEvent(u)
  <2> SUFFICES ASSUME NEW i \in 1..(k + 1) PROVE u[i].part = i /\ u[i].event = u[1].event
    BY <1>2, <1>4 DEF OneEvent
  <2>1. CASE i = k + 1
    BY <1>4, <1>5, <1>6, <2>1
  <2>2. CASE i # k + 1
    <3>1. i \in 1..k /\ 1 \in 1..k /\ DOMAIN v = 1..k
      BY <1>1, <1>2, <2>2
    <3> QED BY <1>4, <3>1 DEF OneEvent
  <2> QED BY <2>1, <2>2
<1>8. \A i \in 1..(Len(t) - 1) : Follows(t[i], t[i + 1])
  <2> TAKE i \in 1..(Len(t) - 1)
  <2>1. i + 1 \in 1..(Len(c) - 1) /\ i \in 1..Len(t) /\ i + 1 \in 1..Len(t)
    BY <1>2, <1>3
  <2>2. Follows(c[i + 1], c[(i + 1) + 1])
    BY <2>1 DEF EventsAt
  <2> QED BY <1>3, <2>1, <2>2
<1>9. ASSUME t # <<>> PROVE t[Len(t)].part = EventLen
  <2>1. Len(t) \in 1..Len(t) /\ Len(t) + 1 = Len(c)
    BY <1>2, <1>3, <1>9
  <2>2. c[Len(c)].part = EventLen
    BY DEF EventsAt
  <2> QED BY <1>3, <2>1, <2>2
<1>10. ASSUME t # <<>>
       PROVE  IF u = <<>> \/ Len(u) = EventLen THEN t[1].part = 1
              ELSE t[1].part = Len(u) + 1 /\ t[1].event = u[1].event
  <2>1. 1 \in 1..Len(t) /\ 1 \in 1..(Len(c) - 1)
    BY <1>2, <1>3, <1>10
  <2>2. Follows(c[1], c[1 + 1]) /\ t[1] = c[1 + 1]
    BY <1>3, <2>1 DEF EventsAt
  <2>3. IF x.part = EventLen THEN t[1].part = 1 ELSE t[1].part = x.part + 1 /\ t[1].event = x.event
    BY <1>2, <2>2 DEF Follows
  <2> QED BY <1>4, <1>5, <1>6, <2>3
<1>11. EventsAt(t, u)
  BY <1>8, <1>9, <1>10 DEF EventsAt
<1> QED BY <1>1, <1>7, <1>11

\* An event is complete: the next byte begins another.
LEMMA EventDone ==
    ASSUME NEW c, NEW v, EventsAt(c, v), Len(v) = EventLen
    PROVE  EventsAt(c, <<>>) /\ OneEvent(<<>>)
BY DEF EventsAt, OneEvent

\* An interrupt appends a whole event.
LEMMA AddEvent ==
    ASSUME NEW c \in Seq(Bytes), EventsAt(c, <<>>), NEW e \in Events, NEW x, x = EventBytes(e)
    PROVE  x \in Seq(Bytes) /\ Len(x) = EventLen /\ EventsAt(c \o x, <<>>)
<1>1. PICK n, m, s : n = Len(c) /\ m = EventLen /\ s = c \o x
  OBVIOUS
<1>2. n \in Nat /\ m \in Nat \ {0} /\ DOMAIN c = 1..n
  BY <1>1, Sizes
<1>3. /\ x \in Seq(Bytes) /\ Len(x) = m
      /\ \A i \in 1..m : x[i].part = i /\ x[i].event = e
  <2>1. x = [i \in 1..m |-> [event |-> e, part |-> i]]
    BY <1>1 DEF EventBytes
  <2>2. \A i \in 1..m : [event |-> e, part |-> i] \in Bytes
    BY <1>1 DEF Bytes
  <2>3. x \in [1..m -> Bytes]
    BY <2>1, <2>2
  <2> QED BY <1>2, <2>1, <2>3
<1>4. /\ s \in Seq(Bytes) /\ Len(s) = n + m /\ \A i \in 1..n : s[i] = c[i]
      /\ \A i \in 1..m : s[n + i] = x[i]
  <2>1. x \in Seq(Bytes) /\ Len(x) = m
    BY <1>3
  <2>2. s = c \o x /\ n = Len(c)
    BY <1>1
  <2>3. s \in Seq(Bytes) /\ Len(s) = n + m
    <3>1. c \o x \in Seq(Bytes)
      BY <2>1
    <3>2. Len(c \o x) = Len(c) + Len(x)
      BY <2>1
    <3> QED BY <2>1, <2>2, <3>1, <3>2
  <2>4. \A i \in 1..(n + m) : s[i] = IF i <= n THEN c[i] ELSE x[i - n]
    BY <2>1, <2>2
  <2>5. \A i \in 1..n : s[i] = c[i]
    BY <1>2, <2>4
  <2>6. ASSUME NEW i \in 1..m PROVE s[n + i] = x[i]
    <3>1. n + i \in 1..(n + m) /\ ~ (n + i <= n) /\ (n + i) - n = i
      BY <1>2
    <3> QED BY <2>4, <3>1
  <2> QED BY <2>3, <2>5, <2>6
<1>5. ASSUME NEW i \in 1..((n + m) - 1) PROVE Follows(s[i], s[i + 1])
  <2>1. CASE i \in 1..(n - 1)
    <3>1. i \in 1..n /\ i + 1 \in 1..n
      BY <1>2, <2>1
    <3>2. Follows(c[i], c[i + 1])
      BY <1>1, <2>1 DEF EventsAt
    <3> QED BY <1>4, <3>1, <3>2
  <2>2. CASE i = n
    <3>1. n \in 1..n /\ 1 \in 1..m /\ c # <<>>
      BY <1>1, <1>2, <2>2
    <3>2. s[n] = c[n] /\ c[n].part = m
      BY <1>1, <1>4, <3>1 DEF EventsAt
    <3>3. s[n + 1].part = 1
      BY <1>3, <1>4, <3>1
    <3> QED BY <1>1, <2>2, <3>2, <3>3 DEF Follows
  <2>3. CASE i \in (n + 1)..((n + m) - 1)
    <3>1. PICK j : j = i - n
      OBVIOUS
    <3>2. j \in 1..m /\ j + 1 \in 1..m /\ n + j = i /\ n + (j + 1) = i + 1 /\ j # m
      BY <1>2, <2>3, <3>1
    <3>3. s[i] = x[j] /\ s[i + 1] = x[j + 1]
      BY <1>4, <3>2
    <3>4. x[j].part = j /\ x[j].event = e /\ x[j + 1].part = j + 1 /\ x[j + 1].event = e
      BY <1>3, <3>2
    <3> QED BY <1>1, <3>2, <3>3, <3>4 DEF Follows
  <2> QED BY <1>2, <2>1, <2>2, <2>3
<1>6. s # <<>> /\ s[Len(s)].part = m
  <2>1. m \in 1..m /\ n + m # 0
    BY <1>2
  <2>2. s[n + m] = x[m] /\ x[m].part = m
    BY <1>3, <1>4, <2>1
  <2> QED BY <1>4, <2>1, <2>2
<1>7. s[1].part = 1
  <2>1. CASE n = 0
    <3>1. 1 \in 1..m /\ n + 1 = 1
      BY <1>2, <2>1
    <3> QED BY <1>3, <1>4, <3>1
  <2>2. CASE n # 0
    <3>1. 1 \in 1..n /\ c # <<>>
      BY <1>1, <1>2, <2>2
    <3> QED BY <1>4, <3>1 DEF EventsAt
  <2> QED BY <2>1, <2>2
<1>8. EventsAt(s, <<>>)
  BY <1>1, <1>4, <1>5, <1>6, <1>7 DEF EventsAt
<1> QED BY <1>1, <1>3, <1>8

-----------------------------------------------------------------------------
(* Parts of cbuff_get and cbuff_put.                                         *)

\* The stores, one at a time.
Stored(y, b, d) == y = [b EXCEPT !.buff[WRAP(b.begin + b.count, b.size)] = d]
Counted(y, b, n) == y = [b EXCEPT !.count = n]
Moved(y, b) == y = [b EXCEPT !.begin = WRAP(@ + 1, b.size)]
Uncounted(z, y) == z = [y EXCEPT !.count = @ - 1]

\* The byte is stored before it is counted: nobody sees it yet.
LEMMA StoreUnseen ==
    ASSUME NEW size \in Nat \ {0}, NEW Data, NEW b \in Cbuff(size, Data), CanPut(b), NEW d \in Data,
           NEW y, Stored(y, b, d)
    PROVE  y \in Cbuff(size, Data) /\ y.count = b.count /\ Contents(y) = Contents(b) /\ b.count < size
<1>1. PICK at : at = WRAP(b.begin + b.count, b.size)
  OBVIOUS
<1>2. /\ b.begin \in 0..(size - 1) /\ b.count \in 0..size /\ b.size = size
      /\ b.buff \in [0..(size - 1) -> Data]
  BY ContentsType
<1>3. b.count < size
  BY <1>2 DEF CanPut
<1>4. at \in 0..(size - 1)
  BY <1>1, <1>2, <1>3 DEF WRAP
<1>5. y = [begin |-> b.begin, count |-> b.count, size |-> size, buff |-> [b.buff EXCEPT ![at] = d]]
  BY <1>1, <1>2 DEF Cbuff, Stored
<1>6. y \in Cbuff(size, Data)
  <2>1. [b.buff EXCEPT ![at] = d] \in [0..(size - 1) -> Data]
    BY <1>2, <1>4
  <2> QED BY <1>2, <1>5, <2>1 DEF Cbuff
<1>7. /\ y.begin = b.begin /\ y.count = b.count /\ y.size = b.size
      /\ y.buff = [b.buff EXCEPT ![at] = d]
  BY <1>2, <1>5
<1>8. \A i \in 1..b.count : WRAP(b.begin + i - 1, b.size) # at /\ WRAP(b.begin + i - 1, b.size) \in 0..(size - 1)
  BY <1>1, <1>2, <1>3 DEF WRAP
<1>9. \A i \in 1..b.count : y.buff[WRAP(b.begin + i - 1, b.size)] = b.buff[WRAP(b.begin + i - 1, b.size)]
  BY <1>2, <1>7, <1>8
<1>10. Contents(y) = Contents(b)
  BY <1>7, <1>9 DEF Contents
<1> QED BY <1>3, <1>6, <1>7, <1>10

\* When it is counted, it is the newest.
LEMMA CountMore ==
    ASSUME NEW size \in Nat \ {0}, NEW Data, NEW b \in Cbuff(size, Data), b.count < size,
           NEW y, Counted(y, b, b.count + 1)
    PROVE  /\ y \in Cbuff(size, Data) /\ y.count = b.count + 1
           /\ Len(Contents(y)) = Len(Contents(b)) + 1 /\ Len(Contents(y)) <= size
           /\ SubSeq(Contents(y), 1, Len(Contents(b))) = Contents(b)
<1>1. /\ b.begin \in 0..(size - 1) /\ b.count \in 0..size /\ b.size = size
      /\ b.buff \in [0..(size - 1) -> Data] /\ Contents(b) \in Seq(Data) /\ Len(Contents(b)) = b.count
  BY ContentsType
<1>2. y = [begin |-> b.begin, count |-> b.count + 1, size |-> size, buff |-> b.buff]
  BY <1>1 DEF Cbuff, Counted
<1>3. y \in Cbuff(size, Data)
  BY <1>1, <1>2 DEF Cbuff
<1>4. y.begin = b.begin /\ y.count = b.count + 1 /\ y.size = b.size /\ y.buff = b.buff
  BY <1>1, <1>2
<1>5. Contents(y) \in Seq(Data) /\ Len(Contents(y)) = b.count + 1
  BY <1>3, <1>4, ContentsType
<1>6. \A i \in 1..b.count : Contents(y)[i] = Contents(b)[i]
  <2> TAKE i \in 1..b.count
  <2>1. i \in 1..(b.count + 1)
    BY <1>1
  <2> QED BY <1>4, <2>1 DEF Contents
<1>7. SubSeq(Contents(y), 1, b.count) = Contents(b)
  <2>1. PICK c, e, k : c = Contents(b) /\ e = Contents(y) /\ k = b.count
    OBVIOUS
  <2>2. /\ c \in Seq(Data) /\ e \in Seq(Data) /\ k \in Nat /\ Len(c) = k /\ Len(e) = k + 1
        /\ \A i \in 1..k : e[i] = c[i]
    BY <1>1, <1>5, <1>6, <2>1
  <2>3. /\ SubSeq(e, 1, k) \in Seq(Data) /\ Len(SubSeq(e, 1, k)) = k
        /\ \A i \in 1..k : SubSeq(e, 1, k)[i] = e[i]
    BY <2>2
  <2>4. SubSeq(e, 1, k) = c
    BY <2>2, <2>3
  <2> QED BY <2>1, <2>4
<1> QED BY <1>1, <1>3, <1>4, <1>5, <1>7

\* begin is stored before count: with the count that follows it is what cbuff_get leaves.
LEMMA BeginMoved ==
    ASSUME NEW size \in Nat \ {0}, NEW Data, NEW b \in Cbuff(size, Data), CanGet(b),
           NEW y, Moved(y, b), NEW z, Uncounted(z, y)
    PROVE  y \in Cbuff(size, Data) /\ y.count = b.count /\ z = Get(b)
<1>1. /\ b.begin \in 0..(size - 1) /\ b.count \in 0..size /\ b.size = size
      /\ b.buff \in [0..(size - 1) -> Data]
  BY ContentsType
<1>2. y = [begin |-> WRAP(b.begin + 1, size), count |-> b.count, size |-> size, buff |-> b.buff]
  BY <1>1 DEF Cbuff, Moved
<1>3. WRAP(b.begin + 1, size) \in 0..(size - 1)
  BY <1>1 DEF WRAP
<1>4. y \in Cbuff(size, Data) /\ y.count = b.count
  BY <1>1, <1>2, <1>3 DEF Cbuff
<1>5. z = [begin |-> WRAP(b.begin + 1, size), count |-> b.count - 1, size |-> size, buff |-> b.buff]
  BY <1>2, <1>4 DEF Uncounted
<1>6. Get(b) = [begin |-> WRAP(b.begin + 1, size), count |-> b.count - 1, size |-> size, buff |-> b.buff]
  BY <1>1 DEF Get, Cbuff
<1> QED BY <1>4, <1>5, <1>6

-----------------------------------------------------------------------------
(* The inductive invariant, and what a step does to the queues.              *)

\* The buffer of d without the bytes that kinput_task has, and these.
Rest(d) == IF pc = "begin" /\ d = Idevs[dev] THEN Get(iev_buff[d]) ELSE Settled(d)
Taken(d) == IF d = Idevs[dev] THEN iev ELSE <<>>

InputTypes ==
    /\ iev_buff \in [Devices -> Cbuff(Size, Bytes)]
    /\ stdin \in Cbuff(StreamLen, Chars)
    /\ shift \in BOOLEAN /\ kinput_dest \in BOOLEAN /\ masked = TRUE
    /\ typed \in 0..MaxTyped
    /\ pc \in PCs /\ dev \in DOMAIN Idevs
    /\ want \in [Readers -> 0..MaxRead]
    /\ char \in Chars /\ iev \in Seq(Bytes)

LengthRight == length = stdin.count - (IF pc = "length" THEN 1 ELSE 0)

\* How much of an event kinput_task has, and how much is left for it.
AtStep ==
    /\ pc \notin {"load", "begin", "count"} => iev = <<>>
    /\ pc = "load" => Len(iev) < EventLen /\ buff.count >= EventLen - Len(iev)
    /\ pc \in {"begin", "count"} => /\ Len(iev) \in 1..EventLen /\ seen = buff.count
                                    /\ buff.count >= EventLen - Len(iev) + 1
    /\ pc = "sent" => stdin.count < StreamLen

EventsKept == OneEvent(iev) /\ \A d \in Devices : EventsAt(Contents(Rest(d)), Taken(d))

Sound == InputTypes /\ LengthRight /\ AtStep /\ EventsKept

\* A step of a queue, from q to r: nothing, bytes at the end, or bytes from the beginning.
QStep(q, r, cap) ==
    \/ r = q
    \/ Len(r) \in Len(q)..cap /\ SubSeq(r, 1, Len(q)) = q
    \/ \E n \in 1..Len(q) : r = SubSeq(q, n + 1, Len(q))
DeviceQueues == \A d \in Devices : QStep(Contents(Settled(d)), Contents(Settled(d)'), Size)
StdinQueue == QStep(Contents(stdin), Contents(stdin'), StreamLen)

LEMMA QAppend ==
    ASSUME NEW S, NEW q \in Seq(S), NEW x \in Seq(S), NEW r, r = q \o x, NEW cap \in Nat, Len(r) <= cap
    PROVE  QStep(q, r, cap)
<1>1. Len(r) = Len(q) + Len(x) /\ Len(q) \in Nat /\ Len(x) \in Nat
  OBVIOUS
<1>2. Len(r) \in Len(q)..cap
  BY <1>1
<1>3. SubSeq(r, 1, Len(q)) = q
  <2>1. r \in Seq(S) /\ \A i \in 1..Len(q) : r[i] = q[i]
    OBVIOUS
  <2>2. /\ SubSeq(r, 1, Len(q)) \in Seq(S) /\ Len(SubSeq(r, 1, Len(q))) = Len(q)
        /\ \A i \in 1..Len(q) : SubSeq(r, 1, Len(q))[i] = r[i]
    BY <1>1, <2>1
  <2> QED BY <2>1, <2>2
<1> QED BY <1>2, <1>3 DEF QStep

\* Steps that leave the buffers of the devices alone.
LEMMA SameDevices ==
    ASSUME Sound, UNCHANGED <<iev_buff, iev>>, dev' = dev \/ iev = <<>>,
           pc \notin {"begin", "count"}, pc' \notin {"begin", "count"}
    PROVE  EventsKept' /\ DeviceQueues
<1>1. OneEvent(iev') /\ iev' = iev
  BY DEF Sound, EventsKept
<1>2. ASSUME NEW d \in Devices
      PROVE  /\ Rest(d) = iev_buff[d] /\ Rest(d)' = iev_buff[d] /\ Taken(d)' = Taken(d)
             /\ Settled(d) = iev_buff[d] /\ Settled(d)' = iev_buff[d]
  BY DEF Rest, Settled, Taken
<1>3. ASSUME NEW d \in Devices PROVE EventsAt(Contents(Rest(d)), Taken(d))'
  <2>1. EventsAt(Contents(Rest(d)), Taken(d))
    BY DEF Sound, EventsKept
  <2>2. Rest(d)' = Rest(d) /\ Taken(d)' = Taken(d)
    BY <1>2
  <2> QED BY <2>1, <2>2
<1>4. EventsKept'
  BY <1>1, <1>3 DEF EventsKept
<1>5. DeviceQueues
  BY <1>2 DEF DeviceQueues, QStep
<1> QED BY <1>4, <1>5

LEMMA InitSound ==
    ASSUME ~FirstScan, Init PROVE Sound
<1>1. PICK b : b = EmptyCbuff(Size, Zero)
  OBVIOUS
<1>2. b \in Cbuff(Size, Bytes) /\ b.count = 0
  BY <1>1, Sizes DEF EmptyCbuff, Cbuff, Bytes
<1>3. iev_buff = [d \in Devices |-> b]
  BY <1>1 DEF Init, InitBuffers, Size
<1>4. NoChar \in Chars
  BY Sizes DEF NoChar, Chars
<1>5. stdin \in Cbuff(StreamLen, Chars) /\ stdin.count = 0
  BY <1>4, Sizes DEF Init, EmptyCbuff, Cbuff
<1>6. dev \in DOMAIN Idevs
  BY InputAssumption DEF Init
<1>7. InputTypes
  <2>1. iev_buff \in [Devices -> Cbuff(Size, Bytes)]
    BY <1>2, <1>3
  <2>2. shift \in BOOLEAN /\ kinput_dest \in BOOLEAN /\ masked = TRUE
    BY InputAssumption DEF Init
  <2>3. typed \in 0..MaxTyped /\ want \in [Readers -> 0..MaxRead] /\ iev \in Seq(Bytes)
    BY Sizes DEF Init
  <2>4. pc \in PCs /\ char \in Chars
    BY <1>4 DEF Init, PCs
  <2> QED BY <1>5, <1>6, <2>1, <2>2, <2>3, <2>4 DEF InputTypes
<1>8. LengthRight /\ AtStep
  BY <1>5 DEF Init, LengthRight, AtStep
<1>9. ASSUME NEW d \in Devices PROVE EventsAt(Contents(Rest(d)), Taken(d))
  <2>1. Rest(d) = b /\ Taken(d) = <<>>
    BY <1>3 DEF Init, Rest, Settled, Taken
  <2>2. Contents(b) \in Seq(Bytes) /\ Len(Contents(b)) = 0
    BY <1>2, Sizes, ContentsType
  <2>3. Contents(b) = <<>>
    BY <2>2
  <2> QED BY <2>1, <2>3 DEF EventsAt
<1>10. EventsKept
  BY <1>9 DEF EventsKept, OneEvent, Init
<1> QED BY <1>7, <1>8, <1>10 DEF Sound

-----------------------------------------------------------------------------
(* The interrupts.                                                           *)

\* Others than kinput_task run only while it sleeps.
LEMMA AsleepFacts ==
    ASSUME Sound, Preempts
    PROVE  pc = "asleep" /\ iev = <<>> /\ length = stdin.count /\ stdin.count \in 0..StreamLen
<1>1. pc = "asleep" /\ stdin \in Cbuff(StreamLen, Chars)
  BY DEF Sound, Preempts, InputTypes
<1>2. stdin.count \in 0..StreamLen
  BY <1>1, Sizes, ContentsType
<1>3. length = stdin.count
  BY <1>1, <1>2, Sizes DEF Sound, LengthRight
<1>4. iev = <<>>
  BY <1>1 DEF Sound, AtStep
<1> QED BY <1>1, <1>2, <1>3, <1>4

\* Steps that leave stdin and kinput_task alone.
LEMMA SameStdin ==
    ASSUME Sound, pc = "asleep", UNCHANGED <<stdin, length, pc, iev>>
    PROVE  LengthRight' /\ AtStep' /\ StdinQueue
<1>1. LengthRight'
  BY DEF Sound, LengthRight
<1>2. AtStep'
  BY DEF Sound, AtStep
<1>3. StdinQueue
  BY DEF StdinQueue, QStep
<1> QED BY <1>1, <1>2, <1>3

LEMMA HandleKeeps ==
    ASSUME Sound, NEW d \in Devices, NEW data \in Codes(Keyboard) \cup {"byte", "backspace"}, Handle(d, data),
           shift' \in BOOLEAN
    PROVE  Sound' /\ DeviceQueues /\ StdinQueue
<1>1. pc = "asleep" /\ iev = <<>> /\ length = stdin.count
  BY AsleepFacts DEF Handle
<1>2. /\ UNCHANGED <<kinput_dest, stdin, length, pc, dev, iev, seen, char, masked, want>>
      /\ typed < MaxTyped /\ typed' = typed + 1
  BY DEF Handle, kvars
<1>3. PICK b, e, x, y : b = iev_buff[d] /\ e = [n |-> typed + 1, data |-> data] /\ x = EventBytes(e) /\ y = Write(b, x)
  OBVIOUS
<1>4. iev_buff' = [iev_buff EXCEPT ![d] = y] /\ iev_buff \in [Devices -> Cbuff(Size, Bytes)]
  BY <1>3 DEF Handle, Sound, InputTypes
<1>5. b \in Cbuff(Size, Bytes) /\ iev_buff'[d] = y /\ \A f \in Devices : f # d => iev_buff'[f] = iev_buff[f]
  BY <1>3, <1>4
<1>6. e \in Events /\ typed' \in 0..MaxTyped
  <2>1. typed \in 0..MaxTyped
    BY DEF Sound, InputTypes
  <2>2. typed + 1 \in 1..MaxTyped
    BY <1>2, <2>1, Sizes
  <2> QED BY <1>2, <1>3, <2>2 DEF Events
<1>7. ASSUME NEW f \in Devices
      PROVE  /\ Rest(f) = iev_buff[f] /\ Settled(f) = iev_buff[f] /\ Taken(f) = <<>>
             /\ Rest(f)' = iev_buff'[f] /\ Settled(f)' = iev_buff'[f] /\ Taken(f)' = <<>>
  BY <1>1, <1>2 DEF Rest, Settled, Taken
<1>8. EventsAt(Contents(b), <<>>)
  <2>1. EventsAt(Contents(Rest(d)), Taken(d))
    BY DEF Sound, EventsKept
  <2>2. Rest(d) = b /\ Taken(d) = <<>>
    BY <1>3, <1>7
  <2> QED BY <2>1, <2>2
<1>9. Contents(b) \in Seq(Bytes) /\ Len(Contents(b)) = b.count /\ b.count \in Nat /\ b.size = Size
  BY <1>5, Sizes, ContentsType
<1>10. x \in Seq(Bytes) /\ Len(x) = EventLen /\ EventsAt(Contents(b) \o x, <<>>)
  BY <1>3, <1>6, <1>8, <1>9, AddEvent
<1>11. y \in Cbuff(Size, Bytes) /\ EventsAt(Contents(y), <<>>) /\ QStep(Contents(b), Contents(y), Size)
  <2>1. CASE CanWrite(b, x)
    <3>1. y \in Cbuff(Size, Bytes) /\ Contents(y) = Contents(b) \o x
      <4>1. y = Write(b, x)
        BY <1>3
      <4> QED BY <1>5, <1>10, <2>1, <4>1, Sizes, WriteAppends
    <3>2. Len(Contents(y)) <= Size /\ Size \in Nat
      BY <3>1, Sizes, ContentsType
    <3>3. QStep(Contents(b), Contents(y), Size)
      <4>1. PICK q, r : q = Contents(b) /\ r = Contents(y)
        OBVIOUS
      <4>2. q \in Seq(Bytes) /\ x \in Seq(Bytes) /\ r = q \o x /\ Len(r) <= Size /\ Size \in Nat
        BY <1>9, <1>10, <3>1, <3>2, <4>1
      <4>3. QStep(q, r, Size)
        BY <4>2, QAppend
      <4> QED BY <4>1, <4>3
    <3> QED BY <1>10, <3>1, <3>3
  <2>2. CASE ~ CanWrite(b, x)
    <3>1. y = b
      BY <1>3, <2>2 DEF Write
    <3> QED BY <1>5, <1>8, <3>1 DEF QStep
  <2> QED BY <2>1, <2>2
<1>12. ASSUME NEW f \in Devices
       PROVE  EventsAt(Contents(Rest(f)), Taken(f))' /\ QStep(Contents(Settled(f)), Contents(Settled(f)'), Size)
  <2>1. CASE f = d
    <3>1. Rest(f)' = y /\ Taken(f)' = <<>> /\ Settled(f)' = y /\ Settled(f) = b
      BY <1>3, <1>5, <1>7, <2>1
    <3> QED BY <1>11, <3>1
  <2>2. CASE f # d
    <3>1. EventsAt(Contents(Rest(f)), Taken(f))
      BY DEF Sound, EventsKept
    <3>2. Rest(f)' = Rest(f) /\ Taken(f)' = Taken(f) /\ Settled(f)' = Settled(f)
      BY <1>5, <1>7, <2>2
    <3> QED BY <3>1, <3>2 DEF QStep
  <2> QED BY <2>1, <2>2
<1>13. EventsKept' /\ DeviceQueues
  <2>1. OneEvent(iev')
    BY <1>2 DEF Sound, EventsKept
  <2> QED BY <1>12, <2>1 DEF EventsKept, DeviceQueues
<1>14. InputTypes'
  <2>1. iev_buff' \in [Devices -> Cbuff(Size, Bytes)]
    BY <1>4, <1>11
  <2> QED BY <1>2, <1>6, <2>1 DEF Sound, InputTypes
<1>15. LengthRight' /\ AtStep' /\ StdinQueue
  BY <1>1, <1>2, SameStdin
<1> QED BY <1>13, <1>14, <1>15 DEF Sound

-----------------------------------------------------------------------------
(* The readers.                                                              *)

LEMMA StreamReadKeeps ==
    ASSUME Sound, Preempts, NEW n \in Nat, StreamRead(n), UNCHANGED <<iev_buff, shift, typed, kinput_dest, kvars>>,
           want' \in [Readers -> 0..MaxRead]
    PROVE  Sound' /\ DeviceQueues /\ StdinQueue
<1>1. pc = "asleep" /\ iev = <<>> /\ length = stdin.count
  BY AsleepFacts
<1>2. UNCHANGED <<iev_buff, shift, typed, kinput_dest, pc, dev, iev, seen, char, masked>>
  BY DEF kvars
<1>3. PICK b, y, got, q, r : /\ b = stdin /\ y = GetUpTo(stdin, n) /\ got = (IF n <= stdin.count THEN n ELSE stdin.count)
                             /\ q = Contents(b) /\ r = Contents(y)
  OBVIOUS
<1>4. stdin' = y /\ length' = length - got
  BY <1>3 DEF StreamRead
<1>5. b \in Cbuff(StreamLen, Chars)
  BY <1>3 DEF Sound, InputTypes
<1>6. y \in Cbuff(StreamLen, Chars) /\ y.count = b.count - got /\ Dropped(y, b, got)
  <2>1. y = GetUpTo(b, n) /\ got = Lesser(n, b.count)
    BY <1>3 DEF Lesser
  <2>2. StreamLen \in Nat \ {0}
    BY Sizes
  <2> QED BY <1>5, <2>1, <2>2, GetUpToTakes
<1>7. q \in Seq(Chars) /\ Len(q) = b.count /\ b.count \in Nat
  BY <1>3, <1>5, Sizes, ContentsType
<1>8. got \in 0..Len(q) /\ r = SubSeq(q, got + 1, Len(q))
  BY <1>3, <1>6, <1>7 DEF Dropped
<1>9. QStep(q, r, StreamLen)
  <2>1. CASE got = 0
    <3>1. SubSeq(q, 0 + 1, Len(q)) = q
      BY <1>7
    <3> QED BY <1>8, <2>1, <3>1 DEF QStep
  <2>2. CASE got # 0
    <3>1. got \in 1..Len(q)
      BY <1>7, <1>8, <2>2
    <3> QED BY <1>8, <3>1 DEF QStep
  <2> QED BY <2>1, <2>2
<1>10. StdinQueue
  BY <1>3, <1>4, <1>9 DEF StdinQueue
<1>11. EventsKept' /\ DeviceQueues
  BY <1>1, <1>2, SameDevices
<1>12. InputTypes'
  BY <1>2, <1>4, <1>6 DEF Sound, InputTypes
<1>13. LengthRight' /\ AtStep'
  <2>1. pc' = "asleep" /\ iev' = <<>>
    BY <1>1, <1>2
  <2>2. length' = stdin'.count
    BY <1>1, <1>3, <1>4, <1>6
  <2>3. LengthRight'
    <3>1. stdin'.count \in 0..StreamLen
      BY <1>4, <1>6, Sizes, ContentsType
    <3> QED BY <2>1, <2>2, <3>1 DEF LengthRight
  <2>4. AtStep'
    BY <2>1 DEF AtStep
  <2> QED BY <2>3, <2>4
<1> QED BY <1>10, <1>11, <1>12, <1>13 DEF Sound

LEMMA ReaderKeeps ==
    ASSUME Sound, NEW r \in Readers,
           ReadSome(r) \/ \E n \in 1..MaxRead : ReadBlk(r, n) \/ Read(r, n)
    PROVE  Sound' /\ DeviceQueues /\ StdinQueue
<1>1. want \in [Readers -> 0..MaxRead] /\ stdin \in Cbuff(StreamLen, Chars)
  BY DEF Sound, InputTypes
<1>2. stdin.count \in Nat
  BY <1>1, Sizes, ContentsType
<1>3. CASE ReadSome(r)
  <2>1. PICK n : n = want[r]
    OBVIOUS
  <2>2. n \in Nat /\ n \in 0..MaxRead /\ MaxRead \in Nat
    BY <1>1, <2>1, Sizes
  <2>3. StreamRead(n) /\ Preempts /\ UNCHANGED <<iev_buff, shift, typed, kinput_dest, kvars>>
    BY <1>3, <2>1 DEF ReadSome
  <2>4. want' \in [Readers -> 0..MaxRead]
    <3>1. PICK m : m = IF stdin.count >= n THEN 0 ELSE n - stdin.count
      OBVIOUS
    <3>2. m \in 0..MaxRead
      BY <1>2, <2>2, <3>1
    <3>3. want' = [want EXCEPT ![r] = m]
      BY <1>1, <1>3, <2>1, <3>1 DEF ReadSome
    <3> QED BY <1>1, <3>2, <3>3
  <2> QED BY <2>2, <2>3, <2>4, StreamReadKeeps
<1>4. ASSUME NEW n \in 1..MaxRead, Read(r, n) PROVE Sound' /\ DeviceQueues /\ StdinQueue
  <2>1. n \in Nat
    BY Sizes
  <2>2. StreamRead(n) /\ Preempts /\ UNCHANGED <<iev_buff, shift, typed, kinput_dest, kvars>> /\ want' = want
    BY <1>4 DEF Read
  <2> QED BY <1>1, <2>1, <2>2, StreamReadKeeps
<1>5. ASSUME NEW n \in 1..MaxRead, ReadBlk(r, n) PROVE Sound' /\ DeviceQueues /\ StdinQueue
  <2>1. /\ UNCHANGED <<iev_buff, shift, typed, kinput_dest, stdin, length, pc, dev, iev, seen, char, masked>>
        /\ want' = [want EXCEPT ![r] = n]
    BY <1>5 DEF ReadBlk, kvars
  <2>2. pc = "asleep" /\ iev = <<>> /\ length = stdin.count
    BY <1>5, AsleepFacts DEF ReadBlk
  <2>3. EventsKept' /\ DeviceQueues
    BY <2>1, <2>2, SameDevices
  <2>4. want' \in [Readers -> 0..MaxRead]
    <3>1. n \in 0..MaxRead
      BY Sizes
    <3> QED BY <1>1, <2>1, <3>1
  <2>5. InputTypes' /\ LengthRight' /\ AtStep' /\ StdinQueue
    <3>1. InputTypes'
      BY <2>1, <2>4 DEF Sound, InputTypes
    <3> QED BY <2>1, <2>2, <3>1, SameStdin
  <2> QED BY <2>3, <2>5 DEF Sound
<1> QED BY <1>3, <1>4, <1>5

LEMMA SetDestKeeps ==
    ASSUME Sound, SetDest PROVE Sound' /\ DeviceQueues /\ StdinQueue
<1>1. /\ UNCHANGED <<iev_buff, shift, typed, stdin, length, pc, dev, iev, seen, char, masked, want>>
      /\ kinput_dest' = TRUE
  BY DEF SetDest, kvars
<1>2. pc = "asleep"
  BY AsleepFacts DEF SetDest
<1>3. EventsKept' /\ DeviceQueues
  BY <1>1, <1>2, SameDevices
<1>4. InputTypes' /\ LengthRight' /\ AtStep' /\ StdinQueue
  <2>1. InputTypes'
    BY <1>1 DEF Sound, InputTypes
  <2> QED BY <1>1, <1>2, <2>1, SameStdin
<1> QED BY <1>3, <1>4 DEF Sound

-----------------------------------------------------------------------------
(* kinput_task.                                                              *)

\* The buffer it looks at.
LEMMA Current ==
    ASSUME Sound
    PROVE  /\ Idevs[dev] \in Devices /\ buff \in Cbuff(Size, Bytes) /\ buff.count \in Nat /\ buff.size = Size
           /\ Contents(buff) \in Seq(Bytes) /\ Len(Contents(buff)) = buff.count
<1>1. Idevs[dev] \in Devices
  <2>1. dev \in DOMAIN Idevs /\ Idevs \in Seq(Devices)
    BY Sizes DEF Sound, InputTypes
  <2> QED BY <2>1
<1>2. buff \in Cbuff(Size, Bytes)
  BY <1>1 DEF Sound, InputTypes, buff
<1>3. PICK b : b = buff
  OBVIOUS
<1>4. /\ b.count \in 0..Size /\ b.size = Size /\ Contents(b) \in Seq(Bytes) /\ Len(Contents(b)) = b.count
  BY <1>2, <1>3, Sizes, ContentsType
<1> QED BY <1>1, <1>2, <1>3, <1>4, Sizes

LEMMA ScanKeeps ==
    ASSUME Sound, ScanRead \/ ScanNext PROVE Sound' /\ DeviceQueues /\ StdinQueue
<1>1. /\ UNCHANGED <<iev_buff, shift, typed, kinput_dest, stdin, length, iev, seen, char, want>>
      /\ pc = "scan" /\ masked' = TRUE /\ pc' \in {"load", "scan", "asleep"}
  BY DEF ScanRead, ScanNext, Sound, InputTypes
<1>2. iev = <<>> /\ iev' = <<>>
  BY <1>1 DEF Sound, AtStep
<1>3. EventsKept' /\ DeviceQueues
  <2>1. UNCHANGED <<iev_buff, iev>> /\ iev = <<>> /\ pc \notin {"begin", "count"} /\ pc' \notin {"begin", "count"}
    BY <1>1, <1>2
  <2> QED BY <2>1, SameDevices
<1>4. dev' \in DOMAIN Idevs
  <2>1. Idevs \in Seq(Devices) /\ Idevs # <<>> /\ dev \in DOMAIN Idevs
    BY InputAssumption DEF Sound, InputTypes
  <2>2. dev' = dev \/ dev' = 1 \/ (dev < Len(Idevs) /\ dev' = dev + 1)
    BY DEF ScanRead, ScanNext
  <2>3. 1 \in DOMAIN Idevs /\ (dev < Len(Idevs) => dev + 1 \in DOMAIN Idevs)
    BY <2>1
  <2> QED BY <2>1, <2>2, <2>3
<1>5. InputTypes'
  <2>1. pc' \in PCs
    BY <1>1 DEF PCs
  <2> QED BY <1>1, <1>4, <2>1 DEF Sound, InputTypes
<1>6. LengthRight' /\ StdinQueue
  <2>1. LengthRight'
    BY <1>1 DEF Sound, LengthRight
  <2>2. StdinQueue
    BY <1>1 DEF StdinQueue, QStep
  <2> QED BY <2>1, <2>2
<1>7. AtStep'
  <2>1. ASSUME pc' = "load" PROVE Len(iev') < EventLen /\ buff'.count >= EventLen - Len(iev')
    <3>1. ScanRead
      BY <1>1, <2>1 DEF ScanNext
    <3>2. CanRead(buff, EventLen) /\ UNCHANGED <<iev_buff, dev>>
      BY <3>1 DEF ScanRead
    <3>3. buff' = buff /\ EventLen <= buff.count
      BY <3>2 DEF buff, CanRead
    <3>4. Len(iev') = 0
      BY <1>2
    <3>5. EventLen \in Nat \ {0} /\ buff.count \in Nat
      BY Sizes, Current
    <3> QED BY <3>3, <3>4, <3>5
  <2> QED BY <1>1, <1>2, <2>1 DEF AtStep
<1> QED BY <1>3, <1>5, <1>6, <1>7 DEF Sound

\* Of the other devices nothing changes while kinput_task reads one.
LEMMA OtherDevices ==
    ASSUME Sound, dev' = dev, \A d \in Devices : d # Idevs[dev] => iev_buff'[d] = iev_buff[d],
           NEW d \in Devices, d # Idevs[dev]
    PROVE  EventsAt(Contents(Rest(d)), Taken(d))' /\ QStep(Contents(Settled(d)), Contents(Settled(d)'), Size)
<1>1. EventsAt(Contents(Rest(d)), Taken(d))
  BY DEF Sound, EventsKept
<1>2. Rest(d)' = Rest(d) /\ Taken(d)' = Taken(d) /\ Settled(d)' = Settled(d)
  BY DEF Rest, Taken, Settled
<1> QED BY <1>1, <1>2 DEF QStep

LEMMA GetLoadKeeps ==
    ASSUME Sound, GetLoad PROVE Sound' /\ DeviceQueues /\ StdinQueue
<1>1. /\ UNCHANGED <<iev_buff, shift, typed, kinput_dest, stdin, length, dev, char, masked, want>>
      /\ pc = "load" /\ pc' = "begin" /\ seen' = buff.count /\ iev' = Append(iev, GetByte(buff))
  BY DEF GetLoad
<1>2. PICK b, v, c, x, cur : b = buff /\ v = iev /\ c = Contents(b) /\ x = GetByte(b) /\ cur = Idevs[dev]
  OBVIOUS
<1>3. /\ cur \in Devices /\ b = iev_buff[cur] /\ b \in Cbuff(Size, Bytes) /\ b.count \in Nat
      /\ c \in Seq(Bytes) /\ Len(c) = b.count
  BY <1>2, Current DEF buff
<1>4. v \in Seq(Bytes) /\ Len(v) < EventLen /\ b.count >= EventLen - Len(v) /\ Len(v) \in Nat /\ EventLen \in Nat
  <2>1. v \in Seq(Bytes) /\ Len(v) < EventLen /\ b.count >= EventLen - Len(v)
    BY <1>1, <1>2 DEF Sound, InputTypes, AtStep
  <2> QED BY <2>1, Sizes
<1>5. CanGet(b) /\ c # <<>>
  <2>1. b.count > 0
    BY <1>3, <1>4
  <2>2. Len(c) # 0
    BY <1>3, <2>1
  <2> QED BY <2>1, <2>2 DEF CanGet
<1>6. x = Head(c) /\ Get(b) \in Cbuff(Size, Bytes) /\ Contents(Get(b)) = Tail(c)
  BY <1>2, <1>3, <1>5, Sizes, GetTakesOldest
<1>7. EventsAt(c, v) /\ OneEvent(v)
  <2>1. EventsAt(Contents(Rest(cur)), Taken(cur)) /\ OneEvent(iev)
    BY <1>3 DEF Sound, EventsKept
  <2>2. Rest(cur) = b /\ Taken(cur) = v
    BY <1>1, <1>2, <1>3 DEF Rest, Settled, Taken
  <2> QED BY <1>2, <2>1, <2>2
<1>8. EventsAt(Tail(c), Append(v, x)) /\ OneEvent(Append(v, x))
  <2>1. EventsAt(Tail(c), Append(v, Head(c))) /\ OneEvent(Append(v, Head(c)))
    BY <1>3, <1>4, <1>5, <1>7, TakeByte
  <2> QED BY <1>6, <2>1
<1>9. iev' = Append(v, x) /\ iev' \in Seq(Bytes) /\ Len(iev') = Len(v) + 1
  <2>1. x \in Bytes
    BY <1>3, <1>5, <1>6
  <2>2. iev' = Append(v, x)
    BY <1>1, <1>2
  <2> QED BY <1>4, <2>1, <2>2
<1>10. ASSUME NEW d \in Devices
       PROVE  EventsAt(Contents(Rest(d)), Taken(d))' /\ QStep(Contents(Settled(d)), Contents(Settled(d)'), Size)
  <2>1. CASE d = cur
    <3>1. Rest(d)' = Get(b) /\ Taken(d)' = iev' /\ Settled(d)' = Settled(d)
      BY <1>1, <1>2, <1>3, <2>1 DEF Rest, Taken, Settled
    <3>2. EventsAt(Contents(Get(b)), Append(v, x))
      BY <1>6, <1>8
    <3> QED BY <1>9, <3>1, <3>2 DEF QStep
  <2>2. CASE d # cur
    BY <1>1, <1>2, <2>2, OtherDevices
  <2> QED BY <2>1, <2>2
<1>11. EventsKept' /\ DeviceQueues
  BY <1>8, <1>9, <1>10 DEF EventsKept, DeviceQueues
<1>12. InputTypes'
  BY <1>1, <1>9 DEF Sound, InputTypes, PCs
<1>13. LengthRight' /\ StdinQueue
  <2>1. LengthRight'
    BY <1>1 DEF Sound, LengthRight
  <2>2. StdinQueue
    BY <1>1 DEF StdinQueue, QStep
  <2> QED BY <2>1, <2>2
<1>14. AtStep'
  <2>1. buff' = b
    BY <1>1, <1>2 DEF buff
  <2>2. Len(iev') \in 1..EventLen /\ seen' = b.count /\ b.count >= EventLen - Len(iev') + 1
    <3>1. Len(iev') = Len(v) + 1 /\ seen' = b.count
      BY <1>1, <1>2, <1>9
    <3> QED BY <1>3, <1>4, <3>1
  <2> QED BY <1>1, <2>1, <2>2 DEF AtStep
<1> QED BY <1>11, <1>12, <1>13, <1>14 DEF Sound

LEMMA GetBeginKeeps ==
    ASSUME Sound, GetBegin PROVE Sound' /\ DeviceQueues /\ StdinQueue
<1>1. /\ UNCHANGED <<shift, typed, kinput_dest, stdin, length, dev, iev, seen, char, masked, want>>
      /\ pc = "begin" /\ pc' = "count"
  BY DEF GetBegin
<1>2. PICK b, cur, y, z : b = buff /\ cur = Idevs[dev] /\ Moved(y, b) /\ Uncounted(z, y)
  BY DEF Moved, Uncounted
<1>3. /\ cur \in Devices /\ b = iev_buff[cur] /\ b \in Cbuff(Size, Bytes) /\ b.count \in Nat
      /\ Contents(b) \in Seq(Bytes) /\ Len(Contents(b)) = b.count
  BY <1>2, Current DEF buff
<1>4. Len(iev) \in 1..EventLen /\ seen = b.count /\ b.count >= EventLen - Len(iev) + 1
  BY <1>1, <1>2 DEF Sound, AtStep
<1>5. CanGet(b)
  <2>1. b.count > 0
    BY <1>3, <1>4, Sizes
  <2> QED BY <2>1 DEF CanGet
<1>6. y \in Cbuff(Size, Bytes) /\ y.count = b.count /\ z = Get(b)
  <2>1. Size \in Nat \ {0}
    BY Sizes
  <2>2. b \in Cbuff(Size, Bytes) /\ Moved(y, b) /\ Uncounted(z, y)
    BY <1>2, <1>3
  <2> QED BY <1>5, <2>1, <2>2, BeginMoved
<1>7. /\ iev_buff' \in [Devices -> Cbuff(Size, Bytes)] /\ iev_buff'[cur] = y
      /\ \A d \in Devices : d # cur => iev_buff'[d] = iev_buff[d]
  <2>1. iev_buff \in [Devices -> Cbuff(Size, Bytes)]
    BY DEF Sound, InputTypes
  <2>2. iev_buff' = [iev_buff EXCEPT ![cur] = y]
    BY <1>2, <1>3, <2>1 DEF GetBegin, Moved
  <2> QED BY <1>3, <1>6, <2>1, <2>2
<1>8. Rest(cur) = Get(b) /\ Settled(cur) = b /\ Taken(cur) = iev
  BY <1>1, <1>2, <1>3 DEF Rest, Settled, Taken
<1>9. Rest(cur)' = Get(b) /\ Settled(cur)' = Get(b) /\ Taken(cur)' = iev
  <2>1. Settled(cur)' = [y EXCEPT !.count = @ - 1]
    BY <1>1, <1>2, <1>7 DEF Settled
  <2>2. Settled(cur)' = Get(b)
    BY <1>2, <1>6, <2>1 DEF Uncounted
  <2> QED BY <1>1, <1>2, <2>2 DEF Rest, Taken
<1>10. QStep(Contents(b), Contents(Get(b)), Size)
  <2>1. Contents(Get(b)) = Tail(Contents(b))
    BY <1>3, <1>5, Sizes, GetTakesOldest
  <2>2. PICK q : q = Contents(b)
    OBVIOUS
  <2>3. q \in Seq(Bytes) /\ Len(q) = b.count /\ 1 \in 1..Len(q)
    BY <1>3, <1>5, <2>2 DEF CanGet
  <2>4. Tail(q) = SubSeq(q, 1 + 1, Len(q))
    BY <2>3
  <2> QED BY <2>1, <2>2, <2>3, <2>4 DEF QStep
<1>11. ASSUME NEW d \in Devices
       PROVE  EventsAt(Contents(Rest(d)), Taken(d))' /\ QStep(Contents(Settled(d)), Contents(Settled(d)'), Size)
  <2>1. CASE d = cur
    <3>1. EventsAt(Contents(Rest(cur)), Taken(cur))
      BY <1>3 DEF Sound, EventsKept
    <3> QED BY <1>8, <1>9, <1>10, <2>1, <3>1
  <2>2. CASE d # cur
    BY <1>1, <1>2, <1>7, <2>2, OtherDevices
  <2> QED BY <2>1, <2>2
<1>12. EventsKept' /\ DeviceQueues
  <2>1. OneEvent(iev')
    BY <1>1 DEF Sound, EventsKept
  <2> QED BY <1>11, <2>1 DEF EventsKept, DeviceQueues
<1>13. InputTypes'
  BY <1>1, <1>7 DEF Sound, InputTypes, PCs
<1>14. LengthRight' /\ StdinQueue
  <2>1. LengthRight'
    BY <1>1 DEF Sound, LengthRight
  <2>2. StdinQueue
    BY <1>1 DEF StdinQueue, QStep
  <2> QED BY <2>1, <2>2
<1>15. AtStep'
  <2>1. buff' = y
    BY <1>1, <1>2, <1>7 DEF buff
  <2> QED BY <1>1, <1>4, <1>6, <2>1 DEF AtStep
<1> QED BY <1>12, <1>13, <1>14, <1>15 DEF Sound

\* The count alone: what is left is as it was settled.
LEMMA CountLess ==
    ASSUME NEW size \in Nat \ {0}, NEW Data, NEW b \in Cbuff(size, Data), b.count >= 1, NEW y, Uncounted(y, b)
    PROVE  y \in Cbuff(size, Data) /\ y.count = b.count - 1
<1>1. /\ b.begin \in 0..(size - 1) /\ b.count \in 0..size /\ b.size = size
      /\ b.buff \in [0..(size - 1) -> Data]
  BY ContentsType
<1>2. y = [begin |-> b.begin, count |-> b.count - 1, size |-> size, buff |-> b.buff]
  BY <1>1 DEF Cbuff, Uncounted
<1> QED BY <1>1, <1>2 DEF Cbuff

\* The last byte of an event is no zero byte: it has the event.
LEMMA LastByte ==
    ASSUME NEW v \in Seq(Bytes), OneEvent(v), Len(v) = EventLen
    PROVE  v[EventLen].event \in Events
<1>1. EventLen \in Nat \ {0}
  BY Sizes
<1>2. EventLen \in DOMAIN v
  BY <1>1
<1>3. v[EventLen] \in Bytes /\ v[EventLen].part = EventLen
  BY <1>2 DEF OneEvent
<1>4. v[EventLen] # Zero
  BY <1>1, <1>3 DEF Zero
<1> QED BY <1>3, <1>4 DEF Bytes

LEMMA CharOfEvent ==
    ASSUME NEW e \in Events PROVE keycode_to_char(e) \in Chars
<1>1. e.n \in 1..MaxTyped /\ e.data \in {"shift", "unshift", "letter", "byte", "backspace"}
  BY DEF Events, Codes
<1>2. PICK k : k = keycode_to_char(e).c
  OBVIOUS
<1>3. k \in {"nul", "lower", "upper", "byte", "backspace"}
  BY <1>1, <1>2 DEF keycode_to_char
<1>4. keycode_to_char(e) = [n |-> e.n, c |-> k]
  BY <1>2 DEF keycode_to_char
<1>5. e.n \in 0..MaxTyped
  BY <1>1, Sizes
<1> QED BY <1>3, <1>4, <1>5 DEF Chars

LEMMA GetCountKeeps ==
    ASSUME Sound, GetCount PROVE Sound' /\ DeviceQueues /\ StdinQueue
<1>1. /\ UNCHANGED <<shift, typed, kinput_dest, stdin, length, dev, masked, want>>
      /\ pc = "count" /\ pc' \in {"load", "send", "scan"}
  BY DEF GetCount
<1>2. PICK b, v, cur, y : b = buff /\ v = iev /\ cur = Idevs[dev] /\ Uncounted(y, b)
  BY DEF Uncounted
<1>3. /\ cur \in Devices /\ b = iev_buff[cur] /\ b \in Cbuff(Size, Bytes) /\ b.count \in Nat
  BY <1>2, Current DEF buff
<1>4. Len(v) \in 1..EventLen /\ seen = b.count /\ b.count >= EventLen - Len(v) + 1 /\ v \in Seq(Bytes)
  BY <1>1, <1>2 DEF Sound, AtStep, InputTypes
<1>5. EventLen \in Nat \ {0} /\ Size \in Nat \ {0} /\ b.count >= 1
  <2>1. EventLen \in Nat \ {0} /\ Size \in Nat \ {0}
    BY Sizes
  <2> QED BY <1>3, <1>4, <2>1
<1>6. y \in Cbuff(Size, Bytes) /\ y.count = b.count - 1
  BY <1>2, <1>3, <1>5, CountLess
<1>7. /\ iev_buff' \in [Devices -> Cbuff(Size, Bytes)] /\ iev_buff'[cur] = y
      /\ \A d \in Devices : d # cur => iev_buff'[d] = iev_buff[d]
  <2>1. iev_buff \in [Devices -> Cbuff(Size, Bytes)]
    BY DEF Sound, InputTypes
  <2>2. iev_buff' = [iev_buff EXCEPT ![cur].count = b.count - 1]
    BY <1>2, <1>4 DEF GetCount
  <2>3. iev_buff' = [iev_buff EXCEPT ![cur] = y]
    BY <1>2, <1>3, <2>1, <2>2 DEF Uncounted
  <2> QED BY <1>3, <1>6, <2>1, <2>3
<1>8. Rest(cur) = y /\ Settled(cur) = y /\ Taken(cur) = v
  BY <1>1, <1>2, <1>3 DEF Rest, Settled, Taken, Uncounted
<1>9. Rest(cur)' = y /\ Settled(cur)' = y /\ Taken(cur)' = iev'
  BY <1>1, <1>2, <1>7 DEF Rest, Settled, Taken
<1>10. EventsAt(Contents(y), v) /\ OneEvent(v)
  <2>1. EventsAt(Contents(Rest(cur)), Taken(cur)) /\ OneEvent(iev)
    BY <1>3 DEF Sound, EventsKept
  <2> QED BY <1>2, <1>8, <2>1
<1>11. \/ Len(v) < EventLen /\ iev' = v /\ pc' = "load" /\ char' = char
       \/ Len(v) = EventLen /\ iev' = <<>> /\ pc' = "scan" /\ char' = char
       \/ Len(v) = EventLen /\ iev' = <<>> /\ pc' = "send" /\ char' = keycode_to_char(v[EventLen].event)
  <2>1. Len(v) < EventLen \/ Len(v) = EventLen
    BY <1>4, <1>5
  <2>2. ~ (EventLen < EventLen)
    BY <1>5
  <2> QED BY <1>2, <2>1, <2>2 DEF GetCount
<1>12. EventsAt(Contents(y), iev') /\ OneEvent(iev') /\ iev' \in Seq(Bytes)
  <2>1. CASE iev' = v
    BY <1>4, <1>10, <2>1
  <2>2. CASE Len(v) = EventLen /\ iev' = <<>>
    BY <1>10, <2>2, EventDone
  <2> QED BY <1>11, <2>1, <2>2
<1>13. char' \in Chars
  <2>1. CASE char' = char
    BY <2>1 DEF Sound, InputTypes
  <2>2. CASE Len(v) = EventLen /\ char' = keycode_to_char(v[EventLen].event)
    <3>1. v[EventLen].event \in Events
      BY <1>4, <1>10, <2>2, LastByte
    <3>2. PICK e \in Events : e = v[EventLen].event
      BY <3>1
    <3>3. keycode_to_char(e) \in Chars
      BY CharOfEvent
    <3> QED BY <2>2, <3>2, <3>3
  <2> QED BY <1>11, <2>1, <2>2
<1>14. ASSUME NEW d \in Devices
       PROVE  EventsAt(Contents(Rest(d)), Taken(d))' /\ QStep(Contents(Settled(d)), Contents(Settled(d)'), Size)
  <2>1. CASE d = cur
    <3>1. EventsAt(Contents(Rest(cur)), Taken(cur))'
      BY <1>9, <1>12
    <3>2. QStep(Contents(Settled(cur)), Contents(Settled(cur)'), Size)
      BY <1>8, <1>9 DEF QStep
    <3> QED BY <2>1, <3>1, <3>2
  <2>2. CASE d # cur
    BY <1>1, <1>2, <1>7, <2>2, OtherDevices
  <2> QED BY <2>1, <2>2
<1>15. EventsKept' /\ DeviceQueues
  BY <1>12, <1>14 DEF EventsKept, DeviceQueues
<1>16. InputTypes'
  BY <1>1, <1>7, <1>12, <1>13 DEF Sound, InputTypes, PCs
<1>17. LengthRight' /\ StdinQueue
  <2>1. LengthRight'
    BY <1>1 DEF Sound, LengthRight
  <2>2. StdinQueue
    BY <1>1 DEF StdinQueue, QStep
  <2> QED BY <2>1, <2>2
<1>18. AtStep'
  <2>1. CASE pc' = "load"
    <3>1. buff' = y /\ iev' = v /\ Len(v) < EventLen
      BY <1>1, <1>2, <1>7, <1>11, <2>1 DEF buff
    <3>2. y.count >= EventLen - Len(v)
      BY <1>3, <1>4, <1>5, <1>6
    <3> QED BY <2>1, <3>1, <3>2 DEF AtStep
  <2>2. CASE pc' # "load"
    BY <1>1, <1>11, <2>2 DEF AtStep
  <2> QED BY <2>1, <2>2
<1> QED BY <1>15, <1>16, <1>17, <1>18 DEF Sound

\* The character is stored, counted, and added to the length.
LEMMA SendKeeps ==
    ASSUME Sound, Send PROVE Sound' /\ DeviceQueues /\ StdinQueue
<1>1. /\ UNCHANGED <<iev_buff, shift, typed, kinput_dest, length, dev, iev, seen, masked, want>>
      /\ pc = "send" /\ pc' \in {"sent", "scan"} /\ char' = NoChar
  BY DEF Send
<1>2. iev = <<>> /\ iev' = <<>>
  BY <1>1 DEF Sound, AtStep
<1>3. PICK b, y, c : b = stdin /\ y = stdin' /\ c = char
  OBVIOUS
<1>4. b \in Cbuff(StreamLen, Chars) /\ c \in Chars
  BY <1>3 DEF Sound, InputTypes
<1>5. y \in Cbuff(StreamLen, Chars) /\ y.count = b.count /\ Contents(y) = Contents(b)
      /\ (pc' = "sent" => b.count < StreamLen)
  <2>1. CASE CanPut(b)
    <3>1. Stored(y, b, c)
      BY <1>3, <2>1 DEF Send, Stored
    <3>2. StreamLen \in Nat \ {0}
      BY Sizes
    <3> QED BY <1>4, <2>1, <3>1, <3>2, StoreUnseen
  <2>2. CASE ~ CanPut(b)
    <3>1. y = b /\ pc' = "scan"
      BY <1>3, <2>2 DEF Send
    <3> QED BY <1>4, <3>1
  <2> QED BY <2>1, <2>2
<1>6. EventsKept' /\ DeviceQueues
  <2>1. pc \notin {"begin", "count"} /\ pc' \notin {"begin", "count"}
    BY <1>1
  <2> QED BY <1>1, <2>1, SameDevices
<1>7. InputTypes'
  <2>1. NoChar \in Chars
    BY Sizes DEF NoChar, Chars
  <2> QED BY <1>1, <1>3, <1>5, <2>1 DEF Sound, InputTypes, PCs
<1>8. LengthRight' /\ AtStep'
  <2>1. stdin'.count = stdin.count /\ (pc' = "sent" => stdin'.count < StreamLen)
    BY <1>3, <1>5
  <2>2. LengthRight'
    BY <1>1, <2>1 DEF Sound, LengthRight
  <2> QED BY <1>1, <1>2, <2>1, <2>2 DEF AtStep
<1>9. StdinQueue
  BY <1>3, <1>5 DEF StdinQueue, QStep
<1> QED BY <1>6, <1>7, <1>8, <1>9 DEF Sound

LEMMA SendCountKeeps ==
    ASSUME Sound, SendCount PROVE Sound' /\ DeviceQueues /\ StdinQueue
<1>1. /\ UNCHANGED <<iev_buff, shift, typed, kinput_dest, length, dev, iev, seen, char, masked, want>>
      /\ pc = "sent" /\ pc' = "length" /\ stdin' = [stdin EXCEPT !.count = @ + 1]
  BY DEF SendCount
<1>2. iev = <<>> /\ iev' = <<>>
  BY <1>1 DEF Sound, AtStep
<1>3. PICK b, y, q, r : b = stdin /\ y = stdin' /\ q = Contents(b) /\ r = Contents(y)
  OBVIOUS
<1>4. b \in Cbuff(StreamLen, Chars) /\ b.count < StreamLen /\ StreamLen \in Nat \ {0}
  BY <1>1, <1>3, Sizes DEF Sound, InputTypes, AtStep
<1>5. Counted(y, b, b.count + 1)
  BY <1>1, <1>3 DEF Counted
<1>6. /\ y \in Cbuff(StreamLen, Chars) /\ y.count = b.count + 1
      /\ Len(Contents(y)) = Len(Contents(b)) + 1 /\ Len(Contents(y)) <= StreamLen
      /\ SubSeq(Contents(y), 1, Len(Contents(b))) = Contents(b)
  BY <1>4, <1>5, CountMore
<1>7. StdinQueue
  <2>1. Len(q) \in Nat
    BY <1>3, <1>4, ContentsType
  <2>2. Len(r) = Len(q) + 1 /\ Len(r) <= StreamLen /\ SubSeq(r, 1, Len(q)) = q
    BY <1>3, <1>6
  <2>3. Len(r) \in Len(q)..StreamLen
    BY <1>4, <2>1, <2>2
  <2> QED BY <1>3, <2>2, <2>3 DEF StdinQueue, QStep
<1>8. EventsKept' /\ DeviceQueues
  <2>1. pc \notin {"begin", "count"} /\ pc' \notin {"begin", "count"}
    BY <1>1
  <2> QED BY <1>1, <2>1, SameDevices
<1>9. InputTypes'
  BY <1>1, <1>3, <1>6 DEF Sound, InputTypes, PCs
<1>10. LengthRight' /\ AtStep'
  <2>1. length = stdin.count - 0
    BY <1>1 DEF Sound, LengthRight
  <2>2. b.count \in Nat
    BY <1>4, ContentsType
  <2>3. length' = stdin'.count - 1
    BY <1>1, <1>3, <1>6, <2>1, <2>2
  <2> QED BY <1>1, <1>2, <2>3 DEF LengthRight, AtStep
<1> QED BY <1>7, <1>8, <1>9, <1>10 DEF Sound

LEMMA RestKeeps ==
    ASSUME Sound, SendLength \/ Wake PROVE Sound' /\ DeviceQueues /\ StdinQueue
<1>1. /\ UNCHANGED <<iev_buff, shift, typed, kinput_dest, stdin, dev, iev, seen, char, masked, want>>
      /\ pc \in {"length", "asleep"} /\ pc' = "scan"
      /\ pc = "length" => length' = length + 1
      /\ pc = "asleep" => length' = length
  BY DEF SendLength, Wake
<1>2. iev = <<>> /\ iev' = <<>>
  BY <1>1 DEF Sound, AtStep
<1>3. EventsKept' /\ DeviceQueues
  <2>1. pc \notin {"begin", "count"} /\ pc' \notin {"begin", "count"}
    BY <1>1
  <2> QED BY <1>1, <2>1, SameDevices
<1>4. InputTypes'
  BY <1>1 DEF Sound, InputTypes, PCs
<1>5. LengthRight'
  <2>1. stdin.count \in Nat
    <3>1. stdin \in Cbuff(StreamLen, Chars)
      BY DEF Sound, InputTypes
    <3> QED BY <3>1, Sizes, ContentsType
  <2>2. CASE pc = "length"
    <3>1. length = stdin.count - 1 /\ length' = length + 1
      BY <1>1, <2>2 DEF Sound, LengthRight
    <3>2. length' = stdin.count - 0
      BY <2>1, <3>1
    <3> QED BY <1>1, <3>2 DEF LengthRight
  <2>3. CASE pc = "asleep"
    BY <1>1, <2>3 DEF Sound, LengthRight
  <2> QED BY <1>1, <2>2, <2>3
<1>6. AtStep' /\ StdinQueue
  <2>1. AtStep'
    BY <1>1, <1>2 DEF AtStep
  <2>2. StdinQueue
    BY <1>1 DEF StdinQueue, QStep
  <2> QED BY <2>1, <2>2
<1> QED BY <1>3, <1>4, <1>5, <1>6 DEF Sound

-----------------------------------------------------------------------------
(* The theorems.                                                             *)

LEMMA StepSound ==
    ASSUME Sound, [Next]_vars PROVE Sound' /\ DeviceQueues /\ StdinQueue
<1>1. ASSUME NEW code \in Codes(Keyboard), _keyb_int(code) PROVE Sound' /\ DeviceQueues /\ StdinQueue
  <2>1. Handle(Keyboard, code) /\ Keyboard \in Devices /\ shift' \in BOOLEAN
    BY <1>1, Sizes DEF _keyb_int
  <2>2. code \in Codes(Keyboard) \cup {"byte", "backspace"}
    OBVIOUS
  <2> QED BY <2>1, <2>2, HandleKeeps
<1>2. ASSUME NEW d \in Devices \ {Keyboard}, NEW code \in Codes(d), _serial_int_handle(d, code)
      PROVE  Sound' /\ DeviceQueues /\ StdinQueue
  <2>1. PICK data : data = FromSerial(code)
    OBVIOUS
  <2>2. data \in Codes(Keyboard) \cup {"byte", "backspace"} /\ d \in Devices
    BY <2>1 DEF Codes, FromSerial
  <2>3. Handle(d, data) /\ shift' \in BOOLEAN
    BY <1>2, <2>1 DEF _serial_int_handle, Sound, InputTypes
  <2> QED BY <2>2, <2>3, HandleKeeps
<1>3. CASE UNCHANGED vars
  <2>1. UNCHANGED <<iev_buff, stdin, pc, dev>>
    BY <1>3 DEF vars
  <2>2. Sound'
    BY <1>3 DEF vars, Sound, InputTypes, LengthRight, AtStep, buff, EventsKept, Rest, Taken, Settled
  <2>3. DeviceQueues /\ StdinQueue
    BY <2>1 DEF DeviceQueues, StdinQueue, QStep, Settled
  <2> QED BY <2>2, <2>3
<1>4. CASE Kinput
  BY <1>4, ScanKeeps, GetLoadKeeps, GetBeginKeeps, GetCountKeeps, SendKeeps, SendCountKeeps, RestKeeps DEF Kinput
<1>5. CASE \E r \in Readers : ReadSome(r) \/ \E n \in 1..MaxRead : ReadBlk(r, n) \/ Read(r, n)
  BY <1>5, ReaderKeeps
<1> QED BY <1>1, <1>2, <1>3, <1>4, <1>5, SetDestKeeps DEF Next

LEMMA SoundInput ==
    ASSUME Sound PROVE InputInv
<1>1. EventsWhole
  BY DEF Sound, EventsKept, OneEvent, EventsWhole
<1> QED BY <1>1 DEF Sound, InputTypes, LengthRight, InputInv, Size

(* When kinput_task runs with interrupts disabled, as it does from its first *)
(* delay() on, it never puts the beginning of one event together with the    *)
(* end of another, whatever the interrupts write and drop and wherever the   *)
(* buffers wrap, and stdin's length is the number of bytes in it.            *)
THEOREM InputCorrect == ~FirstScan /\ Spec => []InputInv
<1> SUFFICES ASSUME ~FirstScan PROVE Spec => []InputInv
  OBVIOUS
<1>1. Init => Sound
  BY InitSound
<1>2. Sound /\ [Next]_vars => Sound'
  BY StepSound
<1>3. Sound => InputInv
  BY SoundInput
<1> QED BY <1>1, <1>2, <1>3, PTL DEF Spec

\* Steps of a queue are steps of Fifo.
LEMMA KeyStep ==
    ASSUME NEW d \in Devices, QStep(Contents(Settled(d)), Contents(Settled(d)'), Size)
    PROVE  [KeyFifo(d)!Next]_(Contents(Settled(d)))
BY DEF QStep, Size, KeyFifo!Next, KeyFifo!Put, KeyFifo!Get

(* Each device's event buffer is a bounded queue between its interrupt and   *)
(* kinput_task: whole writes at the end, bytes in that order at the          *)
(* beginning, although cbuff_get stores begin and count one after the other. *)
THEOREM EventsInOrder == ~FirstScan /\ Spec => EventsAreFifo
<1> SUFFICES ASSUME ~FirstScan PROVE Spec => EventsAreFifo
  OBVIOUS
<1> DEFINE Steps == \A d \in Devices : [KeyFifo(d)!Next]_(Contents(Settled(d)))
<1>1. Init => Sound
  BY InitSound
<1>2. Sound /\ [Next]_vars => Sound'
  BY StepSound
<1>3. Init => \A d \in Devices : KeyFifo(d)!Init
  <2> SUFFICES ASSUME Init, NEW d \in Devices PROVE KeyFifo(d)!Init
    OBVIOUS
  <2>1. Settled(d) = EmptyCbuff(Size, Zero)
    BY DEF Init, Settled, InitBuffers, Size
  <2>2. Contents(Settled(d)) = <<>>
    BY <2>1 DEF EmptyCbuff, Contents
  <2> QED BY <2>2 DEF KeyFifo!Init
<1>4. Sound /\ [Next]_vars => [Steps]_vars
  <2> SUFFICES ASSUME Sound, [Next]_vars PROVE Steps
    OBVIOUS
  <2>1. DeviceQueues
    BY StepSound
  <2> QED BY <2>1, KeyStep DEF DeviceQueues
<1> HIDE DEF Steps
<1>5. Spec => [][Steps]_vars
  BY <1>1, <1>2, <1>4, PTL DEF Spec
<1>6. Spec => \A d \in Devices : KeyFifo(d)!Init
  BY <1>3 DEF Spec
<1> USE DEF Steps
<1> QED BY <1>5, <1>6 DEF EventsAreFifo

(* stdin is a bounded queue between kinput_task, which stores a byte and     *)
(* counts it later, and any number of readers of any number of bytes.        *)
THEOREM StdinInOrder == ~FirstScan /\ Spec => StdinIsFifo
<1> SUFFICES ASSUME ~FirstScan PROVE Spec => StdinIsFifo
  OBVIOUS
<1>1. Init => Sound
  BY InitSound
<1>2. Sound /\ [Next]_vars => Sound'
  BY StepSound
<1>3. Init => StdinFifo!Init
  <2> SUFFICES ASSUME Init PROVE StdinFifo!Init
    OBVIOUS
  <2>1. Contents(stdin) = <<>>
    BY DEF Init, EmptyCbuff, Contents
  <2> QED BY <2>1 DEF StdinFifo!Init
<1>4. Sound /\ [Next]_vars => [StdinFifo!Next]_(Contents(stdin))
  <2> SUFFICES ASSUME Sound, [Next]_vars PROVE [StdinFifo!Next]_(Contents(stdin))
    OBVIOUS
  <2>1. StdinQueue
    BY StepSound
  <2> QED BY <2>1 DEF StdinQueue, QStep, StdinFifo!Next, StdinFifo!Put, StdinFifo!Get
<1> QED BY <1>1, <1>2, <1>3, <1>4, PTL DEF Spec, StdinIsFifo, StdinFifo!Spec
=============================================================================
