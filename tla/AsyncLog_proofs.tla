-------------------------- MODULE AsyncLog_proofs --------------------------
(***************************************************************************)
(* Proofs about wlog, for any number of threads, any m_split_lines,        *)
(* LOG_SAVE_DAY and max_queue_size, and any number of days, lines,         *)
(* restarts and calls of the control functions: the types, the end of the  *)
(* writer, the files that are deleted, what becomes of every line, that it *)
(* stays where it was written, and how long a file gets.                   *)
(***************************************************************************)
EXTENDS AsyncLog, FiniteSetTheorems, SequenceTheorems, TLAPS

-----------------------------------------------------------------------------
(* How often a sequence has an element *)

Count(s, l) == Cardinality({i \in DOMAIN s : s[i] = l})
One(P) == IF P THEN 1 ELSE 0

(* A count is a natural number, and 0 for what the sequence does not have. *)
LEMMA CountType ==
  ASSUME NEW I, NEW s \in Seq(I), NEW l
  PROVE  /\ IsFiniteSet({i \in DOMAIN s : s[i] = l}) /\ Count(s, l) \in Nat
         /\ Count(s, l) = 0 <=> l \notin ToSet(s)
<1> DEFINE S == {i \in DOMAIN s : s[i] = l}
<1>1. IsFiniteSet(S)
  <2>1. DOMAIN s = 1 .. Len(s) /\ Len(s) \in Nat  OBVIOUS
  <2>2. IsFiniteSet(1 .. Len(s))  BY <2>1, FS_Interval
  <2>3. S \in SUBSET (1 .. Len(s))  BY <2>1
  <2> QED  BY <2>2, <2>3, FS_Subset
<1>2. Cardinality(S) \in Nat /\ (Cardinality(S) = 0 <=> S = {})
  BY <1>1, FS_CardinalityType, FS_EmptySet
<1>3. S = {} <=> l \notin ToSet(s)  BY DEF ToSet
<1> QED  BY <1>1, <1>2, <1>3 DEF Count

(* The empty sequence has no element, *)
LEMMA CountEmpty == ASSUME NEW l PROVE Count(<< >>, l) = 0
<1>1. {i \in DOMAIN << >> : << >>[i] = l} = {}  OBVIOUS
<1> QED  BY <1>1, FS_EmptySet DEF Count

(* an element appended adds one to its own count, *)
LEMMA CountAppend ==
  ASSUME NEW I, NEW s \in Seq(I), NEW x \in I, NEW l
  PROVE  Count(Append(s, x), l) = Count(s, l) + One(x = l)
<1> DEFINE S == {i \in DOMAIN s : s[i] = l}
           T == {i \in DOMAIN Append(s, x) : Append(s, x)[i] = l}
<1>1. PICK k \in Nat : k = Len(s) /\ DOMAIN s = 1 .. k  OBVIOUS
<1>2. /\ DOMAIN Append(s, x) = 1 .. k + 1 /\ Append(s, x)[k + 1] = x
      /\ \A i \in 1 .. k : Append(s, x)[i] = s[i]
  BY <1>1
<1>3. IsFiniteSet(S) /\ Cardinality(S) \in Nat /\ k + 1 \notin S
  <2>1. IsFiniteSet(S) /\ Cardinality(S) \in Nat  BY CountType DEF Count
  <2>2. k + 1 \notin S  BY <1>1
  <2> QED  BY <2>1, <2>2
<1>4. CASE x = l
  <2>1. T = S \cup {k + 1}
    <3>1. \A i : i \in T <=> i \in 1 .. k + 1 /\ Append(s, x)[i] = l  BY <1>2
    <3>2. \A i : i \in S <=> i \in 1 .. k /\ s[i] = l  BY <1>1
    <3>3. \A i : i \in 1 .. k + 1 <=> i \in 1 .. k \/ i = k + 1  BY <1>1
    <3> HIDE DEF S, T
    <3> QED  BY <3>1, <3>2, <3>3, <1>2, <1>4
  <2> QED  BY <2>1, <1>3, <1>4, FS_AddElement DEF Count, One
<1>5. CASE x # l
  <2>1. T = S
    <3>1. \A i : i \in T <=> i \in 1 .. k + 1 /\ Append(s, x)[i] = l  BY <1>2
    <3>2. \A i : i \in S <=> i \in 1 .. k /\ s[i] = l  BY <1>1
    <3>3. \A i : i \in 1 .. k + 1 <=> i \in 1 .. k \/ i = k + 1  BY <1>1
    <3> HIDE DEF S, T
    <3> QED  BY <3>1, <3>2, <3>3, <1>2, <1>5
  <2>2. Count(Append(s, x), l) = Count(s, l)  BY <2>1 DEF Count
  <2>3. Count(s, l) \in Nat  BY <1>3 DEF Count
  <2> QED  BY <2>2, <2>3, <1>5 DEF One
<1> QED  BY <1>4, <1>5

(* and the head removed takes one from its own. *)
LEMMA CountTail ==
  ASSUME NEW I, NEW s \in Seq(I), s # << >>, NEW l
  PROVE  Count(s, l) = Count(Tail(s), l) + One(Head(s) = l)
<1> DEFINE S == {i \in DOMAIN s : s[i] = l}
           T == {i \in DOMAIN Tail(s) : Tail(s)[i] = l}
           f == [i \in T |-> i + 1]
<1>1. PICK k \in Nat \ {0} : k = Len(s) /\ DOMAIN s = 1 .. k /\ Head(s) = s[1]
  OBVIOUS
<1>2. /\ DOMAIN Tail(s) = 1 .. k - 1 /\ Tail(s) \in Seq(I)
      /\ \A i \in 1 .. k - 1 : Tail(s)[i] = s[i + 1]
  BY <1>1
<1>3. IsFiniteSet(S) /\ Cardinality(S) \in Nat
  BY CountType DEF Count
<1>4. IsFiniteSet(T)  BY <1>2, CountType DEF Count
<1>5. /\ \A i : i \in T <=> i \in 1 .. k - 1 /\ s[i + 1] = l
      /\ \A i : i \in S <=> i \in 1 .. k /\ s[i] = l
  BY <1>1, <1>2
<1> HIDE DEF S, T
<1>6. f \in Bijection(T, S \ {1})
  <2>1. f \in [T -> S \ {1}]  BY <1>5
  <2>2. \A a, b \in T : f[a] = f[b] => a = b  BY <1>5
  <2>3. \A b \in S \ {1} : \E a \in T : f[a] = b
    <3>1. ASSUME NEW b \in S \ {1} PROVE b - 1 \in T /\ f[b - 1] = b
      BY <1>5
    <3> QED  BY <3>1
  <2> QED  BY <2>1, <2>2, <2>3 DEF Bijection, Injection, Surjection, IsInjective
<1>7. Cardinality(S \ {1}) = Cardinality(T)
  BY <1>4, <1>6, FS_Bijection DEF ExistsBijection
<1>8. 1 \in S <=> Head(s) = l  BY <1>1, <1>5
<1>9. Cardinality(S \ {1}) = IF 1 \in S THEN Cardinality(S) - 1 ELSE Cardinality(S)
  BY <1>3, FS_RemoveElement
<1>10. Cardinality(S) = Cardinality(T) + One(Head(s) = l)
  BY <1>3, <1>7, <1>8, <1>9 DEF One
<1> QED  BY <1>10 DEF Count, S, T

-----------------------------------------------------------------------------
(* The ring *)

(* The index behind the last element is where the next one goes. *)
Coherent(q) ==
    BQ!NextIndex(q, q.m_back) = (q.m_front + q.m_size + 1) % q.m_max_size

(* Indexes are at most twice around the ring. *)
Wraps(n, x) == x % n = IF x < n THEN x ELSE IF x < 2 * n THEN x - n ELSE 0

(* A remainder without division, up to twice around the ring. *)
LEMMA ModValue ==
  ASSUME NEW n \in Nat \ {0}, NEW x \in 0 .. 2 * n
  PROVE  Wraps(n, x)
<1> SUFFICES x % n = IF x < n THEN x ELSE IF x < 2 * n THEN x - n ELSE 0
  BY DEF Wraps
<1>1. CASE x < n  BY <1>1
<1>2. CASE x >= n /\ x < 2 * n
  <2>1. x - n \in 0 .. n - 1 /\ x = 1 * n + (x - n)  BY <1>2
  <2> QED  BY <2>1
<1>3. CASE x = 2 * n
  <2>1. x = 2 * n + 0  BY <1>3
  <2> QED  BY <2>1
<1> QED  BY <1>1, <1>2, <1>3

(* The place of the i-th element, and of the one that is pushed next. *)
At(n, front, i) ==
    IF front + i < n THEN front + i ELSE IF front + i < 2 * n THEN front + i - n ELSE 0

(* What a ring consists of, and where its elements are in m_array. *)
LEMMA RingPlaces ==
  ASSUME NEW n \in Nat \ {0}, NEW I, NEW q \in BQ!Ring(n, I)
  PROVE  /\ q.m_max_size = n /\ q.m_size \in 0 .. n /\ q.m_front \in -1 .. n - 1
         /\ q.m_array \in [0 .. n - 1 -> I \cup {NoLine}]
         /\ BQ!NextIndex(q, q.m_back) \in 0 .. n - 1
         /\ BQ!NextIndex(q, q.m_front) = At(n, q.m_front, 1)
         /\ \A i \in 1 .. n + 1 : /\ (q.m_front + i) % n = At(n, q.m_front, i)
                                  /\ At(n, q.m_front, i) \in 0 .. n - 1
<1>1. /\ q.m_max_size = n /\ q.m_size \in 0 .. n /\ q.m_front \in -1 .. n - 1
      /\ q.m_array \in [0 .. n - 1 -> I \cup {NoLine}]
      /\ q.m_back \in -1 .. n - 1
  BY DEF BQ!Ring
<1>2. BQ!NextIndex(q, q.m_back) \in 0 .. n - 1
  <2>1. q.m_back + 1 \in 0 .. 2 * n  BY <1>1
  <2>2. Wraps(n, q.m_back + 1)  BY <2>1, ModValue
  <2> QED  BY <2>1, <2>2, <1>1 DEF BQ!NextIndex, Wraps
<1>3. ASSUME NEW i \in 1 .. n + 1
      PROVE  /\ (q.m_front + i) % n = At(n, q.m_front, i)
             /\ At(n, q.m_front, i) \in 0 .. n - 1
  <2>1. q.m_front + i \in 0 .. 2 * n  BY <1>1
  <2>2. Wraps(n, q.m_front + i)  BY <2>1, ModValue
  <2>3. (q.m_front + i) % n = At(n, q.m_front, i)  BY <2>1, <2>2, <1>1 DEF At, Wraps
  <2> QED  BY <2>1, <2>3, <1>1 DEF At
<1> QED  BY <1>1, <1>2, <1>3 DEF BQ!NextIndex

(* Two of up to n elements are in different places. *)
LEMMA PlacesDiffer ==
  ASSUME NEW n \in Nat \ {0}, NEW front \in -1 .. n - 1,
         NEW i \in 1 .. n, NEW j \in 1 .. n, At(n, front, i) = At(n, front, j)
  PROVE  i = j
  BY DEF At

(* The index behind the next element. *)
LEMMA PlaceAfter ==
  ASSUME NEW n \in Nat \ {0}, NEW front \in -1 .. n - 1, NEW k \in 0 .. n - 1
  PROVE  (At(n, front, k + 1) + 1) % n = (front + (k + 1) + 1) % n
<1>1. front + (k + 1) + 1 \in 0 .. 2 * n /\ front + (k + 1) + 1 = front + k + 2
  OBVIOUS
<1>2. /\ At(n, front, k + 1) + 1 \in 0 .. 2 * n
      /\ At(n, front, k + 1) + 1 =
           IF front + k + 1 < n THEN front + k + 2 ELSE front + k + 2 - n
  BY DEF At
<1>3. Wraps(n, front + (k + 1) + 1) /\ Wraps(n, At(n, front, k + 1) + 1)
  BY <1>1, <1>2, ModValue
<1> QED  BY <1>1, <1>2, <1>3 DEF Wraps

(* What is behind the first element is one place further round. *)
LEMMA PlacesShift ==
  ASSUME NEW n \in Nat \ {0}, NEW front \in -1 .. n - 1, NEW k \in 1 .. n
  PROVE  LET first == At(n, front, 1)
         IN  /\ first \in 0 .. n - 1
             /\ \A i \in 1 .. k : At(n, first, i) = At(n, front, i + 1)
             /\ (first + (k - 1) + 1) % n = (front + k + 1) % n
<1> DEFINE first == At(n, front, 1)
<1>1. first \in 0 .. n - 1 /\ first = IF front + 1 < n THEN front + 1 ELSE 0
  BY DEF At
<1> HIDE DEF first
<1>2. \A i \in 1 .. k : At(n, first, i) = At(n, front, i + 1)
  BY <1>1 DEF At
<1>3. first + (k - 1) + 1 \in 0 .. 2 * n /\ front + k + 1 \in 0 .. 2 * n
  BY <1>1
<1>4. (first + (k - 1) + 1) % n = (front + k + 1) % n
  <2>1. CASE front + 1 < n
    <3>1. first + (k - 1) + 1 = front + k + 1  BY <2>1, <1>1
    <3> QED  BY <3>1
  <2>2. CASE ~(front + 1 < n)
    <3>1. first + (k - 1) + 1 = k /\ front + k + 1 = n + k  BY <2>2, <1>1
    <3>2. k \in 0 .. 2 * n /\ n + k \in 0 .. 2 * n  OBVIOUS
    <3>3. Wraps(n, k) /\ Wraps(n, n + k)  BY <3>2, ModValue
    <3>4. k % n = (n + k) % n  BY <3>3 DEF Wraps
    <3> QED  BY <3>1, <3>4
  <2> QED  BY <2>1, <2>2
<1> QED  BY <1>1, <1>2, <1>4 DEF first

(* A ring whose places agree and whose elements are known. *)
Holds(q, n, I, s) ==
    /\ q \in BQ!Ring(n, I) /\ Coherent(q)
    /\ s \in Seq(I) /\ BQ!Elements(q) = s

(* What a ring holds is in its places. *)
LEMMA HoldsPlaces ==
  ASSUME NEW n \in Nat \ {0}, NEW I, NEW s \in Seq(I), NEW q \in BQ!Ring(n, I)
  PROVE  BQ!Elements(q) = s
           <=> /\ q.m_size = Len(s)
               /\ \A i \in 1 .. Len(s) : q.m_array[At(n, q.m_front, i)] = s[i]
<1>1. /\ q.m_max_size = n /\ q.m_size \in 0 .. n
      /\ \A i \in 1 .. n : (q.m_front + i) % n = At(n, q.m_front, i)
  BY RingPlaces
<1>2. BQ!Elements(q) = [i \in 1 .. q.m_size |-> q.m_array[At(n, q.m_front, i)]]
  BY <1>1 DEF BQ!Elements
<1>3. s = [i \in 1 .. Len(s) |-> s[i]]  OBVIOUS
<1>4. ASSUME BQ!Elements(q) = s PROVE q.m_size = Len(s)
  <2>1. DOMAIN s = 1 .. q.m_size  BY <1>2, <1>4
  <2> QED  BY <2>1, <1>1
<1> QED  BY <1>1, <1>2, <1>3, <1>4

(* A new queue is empty. *)
LEMMA NewHolds ==
  ASSUME NEW n \in Nat \ {0}, NEW I
  PROVE  Holds(BQ!BlockQueue(n), n, I, << >>)
<1> DEFINE q == BQ!BlockQueue(n)
<1>1. q \in BQ!Ring(n, I)  BY DEF BQ!BlockQueue, BQ!Ring
<1>2. q.m_size = 0 /\ q.m_front = -1 /\ q.m_back = -1  BY DEF BQ!BlockQueue
<1>3. << >> \in Seq(I)  OBVIOUS
<1>4. BQ!Elements(q) = << >>
  <2>1. PICK s \in Seq(I) : s = << >>  BY <1>3
  <2>2. Len(s) = 0  BY <2>1
  <2> HIDE DEF q
  <2>3. /\ q.m_size = Len(s)
        /\ \A i \in 1 .. Len(s) : q.m_array[At(n, q.m_front, i)] = s[i]
    BY <2>2, <1>2
  <2>4. BQ!Elements(q) = s  BY <2>3, <1>1, HoldsPlaces
  <2> QED  BY <2>1, <2>4
<1> QED  BY <1>1, <1>2, <1>3, <1>4 DEF Holds, Coherent, BQ!NextIndex

(* An element that is pushed, into a queue that is not full, comes last. *)
LEMMA PushHolds ==
  ASSUME NEW n \in Nat \ {0}, NEW I, NEW s, NEW q, Holds(q, n, I, s),
         NEW x \in I, ~BQ!full(q)
  PROVE  Holds(BQ!push(q, x), n, I, Append(s, x))
<1>1. PICK k \in 0 .. n - 1 :
        k = Len(s) /\ q.m_size = k /\ q.m_max_size = n
  <2>1. Len(s) \in Nat /\ q.m_size = Len(s)  BY HoldsPlaces DEF Holds
  <2>2. q.m_max_size = n /\ q.m_size \in 0 .. n  BY DEF Holds, BQ!Ring
  <2>3. Len(s) \in 0 .. n - 1  BY <2>1, <2>2 DEF BQ!full
  <2> QED  BY <2>1, <2>2, <2>3
<1>2. PICK front \in -1 .. n - 1 : front = q.m_front
  BY DEF Holds, BQ!Ring
<1>3. PICK array \in [0 .. n - 1 -> I \cup {NoLine}] : array = q.m_array
  BY DEF Holds, BQ!Ring
<1>4. s \in Seq(I) /\ \A i \in 1 .. k : array[At(n, front, i)] = s[i]
  BY <1>1, <1>2, <1>3, HoldsPlaces DEF Holds
<1>5. \A i \in 1 .. k + 1 : At(n, front, i) \in 0 .. n - 1
  BY <1>2, RingPlaces DEF Holds
<1>6. PICK back \in 0 .. n - 1 :
        back = BQ!NextIndex(q, q.m_back) /\ back = At(n, front, k + 1)
  <2>1. BQ!NextIndex(q, q.m_back) = (front + k + 1) % n
    BY <1>1, <1>2 DEF Holds, Coherent
  <2>2. k + 1 \in 1 .. n + 1 /\ front + (k + 1) = front + k + 1  OBVIOUS
  <2>3. (front + (k + 1)) % n = At(n, front, k + 1)
    BY <2>2, <1>2, RingPlaces DEF Holds
  <2> QED  BY <2>1, <2>2, <2>3, <1>5
<1>7. PICK r : r = BQ!push(q, x)  OBVIOUS
<1>8. PICK t : t = Append(s, x)  OBVIOUS
<1>9. r = [m_max_size |-> n, m_array |-> [array EXCEPT ![back] = x],
           m_size |-> k + 1, m_front |-> front, m_back |-> back]
  BY <1>1, <1>2, <1>3, <1>6, <1>7 DEF BQ!push
<1>10. r \in BQ!Ring(n, I)  BY <1>9 DEF BQ!Ring
<1>11. /\ t \in Seq(I) /\ Len(t) = k + 1 /\ t[k + 1] = x
       /\ \A i \in 1 .. k : t[i] = s[i]
  BY <1>1, <1>4, <1>8
<1>12. ASSUME NEW i \in 1 .. k + 1
       PROVE  r.m_array[At(n, front, i)] = t[i]
  <2>1. r.m_array = [array EXCEPT ![back] = x]  BY <1>9
  <2>2. CASE i = k + 1  BY <2>1, <2>2, <1>6, <1>11
  <2>3. CASE i \in 1 .. k
    <3>1. i \in 1 .. n /\ k + 1 \in 1 .. n /\ i # k + 1  BY <2>3
    <3>2. At(n, front, i) # back  BY <3>1, <1>6, PlacesDiffer
    <3>3. At(n, front, i) \in 0 .. n - 1  BY <1>5
    <3> QED  BY <3>2, <3>3, <2>1, <2>3, <1>4, <1>11
  <2> QED  BY <2>2, <2>3
<1>13. BQ!Elements(r) = t
  <2>1. r.m_front = front /\ r.m_size = Len(t)  BY <1>9, <1>11
  <2>2. \A i \in 1 .. Len(t) : r.m_array[At(n, front, i)] = t[i]  BY <1>11, <1>12
  <2> QED  BY <2>1, <2>2, <1>10, <1>11, HoldsPlaces
<1>14. Coherent(r)
  <2>1. /\ r.m_max_size = n /\ r.m_back = back /\ r.m_size = k + 1
        /\ r.m_front = front
    BY <1>9
  <2>2. (back + 1) % n = (front + (k + 1) + 1) % n
    BY <1>6, PlaceAfter
  <2> QED  BY <2>1, <2>2 DEF Coherent, BQ!NextIndex
<1> QED  BY <1>7, <1>8, <1>10, <1>11, <1>13, <1>14 DEF Holds

(* pop takes the first one. *)
LEMMA PopHolds ==
  ASSUME NEW n \in Nat \ {0}, NEW I, NEW s, NEW q, Holds(q, n, I, s),
         ~BQ!empty(q)
  PROVE  /\ s # << >> /\ BQ!Oldest(q) = Head(s)
         /\ Holds(BQ!pop(q), n, I, Tail(s))
<1>1. PICK k \in 1 .. n :
        k = Len(s) /\ q.m_size = k /\ q.m_max_size = n
  <2>1. Len(s) \in Nat /\ q.m_size = Len(s)  BY HoldsPlaces DEF Holds
  <2>2. q.m_max_size = n /\ q.m_size \in 0 .. n  BY DEF Holds, BQ!Ring
  <2>3. Len(s) \in 1 .. n  BY <2>1, <2>2 DEF BQ!empty
  <2> QED  BY <2>1, <2>2, <2>3
<1>2. PICK front \in -1 .. n - 1 : front = q.m_front
  BY DEF Holds, BQ!Ring
<1>3. PICK array \in [0 .. n - 1 -> I \cup {NoLine}] : array = q.m_array
  BY DEF Holds, BQ!Ring
<1>4. PICK back \in -1 .. n - 1 : back = q.m_back
  BY DEF Holds, BQ!Ring
<1>5. s \in Seq(I) /\ \A i \in 1 .. k : array[At(n, front, i)] = s[i]
  BY <1>1, <1>2, <1>3, HoldsPlaces DEF Holds
<1>6. PICK first \in 0 .. n - 1 :
        /\ first = At(n, front, 1) /\ first = BQ!NextIndex(q, q.m_front)
        /\ \A i \in 1 .. k : At(n, first, i) = At(n, front, i + 1)
        /\ (first + (k - 1) + 1) % n = (front + k + 1) % n
  <2>1. BQ!NextIndex(q, q.m_front) = At(n, front, 1)
    BY <1>2, RingPlaces DEF Holds
  <2> QED  BY <2>1, PlacesShift
<1>7. s # << >> /\ BQ!Oldest(q) = Head(s)
  <2>1. 1 \in 1 .. k /\ s # << >> /\ Head(s) = s[1]  BY <1>1, <1>5
  <2> QED  BY <2>1, <1>3, <1>5, <1>6 DEF BQ!Oldest
<1>8. PICK r : r = BQ!pop(q)  OBVIOUS
<1>9. PICK t : t = Tail(s)  OBVIOUS
<1>10. r = [m_max_size |-> n, m_array |-> array, m_size |-> k - 1,
            m_front |-> first, m_back |-> back]
  BY <1>1, <1>3, <1>4, <1>6, <1>8 DEF BQ!pop
<1>11. r \in BQ!Ring(n, I)
  <2>1. first \in -1 .. n - 1 /\ k - 1 \in 0 .. n  OBVIOUS
  <2> QED  BY <2>1, <1>10 DEF BQ!Ring
<1>12. /\ t \in Seq(I) /\ Len(t) = k - 1
       /\ \A i \in 1 .. k - 1 : t[i] = s[i + 1]
  BY <1>1, <1>5, <1>7, <1>9
<1>13. ASSUME NEW i \in 1 .. k - 1
       PROVE  r.m_array[At(n, first, i)] = t[i]
  <2>1. i \in 1 .. k /\ i + 1 \in 1 .. k  OBVIOUS
  <2>2. r.m_array = array  BY <1>10
  <2> QED  BY <2>1, <2>2, <1>5, <1>6, <1>12
<1>14. BQ!Elements(r) = t
  <2>1. r.m_front = first /\ r.m_size = Len(t)  BY <1>10, <1>12
  <2> QED  BY <2>1, <1>11, <1>12, <1>13, HoldsPlaces
<1>15. Coherent(r)
  <2>1. /\ r.m_max_size = n /\ r.m_back = back /\ r.m_size = k - 1
        /\ r.m_front = first
    BY <1>10
  <2>2. (back + 1) % n = (front + k + 1) % n
    BY <1>1, <1>2, <1>4 DEF Holds, Coherent, BQ!NextIndex
  <2> QED  BY <2>1, <2>2, <1>6 DEF Coherent, BQ!NextIndex
<1> QED  BY <1>7, <1>8, <1>9, <1>11, <1>12, <1>14, <1>15 DEF Holds

(* The threads that log, the day and the count *)

Marks == {"idle", "clocked", "converted", "stamped", "chosen", "push", "direct"}

(* Those that are to choose the file, and those that have the day. *)
Undecided == {"clocked", "converted", "stamped"}
Dated == {"stamped", "chosen", "push", "direct"}
ToChoose == {t \in Threads : pc[t] \in Undecided}

(* No thread sleeps in WriteLog until its day is deleted. *)
OnTime == \A t \in Threads : pc[t] # "idle" => clock <= now[t] + MaxLate
Lively == alive \in BOOLEAN /\ (alive => OnTime)

(* A thread in WriteLog has a line and has read the clock not long ago; its time
   stamp is what it read, unless that day is spoiled; every line is counted
   once, by the thread that is still to choose the file. *)
ThreadInv ==
    /\ limit \in Limits /\ Lively
    /\ clock \in Today .. MaxDay /\ {m_today, tm} \subseteq 1 .. clock
    /\ spoiled \subseteq Days
    /\ pc \in [Threads -> Marks]
    /\ {now, stamp} \subseteq [Threads -> 0 .. MaxDay]
    /\ logged \in 0 .. limit.lines
    /\ line \in [Threads -> Lines \cup {NoLine}]
    /\ \A t \in Threads :
         IF pc[t] = "idle" THEN line[t] = NoLine
         ELSE line[t] \in 1 .. logged /\ now[t] \in 1 .. clock
    /\ \A t \in Threads :
         pc[t] \in Dated
           => stamp[t] \in 1 .. clock /\ (stamp[t] = now[t] \/ stamp[t] \in spoiled)
    /\ m_count \in Nat /\ m_count + Cardinality(ToChoose) <= logged


(* The queue is there exactly while the writer is, and nobody logs once the log
   is being closed; whoever joins the writer does not wait for one that sleeps,
   nor for one that is about to. *)
Logging == {"open", "flush", "flushWrite"}
Closing == {"wakeUp", "join", "closeFile", "closed", "deleted"}
Items == 0 .. MaxLines

(* What is in the queue, if there is one. *)
QueueHolds(q) ==
    /\ limit.max_queue_size \in Nat \ {0}
    /\ Holds(q, limit.max_queue_size, Items, BQ!Elements(q))

QueueInv ==
    /\ m_is_async \in BOOLEAN /\ ending \in BOOLEAN
    /\ writer \in {"none", "test", "pop", "asleep", "write", "ended"}
    /\ control \in Logging \cup {"clearFlag"} \cup Closing
    /\ m_log_queue = NULL \/ QueueHolds(m_log_queue)
    /\ writer = "none" <=> m_log_queue = NULL
    /\ m_is_async => m_log_queue # NULL
    /\ control \in {"flush", "flushWrite", "clearFlag", "wakeUp", "join"}
         => m_log_queue # NULL
    /\ control \in Closing => ~m_is_async
    /\ control \notin Logging => Quiet
    /\ \A t \in Threads : pc[t] \in {"push", "direct"} => m_is_async
    /\ IF writer = "write" THEN written \in Items ELSE written = NoLine
    /\ IF control = "flushWrite" THEN flushed \in Items ELSE flushed = NoLine
    /\ control = "join" =>
         writer # "asleep" /\ (writer = "pop" => ~BQ!empty(m_log_queue))

(* The parts of a day have no gap, and those of today are there unless they are
   old enough to be deleted; what was deleted does not come back.  Of a day that
   is spoiled nothing is said. *)
Contiguous(f, d) ==
    \A k \in 0 .. MaxLines :
        f[<<d, k>>] # Absent => \A j \in 0 .. k : f[<<d, j>>] # Absent

Disk == [Names -> Seq(Items) \cup {Absent}]
Parts == 0 .. MaxLines

OpenExists == clock < m_today + LOG_SAVE_DAY => files[<<m_today, 0>>] # Absent
HasFile == m_fp \in BOOLEAN /\ (m_fp => OpenExists)

FilesInv ==
    /\ HasFile
    /\ files \in Disk
    /\ \A d \in Days \ spoiled : Contiguous(files, d)
    /\ clock < m_today + LOG_SAVE_DAY /\ m_today \notin spoiled
         => \A k \in 1 .. Part(m_count) : files[<<m_today, k>>] # Absent
    /\ \A d \in swept :
         d \in 1 .. clock /\ (m_today \notin spoiled => d < m_today + LOG_SAVE_DAY)
    /\ \A d \in swept : \A x \in Days \ spoiled, k \in Parts :
         x + LOG_SAVE_DAY = d => files[<<x, k>>] = Absent

-----------------------------------------------------------------------------
(* The threads that log *)

(* What a scenario is. *)
LEMMA LimitType ==
  ASSUME limit \in Limits
  PROVE  /\ limit.days \in 1 .. MaxDay /\ limit.lines \in 0 .. MaxLines
         /\ limit.max_queue_size \in Nat
         /\ MaxDay \in Nat /\ MaxLines \in Nat
  BY BoundsAssumption DEF Limit

(* The bounds of a day. *)
LEMMA DayBounds ==
  /\ Today \in Days /\ Today \in Nat /\ Today > LOG_SAVE_DAY
  /\ MaxDay \in Nat /\ MaxLate \in Nat
  /\ LOG_SAVE_DAY \in Nat \ {0} /\ MaxLate < LOG_SAVE_DAY
  BY BoundsAssumption DEF Today, Days

(* What a thread moves changes in the number of those that are to choose. *)
LEMMA ToChooseAfter ==
  ASSUME pc \in [Threads -> Marks], NEW t \in Threads, NEW mark,
         pc' = [pc EXCEPT ![t] = mark]
  PROVE  /\ Cardinality(ToChoose) \in Nat
         /\ mark \in Undecided /\ pc[t] \notin Undecided
              => Cardinality(ToChoose)' = Cardinality(ToChoose) + 1
         /\ mark \notin Undecided /\ pc[t] \in Undecided
              => Cardinality(ToChoose)' = Cardinality(ToChoose) - 1
         /\ (mark \in Undecided <=> pc[t] \in Undecided)
              => Cardinality(ToChoose)' = Cardinality(ToChoose)
<1>1. IsFiniteSet(ToChoose)
  <2>1. ToChoose \in SUBSET Threads  BY DEF ToChoose
  <2> QED  BY <2>1, FS_Subset, BoundsAssumption
<1>2. Cardinality(ToChoose) \in Nat  BY <1>1, FS_CardinalityType
<1>3. ASSUME mark \in Undecided, pc[t] \notin Undecided
      PROVE  Cardinality(ToChoose)' = Cardinality(ToChoose) + 1
  <2>1. ToChoose' = ToChoose \cup {t} /\ t \notin ToChoose
    BY <1>3 DEF ToChoose
  <2> QED  BY <2>1, <1>1, FS_AddElement
<1>4. ASSUME mark \notin Undecided, pc[t] \in Undecided
      PROVE  Cardinality(ToChoose)' = Cardinality(ToChoose) - 1
  <2>1. ToChoose' = ToChoose \ {t} /\ t \in ToChoose
    BY <1>4 DEF ToChoose
  <2> QED  BY <2>1, <1>1, FS_RemoveElement
<1>5. ASSUME mark \in Undecided <=> pc[t] \in Undecided
      PROVE  Cardinality(ToChoose)' = Cardinality(ToChoose)
  <2>1. ToChoose' = ToChoose  BY <1>5 DEF ToChoose
  <2> QED  BY <2>1
<1> QED  BY <1>2, <1>3, <1>4, <1>5

(* All threads are idle at first, and after a restart. *)
LEMMA NobodyChooses ==
  ASSUME \A t \in Threads : pc[t] = "idle"
  PROVE  Cardinality(ToChoose) = 0
<1>1. ToChoose = {}  BY DEF ToChoose, Undecided
<1> QED  BY <1>1, FS_EmptySet

(* At first nobody logs. *)
LEMMA ThreadInit == AsyncInit => ThreadInv
<1> SUFFICES ASSUME AsyncInit PROVE ThreadInv
  OBVIOUS
<1>1. /\ limit \in Limits /\ clock = Today /\ m_today = Today /\ tm = Today
      /\ m_count = 0 /\ logged = 0 /\ alive = TRUE /\ spoiled = {}
      /\ pc = [t \in Threads |-> "idle"]
      /\ now = [t \in Threads |-> 0] /\ stamp = [t \in Threads |-> 0]
      /\ line = [t \in Threads |-> NoLine]
  BY DEF AsyncInit, Init
<1>2. Cardinality(ToChoose) = 0  BY <1>1, NobodyChooses
<1>3. clock \in Today .. MaxDay /\ {m_today, tm} \subseteq 1 .. clock
      /\ {now, stamp} \subseteq [Threads -> 0 .. MaxDay]
  BY <1>1, DayBounds DEF Days
<1>4. Lively
  <2>1. OnTime  BY <1>1 DEF OnTime
  <2> QED  BY <2>1, <1>1 DEF Lively
<1> QED  BY <1>1, <1>2, <1>3, <1>4, LimitType DEF ThreadInv, Marks, Dated

(* A thread reads the clock, *)
LEMMA ClockKeepsThreads ==
  ASSUME ThreadInv, NEW t \in Threads, Clock(t)
  PROVE  ThreadInv'
<1>1. /\ pc[t] = "idle" /\ pc' = [pc EXCEPT ![t] = "clocked"]
      /\ pc \in [Threads -> Marks]
      /\ UNCHANGED <<limit, alive, clock, m_today, tm, spoiled, stamp, m_count>>
  BY DEF Clock, ThreadInv
<1>2. /\ Cardinality(ToChoose) \in Nat
      /\ Cardinality(ToChoose)' = Cardinality(ToChoose) + 1
  <2>1. "clocked" \in Undecided /\ "idle" \notin Undecided  BY DEF Undecided
  <2> QED  BY <1>1, <2>1, ToChooseAfter
<1>3. /\ limit.lines \in 0 .. MaxLines /\ MaxLines \in Nat
      /\ clock \in Today .. MaxDay /\ clock \in 1 .. clock
      /\ clock \in 0 .. MaxDay /\ clock <= clock + MaxLate
  BY LimitType, DayBounds DEF ThreadInv
<1>4. logged' = logged + 1 /\ logged + 1 \in 0 .. limit.lines /\ logged + 1 \in Lines
      /\ logged \in Nat
  BY <1>3 DEF ThreadInv, Clock, Lines
<1>5. pc' \in [Threads -> Marks] /\ now' \in [Threads -> 0 .. MaxDay]
      /\ line' \in [Threads -> Lines \cup {NoLine}]
  BY <1>1, <1>3, <1>4 DEF ThreadInv, Clock, Marks
<1>6. ASSUME NEW u \in Threads
      PROVE  /\ IF pc'[u] = "idle" THEN line'[u] = NoLine
                ELSE line'[u] \in 1 .. logged' /\ now'[u] \in 1 .. clock
             /\ pc'[u] \in Dated
                  => /\ stamp[u] \in 1 .. clock
                     /\ stamp[u] = now'[u] \/ stamp[u] \in spoiled
  <2>1. CASE u = t
    <3>1. now'[u] = clock /\ line'[u] = logged + 1 /\ pc'[u] = "clocked"
      BY <2>1 DEF Clock, ThreadInv
    <3>2. "clocked" \notin Dated  BY DEF Dated
    <3> QED  BY <3>1, <3>2, <1>3, <1>4
  <2>2. CASE u # t
    <3>1. now'[u] = now[u] /\ line'[u] = line[u] /\ pc'[u] = pc[u]
      BY <2>2 DEF Clock, ThreadInv
    <3> QED  BY <3>1, <1>4 DEF ThreadInv
  <2> QED  BY <2>1, <2>2
<1>7. m_count' + Cardinality(ToChoose)' <= logged'
  BY <1>1, <1>2, <1>4 DEF ThreadInv
<1>8. Lively'
  <2>1. ASSUME OnTime, NEW u \in Threads, pc'[u] # "idle"
        PROVE  clock' <= now'[u] + MaxLate
    <3>1. now'[u] = IF u = t THEN clock ELSE now[u]  BY DEF Clock, ThreadInv
    <3> QED  BY <3>1, <2>1, <1>1, <1>3 DEF OnTime
  <2>2. OnTime => OnTime'  BY <2>1 DEF OnTime
  <2>3. Lively /\ alive' = alive  BY <1>1 DEF ThreadInv
  <2> QED  BY <2>2, <2>3 DEF Lively
<1> QED  BY <1>1, <1>4, <1>5, <1>6, <1>7, <1>8 DEF ThreadInv

(* converts it, in the buffer that all threads share, *)
LEMMA localtimeKeepsThreads ==
  ASSUME ThreadInv, NEW t \in Threads, localtime(t)
  PROVE  ThreadInv'
<1>1. /\ pc[t] = "clocked" /\ pc' = [pc EXCEPT ![t] = "converted"] /\ tm' = now[t]
      /\ pc \in [Threads -> Marks]
      /\ UNCHANGED <<limit, alive, clock, m_today, spoiled, now, stamp, line, logged,
                     m_count>>
  BY DEF localtime, history, ThreadInv
<1>2. Cardinality(ToChoose)' = Cardinality(ToChoose)
  <2>1. "clocked" \in Undecided /\ "converted" \in Undecided  BY DEF Undecided
  <2> QED  BY <1>1, <2>1, ToChooseAfter
<1>3. {m_today', tm'} \subseteq 1 .. clock
  BY <1>1 DEF ThreadInv
<1>4. /\ pc' \in [Threads -> Marks]
      /\ \A u \in Threads : pc'[u] = "idle" <=> pc[u] = "idle"
      /\ \A u \in Threads : pc'[u] \in Dated <=> pc[u] \in Dated
  BY <1>1 DEF Marks, Dated
<1>5. Lively'
  <2>1. OnTime => OnTime'  BY <1>1, <1>4 DEF OnTime, ThreadInv
  <2>2. Lively /\ alive' = alive  BY <1>1 DEF ThreadInv
  <2> QED  BY <2>1, <2>2 DEF Lively
<1>6. ASSUME NEW u \in Threads
      PROVE  /\ IF pc'[u] = "idle" THEN line[u] = NoLine
                ELSE line[u] \in 1 .. logged /\ now[u] \in 1 .. clock
             /\ pc'[u] \in Dated
                  => /\ stamp[u] \in 1 .. clock
                     /\ stamp[u] = now[u] \/ stamp[u] \in spoiled
  <2>1. /\ pc'[u] = "idle" <=> pc[u] = "idle"
        /\ pc'[u] \in Dated <=> pc[u] \in Dated
    BY <1>4, <1>5
  <2>2. /\ IF pc[u] = "idle" THEN line[u] = NoLine
           ELSE line[u] \in 1 .. logged /\ now[u] \in 1 .. clock
        /\ pc[u] \in Dated
             => /\ stamp[u] \in 1 .. clock
                /\ stamp[u] = now[u] \/ stamp[u] \in spoiled
    BY DEF ThreadInv
  <2> QED  BY <2>1, <2>2
<1> QED  BY <1>1, <1>2, <1>3, <1>4, <1>5, <1>6 DEF ThreadInv

(* and copies what it finds there; *)
LEMMA StampKeepsThreads ==
  ASSUME ThreadInv, NEW t \in Threads, Stamp(t)
  PROVE  ThreadInv'
<1>1. /\ pc[t] = "converted" /\ pc' = [pc EXCEPT ![t] = "stamped"]
      /\ stamp' = [stamp EXCEPT ![t] = tm]
      /\ spoiled' = spoiled \cup ({tm} \ {now[t]})
      /\ pc \in [Threads -> Marks] /\ stamp \in [Threads -> 0 .. MaxDay]
      /\ UNCHANGED <<limit, alive, clock, m_today, tm, now, line, logged, m_count>>
  BY DEF Stamp, ThreadInv
<1>2. Cardinality(ToChoose)' = Cardinality(ToChoose)
  <2>1. "stamped" \in Undecided /\ "converted" \in Undecided  BY DEF Undecided
  <2> QED  BY <1>1, <2>1, ToChooseAfter
<1>3. tm \in 1 .. clock /\ tm \in 0 .. MaxDay /\ tm \in Days
  BY DayBounds DEF ThreadInv, Days
<1>4. /\ pc' \in [Threads -> Marks] /\ stamp' \in [Threads -> 0 .. MaxDay]
      /\ spoiled' \subseteq Days
      /\ \A u \in Threads : pc'[u] = "idle" <=> pc[u] = "idle"
  BY <1>1, <1>3 DEF ThreadInv, Marks
<1>5. ASSUME NEW u \in Threads, pc'[u] \in Dated
      PROVE  /\ stamp'[u] \in 1 .. clock
             /\ stamp'[u] = now[u] \/ stamp'[u] \in spoiled'
  <2>1. CASE u = t
    <3>1. stamp'[u] = tm  BY <2>1, <1>1
    <3> QED  BY <3>1, <2>1, <1>1, <1>3
  <2>2. CASE u # t
    <3>1. stamp'[u] = stamp[u] /\ pc'[u] = pc[u]  BY <2>2, <1>1
    <3> QED  BY <3>1, <1>1, <1>5 DEF ThreadInv
  <2> QED  BY <2>1, <2>2
<1>6. Lively'
  <2>1. OnTime => OnTime'  BY <1>1, <1>4 DEF OnTime, ThreadInv
  <2>2. Lively /\ alive' = alive  BY <1>1 DEF ThreadInv
  <2> QED  BY <2>1, <2>2 DEF Lively
<1> QED  BY <1>1, <1>2, <1>4, <1>5, <1>6 DEF ThreadInv

(* A program that ends does not get late. *)
LEMMA EndsOnTime ==
  ASSUME Lively, OnTime => OnTime', alive' \in {alive, FALSE}
  PROVE  Lively'
<1>1. CASE alive' = alive  BY <1>1 DEF Lively
<1>2. CASE alive' = FALSE  BY <1>2 DEF Lively
<1> QED  BY <1>1, <1>2

(* chooses the file, *)
LEMMA ChooseKeepsThreads ==
  ASSUME ThreadInv, NEW t \in Threads, ChooseFile(t)
  PROVE  ThreadInv'
<1>1. UNCHANGED <<limit, clock, now, stamp, line, logged>>
      /\ pc[t] = "stamped" /\ pc' = [pc EXCEPT ![t] = "chosen"]
      /\ pc \in [Threads -> Marks]
  BY DEF ChooseFile, ThreadInv
<1>2. /\ Cardinality(ToChoose) \in Nat
      /\ Cardinality(ToChoose)' = Cardinality(ToChoose) - 1
  <2>1. "chosen" \notin Undecided /\ "stamped" \in Undecided  BY DEF Undecided
  <2> QED  BY <2>1, <1>1, ToChooseAfter
<1>3. stamp[t] \in 1 .. clock /\ DayToDelete \in 1 .. clock /\ 1 .. clock \subseteq Days
      /\ m_count \in Nat
  BY <1>1, DayBounds DEF ThreadInv, Dated, DayToDelete, Today, Days
<1>4. /\ {m_today', tm'} \subseteq 1 .. clock /\ m_count' \in Nat
      /\ m_count' <= m_count + 1
      /\ spoiled \subseteq spoiled' /\ spoiled' \subseteq Days
  <2>1. ASSUME NEW opened \in BOOLEAN, NextDay(t, opened)
        PROVE  /\ m_today' = stamp[t] /\ tm' = DayToDelete /\ m_count' = 0
               /\ UNCHANGED <<alive, spoiled>>
    BY <2>1 DEF NextDay, Sweep
  <2>2. ASSUME NEW opened \in BOOLEAN, NextPart(t, opened)
        PROVE  /\ UNCHANGED <<m_today, alive>> /\ tm' = DayToDelete
               /\ m_count' = m_count + 1
               /\ spoiled' = (IF opened THEN spoiled ELSE spoiled \cup {m_today})
    BY <2>2 DEF NextPart, Sweep
  <2>3. CASE NoFile(t)
    <3>1. alive' = FALSE /\ UNCHANGED <<m_today, m_count, tm, spoiled>>
      BY <2>3 DEF NoFile
    <3> QED  BY <3>1, <1>3 DEF ThreadInv
  <2>4. CASE SameFile(t)
    <3>1. m_count' = m_count + 1 /\ UNCHANGED <<alive, m_today, tm, spoiled>>
      BY <2>4 DEF SameFile
    <3> QED  BY <3>1, <1>3 DEF ThreadInv
  <2>5. CASE \E opened \in BOOLEAN : NextDay(t, opened)
    BY <2>1, <2>5, <1>3 DEF ThreadInv
  <2>6. CASE \E opened \in BOOLEAN : NextPart(t, opened)
    BY <2>2, <2>6, <1>3 DEF ThreadInv
  <2> QED  BY <2>3, <2>4, <2>5, <2>6 DEF ChooseFile
<1>5. m_count' + Cardinality(ToChoose)' <= logged
  BY <1>2, <1>4, LimitType DEF ThreadInv
<1>6. /\ pc' \in [Threads -> Marks]
      /\ \A u \in Threads : pc'[u] = "idle" <=> pc[u] = "idle"
      /\ \A u \in Threads : pc'[u] \in Dated <=> pc[u] \in Dated
  BY <1>1 DEF ThreadInv, Marks, Dated
<1>7. ASSUME NEW u \in Threads
      PROVE  /\ IF pc'[u] = "idle" THEN line[u] = NoLine
                ELSE line[u] \in 1 .. logged /\ now[u] \in 1 .. clock
             /\ pc'[u] \in Dated
                  => /\ stamp[u] \in 1 .. clock
                     /\ stamp[u] = now[u] \/ stamp[u] \in spoiled'
  <2>1. /\ pc'[u] = "idle" <=> pc[u] = "idle"
        /\ pc'[u] \in Dated <=> pc[u] \in Dated
    BY <1>4, <1>6
  <2>2. /\ IF pc[u] = "idle" THEN line[u] = NoLine
           ELSE line[u] \in 1 .. logged /\ now[u] \in 1 .. clock
        /\ pc[u] \in Dated
             => /\ stamp[u] \in 1 .. clock
                /\ stamp[u] = now[u] \/ stamp[u] \in spoiled
    BY DEF ThreadInv
  <2> QED  BY <2>1, <2>2, <1>4
<1>8. Lively'
  <2>1. OnTime => OnTime'  BY <1>1, <1>6 DEF OnTime, ThreadInv
  <2>2. Lively  BY DEF ThreadInv
  <2>3. alive' = alive \/ alive' = FALSE
    BY DEF ChooseFile, NextDay, NextPart, NoFile, SameFile
  <2> QED  BY <2>1, <2>2, <2>3, EndsOnTime
<1> QED  BY <1>1, <1>4, <1>5, <1>6, <1>7, <1>8 DEF ThreadInv

(* and goes on to the queue, *)
LEMMA AskKeepsThreads ==
  ASSUME ThreadInv, NEW t \in Threads, pc[t] \in {"chosen", "push", "direct"},
         NEW mark \in {"push", "direct"}, pc' = [pc EXCEPT ![t] = mark],
         UNCHANGED <<limit, alive, clock, m_today, m_count, tm, spoiled, now, stamp,
                     line, logged>>
  PROVE  ThreadInv'
<1>1. Cardinality(ToChoose)' = Cardinality(ToChoose)
  <2>1. mark \notin Undecided /\ pc[t] \notin Undecided  BY DEF Undecided
  <2> QED  BY <2>1, ToChooseAfter DEF ThreadInv
<1>2. /\ pc' \in [Threads -> Marks]
      /\ \A u \in Threads : pc'[u] = "idle" <=> pc[u] = "idle"
      /\ \A u \in Threads : pc'[u] \in Dated <=> pc[u] \in Dated
  BY DEF ThreadInv, Marks, Dated
<1>3. Lively'
  <2>1. OnTime => OnTime'  BY <1>2 DEF OnTime, ThreadInv
  <2>2. Lively /\ alive' = alive  BY DEF ThreadInv
  <2> QED  BY <2>1, <2>2 DEF Lively
<1>4. ASSUME NEW u \in Threads
      PROVE  /\ IF pc'[u] = "idle" THEN line[u] = NoLine
                ELSE line[u] \in 1 .. logged /\ now[u] \in 1 .. clock
             /\ pc'[u] \in Dated
                  => /\ stamp[u] \in 1 .. clock
                     /\ stamp[u] = now[u] \/ stamp[u] \in spoiled
  <2>1. /\ pc'[u] = "idle" <=> pc[u] = "idle"
        /\ pc'[u] \in Dated <=> pc[u] \in Dated
    BY <1>2, <1>3
  <2>2. /\ IF pc[u] = "idle" THEN line[u] = NoLine
           ELSE line[u] \in 1 .. logged /\ now[u] \in 1 .. clock
        /\ pc[u] \in Dated
             => /\ stamp[u] \in 1 .. clock
                /\ stamp[u] = now[u] \/ stamp[u] \in spoiled
    BY DEF ThreadInv
  <2> QED  BY <2>1, <2>2
<1> QED  BY <1>1, <1>2, <1>3, <1>4 DEF ThreadInv

(* or back to its own work without the line. *)
LEMMA ReturnKeepsThreads ==
  ASSUME ThreadInv, NEW t \in Threads, pc[t] \in {"chosen", "push", "direct"},
         Returns(t),
         UNCHANGED <<limit, alive, clock, m_today, m_count, tm, spoiled, logged>>
  PROVE  ThreadInv'
<1>1. /\ pc' = [pc EXCEPT ![t] = "idle"] /\ line' = [line EXCEPT ![t] = NoLine]
      /\ now' = [now EXCEPT ![t] = 0] /\ stamp' = [stamp EXCEPT ![t] = 0]
      /\ 0 \in 0 .. MaxDay
  BY DayBounds DEF Returns
<1>2. Cardinality(ToChoose)' = Cardinality(ToChoose)
  <2>1. "idle" \notin Undecided /\ pc[t] \notin Undecided  BY DEF Undecided
  <2> QED  BY <2>1, <1>1, ToChooseAfter DEF ThreadInv
<1>3. pc' \in [Threads -> Marks] /\ line' \in [Threads -> Lines \cup {NoLine}]
      /\ {now', stamp'} \subseteq [Threads -> 0 .. MaxDay]
  BY <1>1 DEF ThreadInv, Marks
<1>4. ASSUME NEW u \in Threads
      PROVE  IF u = t THEN pc'[u] = "idle" /\ line'[u] = NoLine
             ELSE /\ pc'[u] = pc[u] /\ line'[u] = line[u] /\ now'[u] = now[u]
                  /\ stamp'[u] = stamp[u]
  BY <1>1 DEF ThreadInv
<1>5. "idle" \notin Dated  BY DEF Dated
<1>6. ASSUME NEW u \in Threads
      PROVE  /\ IF pc'[u] = "idle" THEN line'[u] = NoLine
                ELSE line'[u] \in 1 .. logged /\ now'[u] \in 1 .. clock
             /\ pc'[u] \in Dated
                  => /\ stamp'[u] \in 1 .. clock
                     /\ stamp'[u] = now'[u] \/ stamp'[u] \in spoiled
  BY <1>4, <1>5 DEF ThreadInv
<1>7. Lively'
  <2>1. OnTime => OnTime'  BY <1>4 DEF OnTime
  <2>2. Lively /\ alive' = alive  BY DEF ThreadInv
  <2> QED  BY <2>1, <2>2 DEF Lively
<1> QED  BY <1>2, <1>3, <1>6, <1>7 DEF ThreadInv

threadVars == <<limit, clock, m_today, m_count, pc, now, stamp, line, logged, spoiled>>

(* ThreadInv is about these variables only, but for the end of the program and
   the call of localtime in DelLog. *)
LEMMA ThreadSame ==
  ThreadInv /\ UNCHANGED threadVars /\ alive' \in {alive, FALSE}
    /\ tm' \in {tm, DayToDelete} => ThreadInv'
<1> SUFFICES ASSUME ThreadInv, UNCHANGED threadVars, alive' \in {alive, FALSE},
                    tm' \in {tm, DayToDelete}
             PROVE  ThreadInv'
  OBVIOUS
<1>1. ToChoose' = ToChoose  BY DEF ToChoose, threadVars
<1>2. tm' \in 1 .. clock  BY DayBounds DEF ThreadInv, DayToDelete, Today
<1>3. Lively'
  <2>1. OnTime => OnTime'  BY DEF OnTime, threadVars
  <2>2. Lively  BY DEF ThreadInv
  <2> QED  BY <2>1, <2>2, EndsOnTime
<1> QED  BY <1>1, <1>2, <1>3 DEF ThreadInv, threadVars

(* Midnight waits for whoever is late, and a restart ends all threads. *)
LEMMA DaysKeepThreads ==
  ASSUME ThreadInv, NewDay \/ StartAgain
  PROVE  ThreadInv'
<1>1. CASE NewDay
  <2>1. UNCHANGED <<limit, alive, m_today, m_count, tm, spoiled, pc, now, stamp, line,
                    logged>>
        /\ clock < limit.days /\ clock' = clock + 1
        /\ \A t \in Threads : alive /\ pc[t] # "idle" => clock < now[t] + MaxLate
    BY <1>1 DEF NewDay, Midnight, history
  <2>2. limit.days \in 1 .. MaxDay /\ MaxDay \in Nat /\ MaxLate \in Nat /\ Today \in Nat
    BY LimitType, DayBounds DEF ThreadInv
  <2>3. ToChoose' = ToChoose  BY <2>1 DEF ToChoose
  <2>4. clock' \in Today .. MaxDay /\ 1 .. clock \subseteq 1 .. clock'
    BY <2>1, <2>2 DEF ThreadInv
  <2>5. Lively'
    <3>1. ASSUME \A t \in Threads : pc[t] # "idle" => clock < now[t] + MaxLate
          PROVE  OnTime'
      <4>1. ASSUME NEW t \in Threads, pc[t] # "idle" PROVE clock' <= now[t] + MaxLate
        <5>1. now[t] \in 1 .. clock  BY <4>1 DEF ThreadInv
        <5> QED  BY <5>1, <4>1, <3>1, <2>1, <2>2 DEF ThreadInv
      <4> QED  BY <4>1, <2>1 DEF OnTime
    <3>2. alive => \A t \in Threads : pc[t] # "idle" => clock < now[t] + MaxLate
      BY <2>1
    <3>3. Lively /\ alive' = alive  BY <2>1 DEF ThreadInv
    <3> QED  BY <3>1, <3>2, <3>3 DEF Lively
  <2>6. \A t \in Threads : now[t] \in 1 .. clock => now[t] \in 1 .. clock'
    BY <2>4
  <2> QED  BY <2>1, <2>3, <2>4, <2>5, <2>6 DEF ThreadInv
<1>2. CASE StartAgain
  <2>1. PICK n \in 0 .. buffered : Restart(n)  BY <1>2 DEF StartAgain
  <2>2. /\ UNCHANGED <<limit, clock, logged, spoiled>>
        /\ m_today' = clock /\ tm' = clock /\ m_count' = 0 /\ alive' = TRUE
        /\ pc' = [t \in Threads |-> "idle"] /\ line' = [t \in Threads |-> NoLine]
        /\ now' = [t \in Threads |-> 0] /\ stamp' = [t \in Threads |-> 0]
    BY <2>1 DEF Restart, Ends
  <2>3. Cardinality(ToChoose') = 0
    <3>1. ToChoose' = {}  BY <2>2 DEF ToChoose, Undecided
    <3> QED  BY <3>1, FS_EmptySet
  <2>4. limit.lines \in Nat /\ 0 \in 0 .. MaxDay /\ clock \in 1 .. clock
    BY LimitType, DayBounds DEF ThreadInv
  <2>5. /\ pc' \in [Threads -> Marks] /\ line' \in [Threads -> Lines \cup {NoLine}]
        /\ {now', stamp'} \subseteq [Threads -> 0 .. MaxDay]
        /\ \A t \in Threads : pc'[t] = "idle" /\ line'[t] = NoLine
    BY <2>2, <2>4 DEF Marks
  <2>6. "idle" \notin Dated  BY DEF Dated
  <2>7. Lively'
    <3>1. OnTime'  BY <2>5 DEF OnTime
    <3> QED  BY <3>1, <2>2 DEF Lively
  <2> QED  BY <2>2, <2>3, <2>4, <2>5, <2>6, <2>7 DEF ThreadInv
<1> QED  BY <1>1, <1>2

(* The writer and the control functions leave the threads that log alone. *)
ElsewhereStep ==
    \/ WriterTests \/ WriterPops \/ WriterWrites \/ WriterCrashes \/ WriterWakesUp
    \/ Flush \/ FlushPops \/ FlushWrites \/ FlushMem
    \/ \E deleted \in BOOLEAN : Close(deleted)
    \/ ClearFlag \/ WakeUp \/ Join \/ CloseFile
    \/ \E opened \in BOOLEAN : OpenLog(opened)

(* So their steps do not change what ThreadInv is about. *)
LEMMA ElsewhereSame ==
  ElsewhereStep \/ UNCHANGED allVars
    => UNCHANGED threadVars /\ alive' \in {alive, FALSE} /\ tm' \in {tm, DayToDelete}
<1> DEFINE Same == UNCHANGED threadVars /\ alive' \in {alive, FALSE}
                     /\ tm' \in {tm, DayToDelete}
<1>1. ASSUME WriterTests \/ WriterPops \/ WriterWrites \/ WriterCrashes \/ WriterWakesUp
      PROVE  Same
  BY <1>1 DEF WriterTests, WriterPops, WriterWrites, WriterCrashes, WriterWakesUp,
              still, threads, threadVars
<1>2. ASSUME Flush \/ FlushPops \/ FlushWrites \/ FlushMem
      PROVE  Same
  BY <1>2 DEF Flush, FlushPops, FlushWrites, FlushMem, threads, vars, history, threadVars
<1>3. ASSUME NEW deleted \in BOOLEAN, Close(deleted)
      PROVE  Same
  BY <1>3 DEF Close, vars, history, threadVars
<1>4. ASSUME ClearFlag \/ WakeUp \/ Join \/ CloseFile
      PROVE  Same
  BY <1>4 DEF ClearFlag, WakeUp, Join, CloseFile, threads, vars, history, threadVars
<1>5. ASSUME NEW opened \in BOOLEAN, OpenLog(opened) PROVE Same
  BY <1>5 DEF OpenLog, history, threadVars
<1>6. ASSUME UNCHANGED allVars PROVE Same
  BY <1>6 DEF allVars, vars, history, threadVars
<1> QED  BY <1>1, <1>2, <1>3, <1>4, <1>5, <1>6 DEF ElsewhereStep

(* Every step of WriteLog keeps ThreadInv, *)
LEMMA WriteLogKeepsThreads ==
  ASSUME ThreadInv, NEW t \in Threads,
         LogLine(t) \/ AskQueue(t) \/ WriteDirect(t) \/ PushLine(t)
  PROVE  ThreadInv'
<1>1. CASE LogLine(t)
  BY <1>1, ClockKeepsThreads, localtimeKeepsThreads, StampKeepsThreads,
     ChooseKeepsThreads DEF LogLine
<1>2. CASE AskQueue(t)
  <2>1. PICK mark \in {"direct", "push"} : pc' = [pc EXCEPT ![t] = mark]
    BY <1>2 DEF AskQueue
  <2>2. /\ pc[t] = "chosen"
        /\ UNCHANGED <<limit, alive, clock, m_today, m_count, tm, spoiled, now, stamp,
                       line, logged>>
    BY <1>2 DEF AskQueue, history
  <2> QED  BY <2>1, <2>2, AskKeepsThreads
<1>3. CASE WriteDirect(t) \/ PushLine(t)
  <2>1. /\ pc[t] \in {"chosen", "push", "direct"} /\ Returns(t)
        /\ UNCHANGED <<limit, alive, clock, m_today, m_count, tm, spoiled, logged>>
    BY <1>3 DEF WriteDirect, Write, PushLine
  <2> QED  BY <2>1, ReturnKeepsThreads
<1> QED  BY <1>1, <1>2, <1>3

(* and so does every step of the log. *)
LEMMA ThreadStep == ThreadInv /\ [AsyncNext]_allVars => ThreadInv'
<1> SUFFICES ASSUME ThreadInv, [AsyncNext]_allVars PROVE ThreadInv'
  OBVIOUS
<1>1. ASSUME NEW t \in Threads,
             LogLine(t) \/ AskQueue(t) \/ WriteDirect(t) \/ PushLine(t)
      PROVE  ThreadInv'
  BY <1>1, WriteLogKeepsThreads
<1>2. CASE NewDay \/ StartAgain  BY <1>2, DaysKeepThreads
<1>3. CASE ElsewhereStep \/ UNCHANGED allVars
  BY <1>3, ElsewhereSame, ThreadSame
<1> QED  BY <1>1, <1>2, <1>3 DEF AsyncNext, Running, ElsewhereStep

-----------------------------------------------------------------------------
(* The queue, the writer and the control functions *)

(* A queue that holds something sensible is not NULL. *)
LEMMA QueueIsNotNULL ==
  ASSUME limit \in Limits, NEW q, QueueHolds(q)
  PROVE  q # NULL /\ q \in BQ!Ring(limit.max_queue_size, Items)
  BY NULLAssumption DEF QueueHolds, Holds, Items

(* push leaves a sensible queue, and one that is not empty, *)
LEMMA QueuePush ==
  ASSUME limit \in Limits, NEW q, QueueHolds(q), NEW x \in Items
  PROVE  QueueHolds(BQ!push(q, x)) /\ ~BQ!empty(BQ!push(q, x))
<1>1. /\ limit.max_queue_size \in Nat \ {0}
      /\ q.m_size \in 0 .. limit.max_queue_size
      /\ q.m_max_size = limit.max_queue_size
  BY DEF QueueHolds, Holds, BQ!Ring
<1>2. CASE BQ!full(q)
  BY <1>1, <1>2 DEF BQ!full, BQ!push, BQ!empty
<1>3. CASE ~BQ!full(q)
  <2>1. Holds(BQ!push(q, x), limit.max_queue_size, Items,
              Append(BQ!Elements(q), x))
    BY <1>1, <1>3, PushHolds DEF QueueHolds
  <2>2. BQ!push(q, x).m_size = q.m_size + 1
    BY <1>3 DEF BQ!push
  <2> QED  BY <2>1, <2>2, <1>1 DEF QueueHolds, Holds, BQ!empty
<1> QED  BY <1>2, <1>3

(* and so does pop, whose answer is something that was pushed. *)
LEMMA QueuePop ==
  ASSUME NEW q, QueueHolds(q), ~BQ!empty(q)
  PROVE  QueueHolds(BQ!pop(q)) /\ BQ!Oldest(q) \in Items
<1>1. /\ BQ!Elements(q) # << >> /\ BQ!Oldest(q) = Head(BQ!Elements(q))
      /\ Holds(BQ!pop(q), limit.max_queue_size, Items, Tail(BQ!Elements(q)))
  BY PopHolds DEF QueueHolds
<1>2. BQ!Elements(q) \in Seq(Items)  BY DEF QueueHolds, Holds
<1> QED  BY <1>1, <1>2 DEF QueueHolds, Holds

(* At first the queue is empty and the writer is about to look at it. *)
LEMMA QueueInit == AsyncInit => QueueInv
<1> SUFFICES ASSUME AsyncInit PROVE QueueInv
  OBVIOUS
<1>1. limit \in Limits /\ limit.max_queue_size \in Nat
  BY LimitType DEF AsyncInit, Init
<1>2. CASE Async
  <2>1. limit.max_queue_size \in Nat \ {0}  BY <1>1, <1>2 DEF Async
  <2>2. QueueHolds(m_log_queue)
    BY <2>1, <1>2, NewHolds DEF AsyncInit, NewQueue, QueueHolds, Holds
  <2>3. m_log_queue # NULL  BY <2>2, <1>1, QueueIsNotNULL
  <2> QED  BY <2>1, <2>2, <2>3, <1>2 DEF AsyncInit, Init, QueueInv, QueueHolds, Logging, Closing
<1>3. CASE ~Async
  <2>1. m_is_async = FALSE
    <3>1. Async \in BOOLEAN  BY <1>1 DEF Async
    <3>2. m_is_async = Async  BY DEF AsyncInit
    <3> QED  BY <3>1, <3>2, <1>3
  <2> QED
    BY <2>1, <1>3 DEF AsyncInit, Init, QueueInv, NewQueue, Logging, Closing
<1> QED  BY <1>2, <1>3

(* The threads that log. *)
LEMMA WriteLogKeepsQueue ==
  ASSUME ThreadInv, QueueInv, NEW t \in Threads,
         LogLine(t) \/ AskQueue(t) \/ WriteDirect(t) \/ PushLine(t)
  PROVE  QueueInv'
<1> DEFINE others == <<limit, m_is_async, written, control, flushed, ending>>
<1>1. /\ limit \in Limits /\ pc \in [Threads -> Marks]
      /\ pc[t] # "idle" => line[t] \in Items /\ control \in Logging
  <2>1. /\ limit \in Limits /\ pc \in [Threads -> Marks]
        /\ pc[t] # "idle" => line[t] \in 1 .. logged
        /\ logged \in 0 .. limit.lines
    BY DEF ThreadInv
  <2>2. pc[t] # "idle" => control \in Logging  BY DEF QueueInv, Quiet
  <2> QED  BY <2>1, <2>2, LimitType DEF Items
<1>2. CASE LogLine(t)
  <2>1. UNCHANGED <<others, m_log_queue, writer>> /\ control \in Logging
        /\ \A u \in Threads : pc'[u] \in {"push", "direct"} => pc[u] = pc'[u]
    <3>1. CASE Clock(t) /\ control \in {"open", "flush", "flushWrite"} /\ UNCHANGED asyncVars
      BY <3>1, <1>1 DEF Clock, asyncVars, Logging, Marks
    <3>3. CASE (localtime(t) \/ Stamp(t)) /\ UNCHANGED asyncVars
      BY <3>3, <1>1 DEF localtime, Stamp, asyncVars, Marks
    <3>2. CASE ChooseFile(t) /\ UNCHANGED asyncVars
      BY <3>2, <1>1 DEF ChooseFile, asyncVars, Marks
    <3> QED  BY <3>1, <3>2, <3>3, <1>2 DEF LogLine
  <2> QED  BY <2>1 DEF QueueInv, QueueHolds, Logging, Closing
<1>3. CASE AskQueue(t)
  <2>1. /\ UNCHANGED <<others, m_log_queue, writer>> /\ control \in Logging
        /\ m_is_async
    BY <1>1, <1>3 DEF AskQueue, asyncVars
  <2> QED  BY <2>1 DEF QueueInv, QueueHolds, Logging, Closing
<1>4. CASE WriteDirect(t)
  <2>1. /\ UNCHANGED <<others, m_log_queue, writer>> /\ control \in Logging
        /\ \A u \in Threads : pc'[u] \in {"push", "direct"} => pc[u] = pc'[u]
    BY <1>1, <1>4 DEF WriteDirect, Write, Returns, asyncVars, Marks
  <2> QED  BY <2>1 DEF QueueInv, QueueHolds, Logging, Closing
<1>5. CASE PushLine(t)
  <2>1. /\ UNCHANGED others /\ control \in Logging /\ m_log_queue # NULL
        /\ \A u \in Threads : pc'[u] \in {"push", "direct"} => pc[u] = pc'[u]
        /\ m_log_queue' = BQ!push(m_log_queue, line[t])
    BY <1>1, <1>5 DEF PushLine, Returns, Marks, QueueInv
  <2>2. QueueHolds(m_log_queue') /\ m_log_queue' # NULL
    BY <2>1, <1>1, <1>5, QueuePush, QueueIsNotNULL DEF QueueInv, PushLine
  <2>3. QueueHolds(m_log_queue)'  BY <2>1, <2>2 DEF QueueHolds
  <2>4. writer' = Woken  BY <1>5 DEF PushLine
  <2> QED
    BY <2>1, <2>2, <2>3, <2>4 DEF QueueInv, Woken, Logging, Closing
<1> QED  BY <1>2, <1>3, <1>4, <1>5

(* The writer. *)
LEMMA WriterKeepsQueue ==
  ASSUME ThreadInv, QueueInv,
         WriterTests \/ WriterPops \/ WriterWrites \/ WriterCrashes \/ WriterWakesUp
  PROVE  QueueInv'
<1> DEFINE others == <<limit, pc, m_is_async, control, flushed, ending>>
<1>1. UNCHANGED others
  BY DEF WriterTests, WriterPops, WriterWrites, WriterCrashes, WriterWakesUp, still,
         threads
<1>2. Quiet' = Quiet  BY <1>1 DEF Quiet
<1>3. CASE WriterTests \/ WriterWakesUp
  <2>1. UNCHANGED <<m_log_queue, written>>
    BY <1>3 DEF WriterTests, WriterWakesUp
  <2>2. control = "join" => ~m_is_async /\ writer # "asleep"
    BY DEF QueueInv, Closing
  <2> QED
    BY <2>1, <2>2, <1>1, <1>2, <1>3
    DEF QueueInv, QueueHolds, WriterTests, WriterWakesUp
<1>4. CASE WriterPops
  <2>1. writer = "pop" /\ QueueHolds(m_log_queue) /\ limit \in Limits
    BY <1>4 DEF WriterPops, QueueInv, ThreadInv
  <2>2. CASE BQ!empty(m_log_queue)
    <3>1. writer' = "asleep" /\ UNCHANGED <<m_log_queue, written>>
      BY <1>4, <2>2 DEF WriterPops
    <3> QED  BY <3>1, <2>1, <2>2, <1>1, <1>2 DEF QueueInv, QueueHolds
  <2>3. CASE ~BQ!empty(m_log_queue)
    <3>1. /\ writer' = "write" /\ written' = BQ!Oldest(m_log_queue)
          /\ m_log_queue' = BQ!pop(m_log_queue)
      BY <1>4, <2>3 DEF WriterPops
    <3>2. QueueHolds(m_log_queue') /\ written' \in Items
      BY <3>1, <2>1, <2>3, QueuePop
    <3>3. m_log_queue' # NULL  BY <3>2, <2>1, QueueIsNotNULL
    <3>4. QueueHolds(m_log_queue)'  BY <3>2, <1>1 DEF QueueHolds
    <3> QED  BY <3>1, <3>2, <3>3, <3>4, <2>1, <1>1, <1>2 DEF QueueInv
  <2> QED  BY <2>2, <2>3
<1>5. CASE WriterWrites
  <2>1. writer = "write" /\ writer' = "test" /\ written' = NoLine
        /\ UNCHANGED m_log_queue
    BY <1>5 DEF WriterWrites
  <2> QED  BY <2>1, <1>1, <1>2 DEF QueueInv, QueueHolds
<1>6. CASE WriterCrashes
  <2>1. UNCHANGED <<m_log_queue, writer, written>>  BY <1>6 DEF WriterCrashes
  <2> QED  BY <2>1, <1>1, <1>2 DEF QueueInv, QueueHolds
<1> QED  BY <1>3, <1>4, <1>5, <1>6

(* FlushQueue and FlushMem. *)
LEMMA FlushKeepsQueue ==
  ASSUME ThreadInv, QueueInv, Flush \/ FlushPops \/ FlushWrites \/ FlushMem
  PROVE  QueueInv'
<1> DEFINE others == <<limit, pc, m_is_async, writer, written, ending>>
<1>1. UNCHANGED others
  BY DEF Flush, FlushPops, FlushWrites, FlushMem, threads, vars
<1>2. Quiet' = Quiet  BY <1>1 DEF Quiet
<1>3. CASE Flush
  <2>1. /\ control = "open" /\ m_is_async /\ control' = "flush"
        /\ UNCHANGED <<m_log_queue, flushed>>
    BY <1>3 DEF Flush, Call
  <2> QED  BY <2>1, <1>1, <1>2 DEF QueueInv, QueueHolds, Logging, Closing
<1>4. CASE FlushPops
  <2>1. control = "flush" /\ m_log_queue # NULL /\ QueueHolds(m_log_queue)
        /\ limit \in Limits
    BY <1>4 DEF FlushPops, QueueInv, ThreadInv
  <2>2. CASE BQ!empty(m_log_queue)
    <3>1. control' = "open" /\ UNCHANGED <<m_log_queue, flushed>>
      BY <1>4, <2>2 DEF FlushPops
    <3> QED  BY <3>1, <2>1, <1>1, <1>2 DEF QueueInv, QueueHolds, Logging, Closing
  <2>3. CASE ~BQ!empty(m_log_queue)
    <3>1. /\ control' = "flushWrite" /\ flushed' = BQ!Oldest(m_log_queue)
          /\ m_log_queue' = BQ!pop(m_log_queue)
      BY <1>4, <2>3 DEF FlushPops
    <3>2. QueueHolds(m_log_queue') /\ flushed' \in Items
      BY <3>1, <2>1, <2>3, QueuePop
    <3>3. m_log_queue' # NULL  BY <3>2, <2>1, QueueIsNotNULL
    <3>4. QueueHolds(m_log_queue)'  BY <3>2, <1>1 DEF QueueHolds
    <3> QED
      BY <3>1, <3>2, <3>3, <3>4, <2>1, <1>1, <1>2 DEF QueueInv, Logging, Closing
  <2> QED  BY <2>2, <2>3
<1>5. CASE FlushWrites
  <2>1. /\ control = "flushWrite" /\ control' = "flush" /\ flushed' = NoLine
        /\ UNCHANGED m_log_queue
    BY <1>5 DEF FlushWrites
  <2> QED  BY <2>1, <1>1, <1>2 DEF QueueInv, QueueHolds, Logging, Closing
<1>6. CASE FlushMem
  <2>1. /\ control = "open" /\ control' = "open"
        /\ UNCHANGED <<m_log_queue, flushed>>
    BY <1>6 DEF FlushMem, Call
  <2> QED  BY <2>1, <1>1, <1>2 DEF QueueInv, QueueHolds, Logging, Closing
<1> QED  BY <1>3, <1>4, <1>5, <1>6

(* CloseLog, OpenLog and ~Log. *)
LEMMA CloseKeepsQueue ==
  ASSUME ThreadInv, QueueInv,
         \/ \E deleted \in BOOLEAN : Close(deleted)
         \/ ClearFlag \/ WakeUp \/ Join \/ CloseFile
         \/ \E opened \in BOOLEAN : OpenLog(opened)
  PROVE  QueueInv'
<1>1. UNCHANGED <<limit, pc, written, flushed>>
  BY DEF Close, ClearFlag, WakeUp, Join, CloseFile, OpenLog, threads, vars
<1>2. Quiet' = Quiet  BY <1>1 DEF Quiet
<1>3. ASSUME NEW deleted \in BOOLEAN, Close(deleted) PROVE QueueInv'
  <2>1. /\ control \in {"open", "closed"} /\ Quiet /\ ending' = deleted
        /\ control' = IF m_is_async THEN "clearFlag" ELSE "closeFile"
        /\ UNCHANGED <<m_is_async, m_log_queue, writer>>
    BY <1>3 DEF Close, Call
  <2> QED  BY <2>1, <1>1, <1>2 DEF QueueInv, QueueHolds, Logging, Closing, Quiet
<1>4. CASE ClearFlag
  <2>1. /\ control = "clearFlag" /\ control' = "wakeUp" /\ m_is_async' = FALSE
        /\ UNCHANGED <<m_log_queue, writer, ending>>
    BY <1>4 DEF ClearFlag
  <2>2. Quiet  BY <2>1 DEF QueueInv, Logging
  <2> QED  BY <2>1, <2>2, <1>1, <1>2 DEF QueueInv, QueueHolds, Logging, Closing, Quiet
<1>5. CASE WakeUp
  <2>1. /\ control = "wakeUp" /\ control' = "join" /\ writer' = Woken
        /\ m_log_queue' = BQ!push(m_log_queue, Farewell)
        /\ UNCHANGED <<m_is_async, ending>>
    BY <1>5 DEF WakeUp
  <2>2. limit \in Limits /\ Farewell \in Items /\ QueueHolds(m_log_queue)
    BY <2>1, BoundsAssumption DEF QueueInv, ThreadInv, Farewell, Items
  <2>3. QueueHolds(m_log_queue') /\ ~BQ!empty(m_log_queue')
    BY <2>1, <2>2, QueuePush
  <2>4. m_log_queue' # NULL /\ m_log_queue # NULL  BY <2>2, <2>3, QueueIsNotNULL
  <2>5. QueueHolds(m_log_queue)' /\ (~BQ!empty(m_log_queue))'
    BY <2>3, <1>1 DEF QueueHolds, BQ!empty
  <2> QED
    BY <2>1, <2>2, <2>4, <2>5, <1>1, <1>2 DEF QueueInv, Woken, Logging, Closing
<1>6. CASE Join
  <2>1. /\ control = "join" /\ control' = "closeFile" /\ writer = "ended"
        /\ m_log_queue' = NULL /\ writer' = "none"
        /\ UNCHANGED <<m_is_async, ending>>
    BY <1>6 DEF Join, threads
  <2> QED  BY <2>1, <1>1, <1>2 DEF QueueInv, Logging, Closing
<1>7. CASE CloseFile
  <2>1. /\ control = "closeFile" /\ control' \in {"closed", "deleted"}
        /\ UNCHANGED <<m_is_async, m_log_queue, writer, ending>>
    BY <1>7 DEF CloseFile
  <2> QED  BY <2>1, <1>1, <1>2 DEF QueueInv, QueueHolds, Logging, Closing
<1>8. ASSUME NEW opened \in BOOLEAN, OpenLog(opened) PROVE QueueInv'
  <2>1. /\ control \in {"open", "closed"} /\ control' \in {"open", control}
        /\ UNCHANGED <<m_is_async, m_log_queue, writer, ending>>
    BY <1>8 DEF OpenLog, Call
  <2> QED  BY <2>1, <1>1, <1>2 DEF QueueInv, QueueHolds, Logging, Closing
<1> QED  BY <1>3, <1>4, <1>5, <1>6, <1>7, <1>8

(* A new day and a restart. *)
LEMMA DaysKeepQueue ==
  ASSUME ThreadInv, QueueInv, NewDay \/ StartAgain \/ UNCHANGED allVars
  PROVE  QueueInv'
<1>1. CASE NewDay \/ UNCHANGED allVars
  <2>1. UNCHANGED <<limit, pc, asyncVars>>
    BY <1>1 DEF NewDay, Midnight, allVars, vars
  <2> QED  BY <2>1 DEF QueueInv, QueueHolds, Quiet, asyncVars
<1>2. CASE StartAgain
  <2>1. /\ limit \in Limits /\ limit' = limit
        /\ pc' = [t \in Threads |-> "idle"]
        /\ m_is_async' = Async /\ m_log_queue' = NewQueue
        /\ writer' = (IF Async THEN "test" ELSE "none")
        /\ written' = NoLine /\ flushed' = NoLine
        /\ control' = "open" /\ ending' = FALSE
    BY <1>2 DEF StartAgain, Restart, Ends, ThreadInv
  <2>2. CASE Async
    <3>1. limit.max_queue_size \in Nat \ {0}
      BY <2>1, <2>2, LimitType DEF Async
    <3>2. QueueHolds(m_log_queue')
      BY <3>1, <2>1, <2>2, NewHolds DEF NewQueue, QueueHolds, Holds
    <3>3. m_log_queue' # NULL  BY <3>2, <2>1, QueueIsNotNULL
    <3>4. QueueHolds(m_log_queue)'  BY <3>2, <2>1 DEF QueueHolds
    <3> QED  BY <3>3, <3>4, <2>1, <2>2 DEF QueueInv, Logging, Closing
  <2>3. CASE ~Async
    <3>1. m_is_async' = FALSE
      <4>1. Async \in BOOLEAN  BY <2>1, LimitType DEF Async
      <4> QED  BY <4>1, <2>1, <2>3
    <3> QED  BY <3>1, <2>1, <2>3 DEF QueueInv, NewQueue, Logging, Closing
  <2> QED  BY <2>2, <2>3
<1> QED  BY <1>1, <1>2

(* Every step of the log keeps QueueInv. *)
LEMMA QueueStep == ThreadInv /\ QueueInv /\ [AsyncNext]_allVars => QueueInv'
<1> SUFFICES ASSUME ThreadInv, QueueInv, [AsyncNext]_allVars PROVE QueueInv'
  OBVIOUS
<1>1. ASSUME NEW t \in Threads,
             LogLine(t) \/ AskQueue(t) \/ WriteDirect(t) \/ PushLine(t)
      PROVE  QueueInv'
  BY <1>1, WriteLogKeepsQueue
<1>2. CASE WriterTests \/ WriterPops \/ WriterWrites \/ WriterCrashes \/ WriterWakesUp
  BY <1>2, WriterKeepsQueue
<1>3. CASE Flush \/ FlushPops \/ FlushWrites \/ FlushMem
  BY <1>3, FlushKeepsQueue
<1>4. CASE \/ \E deleted \in BOOLEAN : Close(deleted)
           \/ ClearFlag \/ WakeUp \/ Join \/ CloseFile
           \/ \E opened \in BOOLEAN : OpenLog(opened)
  BY <1>4, CloseKeepsQueue
<1>5. CASE NewDay \/ StartAgain \/ UNCHANGED allVars
  BY <1>5, DaysKeepQueue
<1> QED  BY <1>1, <1>2, <1>3, <1>4, <1>5 DEF AsyncNext, Running

-----------------------------------------------------------------------------
(* The files *)

(* A number and its quotient and remainder. *)
LEMMA DivMod ==
  ASSUME NEW s \in Nat \ {0}, NEW c \in Nat
  PROVE  c = (c \div s) * s + (c % s) /\ c % s \in 0 .. s - 1 /\ c \div s \in Nat
  OBVIOUS

(* They are the only ones. *)
LEMMA DivModUnique ==
  ASSUME NEW s \in Nat \ {0}, NEW k \in Nat, NEW r \in 0 .. s - 1
  PROVE  (k * s + r) \div s = k /\ (k * s + r) % s = r
  OBVIOUS

(* A new part begins exactly when the count asks for a new file. *)
LEMMA PartNext ==
  ASSUME NEW c \in Nat
  PROVE  /\ Part(c) \in 0 .. c
         /\ Due(c + 1) => Part(c + 1) = Part(c) + 1
         /\ ~Due(c + 1) => Part(c + 1) = Part(c)
<1> DEFINE s == m_split_lines
<1>1. s \in Nat \ {0}  BY BoundsAssumption
<1> HIDE DEF s
<1>2. PICK k \in Nat, r \in 0 .. s - 1 : k = c \div s /\ c = k * s + r
  BY <1>1, DivMod
<1>3. k \in 0 .. c
  <2>1. k * s >= k  BY <1>1
  <2> QED  BY <2>1, <1>1, <1>2
<1>4. CASE r = s - 1
  <2>1. PICK m \in Nat : m = k + 1  OBVIOUS
  <2>2. PICK z \in 0 .. s - 1 : z = 0  BY <1>1
  <2>3. c + 1 = m * s + z  BY <2>1, <2>2, <1>1, <1>2, <1>4
  <2>4. (m * s + z) \div s = m /\ (m * s + z) % s = z  BY <1>1, DivModUnique
  <2>5. (c + 1) \div s = k + 1 /\ (c + 1) % s = 0  BY <2>1, <2>2, <2>3, <2>4
  <2> QED  BY <2>5, <1>2, <1>3 DEF Part, Due, s
<1>5. CASE r # s - 1
  <2>1. PICK z \in 0 .. s - 1 : z = r + 1 /\ z # 0  BY <1>1, <1>5
  <2>2. c + 1 = k * s + z  BY <2>1, <1>1, <1>2
  <2>3. (k * s + z) \div s = k /\ (k * s + z) % s = z  BY <1>1, DivModUnique
  <2>4. (c + 1) \div s = k /\ (c + 1) % s # 0  BY <2>1, <2>2, <2>3
  <2> QED  BY <2>4, <1>2, <1>3 DEF Part, Due, s
<1> QED  BY <1>4, <1>5

(* A file is known by its day and its suffix. *)
LEMMA NameOf ==
  /\ \A d \in Days, k \in Parts : <<d, k>> \in Names
  /\ \A n \in Names : n[1] \in Days /\ n[2] \in Parts /\ n = <<n[1], n[2]>>
  BY DEF Names, Parts

(* DelLog deletes files of the expired day only, and all of them where the parts
   have no gap; it makes none. *)
LEMMA DelLogIs ==
  ASSUME NEW f \in Disk
  PROVE  /\ DelLog(f) \in Disk
         /\ \A d \in Days, k \in Parts :
              /\ DelLog(f)[<<d, k>>] \in {f[<<d, k>>], Absent}
              /\ ~Expired(d) => DelLog(f)[<<d, k>>] = f[<<d, k>>]
              /\ Expired(d) /\ Contiguous(f, d) => DelLog(f)[<<d, k>>] = Absent
<1>1. DelLog(f) \in Disk  BY DEF DelLog, Disk
<1>2. ASSUME NEW d \in Days, NEW k \in Parts
      PROVE  /\ DelLog(f)[<<d, k>>] \in {f[<<d, k>>], Absent}
             /\ ~Expired(d) => DelLog(f)[<<d, k>>] = f[<<d, k>>]
             /\ Expired(d) /\ Contiguous(f, d) => DelLog(f)[<<d, k>>] = Absent
  <2>1. PICK n \in Names : n = <<d, k>> /\ n[1] = d /\ n[2] = k
    BY NameOf
  <2>2. DelLog(f)[n] =
          IF Expired(d) /\ (\A j \in 0 .. k : f[<<d, j>>] # Absent)
            THEN Absent ELSE f[n]
    BY <2>1 DEF DelLog
  <2>3. ASSUME Expired(d), Contiguous(f, d), f[n] # Absent
        PROVE  \A j \in 0 .. k : f[<<d, j>>] # Absent
    BY <2>1, <2>3 DEF Contiguous, Parts
  <2> QED  BY <2>1, <2>2, <2>3
<1> QED  BY <1>1, <1>2

(* So it leaves no gap where there was none. *)
LEMMA DelLogContiguous ==
  ASSUME NEW f \in Disk, NEW d \in Days, Contiguous(f, d)
  PROVE  Contiguous(DelLog(f), d)
<1>1. ASSUME NEW k \in 0 .. MaxLines, DelLog(f)[<<d, k>>] # Absent, NEW j \in 0 .. k
      PROVE  DelLog(f)[<<d, j>>] # Absent
  <2>1. k \in Parts /\ j \in Parts  BY BoundsAssumption DEF Parts
  <2>2. ~Expired(d) /\ f[<<d, k>>] # Absent  BY <2>1, <1>1, DelLogIs
  <2>3. f[<<d, j>>] # Absent  BY <2>2 DEF Contiguous
  <2> QED  BY <2>1, <2>2, <2>3, DelLogIs
<1> QED  BY <1>1 DEF Contiguous

(* Opening for appending, *)
LEMMA OpenedIs ==
  ASSUME NEW f \in Disk, NEW d \in Days
  PROVE  /\ Opened(f, d) \in Disk
         /\ \A x \in Days, k \in Parts :
              Opened(f, d)[<<x, k>>] =
                IF x = d /\ k = 0 /\ f[<<x, k>>] = Absent THEN << >> ELSE f[<<x, k>>]
<1>1. 0 \in Parts /\ <<d, 0>> \in Names  BY BoundsAssumption, NameOf DEF Parts
<1>2. << >> \in Seq(Items)  OBVIOUS
<1>3. Opened(f, d) \in Disk  BY <1>1, <1>2 DEF Opened, Disk
<1>4. ASSUME NEW x \in Days, NEW k \in Parts
      PROVE  Opened(f, d)[<<x, k>>] =
               IF x = d /\ k = 0 /\ f[<<x, k>>] = Absent THEN << >> ELSE f[<<x, k>>]
  <2>1. <<x, k>> \in Names /\ (<<x, k>> = <<d, 0>> <=> x = d /\ k = 0)
    BY NameOf
  <2> QED  BY <2>1, <1>1 DEF Opened, Disk
<1> QED  BY <1>3, <1>4

(* and opening anew. *)
LEMMA TruncatedIs ==
  ASSUME NEW f \in Disk, NEW d \in Days
  PROVE  /\ Truncated(f, d) \in Disk
         /\ \A x \in Days, k \in Parts :
              Truncated(f, d)[<<x, k>>] = IF x = d /\ k = 0 THEN << >> ELSE f[<<x, k>>]
<1>1. 0 \in Parts /\ <<d, 0>> \in Names  BY BoundsAssumption, NameOf DEF Parts
<1>2. << >> \in Seq(Items)  OBVIOUS
<1>3. Truncated(f, d) \in Disk  BY <1>1, <1>2 DEF Truncated, Disk
<1>4. ASSUME NEW x \in Days, NEW k \in Parts
      PROVE  Truncated(f, d)[<<x, k>>] = IF x = d /\ k = 0 THEN << >> ELSE f[<<x, k>>]
  <2>1. <<x, k>> \in Names /\ (<<x, k>> = <<d, 0>> <=> x = d /\ k = 0)
    BY NameOf
  <2> QED  BY <2>1, <1>1 DEF Truncated, Disk
<1> QED  BY <1>3, <1>4

(* A file that is written to exists. *)
LEMMA AppendIsNotAbsent ==
  ASSUME NEW s \in Seq(Items), NEW x \in Items
  PROVE  s # Absent /\ << >> # Absent /\ Append(s, x) \in Seq(Items)
         /\ Append(s, x) # Absent
<1>1. << >> \in Seq(Items) /\ Append(s, x) \in Seq(Items)  OBVIOUS
<1> QED  BY <1>1, BoundsAssumption DEF Items

(* A new file is empty, if it can be opened. *)
LEMMA CreateIs ==
  ASSUME NEW f \in Disk, NEW d \in Days, NEW opened \in BOOLEAN, Create(opened, f, d)
  PROVE  /\ m_fp' = opened /\ files' \in Disk
         /\ \A x \in Days, k \in Parts :
              files'[<<x, k>>] =
                IF opened /\ x = d /\ k = 0 THEN << >> ELSE f[<<x, k>>]
<1>1. CASE opened
  <2>1. files' = Truncated(f, d) /\ m_fp' = opened  BY <1>1 DEF Create
  <2> QED  BY <2>1, <1>1, TruncatedIs
<1>2. CASE ~opened
  <2>1. files' = f /\ m_fp' = opened  BY <1>2 DEF Create
  <2> QED  BY <2>1, <1>2
<1> QED  BY <1>1, <1>2

(* rename *)
LEMMA RenamedIs ==
  ASSUME NEW f \in Disk, NEW d \in Days, NEW p \in Parts, p # 0
  PROVE  /\ Renamed(f, d, p) \in Disk
         /\ \A x \in Days, k \in Parts :
              Renamed(f, d, p)[<<x, k>>] =
                IF f[<<d, 0>>] = Absent THEN f[<<x, k>>]
                ELSE IF x = d /\ k = 0 THEN Absent
                ELSE IF x = d /\ k = p THEN f[<<d, 0>>]
                ELSE f[<<x, k>>]
<1>1. <<d, 0>> \in Names /\ <<d, p>> \in Names
  <2>1. 0 \in Parts  BY BoundsAssumption DEF Parts
  <2> QED  BY <2>1, NameOf
<1>2. CASE f[<<d, 0>>] = Absent  BY <1>2 DEF Renamed
<1>3. CASE f[<<d, 0>>] # Absent
  <2>1. Renamed(f, d, p) = [f EXCEPT ![<<d, p>>] = f[<<d, 0>>], ![<<d, 0>>] = Absent]
    BY <1>3 DEF Renamed
  <2>2. Renamed(f, d, p) \in Disk  BY <2>1, <1>1 DEF Disk
  <2>3. ASSUME NEW x \in Days, NEW k \in Parts
        PROVE  Renamed(f, d, p)[<<x, k>>] =
                 IF x = d /\ k = 0 THEN Absent
                 ELSE IF x = d /\ k = p THEN f[<<d, 0>>]
                 ELSE f[<<x, k>>]
    <3>1. /\ <<x, k>> \in Names
          /\ <<x, k>> = <<d, 0>> <=> x = d /\ k = 0
          /\ <<x, k>> = <<d, p>> <=> x = d /\ k = p
      BY NameOf
    <3> QED  BY <3>1, <2>1, <1>1 DEF Disk
  <2> QED  BY <2>2, <2>3, <1>3
<1> QED  BY <1>2, <1>3

(* What FilesInv says of the days that were swept. *)
LEMMA FilesInvDeletes == FilesInv => OldLogDeleted
<1> SUFFICES ASSUME FilesInv, NEW d \in swept, NEW n \in Names,
                    n[1] + LOG_SAVE_DAY = d, n[1] \notin spoiled
             PROVE  files[n] = Absent
  BY DEF OldLogDeleted
<1>1. n[1] \in Days /\ n[2] \in Parts /\ n = <<n[1], n[2]>>  BY NameOf
<1>2. files[<<n[1], n[2]>>] = Absent  BY <1>1 DEF FilesInv
<1> QED  BY <1>1, <1>2

(* Types that follow from ThreadInv; the suffixes are bounded by the lines counted. *)
LEMMA DayAndParts ==
  ASSUME ThreadInv
  PROVE  /\ clock \in Days /\ m_today \in Days /\ m_count \in Nat
         /\ clock \in Nat /\ m_today <= clock
         /\ Part(m_count) \in Parts /\ m_count \in Parts
         /\ LOG_SAVE_DAY \in Nat \ {0} /\ 0 \in Parts /\ MaxLines \in Nat
<1>1. /\ limit.lines \in 0 .. MaxLines
      /\ MaxDay \in Nat /\ MaxLines \in Nat /\ LOG_SAVE_DAY \in Nat \ {0}
  BY LimitType, BoundsAssumption DEF ThreadInv
<1>2. Cardinality(ToChoose) \in Nat
  <2>1. ToChoose \in SUBSET Threads  BY DEF ToChoose
  <2> QED  BY <2>1, FS_Subset, FS_CardinalityType, BoundsAssumption
<1>3. m_count \in Nat /\ m_count + Cardinality(ToChoose) <= logged
      /\ logged \in 0 .. limit.lines
  BY DEF ThreadInv
<1>4. m_count \in 0 .. MaxLines  BY <1>1, <1>2, <1>3
<1>5. Part(m_count) \in 0 .. m_count  BY <1>3, PartNext
<1> QED  BY <1>1, <1>4, <1>5, DayBounds DEF ThreadInv, Days, Parts

(* A thread that has a time stamp has a day, and one whose log is not yet deleted
   unless it is spoiled. *)
LEMMA StampIsRecent ==
  ASSUME ThreadInv, NEW t \in Threads, pc[t] \in Dated
  PROVE  /\ stamp[t] \in Days /\ stamp[t] <= clock
         /\ alive /\ stamp[t] \notin spoiled
              => clock < stamp[t] + LOG_SAVE_DAY /\ ~Expired(stamp[t])
<1>1. /\ stamp[t] \in 1 .. clock
      /\ stamp[t] \notin spoiled => stamp[t] = now[t]
      /\ clock \in Days /\ clock \in Nat
  BY DayAndParts DEF ThreadInv
<1>2. stamp[t] \in Days /\ stamp[t] <= clock  BY <1>1, DayBounds DEF Days
<1>3. ASSUME alive, stamp[t] \notin spoiled
      PROVE  clock < stamp[t] + LOG_SAVE_DAY /\ ~Expired(stamp[t])
  <2>1. OnTime  BY <1>3 DEF ThreadInv, Lively
  <2>2. pc[t] # "idle"  BY DEF Dated
  <2>3. clock <= stamp[t] + MaxLate  BY <2>1, <2>2, <1>1, <1>3 DEF OnTime
  <2> QED  BY <2>3, <1>1, DayBounds DEF Expired
<1> QED  BY <1>2, <1>3

(* fwrite creates no file and deletes none. *)
LEMMA fwriteIs ==
  ASSUME files \in Disk, m_today \in Days, NEW x \in Items, fwrite(x)
  PROVE  /\ files' \in Disk
         /\ \A d \in Days, k \in Parts :
              files'[<<d, k>>] =
                IF d = m_today /\ k = 0 /\ files[<<d, k>>] # Absent
                  THEN Append(files[<<d, k>>], x) ELSE files[<<d, k>>]
<1>1. 0 \in Parts /\ <<m_today, 0>> \in Names
  BY BoundsAssumption, NameOf DEF Parts
<1>2. files[<<m_today, 0>>] \in Seq(Items) \cup {Absent}
  BY <1>1 DEF Disk
<1>3. files' = [files EXCEPT ![<<m_today, 0>>] =
                  IF files[<<m_today, 0>>] = Absent THEN files[<<m_today, 0>>]
                  ELSE Append(files[<<m_today, 0>>], x)]
  BY <1>1 DEF fwrite, Disk
<1>4. (IF files[<<m_today, 0>>] = Absent THEN files[<<m_today, 0>>]
        ELSE Append(files[<<m_today, 0>>], x)) \in Seq(Items) \cup {Absent}
  BY <1>2, AppendIsNotAbsent
<1>5. files' \in Disk  BY <1>1, <1>3, <1>4 DEF Disk
<1>6. ASSUME NEW d \in Days, NEW k \in Parts
      PROVE  files'[<<d, k>>] =
                IF d = m_today /\ k = 0 /\ files[<<d, k>>] # Absent
                  THEN Append(files[<<d, k>>], x) ELSE files[<<d, k>>]
  <2>1. <<d, k>> \in Names /\ (<<d, k>> = <<m_today, 0>> <=> d = m_today /\ k = 0)
    BY NameOf
  <2> QED  BY <2>1, <1>1, <1>3 DEF Disk
<1> QED  BY <1>5, <1>6

(* m_fp, which a step may only clear. *)
LEMMA HasFileStays ==
  ASSUME HasFile, OpenExists => OpenExists', m_fp' = m_fp \/ m_fp' = FALSE
  PROVE  HasFile'
<1>1. CASE m_fp' = m_fp  BY <1>1 DEF HasFile
<1>2. CASE m_fp' = FALSE  BY <1>2 DEF HasFile
<1> QED  BY <1>1, <1>2

(* Steps after which the same files exist. *)
LEMMA SameFilesExist ==
  ASSUME ThreadInv, FilesInv, files' \in Disk,
         \A d \in Days, k \in Parts :
           files'[<<d, k>>] = Absent <=> files[<<d, k>>] = Absent,
         UNCHANGED <<m_today, swept>>, clock' \in {clock, clock + 1},
         spoiled \subseteq spoiled', m_fp' = m_fp \/ m_fp' = FALSE,
         Part(m_count') = Part(m_count)
  PROVE  FilesInv'
<1>1. /\ m_today \in Days /\ m_today' = m_today /\ swept' = swept
      /\ clock \in Nat /\ clock <= clock' /\ clock' \in Nat
      /\ Part(m_count) \in Parts /\ LOG_SAVE_DAY \in Nat /\ MaxLines \in Nat
      /\ 0 \in Parts
  BY DayAndParts
<1>2. \A d \in Days \ spoiled' : Contiguous(files, d)'
  <2>1. ASSUME NEW d \in Days \ spoiled', NEW k \in 0 .. MaxLines,
               files'[<<d, k>>] # Absent, NEW j \in 0 .. k
        PROVE  files'[<<d, j>>] # Absent
    <3>1. k \in Parts /\ j \in Parts /\ d \in Days \ spoiled  BY <1>1 DEF Parts
    <3> QED  BY <3>1, <2>1 DEF FilesInv, Contiguous
  <2> QED  BY <2>1 DEF Contiguous
<1>3. ASSUME clock' < m_today' + LOG_SAVE_DAY, m_today' \notin spoiled',
             NEW k \in 1 .. Part(m_count')
      PROVE  files'[<<m_today', k>>] # Absent
  <2>1. clock < m_today + LOG_SAVE_DAY /\ k \in 1 .. Part(m_count) /\ m_today \notin spoiled
    BY <1>1, <1>3 DEF Days
  <2>2. k \in Parts  BY <2>1, <1>1 DEF Parts
  <2> QED  BY <2>1, <2>2, <1>1 DEF FilesInv
<1>4. \A d \in swept' :
        d \in 1 .. clock' /\ (m_today' \notin spoiled' => d < m_today' + LOG_SAVE_DAY)
  BY <1>1 DEF FilesInv
<1>5. \A d \in swept' : \A x \in Days \ spoiled', k \in Parts :
        x + LOG_SAVE_DAY = d => files'[<<x, k>>] = Absent
  BY <1>1 DEF FilesInv
<1>6. HasFile'
  <2>1. OpenExists => OpenExists'  BY <1>1 DEF OpenExists, Days
  <2>2. HasFile  BY DEF FilesInv
  <2> QED  BY <2>1, <2>2, HasFileStays
<1> QED  BY <1>2, <1>3, <1>4, <1>5, <1>6 DEF FilesInv

(* The first line of a new day: what exists afterwards. *)
LEMMA NextDayIs ==
  ASSUME ThreadInv, FilesInv, NEW t \in Threads, pc[t] = "stamped",
         NEW opened \in BOOLEAN, NextDay(t, opened)
  PROVE  /\ m_fp' = opened /\ files' \in Disk
         /\ m_today' = stamp[t] /\ stamp[t] \in Days /\ m_count' = 0
         /\ swept' = swept \cup {clock} /\ spoiled' = spoiled
         /\ DelLog(files) \in Disk
         /\ \A x \in Days, k \in Parts :
              files'[<<x, k>>] =
                IF opened /\ x = stamp[t] /\ k = 0 THEN << >>
                ELSE DelLog(files)[<<x, k>>]
<1>1. stamp[t] \in Days
  <2>1. pc[t] \in Dated  BY DEF Dated
  <2> QED  BY <2>1, StampIsRecent
<1>2. PICK f \in Disk : f = DelLog(files)  BY DelLogIs DEF FilesInv
<1>3. Create(opened, f, stamp[t])  BY <1>2 DEF NextDay
<1>4. /\ m_fp' = opened /\ files' \in Disk
      /\ \A x \in Days, k \in Parts :
           files'[<<x, k>>] = IF opened /\ x = stamp[t] /\ k = 0 THEN << >> ELSE f[<<x, k>>]
  BY <1>1, <1>3, CreateIs
<1>5. m_today' = stamp[t] /\ m_count' = 0 /\ swept' = swept \cup {clock}
      /\ spoiled' = spoiled
  BY DEF NextDay, Sweep
<1> QED  BY <1>1, <1>2, <1>4, <1>5

(* A new part of a day. *)
LEMMA NextPartIs ==
  ASSUME ThreadInv, FilesInv, NEW t \in Threads, pc[t] = "stamped",
         NEW opened \in BOOLEAN, NextPart(t, opened)
  PROVE  /\ m_fp' = opened /\ files' \in Disk
         /\ m_today' = m_today /\ m_today = stamp[t] /\ m_today \in Days
         /\ swept' = swept \cup {clock}
         /\ spoiled' = (IF opened THEN spoiled ELSE spoiled \cup {m_today})
         /\ Part(m_count') = Part(m_count) + 1
         /\ Part(m_count') \in Parts /\ Part(m_count') # 0
         /\ \E g \in Disk :
              /\ \A x \in Days, k \in Parts :
                   g[<<x, k>>] =
                     IF files[<<m_today, 0>>] = Absent THEN files[<<x, k>>]
                     ELSE IF x = m_today /\ k = 0 THEN Absent
                     ELSE IF x = m_today /\ k = Part(m_count') THEN files[<<m_today, 0>>]
                     ELSE files[<<x, k>>]
              /\ \A x \in Days, k \in Parts :
                   files'[<<x, k>>] =
                     IF opened /\ x = m_today /\ k = 0 THEN << >>
                     ELSE DelLog(g)[<<x, k>>]
<1>1. /\ m_today' = m_today /\ m_today = stamp[t] /\ m_today \in Days
      /\ m_count' = m_count + 1 /\ Due(m_count + 1)
      /\ swept' = swept \cup {clock}
      /\ spoiled' = (IF opened THEN spoiled ELSE spoiled \cup {m_today})
  BY DayAndParts DEF NextPart, Sweep
<1>2. PICK p : p = Part(m_count')  OBVIOUS
<1>3. /\ p = Part(m_count) + 1 /\ p \in Parts /\ p # 0 /\ 0 \in Parts
  <2>1. m_count \in Nat /\ Part(m_count) \in 0 .. m_count
        /\ Part(m_count + 1) = Part(m_count) + 1
    BY <1>1, DayAndParts, PartNext
  <2>2. m_count + 1 \in 0 .. MaxLines
    <3>1. IsFiniteSet(ToChoose) /\ t \in ToChoose
      <4>1. ToChoose \in SUBSET Threads /\ "stamped" \in Undecided
        BY DEF ToChoose, Undecided
      <4> QED  BY <4>1, FS_Subset, BoundsAssumption DEF ToChoose
    <3>2. Cardinality(ToChoose) # 0 /\ Cardinality(ToChoose) \in Nat
      BY <3>1, FS_EmptySet, FS_CardinalityType
    <3> QED  BY <3>2, <2>1, LimitType DEF ThreadInv
  <2>3. Part(m_count + 1) \in 0 .. m_count + 1
    <3>1. m_count + 1 \in Nat  BY <2>2
    <3> QED  BY <3>1, PartNext
  <2>4. 0 \in Parts /\ MaxLines \in Nat  BY DayAndParts
  <2> QED  BY <2>1, <2>2, <2>3, <2>4, <1>1, <1>2 DEF Parts
<1>4. PICK g \in Disk :
        /\ g = Renamed(files, m_today, p)
        /\ \A x \in Days, k \in Parts :
             g[<<x, k>>] = IF files[<<m_today, 0>>] = Absent THEN files[<<x, k>>]
                           ELSE IF x = m_today /\ k = 0 THEN Absent
                           ELSE IF x = m_today /\ k = p THEN files[<<m_today, 0>>]
                           ELSE files[<<x, k>>]
  BY <1>1, <1>3, RenamedIs DEF FilesInv
<1>5. PICK f \in Disk : f = DelLog(g)  BY DelLogIs
<1>6. Create(opened, f, m_today)  BY <1>2, <1>4, <1>5 DEF NextPart
<1>7. /\ m_fp' = opened /\ files' \in Disk
      /\ \A x \in Days, k \in Parts :
           files'[<<x, k>>] = IF opened /\ x = m_today /\ k = 0 THEN << >> ELSE f[<<x, k>>]
  BY <1>1, <1>6, CreateIs
<1> QED  BY <1>1, <1>2, <1>3, <1>4, <1>5, <1>7

(* A change of file sweeps the day LOG_SAVE_DAY days ago, unless it is spoiled:
   g are the files before DelLog. *)
LEMMA ChangeSweeps ==
  ASSUME ThreadInv, FilesInv, NEW g \in Disk, files' \in Disk,
         NEW today \in Days, m_today' = today, swept' = swept \cup {clock},
         spoiled \subseteq spoiled', UNCHANGED clock, today <= clock,
         today \notin spoiled' => clock < today + LOG_SAVE_DAY,
         \A x \in Days, k \in Parts :
           x # today => /\ g[<<x, k>>] = files[<<x, k>>]
                        /\ files'[<<x, k>>] = DelLog(g)[<<x, k>>]
  PROVE  /\ \A d \in Days \ spoiled' : d # today => Contiguous(files', d)
         /\ \A d \in swept' :
              d \in 1 .. clock' /\ (m_today' \notin spoiled' => d < m_today' + LOG_SAVE_DAY)
         /\ \A d \in swept' : \A x \in Days \ spoiled', k \in Parts :
              x + LOG_SAVE_DAY = d => files'[<<x, k>>] = Absent
<1>1. clock \in Nat /\ clock \in 1 .. clock /\ LOG_SAVE_DAY \in Nat /\ today \in Nat
      /\ MaxLines \in Nat
  BY DayAndParts DEF Days
<1>2. ASSUME NEW d \in Days \ spoiled', d # today PROVE Contiguous(g, d)
  <2>1. \A k \in Parts : g[<<d, k>>] = files[<<d, k>>]  BY <1>2
  <2>2. Contiguous(files, d)  BY DEF FilesInv
  <2>3. \A k \in 0 .. MaxLines : \A j \in 0 .. k : k \in Parts /\ j \in Parts
    BY <1>1 DEF Parts
  <2> QED  BY <2>1, <2>2, <2>3 DEF Contiguous
<1>3. ASSUME NEW d \in Days \ spoiled', d # today PROVE Contiguous(files', d)
  <2>1. Contiguous(DelLog(g), d)  BY <1>2, <1>3, DelLogContiguous
  <2>2. \A k \in Parts : files'[<<d, k>>] = DelLog(g)[<<d, k>>]  BY <1>3
  <2>3. \A k \in 0 .. MaxLines : \A j \in 0 .. k : k \in Parts /\ j \in Parts
    BY <1>1 DEF Parts
  <2> QED  BY <2>1, <2>2, <2>3 DEF Contiguous
<1>4. \A d \in swept' :
        d \in 1 .. clock' /\ (m_today' \notin spoiled' => d < m_today' + LOG_SAVE_DAY)
  <2>1. ASSUME NEW d \in swept
        PROVE  d \in 1 .. clock /\ (today \notin spoiled' => d < today + LOG_SAVE_DAY)
    BY <1>1 DEF FilesInv
  <2> QED  BY <2>1, <1>1
<1>5. ASSUME NEW d \in swept', NEW x \in Days \ spoiled', NEW k \in Parts,
             x + LOG_SAVE_DAY = d
      PROVE  files'[<<x, k>>] = Absent
  <2>1. x # today  BY <1>1, <1>4, <1>5
  <2>2. files'[<<x, k>>] = DelLog(g)[<<x, k>>] /\ g[<<x, k>>] = files[<<x, k>>]
    BY <2>1
  <2>3. CASE d = clock
    <3>1. Expired(x) /\ Contiguous(g, x)  BY <2>1, <2>3, <1>2, <1>5 DEF Expired
    <3> QED  BY <3>1, <2>2, DelLogIs
  <2>4. CASE d \in swept
    <3>1. files[<<x, k>>] = Absent  BY <2>4, <1>5 DEF FilesInv
    <3> QED  BY <3>1, <2>2, DelLogIs
  <2> QED  BY <2>3, <2>4
<1> QED  BY <1>3, <1>4, <1>5

(* The change of file, *)
LEMMA NextDayKeepsFiles ==
  ASSUME ThreadInv, FilesInv, alive, NEW t \in Threads, pc[t] = "stamped",
         NEW opened \in BOOLEAN, NextDay(t, opened), UNCHANGED clock
  PROVE  FilesInv'
<1>1. /\ m_fp' = opened /\ files' \in Disk
      /\ m_today' = stamp[t] /\ stamp[t] \in Days /\ m_count' = 0
      /\ swept' = swept \cup {clock} /\ spoiled' = spoiled
      /\ \A x \in Days, k \in Parts :
           files'[<<x, k>>] =
             IF opened /\ x = stamp[t] /\ k = 0 THEN << >>
             ELSE DelLog(files)[<<x, k>>]
  BY NextDayIs
<1>2. /\ stamp[t] <= clock
      /\ stamp[t] \notin spoiled => clock < stamp[t] + LOG_SAVE_DAY /\ ~Expired(stamp[t])
  <2>1. pc[t] \in Dated  BY DEF Dated
  <2> QED  BY <2>1, StampIsRecent
<1>3. PICK today \in Days : today = stamp[t]  BY <1>1
<1>4. files \in Disk /\ 0 \in Parts /\ << >> # Absent /\ MaxLines \in Nat
  <2>1. << >> \in Seq(Items)  OBVIOUS
  <2>2. << >> # Absent  BY <2>1, BoundsAssumption DEF Items
  <2> QED  BY <2>2, DayAndParts DEF FilesInv
<1>5. /\ \A d \in Days \ spoiled' : d # today => Contiguous(files', d)
      /\ \A d \in swept' :
           d \in 1 .. clock' /\ (m_today' \notin spoiled' => d < m_today' + LOG_SAVE_DAY)
      /\ \A d \in swept' : \A x \in Days \ spoiled', k \in Parts :
           x + LOG_SAVE_DAY = d => files'[<<x, k>>] = Absent
  BY <1>1, <1>2, <1>3, <1>4, ChangeSweeps
<1>6. ASSUME today \notin spoiled' PROVE Contiguous(files', today)
  <2>1. ~Expired(today) /\ Contiguous(files, today)  BY <1>1, <1>2, <1>3, <1>6 DEF FilesInv
  <2>2. \A k \in Parts : DelLog(files)[<<today, k>>] = files[<<today, k>>]
    BY <2>1, <1>4, DelLogIs
  <2>3. ASSUME NEW k \in 0 .. MaxLines, files'[<<today, k>>] # Absent, NEW j \in 0 .. k
        PROVE  files'[<<today, j>>] # Absent
    <3>1. k \in Parts /\ j \in Parts  BY <1>4 DEF Parts
    <3>2. CASE opened /\ j = 0
      <4>1. files'[<<today, j>>] = << >>  BY <1>1, <1>3, <3>1, <3>2
      <4> QED  BY <4>1, <1>4
    <3>3. CASE ~(opened /\ j = 0)
      <4>1. ~(opened /\ k = 0)  BY <3>3
      <4>2. files[<<today, k>>] # Absent  BY <4>1, <3>1, <2>2, <2>3, <1>1, <1>3
      <4>3. files[<<today, j>>] # Absent  BY <4>2, <2>1 DEF Contiguous
      <4> QED  BY <4>3, <3>1, <3>3, <2>2, <1>1, <1>3
    <3> QED  BY <3>2, <3>3
  <2> QED  BY <2>3 DEF Contiguous
<1>7. \A d \in Days \ spoiled' : Contiguous(files, d)'
  <2>1. \A d \in Days \ spoiled' : Contiguous(files', d)  BY <1>5, <1>6
  <2> QED  BY <2>1 DEF Contiguous
<1>8. HasFile'
  <2>1. CASE opened
    <3>1. files'[<<m_today', 0>>] = << >>  BY <2>1, <1>1, <1>4
    <3>2. OpenExists'  BY <3>1, <1>4 DEF OpenExists
    <3> QED  BY <3>2, <1>1 DEF HasFile
  <2>2. CASE ~opened
    <3>1. m_fp' = FALSE  BY <2>2, <1>1
    <3> QED  BY <3>1 DEF HasFile
  <2> QED  BY <2>1, <2>2
<1>9. 1 .. Part(m_count') = {}
  <2>1. Part(m_count') \in 0 .. 0  BY <1>1, PartNext
  <2> QED  BY <2>1
<1> QED  BY <1>1, <1>5, <1>7, <1>8, <1>9 DEF FilesInv

(* a new part, *)
LEMMA NextPartKeepsFiles ==
  ASSUME ThreadInv, FilesInv, alive, NEW t \in Threads, pc[t] = "stamped",
         NEW opened \in BOOLEAN, NextPart(t, opened), UNCHANGED clock
  PROVE  FilesInv'
<1>1. PICK p \in Parts : p = Part(m_count') /\ p = Part(m_count) + 1 /\ p # 0
  BY NextPartIs
<1>2. /\ m_fp' = opened /\ files' \in Disk /\ m_today' = m_today
      /\ m_today = stamp[t] /\ m_today \in Days
      /\ swept' = swept \cup {clock}
      /\ spoiled' = (IF opened THEN spoiled ELSE spoiled \cup {m_today})
  BY NextPartIs
<1>3. PICK g \in Disk :
        /\ \A x \in Days, k \in Parts :
             g[<<x, k>>] =
               IF files[<<m_today, 0>>] = Absent THEN files[<<x, k>>]
               ELSE IF x = m_today /\ k = 0 THEN Absent
               ELSE IF x = m_today /\ k = p THEN files[<<m_today, 0>>]
               ELSE files[<<x, k>>]
        /\ \A x \in Days, k \in Parts :
             files'[<<x, k>>] =
               IF opened /\ x = m_today /\ k = 0 THEN << >> ELSE DelLog(g)[<<x, k>>]
  BY <1>1, NextPartIs
<1>4. /\ 0 \in Parts /\ << >> # Absent /\ MaxLines \in Nat /\ m_today <= clock
      /\ Part(m_count) \in Parts /\ p - 1 = Part(m_count)
  <2>1. << >> \in Seq(Items)  OBVIOUS
  <2>2. << >> # Absent  BY <2>1, BoundsAssumption DEF Items
  <2> QED  BY <2>2, <1>1, DayAndParts DEF Parts
<1>5. m_today \notin spoiled => clock < m_today + LOG_SAVE_DAY /\ ~Expired(m_today)
  <2>1. pc[t] \in Dated  BY DEF Dated
  <2> QED  BY <2>1, <1>2, StampIsRecent
<1>6. spoiled \subseteq spoiled' /\ (m_today \notin spoiled' => opened)
  BY <1>2
<1>7. PICK today \in Days : today = m_today  BY <1>2
<1>8. /\ \A d \in Days \ spoiled' : d # today => Contiguous(files', d)
      /\ \A d \in swept' :
           d \in 1 .. clock' /\ (m_today' \notin spoiled' => d < m_today' + LOG_SAVE_DAY)
      /\ \A d \in swept' : \A x \in Days \ spoiled', k \in Parts :
           x + LOG_SAVE_DAY = d => files'[<<x, k>>] = Absent
  <2>1. \A x \in Days, k \in Parts :
          x # today => /\ g[<<x, k>>] = files[<<x, k>>]
                       /\ files'[<<x, k>>] = DelLog(g)[<<x, k>>]
    BY <1>3, <1>7
  <2>2. today \notin spoiled' => clock < today + LOG_SAVE_DAY  BY <1>5, <1>6, <1>7
  <2> QED  BY <2>1, <2>2, <1>2, <1>4, <1>6, <1>7, ChangeSweeps
(* Of a day that is not spoiled, the parts that are to be there are. *)
<1>9. ASSUME today \notin spoiled'
      PROVE  /\ \A k \in Parts :
                  files'[<<today, k>>] = IF k = 0 THEN << >>
                                         ELSE IF k = p THEN files[<<today, 0>>]
                                         ELSE files[<<today, k>>]
             /\ \A k \in 0 .. p : files'[<<today, k>>] # Absent
             /\ Contiguous(files, today)
  <2>1. opened /\ today \notin spoiled /\ ~Expired(today) /\ clock < today + LOG_SAVE_DAY
    BY <1>5, <1>6, <1>7, <1>9
  <2>2. files[<<today, 0>>] # Absent
    <3>1. m_fp  BY DEF NextPart
    <3>2. OpenExists  BY <3>1 DEF FilesInv, HasFile
    <3> QED  BY <3>2, <2>1, <1>7 DEF OpenExists
  <2>3. \A k \in Parts :
          files'[<<today, k>>] = IF k = 0 THEN << >>
                                 ELSE IF k = p THEN files[<<today, 0>>]
                                 ELSE files[<<today, k>>]
    <3>1. \A k \in Parts : DelLog(g)[<<today, k>>] = g[<<today, k>>]
      BY <2>1, DelLogIs
    <3> QED  BY <3>1, <2>1, <2>2, <1>3, <1>7
  <2>4. ASSUME NEW k \in 0 .. p PROVE files'[<<today, k>>] # Absent
    <3>1. k \in Parts  BY <1>4 DEF Parts
    <3>2. CASE k = 0  BY <3>1, <3>2, <2>3, <1>4
    <3>3. CASE k = p  BY <3>1, <3>3, <2>2, <2>3, <1>1
    <3>4. CASE k # 0 /\ k # p
      <4>1. k \in 1 .. Part(m_count)  BY <3>1, <3>4, <1>1, <1>4 DEF Parts
      <4>2. files[<<today, k>>] # Absent  BY <4>1, <2>1, <1>7 DEF FilesInv
      <4> QED  BY <4>2, <3>1, <3>4, <2>3
    <3> QED  BY <3>2, <3>3, <3>4
  <2>5. Contiguous(files, today)  BY <2>1 DEF FilesInv
  <2> QED  BY <2>3, <2>4, <2>5
<1>10. ASSUME today \notin spoiled' PROVE Contiguous(files', today)
  <2>1. ASSUME NEW k \in 0 .. MaxLines, files'[<<today, k>>] # Absent, NEW j \in 0 .. k
        PROVE  files'[<<today, j>>] # Absent
    <3>1. k \in Parts /\ j \in Parts  BY <1>4 DEF Parts
    <3>2. CASE j \in 0 .. p  BY <3>2, <1>9, <1>10
    <3>3. CASE j \notin 0 .. p
      <4>1. k # 0 /\ k # p /\ j # 0 /\ j # p  BY <3>1, <3>3, <1>4 DEF Parts
      <4>2. files[<<today, k>>] # Absent  BY <4>1, <3>1, <2>1, <1>9, <1>10
      <4>3. files[<<today, j>>] # Absent  BY <4>2, <1>9, <1>10 DEF Contiguous
      <4> QED  BY <4>1, <4>3, <3>1, <1>9, <1>10
    <3> QED  BY <3>2, <3>3
  <2> QED  BY <2>1 DEF Contiguous
<1>11. \A d \in Days \ spoiled' : Contiguous(files, d)'
  <2>1. \A d \in Days \ spoiled' : Contiguous(files', d)  BY <1>8, <1>10
  <2> QED  BY <2>1 DEF Contiguous
<1>12. HasFile'
  <2>1. CASE opened
    <3>1. files'[<<m_today', 0>>] = << >>  BY <2>1, <1>2, <1>3, <1>4
    <3>2. OpenExists'  BY <3>1, <1>4 DEF OpenExists
    <3> QED  BY <3>2, <2>1, <1>2 DEF HasFile
  <2>2. CASE ~opened
    <3>1. m_fp' = FALSE  BY <2>2, <1>2
    <3> QED  BY <3>1 DEF HasFile
  <2> QED  BY <2>1, <2>2
<1>13. ASSUME m_today' \notin spoiled', NEW k \in 1 .. Part(m_count')
       PROVE  files'[<<m_today', k>>] # Absent
  <2>1. k \in 0 .. p  BY <1>1, <1>13 DEF Parts
  <2> QED  BY <2>1, <1>2, <1>7, <1>9, <1>13
<1> QED  BY <1>2, <1>8, <1>11, <1>12, <1>13 DEF FilesInv

(* and all its cases. *)
LEMMA ChooseKeepsFiles ==
  ASSUME ThreadInv, FilesInv, alive, NEW t \in Threads, ChooseFile(t)
  PROVE  FilesInv'
<1>1. pc[t] = "stamped" /\ UNCHANGED clock  BY DEF ChooseFile
<1>2. ASSUME NEW opened \in BOOLEAN, NextDay(t, opened) PROVE FilesInv'
  BY <1>1, <1>2, NextDayKeepsFiles
<1>3. ASSUME NEW opened \in BOOLEAN, NextPart(t, opened) PROVE FilesInv'
  BY <1>1, <1>3, NextPartKeepsFiles
<1>4. CASE NoFile(t) \/ SameFile(t)
  <2>1. UNCHANGED <<files, m_fp, m_today, swept, spoiled>>
    BY <1>4 DEF NoFile, SameFile, fileVars
  <2>2. Part(m_count') = Part(m_count)
    <3>1. CASE NoFile(t)
      <4>1. m_count' = m_count  BY <3>1 DEF NoFile
      <4> QED  BY <4>1
    <3>2. CASE SameFile(t)
      <4>1. m_count' = m_count + 1 /\ ~Due(m_count + 1)  BY <3>2 DEF SameFile
      <4> QED  BY <4>1, DayAndParts, PartNext
    <3> QED  BY <1>4, <3>1, <3>2
  <2>3. files' \in Disk  BY <2>1 DEF FilesInv
  <2> QED  BY <2>1, <2>2, <2>3, <1>1, SameFilesExist
<1> QED  BY <1>2, <1>3, <1>4 DEF ChooseFile

(* A file that is opened for appending, if it is not one that was deleted. *)
LEMMA OpenedKeeps ==
  ASSUME NEW f \in Disk, NEW d \in Days
  PROVE  /\ \A x \in Days : Contiguous(f, x) => Contiguous(Opened(f, d), x)
         /\ \A x \in Days, k \in Parts :
              f[<<x, k>>] # Absent => Opened(f, d)[<<x, k>>] # Absent
         /\ Opened(f, d)[<<d, 0>>] # Absent
<1>1. << >> # Absent /\ 0 \in Parts /\ MaxLines \in Nat
  <2>1. << >> \in Seq(Items)  OBVIOUS
  <2>2. << >> # Absent  BY <2>1, BoundsAssumption DEF Items
  <2> QED  BY <2>2, BoundsAssumption DEF Parts
<1>2. PICK g \in Disk :
        /\ g = Opened(f, d)
        /\ \A x \in Days, k \in Parts :
             g[<<x, k>>] =
               IF x = d /\ k = 0 /\ f[<<x, k>>] = Absent THEN << >> ELSE f[<<x, k>>]
  BY OpenedIs
<1>3. ASSUME NEW x \in Days, Contiguous(f, x), NEW k \in 0 .. MaxLines, g[<<x, k>>] # Absent,
             NEW j \in 0 .. k
      PROVE  g[<<x, j>>] # Absent
  <2>1. k \in Parts /\ j \in Parts  BY <1>1 DEF Parts
  <2>2. CASE k = 0
    <3>1. j = 0  BY <2>2
    <3> QED  BY <3>1, <2>2, <1>3
  <2>3. CASE k # 0
    <3>1. f[<<x, k>>] # Absent  BY <2>1, <2>3, <1>2, <1>3
    <3>2. f[<<x, j>>] # Absent  BY <3>1, <1>3 DEF Contiguous
    <3> QED  BY <3>2, <2>1, <1>2
  <2> QED  BY <2>2, <2>3
<1>4. \A x \in Days : Contiguous(f, x) => Contiguous(g, x)  BY <1>3 DEF Contiguous
<1> QED  BY <1>1, <1>2, <1>4

(* OpenLog, which deletes before it opens. *)
LEMMA OpenKeepsFiles ==
  ASSUME ThreadInv, FilesInv, NEW opened \in BOOLEAN, OpenLog(opened)
  PROVE  FilesInv'
<1>1. /\ UNCHANGED <<m_today, m_count, clock, swept, spoiled>> /\ m_fp' = opened
      /\ m_today \in Days /\ clock \in Nat /\ LOG_SAVE_DAY \in Nat \ {0}
      /\ Part(m_count) \in Parts /\ MaxLines \in Nat /\ 0 \in Parts
  BY DayAndParts DEF OpenLog, history
<1>2. PICK f \in Disk : f = DelLog(files)  BY DelLogIs DEF FilesInv
<1>3. /\ \A x \in Days, k \in Parts :
           /\ f[<<x, k>>] \in {files[<<x, k>>], Absent}
           /\ ~Expired(x) => f[<<x, k>>] = files[<<x, k>>]
      /\ \A x \in Days \ spoiled : Contiguous(f, x)
  BY <1>2, DelLogIs, DelLogContiguous DEF FilesInv
<1>4. /\ files' \in Disk
      /\ \A x \in Days \ spoiled : Contiguous(files', x)
      /\ \A x \in Days, k \in Parts :
           /\ x # m_today => files'[<<x, k>>] = f[<<x, k>>]
           /\ f[<<x, k>>] # Absent => files'[<<x, k>>] # Absent
      /\ ~m_fp /\ opened => files'[<<m_today, 0>>] # Absent
  <2>1. CASE m_fp \/ ~opened
    <3>1. files' = f  BY <2>1, <1>2 DEF OpenLog
    <3> QED  BY <3>1, <2>1, <1>3
  <2>2. CASE ~m_fp /\ opened
    <3>1. files' = Opened(f, m_today)  BY <2>2, <1>2 DEF OpenLog
    <3>2. /\ files' \in Disk
          /\ \A x \in Days, k \in Parts : x # m_today => files'[<<x, k>>] = f[<<x, k>>]
      BY <3>1, <1>1, OpenedIs
    <3>3. /\ \A x \in Days : Contiguous(f, x) => Contiguous(files', x)
          /\ \A x \in Days, k \in Parts : f[<<x, k>>] # Absent => files'[<<x, k>>] # Absent
          /\ files'[<<m_today, 0>>] # Absent
      BY <3>1, <1>1, OpenedKeeps
    <3> QED  BY <3>2, <3>3, <1>3
  <2> QED  BY <2>1, <2>2
<1>5. ASSUME clock < m_today + LOG_SAVE_DAY, NEW k \in Parts, files[<<m_today, k>>] # Absent
      PROVE  files'[<<m_today, k>>] # Absent
  <2>1. ~Expired(m_today)  BY <1>1, <1>5 DEF Expired, Days
  <2> QED  BY <2>1, <1>1, <1>3, <1>4, <1>5
<1>6. ASSUME clock < m_today + LOG_SAVE_DAY, m_today \notin spoiled,
             NEW k \in 1 .. Part(m_count)
      PROVE  files'[<<m_today, k>>] # Absent
  <2>1. k \in Parts  BY <1>1 DEF Parts
  <2>2. files[<<m_today, k>>] # Absent  BY <1>6 DEF FilesInv
  <2> QED  BY <2>1, <2>2, <1>5, <1>6
<1>7. ASSUME NEW d \in swept, NEW x \in Days \ spoiled, NEW k \in Parts,
             x + LOG_SAVE_DAY = d
      PROVE  files'[<<x, k>>] = Absent
  <2>1. x # m_today  BY <1>1, <1>7 DEF FilesInv, Days
  <2>2. files[<<x, k>>] = Absent  BY <1>7 DEF FilesInv
  <2> QED  BY <2>1, <2>2, <1>3, <1>4
<1>8. \A d \in Days \ spoiled' : Contiguous(files, d)'
  BY <1>1, <1>4 DEF Contiguous
<1>9. HasFile'
  <2>1. CASE ~opened
    <3>1. m_fp' = FALSE  BY <2>1, <1>1
    <3> QED  BY <3>1 DEF HasFile
  <2>2. CASE m_fp
    <3>1. OpenExists  BY <2>2 DEF FilesInv, HasFile
    <3>2. OpenExists'  BY <3>1, <1>1, <1>5 DEF OpenExists
    <3> QED  BY <3>2, <1>1 DEF HasFile
  <2>3. CASE ~m_fp /\ opened
    <3>1. OpenExists'  BY <2>3, <1>1, <1>4 DEF OpenExists
    <3> QED  BY <3>1, <1>1 DEF HasFile
  <2> QED  BY <2>1, <2>2, <2>3
<1>10. /\ \A d \in swept' :
            d \in 1 .. clock' /\ (m_today' \notin spoiled' => d < m_today' + LOG_SAVE_DAY)
       /\ clock' < m_today' + LOG_SAVE_DAY /\ m_today' \notin spoiled'
            => \A k \in 1 .. Part(m_count') : files'[<<m_today', k>>] # Absent
  BY <1>1, <1>6 DEF FilesInv
<1>11. \A d \in swept' : \A x \in Days \ spoiled', k \in Parts :
         x + LOG_SAVE_DAY = d => files'[<<x, k>>] = Absent
  BY <1>1, <1>7
<1> QED  BY <1>4, <1>8, <1>9, <1>10, <1>11 DEF FilesInv

(* The first elements of a sequence. *)
LEMMA CutSeq ==
  ASSUME NEW I, NEW s \in Seq(I), NEW m \in Int, m <= Len(s)
  PROVE  /\ SubSeq(s, 1, m) \in Seq(I)
         /\ DOMAIN SubSeq(s, 1, m) = 1 .. m
         /\ \A i \in 1 .. m : SubSeq(s, 1, m)[i] = s[i]
         /\ Len(SubSeq(s, 1, m)) = IF m > 0 THEN m ELSE 0
<1>1. CASE m > 0  BY <1>1, SubSeqProperties
<1>2. CASE ~(m > 0)  BY <1>2
<1> QED  BY <1>1, <1>2

(* The end of the program cuts off a file, but deletes none. *)
LEMMA CutOffIs ==
  ASSUME files \in Disk, m_today \in Days, NEW n \in Nat
  PROVE  /\ CutOff(n) \in Disk
         /\ \A d \in Days, k \in Parts :
              CutOff(n)[<<d, k>>] =
                IF d = m_today /\ k = 0 /\ files[<<d, k>>] # Absent
                  THEN SubSeq(files[<<d, k>>], 1, Len(files[<<d, k>>]) - n)
                  ELSE files[<<d, k>>]
         /\ \A d \in Days, k \in Parts :
              CutOff(n)[<<d, k>>] = Absent <=> files[<<d, k>>] = Absent
<1>1. 0 \in Parts /\ <<m_today, 0>> \in Names
  BY BoundsAssumption, NameOf DEF Parts
<1>2. PICK f \in Seq(Items) \cup {Absent} : f = files[<<m_today, 0>>]
  BY <1>1 DEF Disk
<1>3. PICK g : g = IF f = Absent THEN f ELSE SubSeq(f, 1, Len(f) - n)
  OBVIOUS
<1>4. g \in Seq(Items) \cup {Absent} /\ (g = Absent <=> f = Absent)
  <2>1. CASE f = Absent  BY <2>1, <1>3
  <2>2. CASE f # Absent
    <3>1. f \in Seq(Items) /\ Len(f) - n \in Int /\ Len(f) - n <= Len(f)
      BY <2>2
    <3>2. g \in Seq(Items)  BY <3>1, <2>2, <1>3, CutSeq
    <3> QED  BY <3>2, <2>2, BoundsAssumption DEF Items
  <2> QED  BY <2>1, <2>2
<1>5. CutOff(n) = [files EXCEPT ![<<m_today, 0>>] = g]
  BY <1>1, <1>2, <1>3 DEF CutOff, Disk
<1>6. CutOff(n) \in Disk  BY <1>1, <1>4, <1>5 DEF Disk
<1>7. ASSUME NEW d \in Days, NEW k \in Parts
      PROVE  CutOff(n)[<<d, k>>] = IF d = m_today /\ k = 0 THEN g ELSE files[<<d, k>>]
  <2>1. <<d, k>> \in Names /\ (<<d, k>> = <<m_today, 0>> <=> d = m_today /\ k = 0)
    BY NameOf
  <2> QED  BY <2>1, <1>1, <1>5 DEF Disk
<1> QED  BY <1>2, <1>3, <1>4, <1>6, <1>7

(* Log::Init after a restart, which opens the file of the day. *)
LEMMA RestartKeepsFiles ==
  ASSUME ThreadInv, FilesInv, NEW n \in Nat, Restart(n)
  PROVE  FilesInv'
<1>1. /\ clock \in Days /\ clock \in Nat /\ LOG_SAVE_DAY \in Nat \ {0}
      /\ m_today \in Days /\ MaxLines \in Nat
      /\ m_today' = clock /\ m_count' = 0 /\ m_fp' = TRUE
      /\ UNCHANGED <<clock, swept, spoiled>>
  BY DayAndParts DEF Restart, Ends
<1>2. PICK f \in Disk :
        /\ f = CutOff(n)
        /\ \A d \in Days, k \in Parts : f[<<d, k>>] = Absent <=> files[<<d, k>>] = Absent
  BY <1>1, CutOffIs DEF FilesInv
<1>3. files' = Opened(f, clock)  BY <1>2 DEF Restart
<1>4. /\ files' \in Disk
      /\ \A x \in Days, k \in Parts :
           files'[<<x, k>>] =
             IF x = clock /\ k = 0 /\ f[<<x, k>>] = Absent THEN << >> ELSE f[<<x, k>>]
  BY <1>1, <1>3, OpenedIs
<1>5. /\ \A x \in Days : Contiguous(f, x) => Contiguous(files', x)
      /\ files'[<<clock, 0>>] # Absent
  BY <1>1, <1>3, OpenedKeeps
<1>6. \A x \in Days \ spoiled : Contiguous(f, x)
  <2>1. ASSUME NEW x \in Days \ spoiled, NEW k \in 0 .. MaxLines, f[<<x, k>>] # Absent,
               NEW j \in 0 .. k
        PROVE  f[<<x, j>>] # Absent
    <3>1. k \in Parts /\ j \in Parts  BY <1>1 DEF Parts
    <3> QED  BY <3>1, <2>1, <1>2 DEF FilesInv, Contiguous
  <2> QED  BY <2>1 DEF Contiguous
<1>7. \A k \in 1 .. Part(m_count') : files'[<<m_today', k>>] # Absent
  <2>1. Part(m_count') \in 0 .. 0  BY <1>1, PartNext
  <2> QED  BY <2>1
<1>8. \A d \in swept' :
        d \in 1 .. clock' /\ (m_today' \notin spoiled' => d < m_today' + LOG_SAVE_DAY)
  BY <1>1 DEF FilesInv
<1>9. ASSUME NEW d \in swept', NEW x \in Days \ spoiled', NEW k \in Parts,
             x + LOG_SAVE_DAY = d
      PROVE  files'[<<x, k>>] = Absent
  <2>1. x # clock
    <3>1. d \in 1 .. clock  BY <1>1, <1>9 DEF FilesInv
    <3> QED  BY <3>1, <1>1, <1>9
  <2>2. files[<<x, k>>] = Absent  BY <1>1, <1>9 DEF FilesInv
  <2> QED  BY <2>1, <2>2, <1>2, <1>4
<1>10. \A d \in Days \ spoiled' : Contiguous(files, d)'
  BY <1>1, <1>5, <1>6 DEF Contiguous
<1>11. HasFile'
  <2>1. OpenExists'  BY <1>1, <1>5 DEF OpenExists
  <2> QED  BY <2>1, <1>1 DEF HasFile
<1> QED  BY <1>4, <1>7, <1>8, <1>9, <1>10, <1>11 DEF FilesInv

(* At first there is the file of the first day. *)
LEMMA FilesInit == AsyncInit => FilesInv
<1> SUFFICES ASSUME AsyncInit PROVE FilesInv
  OBVIOUS
<1>1. PICK f : f = [n \in Names |-> Absent]  OBVIOUS
<1>2. /\ files = Opened(f, Today) /\ m_today = Today /\ m_count = 0 /\ m_fp = TRUE
      /\ swept = {} /\ Today \in Days
  BY <1>1, DayBounds DEF AsyncInit, Init
<1>3. f \in Disk /\ \A x \in Days, k \in Parts : f[<<x, k>>] = Absent
  BY <1>1, NameOf DEF Disk
<1>4. \A x \in Days : Contiguous(f, x)  BY <1>3 DEF Contiguous, Parts
<1>5. /\ files \in Disk /\ \A x \in Days : Contiguous(files, x)
      /\ files[<<Today, 0>>] # Absent
  BY <1>2, <1>3, <1>4, OpenedIs, OpenedKeeps
<1>6. 1 .. Part(m_count) = {}
  <2>1. Part(m_count) \in 0 .. 0  BY <1>2, PartNext
  <2> QED  BY <2>1
<1>7. HasFile
  <2>1. OpenExists  BY <1>2, <1>5 DEF OpenExists
  <2> QED  BY <2>1, <1>2 DEF HasFile
<1> QED  BY <1>2, <1>5, <1>6, <1>7 DEF FilesInv

(* The steps that write a line, and those that do not touch the files. *)
LEMMA LineKeepsFiles ==
  ASSUME ThreadInv, FilesInv, UNCHANGED <<m_today, m_count, clock, swept>>,
         spoiled \subseteq spoiled', m_fp' = m_fp \/ m_fp' = FALSE,
         UNCHANGED files \/ \E x \in Items : fwrite(x)
  PROVE  FilesInv'
<1>1. files \in Disk /\ m_today \in Days  BY DayAndParts DEF FilesInv
<1>2. /\ UNCHANGED <<m_today, swept>> /\ clock' \in {clock, clock + 1}
      /\ Part(m_count') = Part(m_count)
  OBVIOUS
<1>3. CASE UNCHANGED files
  <2>1. files' \in Disk  BY <1>1, <1>3
  <2> QED  BY <2>1, <1>2, <1>3, SameFilesExist
<1>4. ASSUME NEW x \in Items, fwrite(x) PROVE FilesInv'
  <2>1. /\ files' \in Disk
        /\ \A d \in Days, k \in Parts :
             files'[<<d, k>>] =
               IF d = m_today /\ k = 0 /\ files[<<d, k>>] # Absent
                 THEN Append(files[<<d, k>>], x) ELSE files[<<d, k>>]
    BY <1>1, <1>4, fwriteIs
  <2>2. ASSUME NEW d \in Days, NEW k \in Parts
        PROVE  files'[<<d, k>>] = Absent <=> files[<<d, k>>] = Absent
    <3>1. files[<<d, k>>] \in Seq(Items) \cup {Absent}
      BY <1>1, NameOf DEF Disk
    <3> QED  BY <3>1, <2>1, AppendIsNotAbsent
  <2> QED  BY <2>1, <2>2, <1>2, SameFilesExist
<1> QED  BY <1>3, <1>4

(* Every step of the log keeps FilesInv. *)
LEMMA FilesStep == ThreadInv /\ QueueInv /\ FilesInv /\ [AsyncNext]_allVars => FilesInv'
<1> SUFFICES ASSUME ThreadInv, QueueInv, FilesInv, [AsyncNext]_allVars PROVE FilesInv'
  OBVIOUS
<1> DEFINE rest == <<m_today, m_count, clock, swept>>
           Untouched == /\ UNCHANGED <<rest, files>> /\ spoiled \subseteq spoiled'
                        /\ m_fp' = m_fp \/ m_fp' = FALSE
<1>1. ASSUME Untouched PROVE FilesInv'  BY <1>1, LineKeepsFiles
<1>2. ASSUME alive, NEW t \in Threads, LogLine(t) PROVE FilesInv'
  <2>1. CASE Clock(t) \/ localtime(t) \/ Stamp(t)
    <3>1. Untouched  BY <2>1 DEF Clock, localtime, Stamp, fileVars, history
    <3> QED  BY <3>1, <1>1
  <2>2. CASE ChooseFile(t)  BY <2>2, <1>2, ChooseKeepsFiles
  <2> QED  BY <2>1, <2>2, <1>2 DEF LogLine
<1>3. ASSUME NEW t \in Threads, AskQueue(t) \/ PushLine(t) PROVE FilesInv'
  <2>1. Untouched  BY <1>3 DEF AskQueue, PushLine, fileVars, history
  <2> QED  BY <2>1, <1>1
<1>4. ASSUME NEW t \in Threads, WriteDirect(t) PROVE FilesInv'
  <2>1. /\ pc[t] # "idle" /\ UNCHANGED <<rest, m_fp, spoiled>>
        /\ fwrite(line[t]) \/ UNCHANGED files
    BY <1>4 DEF WriteDirect, Write, Logged, Dropped
  <2>2. line[t] \in Items
    BY <2>1, LimitType DEF ThreadInv, Items
  <2> QED  BY <2>1, <2>2, LineKeepsFiles
<1>5. CASE NewDay
  <2>1. clock' = clock + 1 /\ UNCHANGED <<files, m_fp, m_today, m_count, swept, spoiled>>
    BY <1>5 DEF NewDay, Midnight, fileVars, history
  <2>2. files' \in Disk  BY <2>1 DEF FilesInv
  <2> QED  BY <2>1, <2>2, SameFilesExist
<1>6. CASE WriterTests \/ WriterPops \/ WriterWakesUp \/ WriterCrashes
  <2>1. Untouched
    BY <1>6 DEF WriterTests, WriterPops, WriterWakesUp, WriterCrashes, still, threads
  <2> QED  BY <2>1, <1>1
<1>7. CASE WriterWrites \/ FlushWrites
  <2>1. UNCHANGED <<rest, m_fp, spoiled>>
        /\ (UNCHANGED files \/ \E x \in Items : fwrite(x))
    BY <1>7 DEF WriterWrites, FlushWrites, Written, Dropped, threads, QueueInv
  <2> QED  BY <2>1, LineKeepsFiles
<1>8. CASE \/ Flush \/ FlushPops \/ FlushMem \/ \E deleted \in BOOLEAN : Close(deleted)
           \/ ClearFlag \/ WakeUp \/ Join \/ CloseFile \/ UNCHANGED allVars
  <2>1. Untouched
    BY <1>8 DEF Flush, FlushPops, FlushMem, Close, ClearFlag, WakeUp, Join, CloseFile,
                threads, allVars, vars, fileVars, history
  <2> QED  BY <2>1, <1>1
<1>9. ASSUME NEW opened \in BOOLEAN, OpenLog(opened) PROVE FilesInv'
  BY <1>9, OpenKeepsFiles
<1>10. CASE StartAgain
  <2>1. PICK n \in 0 .. buffered : Restart(n)  BY <1>10 DEF StartAgain
  <2>2. n \in Nat  BY <2>1
  <2> QED  BY <2>1, <2>2, RestartKeepsFiles
<1> QED  BY <1>2, <1>3, <1>4, <1>5, <1>6, <1>7, <1>8, <1>9, <1>10 DEF AsyncNext, Running

-----------------------------------------------------------------------------
(* Where a line is *)

Queued == IF m_log_queue = NULL THEN << >> ELSE BQ!Elements(m_log_queue)

WithThreads(l) == Cardinality({t \in Threads : line[t] = l})
Popped(l) == Cardinality({h \in {"writer", "flush"} :
                            l = IF h = "writer" THEN written ELSE flushed})

(* In how many places line l is. *)
Total(l) == WithThreads(l) + Count(Queued, l) + One(written = l) + One(flushed = l)
              + One(home[l] # 0) + One(l \in lost)
Settled(l) == One(home[l] # 0) + One(l \in lost)

(* Every line logged is in one place, and no other line is anywhere yet. *)
AccountInv ==
    /\ home \in [Lines -> 0 .. MaxDay] /\ lost \subseteq Items
    /\ \A l \in Lines : Total(l) = One(l <= logged)

(* What the writer and FlushQueue have popped. *)
LEMMA PoppedIs == ASSUME NEW l PROVE Popped(l) = One(written = l) + One(flushed = l)
<1> DEFINE H == {h \in {"writer", "flush"} :
                   l = IF h = "writer" THEN written ELSE flushed}
<1>1. Popped(l) = Cardinality(H)  BY DEF Popped
<1>2. /\ "writer" \in H <=> written = l
      /\ "flush" \in H <=> flushed = l
      /\ \A h \in H : h = "writer" \/ h = "flush"
  OBVIOUS
<1> HIDE DEF H
<1>3. CASE written = l /\ flushed = l
  <2>1. H = {"writer"} \cup {"flush"}  BY <1>2, <1>3
  <2>2. "flush" \notin {"writer"}  OBVIOUS
  <2>3. IsFiniteSet({"writer"}) /\ Cardinality({"writer"}) = 1  BY FS_Singleton
  <2>4. Cardinality(H) = 2  BY <2>1, <2>2, <2>3, FS_AddElement
  <2> QED  BY <2>4, <1>1, <1>3 DEF One
<1>4. CASE written = l /\ flushed # l
  <2>1. H = {"writer"}  BY <1>2, <1>4
  <2>2. Cardinality(H) = 1  BY <2>1, FS_Singleton
  <2> QED  BY <2>2, <1>1, <1>4 DEF One
<1>5. CASE written # l /\ flushed = l
  <2>1. H = {"flush"}  BY <1>2, <1>5
  <2>2. Cardinality(H) = 1  BY <2>1, FS_Singleton
  <2> QED  BY <2>2, <1>1, <1>5 DEF One
<1>6. CASE written # l /\ flushed # l
  <2>1. H = {}  BY <1>2, <1>6
  <2>2. Cardinality(H) = 0  BY <2>1, FS_EmptySet
  <2> QED  BY <2>2, <1>1, <1>6 DEF One
<1> QED  BY <1>3, <1>4, <1>5, <1>6

(* A thread takes a line, or lets go of one. *)
Handles(t, x) ==
    /\ line \in [Threads -> Lines \cup {NoLine}]
    /\ line' = [line EXCEPT ![t] = x]
    /\ line[t] = NoLine \/ x = NoLine

HeldThen(t, x, l) ==
    /\ WithThreads(l) \in Nat
    /\ WithThreads(l)' = WithThreads(l) + One(x = l) - One(line[t] = l)
    /\ line[t] = l => WithThreads(l) >= 1

(* How many threads have line l before and after. *)
LEMMA ThreadsHold ==
  ASSUME NEW t \in Threads, NEW x, Handles(t, x), NEW l \in Lines
  PROVE  HeldThen(t, x, l)
<1> USE DEF Handles
<1> DEFINE S == {u \in Threads : line[u] = l}
           T == {u \in Threads : line'[u] = l}
<1>1. IsFiniteSet(S)
  <2>1. S \in SUBSET Threads  OBVIOUS
  <2> QED  BY <2>1, FS_Subset, BoundsAssumption
<1>2. /\ Cardinality(S) \in Nat /\ (Cardinality(S) = 0 <=> S = {})
      /\ Cardinality(S \cup {t}) = IF t \in S THEN Cardinality(S) ELSE Cardinality(S) + 1
      /\ Cardinality(S \ {t}) = IF t \in S THEN Cardinality(S) - 1 ELSE Cardinality(S)
  BY <1>1, FS_CardinalityType, FS_EmptySet, FS_AddElement, FS_RemoveElement
<1>3. NoLine # l  BY BoundsAssumption DEF Lines
<1>4. WithThreads(l) = Cardinality(S) /\ WithThreads(l)' = Cardinality(T)
  BY DEF WithThreads
<1>5. CASE x = l
  <2>1. T = S \cup {t} /\ t \notin S  BY <1>3, <1>5
  <2>2. line[t] # l  BY <2>1
  <2>3. Cardinality(T) = Cardinality(S) + 1  BY <2>1, <1>2
  <2> QED  BY <2>2, <2>3, <1>2, <1>5, <1>4 DEF One, HeldThen
<1>6. CASE line[t] = l /\ x # l
  <2>1. T = S \ {t} /\ t \in S  BY <1>6
  <2> QED  BY <2>1, <1>2, <1>6, <1>4 DEF One, HeldThen
<1>7. CASE line[t] # l /\ x # l
  <2>1. T = S  BY <1>7
  <2> QED  BY <2>1, <1>2, <1>7, <1>4 DEF One, HeldThen
<1> QED  BY <1>5, <1>6, <1>7

(* What is in the queue is a sequence of lines and farewells. *)
LEMMA QueuedType ==
  ASSUME ThreadInv, QueueInv
  PROVE  Queued \in Seq(Items) /\ \A l : Count(Queued, l) \in Nat
<1>1. Queued \in Seq(Items)
  BY DEF QueueInv, QueueHolds, Holds, Queued
<1> QED  BY <1>1, CountType

(* The queue after a push, *)
LEMMA QueuedPush ==
  ASSUME limit \in Limits, QueueHolds(m_log_queue), NEW x \in Items,
         m_log_queue' = BQ!push(m_log_queue, x)
  PROVE  Queued' = IF BQ!full(m_log_queue) THEN Queued ELSE Append(Queued, x)
<1>1. /\ QueueHolds(m_log_queue') /\ m_log_queue' # NULL /\ m_log_queue # NULL
  BY QueuePush, QueueIsNotNULL
<1>2. CASE BQ!full(m_log_queue)
  <2>1. m_log_queue' = m_log_queue  BY <1>2 DEF BQ!push
  <2> QED  BY <2>1, <1>2 DEF Queued
<1>3. CASE ~BQ!full(m_log_queue)
  <2>1. Holds(m_log_queue', limit.max_queue_size, Items,
              Append(BQ!Elements(m_log_queue), x))
    BY <1>3, PushHolds DEF QueueHolds
  <2>2. BQ!Elements(m_log_queue') = Append(BQ!Elements(m_log_queue), x)
    BY <2>1 DEF Holds
  <2> QED  BY <2>2, <1>1, <1>3 DEF Queued
<1> QED  BY <1>2, <1>3

(* and after a pop. *)
LEMMA QueuedPop ==
  ASSUME limit \in Limits, QueueHolds(m_log_queue), ~BQ!empty(m_log_queue),
         m_log_queue' = BQ!pop(m_log_queue)
  PROVE  /\ Queued # << >> /\ BQ!Oldest(m_log_queue) = Head(Queued)
         /\ Queued' = Tail(Queued)
         /\ \A l : Count(Queued, l)
                    = Count(Queued', l) + One(BQ!Oldest(m_log_queue) = l)
<1>1. /\ QueueHolds(m_log_queue') /\ m_log_queue' # NULL /\ m_log_queue # NULL
  BY QueuePop, QueueIsNotNULL
<1>2. /\ BQ!Elements(m_log_queue) # << >>
      /\ BQ!Oldest(m_log_queue) = Head(BQ!Elements(m_log_queue))
      /\ Holds(m_log_queue', limit.max_queue_size, Items,
               Tail(BQ!Elements(m_log_queue)))
  BY PopHolds DEF QueueHolds
<1>3. BQ!Elements(m_log_queue') = Tail(BQ!Elements(m_log_queue))
  BY <1>2 DEF Holds
<1>4. Queued = BQ!Elements(m_log_queue) /\ Queued' = BQ!Elements(m_log_queue')
  BY <1>1 DEF Queued
<1>5. Queued \in Seq(Items)  BY <1>4 DEF QueueHolds, Holds
<1> QED  BY <1>2, <1>3, <1>4, <1>5, CountTail

(* Types that follow from ThreadInv: whoever is in WriteLog has a line. *)
LEMMA LineTypes ==
  ASSUME ThreadInv
  PROVE  /\ line \in [Threads -> Lines \cup {NoLine}] /\ logged \in 0 .. MaxLines
         /\ m_today \in 1 .. MaxDay /\ MaxLines \in Nat /\ MaxDay \in Nat
         /\ \A t \in Threads : IF pc[t] = "idle" THEN line[t] = NoLine
                               ELSE line[t] \in 1 .. logged /\ line[t] \in Lines
         /\ \A l \in Lines : l # NoLine /\ l \in Nat \ {0} /\ l \in Items
<1>1. /\ limit.days \in 1 .. MaxDay /\ limit.lines \in 0 .. MaxLines
      /\ MaxDay \in Nat /\ MaxLines \in Nat
  BY LimitType DEF ThreadInv
<1> QED  BY <1>1, BoundsAssumption DEF ThreadInv, Lines, Items

(* At first no line is logged, and none is anywhere. *)
LEMMA AccountInit == AsyncInit => AccountInv
<1> SUFFICES ASSUME AsyncInit PROVE AccountInv
  OBVIOUS
<1>1. ThreadInv /\ QueueInv  BY ThreadInit, QueueInit
<1>2. /\ home = [l \in Lines |-> 0] /\ lost = {} /\ logged = 0
      /\ line = [t \in Threads |-> NoLine] /\ written = NoLine /\ flushed = NoLine
      /\ m_log_queue = NewQueue /\ limit \in Limits
  BY DEF AsyncInit, Init
<1>3. Queued = << >>
  <2>1. CASE Async
    <3>1. limit.max_queue_size \in Nat \ {0}
      BY <2>1, <1>2, LimitType DEF Async
    <3>2. BQ!Elements(BQ!BlockQueue(limit.max_queue_size)) = << >>
      BY <3>1, NewHolds DEF Holds
    <3> QED  BY <3>2, <2>1, <1>2 DEF Queued, NewQueue
  <2>2. CASE ~Async  BY <2>2, <1>2 DEF Queued, NewQueue
  <2> QED  BY <2>1, <2>2
<1>4. ASSUME NEW l \in Lines
      PROVE  Total(l) = One(l <= logged)
  <2>1. l # NoLine /\ l \in Nat \ {0}  BY <1>1, LineTypes
  <2>2. WithThreads(l) = 0
    <3>1. {t \in Threads : line[t] = l} = {}  BY <1>2, <2>1
    <3> QED  BY <3>1, FS_EmptySet DEF WithThreads
  <2>3. Count(Queued, l) = 0  BY <1>3, CountEmpty
  <2> QED  BY <2>1, <2>2, <2>3, <1>2 DEF One, Total
<1>5. MaxDay \in Nat  BY <1>1, LineTypes
<1> QED  BY <1>2, <1>4, <1>5 DEF AccountInv

accountVars == <<line, m_log_queue, written, flushed, home, lost, logged>>

(* AccountInv is about these variables only. *)
LEMMA AccountSame == AccountInv /\ UNCHANGED accountVars => AccountInv'
  BY DEF AccountInv, accountVars, Total, WithThreads, Queued

(* A line is logged. *)
LEMMA ClockKeepsAccount ==
  ASSUME ThreadInv, QueueInv, AccountInv, NEW t \in Threads, Clock(t),
         UNCHANGED asyncVars
  PROVE  AccountInv'
<1>1. /\ line' = [line EXCEPT ![t] = logged + 1] /\ line[t] = NoLine
      /\ logged' = logged + 1 /\ home' = home /\ pc[t] = "idle"
      /\ UNCHANGED <<m_log_queue, written, flushed, lost>>
  BY LineTypes DEF Clock, asyncVars
<1>2. PICK x : x = logged + 1  OBVIOUS
<1>3. ASSUME NEW l \in Lines PROVE Total(l)' = One(l <= logged)'
  <2>0. HeldThen(t, x, l)
    <3>1. Handles(t, x)  BY <1>1, <1>2, LineTypes DEF Handles
    <3> QED  BY <3>1, ThreadsHold
  <2>1. /\ WithThreads(l) \in Nat
        /\ WithThreads(l)' = WithThreads(l) + One(x = l) - One(line[t] = l)
    BY <2>0 DEF HeldThen
  <2>2. Queued' = Queued /\ Count(Queued, l) \in Nat
    BY <1>1, QueuedType DEF Queued
  <2>3. l # NoLine /\ l \in Nat /\ logged \in Nat  BY LineTypes
  <2>4. Total(l) = One(l <= logged)  BY DEF AccountInv
  <2> QED  BY <2>1, <2>2, <2>3, <2>4, <1>1, <1>2 DEF One, Total
<1> QED  BY <1>1, <1>3 DEF AccountInv

(* A line that a thread, the writer or FlushQueue lets go of, and that is in
   the file or the buffer of it, or dropped. *)
WrittenFrom(x) ==
    /\ \/ /\ home' = IF x = Farewell THEN home ELSE [home EXCEPT ![x] = m_today]
          /\ lost' = lost
       \/ lost' = lost \cup {x} /\ home' = home
    /\ UNCHANGED <<m_log_queue, logged>>

(* A sum, before and after a step. *)
LEMMA TotalIs ==
  ASSUME NEW l \in Lines
  PROVE  /\ WithThreads(l) \in Int /\ Count(Queued, l) \in Int
              => Total(l) = WithThreads(l) + Count(Queued, l) + One(written = l)
                              + One(flushed = l) + Settled(l)
         /\ WithThreads(l)' \in Int /\ Count(Queued, l)' \in Int
              => Total(l)' = WithThreads(l)' + Count(Queued, l)' + One(written = l)'
                              + One(flushed = l)' + Settled(l)'
<1>1. /\ {One(written = l), One(flushed = l), One(home[l] # 0), One(l \in lost)} \subseteq Int
      /\ {One(written = l)', One(flushed = l)', One(home[l] # 0)', One(l \in lost)'}
            \subseteq Int
  BY DEF One
<1> QED  BY <1>1 DEF Total, Settled

(* Such a line, and no other, gets a home or is lost. *)
LEMMA WrittenHome ==
  ASSUME ThreadInv, AccountInv, NEW x \in Items, WrittenFrom(x),
         x \in Lines => Settled(x) = 0
  PROVE  /\ home' \in [Lines -> 0 .. MaxDay] /\ lost' \subseteq Items
         /\ \A l \in Lines : /\ Settled(l) \in Nat
                             /\ Settled(l)' = Settled(l) + One(x = l)
<1>1. m_today \in 1 .. MaxDay /\ MaxDay \in Nat /\ Farewell \notin Lines
      /\ \A l \in Lines : l # Farewell /\ l \in Items
  BY LineTypes DEF Farewell, Lines
<1>2. home \in [Lines -> 0 .. MaxDay] /\ lost \subseteq Items  BY DEF AccountInv
<1>3. home' \in [Lines -> 0 .. MaxDay] /\ lost' \subseteq Items
  <2>1. CASE home' = home /\ lost' = lost \cup {x}  BY <2>1, <1>2
  <2>2. CASE x = Farewell /\ home' = home /\ lost' = lost  BY <2>2, <1>2
  <2>3. CASE x # Farewell /\ home' = [home EXCEPT ![x] = m_today] /\ lost' = lost
    <3>1. m_today \in 0 .. MaxDay  BY <1>1
    <3> QED  BY <3>1, <2>3, <1>2
  <2> QED  BY <2>1, <2>2, <2>3 DEF WrittenFrom
<1>4. ASSUME NEW l \in Lines
      PROVE  Settled(l) \in Nat /\ Settled(l)' = Settled(l) + One(x = l)
  <2>1. x = l => home[l] = 0 /\ l \notin lost  BY <1>4 DEF Settled, One
  <2>2. CASE x # l
    <3>1. home'[l] = home[l]  BY <1>1, <1>2, <2>2 DEF WrittenFrom
    <3>2. l \in lost' <=> l \in lost  BY <2>2 DEF WrittenFrom
    <3> QED  BY <3>1, <3>2, <2>2 DEF Settled, One
  <2>3. CASE x = l
    <3>1. \/ home'[l] # 0 /\ l \notin lost'
          \/ home'[l] = 0 /\ l \in lost'
      BY <1>1, <1>2, <2>1, <2>3 DEF WrittenFrom
    <3> QED  BY <3>1, <2>1, <2>3 DEF Settled, One
  <2> QED  BY <2>2, <2>3
<1> QED  BY <1>3, <1>4

(* A thread writes its line itself. *)
LEMMA DirectKeepsAccount ==
  ASSUME ThreadInv, QueueInv, AccountInv, NEW t \in Threads, WriteDirect(t)
  PROVE  AccountInv'
<1>1. /\ pc[t] # "idle" /\ line' = [line EXCEPT ![t] = NoLine]
      /\ UNCHANGED <<m_log_queue, written, flushed, logged>>
  BY DEF WriteDirect, Write, Returns, asyncVars
<1>2. PICK x \in Lines : x = line[t] /\ x \in Items /\ x # Farewell
  BY <1>1, LineTypes DEF Farewell
<1>3. WrittenFrom(x)
  <2>1. Logged(line[t]) \/ Dropped(line[t])  BY DEF WriteDirect, Write
  <2> QED  BY <2>1, <1>1, <1>2 DEF Logged, Dropped, WrittenFrom
<1>4. \A l \in Lines : Handles(t, NoLine) /\ HeldThen(t, NoLine, l)
  <2>1. Handles(t, NoLine)  BY <1>1, LineTypes DEF Handles
  <2> QED  BY <2>1, ThreadsHold
<1>5. \A l \in Lines : Count(Queued, l) \in Nat /\ Queued' = Queued
  BY <1>1, QueuedType DEF Queued
<1>6. Settled(x) = 0
  <2>1. WithThreads(x) \in Nat /\ WithThreads(x) >= 1  BY <1>2, <1>4 DEF HeldThen
  <2>2. Total(x) = One(x <= logged) /\ Count(Queued, x) \in Nat  BY <1>5 DEF AccountInv
  <2> QED  BY <2>1, <2>2 DEF Total, One, Settled
<1>7. /\ home' \in [Lines -> 0 .. MaxDay] /\ lost' \subseteq Items
      /\ \A l \in Lines : Settled(l) \in Nat /\ Settled(l)' = Settled(l) + One(x = l)
  BY <1>2, <1>3, <1>6, WrittenHome
<1>8. ASSUME NEW l \in Lines PROVE Total(l)' = One(l <= logged)'
  <2>1. /\ WithThreads(l) \in Nat
        /\ WithThreads(l)' = WithThreads(l) + One(NoLine = l) - One(x = l)
    BY <1>2, <1>4 DEF HeldThen
  <2>2. One(NoLine = l) = 0 /\ One(x = l) \in Nat  BY LineTypes DEF One
  <2>3. Total(l) = One(l <= logged) /\ One(l <= logged)' = One(l <= logged)
    BY <1>1 DEF AccountInv
  <2>4. PICK a, b \in Nat : a = One(written = l) /\ b = One(flushed = l)
    BY DEF One
  <2>5. /\ Total(l) = WithThreads(l) + Count(Queued, l) + a + b + Settled(l)
        /\ Total(l)' = WithThreads(l)' + Count(Queued, l) + a + b + Settled(l)'
    <3>1. a = One(written = l)' /\ b = One(flushed = l)'  BY <2>4, <1>1
    <3>2. WithThreads(l)' \in Int  BY <2>1, <2>2
    <3> QED  BY <3>1, <3>2, <2>1, <2>4, <1>5, TotalIs
  <2> QED  BY <2>1, <2>2, <2>3, <2>5, <1>5, <1>7
<1> QED  BY <1>1, <1>7, <1>8 DEF AccountInv

(* A line goes into the queue, or is refused. *)
LEMMA PushKeepsAccount ==
  ASSUME ThreadInv, QueueInv, AccountInv, NEW t \in Threads, PushLine(t)
  PROVE  AccountInv'
<1>1. /\ pc[t] = "push" /\ line' = [line EXCEPT ![t] = NoLine]
      /\ m_log_queue' = BQ!push(m_log_queue, line[t])
      /\ lost' = IF BQ!full(m_log_queue) THEN lost \cup {line[t]} ELSE lost
      /\ UNCHANGED <<home, written, flushed, logged>>
  BY DEF PushLine, Returns
<1>2. PICK x \in Lines : x = line[t] /\ x \in Items
  BY <1>1, LineTypes
<1>3. limit \in Limits /\ QueueHolds(m_log_queue)
  BY <1>1 DEF ThreadInv, QueueInv
<1>4. Queued' = IF BQ!full(m_log_queue) THEN Queued ELSE Append(Queued, x)
  BY <1>1, <1>2, <1>3, QueuedPush
<1>5. ASSUME NEW l \in Lines PROVE Total(l)' = One(l <= logged)'
  <2>0. HeldThen(t, NoLine, l)
    <3>1. Handles(t, NoLine)  BY <1>1, LineTypes DEF Handles
    <3> QED  BY <3>1, ThreadsHold
  <2>1. /\ WithThreads(l) \in Nat
        /\ WithThreads(l)' = WithThreads(l) + One(NoLine = l) - One(x = l)
        /\ x = l => WithThreads(l) >= 1
    BY <2>0, <1>2 DEF HeldThen
  <2>2. Queued \in Seq(Items) /\ Count(Queued, l) \in Nat
    BY QueuedType
  <2>3. l # NoLine /\ l \in Nat /\ logged \in Nat  BY LineTypes
  <2>4. Total(l) = One(l <= logged)  BY DEF AccountInv
  <2>7. home' = home /\ written' = written /\ flushed' = flushed /\ logged' = logged
    BY <1>1
  <2>8. PICK a, b, c \in Nat : a = One(written = l) /\ b = One(flushed = l)
                               /\ c = One(home[l] # 0)
    BY DEF One
  <2>9. /\ Total(l) = WithThreads(l) + Count(Queued, l) + a + b + c + One(l \in lost)
        /\ Total(l)' = WithThreads(l)' + Count(Queued, l)' + a + b + c + One(l \in lost)'
        /\ One(l <= logged)' = One(l <= logged)
    BY <2>8, <2>7 DEF Total, One
  <2>5. CASE BQ!full(m_log_queue)
    <3>1. Queued' = Queued /\ lost' = lost \cup {x}  BY <2>5, <1>1, <1>2, <1>4
    <3>2. l \in lost' <=> l \in lost \/ l = x  BY <3>1
    <3>3. Count(Queued, l)' = Count(Queued, l)  BY <3>1
    <3>4. /\ One(NoLine = l) = 0 /\ One(l <= logged) \in {0, 1}
          /\ One(x = l) = IF x = l THEN 1 ELSE 0
          /\ One(l \in lost) = IF l \in lost THEN 1 ELSE 0
          /\ One(l \in lost)' = IF l \in lost \/ l = x THEN 1 ELSE 0
      BY <3>2, <2>3 DEF One
    <3> QED  BY <3>3, <3>4, <2>1, <2>2, <2>4, <2>9
  <2>6. CASE ~BQ!full(m_log_queue)
    <3>1. Queued' = Append(Queued, x) /\ lost' = lost
      BY <2>6, <1>1, <1>4
    <3>2. Count(Append(Queued, x), l) = Count(Queued, l) + One(x = l)
      BY <2>2, <1>2, CountAppend
    <3>3. Count(Queued, l)' = Count(Queued, l) + One(x = l)
      BY <3>1, <3>2
    <3>4. /\ One(NoLine = l) = 0
          /\ One(x = l) \in Nat /\ One(l \in lost) \in Nat
          /\ One(l \in lost)' = One(l \in lost)
      BY <3>1, <2>3 DEF One
    <3> QED  BY <3>3, <3>4, <2>1, <2>2, <2>4, <2>9
  <2> QED  BY <2>5, <2>6
<1>6. lost' \subseteq Items  BY <1>1, <1>2 DEF AccountInv
<1> QED  BY <1>1, <1>5, <1>6 DEF AccountInv

(* The writer and FlushQueue take a line out of the queue, *)
LEMMA PopKeepsAccount ==
  ASSUME ThreadInv, QueueInv, AccountInv, WriterPops \/ FlushPops
  PROVE  AccountInv'
<1>1. UNCHANGED <<line, home, lost, logged>>
  BY DEF WriterPops, FlushPops, still, threads, vars, history
<1>2. /\ limit \in Limits /\ QueueHolds(m_log_queue)
      /\ writer = "pop" => written = NoLine
      /\ control = "flush" => flushed = NoLine
  BY DEF ThreadInv, QueueInv, WriterPops, FlushPops
<1>3. CASE BQ!empty(m_log_queue)
  <2>1. UNCHANGED accountVars
    BY <1>1, <1>3 DEF accountVars, WriterPops, FlushPops
  <2> QED  BY <2>1, AccountSame
<1>4. CASE ~BQ!empty(m_log_queue)
  <2>1. PICK x : x = BQ!Oldest(m_log_queue)  OBVIOUS
  <2>2. m_log_queue' = BQ!pop(m_log_queue)
    BY <1>4 DEF WriterPops, FlushPops
  <2>3. \/ written = NoLine /\ written' = x /\ flushed' = flushed
        \/ flushed = NoLine /\ flushed' = x /\ written' = written
    BY <1>2, <1>4, <2>1 DEF WriterPops, FlushPops
  <2>4. ASSUME NEW l \in Lines PROVE Total(l)' = One(l <= logged)'
    <3>1. Count(Queued, l) = Count(Queued', l) + One(x = l)
      BY <1>2, <1>4, <2>1, <2>2, QueuedPop
    <3>2. Count(Queued', l) \in Nat
      <4>1. Queued' = Tail(Queued) /\ Queued # << >>
        BY <1>2, <1>4, <2>2, QueuedPop
      <4>2. Tail(Queued) \in Seq(Items)  BY <4>1, QueuedType
      <4> QED  BY <4>1, <4>2, CountType
    <3>3. WithThreads(l)' = WithThreads(l)  BY <1>1 DEF WithThreads
    <3>4. WithThreads(l) \in Nat
      <4>1. {t \in Threads : line[t] = l} \in SUBSET Threads  OBVIOUS
      <4> QED
        BY <4>1, FS_Subset, FS_CardinalityType, BoundsAssumption DEF WithThreads
    <3>5. l # NoLine  BY LineTypes
    <3>6. Total(l) = One(l <= logged)  BY DEF AccountInv
    <3> QED  BY <3>1, <3>2, <3>3, <3>4, <3>5, <3>6, <1>1, <2>3 DEF One, Total
  <2> QED  BY <2>4, <1>1 DEF AccountInv
<1> QED  BY <1>3, <1>4

(* How many threads hold a line. *)
LEMMA WithThreadsType == ASSUME NEW l PROVE WithThreads(l) \in Nat
<1>1. {t \in Threads : line[t] = l} \in SUBSET Threads  OBVIOUS
<1> QED  BY <1>1, FS_Subset, FS_CardinalityType, BoundsAssumption DEF WithThreads

(* and write it. *)
LEMMA WriteKeepsAccount ==
  ASSUME ThreadInv, QueueInv, AccountInv, WriterWrites \/ FlushWrites
  PROVE  AccountInv'
<1>1. PICK x \in Items :
        /\ WrittenFrom(x)
        /\ \/ written = x /\ written' = NoLine /\ flushed' = flushed
           \/ flushed = x /\ flushed' = NoLine /\ written' = written
  <2>1. CASE WriterWrites
    BY <2>1 DEF WriterWrites, Written, WrittenFrom, QueueInv, threads
  <2>2. CASE FlushWrites
    <3>1. Written(flushed) \/ Dropped(flushed)  BY <2>2 DEF FlushWrites
    <3>2. /\ flushed \in Items /\ flushed' = NoLine /\ written' = written
          /\ UNCHANGED <<m_log_queue, logged>>
      BY <2>2 DEF FlushWrites, QueueInv, threads
    <3> QED  BY <3>1, <3>2 DEF Written, Dropped, WrittenFrom
  <2> QED  BY <2>1, <2>2
<1>2. UNCHANGED <<line, m_log_queue, logged>>
  BY DEF WriterWrites, FlushWrites, threads
<1>3. \A l \in Lines : Count(Queued, l) \in Nat /\ Queued' = Queued
  BY <1>2, QueuedType DEF Queued
<1>4. x \in Lines => Settled(x) = 0
  <2>1. ASSUME x \in Lines PROVE Settled(x) = 0
    <3>1. WithThreads(x) \in Nat /\ Count(Queued, x) \in Nat
      BY <1>3, <2>1, WithThreadsType
    <3>2. Total(x) = One(x <= logged)  BY <2>1 DEF AccountInv
    <3>3. One(written = x) + One(flushed = x) >= 1  BY <1>1 DEF One
    <3> QED  BY <3>1, <3>2, <3>3 DEF Total, One, Settled
  <2> QED  BY <2>1
<1>5. /\ home' \in [Lines -> 0 .. MaxDay] /\ lost' \subseteq Items
      /\ \A l \in Lines : Settled(l) \in Nat /\ Settled(l)' = Settled(l) + One(x = l)
  BY <1>1, <1>4, WrittenHome
<1>6. ASSUME NEW l \in Lines PROVE Total(l)' = One(l <= logged)'
  <2>1. WithThreads(l)' = WithThreads(l)  BY <1>2 DEF WithThreads
  <2>2. WithThreads(l) \in Nat  BY WithThreadsType
  <2>3. l # NoLine  BY LineTypes
  <2>4. Total(l) = One(l <= logged) /\ One(l <= logged)' = One(l <= logged)
    BY <1>2 DEF AccountInv
  <2>5. /\ One(written = l)' + One(flushed = l)' + One(x = l)
             = One(written = l) + One(flushed = l)
        /\ One(written = l) \in Nat /\ One(flushed = l) \in Nat
        /\ One(written = l)' \in Nat /\ One(flushed = l)' \in Nat /\ One(x = l) \in Nat
    BY <1>1, <2>3 DEF One
  <2>6. /\ Total(l) = WithThreads(l) + Count(Queued, l) + One(written = l)
                        + One(flushed = l) + Settled(l)
        /\ Total(l)' = WithThreads(l) + Count(Queued, l) + One(written = l)'
                        + One(flushed = l)' + Settled(l)'
    BY <2>1, <2>2, <1>3, TotalIs
  <2> QED  BY <2>2, <2>4, <2>5, <2>6, <1>3, <1>5
<1> QED  BY <1>2, <1>5, <1>6 DEF AccountInv

(* The line that wakes the writer up is no line of the program. *)
LEMMA WakeUpKeepsAccount ==
  ASSUME ThreadInv, QueueInv, AccountInv, WakeUp
  PROVE  AccountInv'
<1>1. /\ m_log_queue' = BQ!push(m_log_queue, Farewell)
      /\ UNCHANGED <<line, written, flushed, home, lost, logged>>
      /\ limit \in Limits /\ QueueHolds(m_log_queue)
  BY DEF WakeUp, vars, history, ThreadInv, QueueInv
<1>2. Farewell \in Items /\ \A l \in Lines : l # Farewell
  BY LineTypes DEF Farewell, Items, Lines
<1>3. Queued' = IF BQ!full(m_log_queue) THEN Queued ELSE Append(Queued, Farewell)
  BY <1>1, <1>2, QueuedPush
<1>4. ASSUME NEW l \in Lines PROVE Total(l)' = One(l <= logged)'
  <2>1. Count(Queued, l)' = Count(Queued, l)
    <3>1. Queued \in Seq(Items) /\ Count(Queued, l) \in Nat  BY QueuedType
    <3>2. Count(Append(Queued, Farewell), l) = Count(Queued, l) + One(Farewell = l)
      BY <3>1, <1>2, CountAppend
    <3>3. One(Farewell = l) = 0  BY <1>2 DEF One
    <3>4. Count(Append(Queued, Farewell), l) = Count(Queued, l)
      BY <3>1, <3>2, <3>3
    <3> QED  BY <3>4, <1>3
  <2>2. WithThreads(l)' = WithThreads(l)  BY <1>1 DEF WithThreads
  <2>3. Total(l) = One(l <= logged)  BY DEF AccountInv
  <2> QED  BY <2>1, <2>2, <2>3, <1>1 DEF Total
<1> QED  BY <1>1, <1>4 DEF AccountInv

(* What is in the queue when the writer has been joined is lost. *)
LEMMA JoinKeepsAccount ==
  ASSUME ThreadInv, QueueInv, AccountInv, Join
  PROVE  AccountInv'
<1>1. /\ lost' = lost \cup (Lines \cap ToSet(BQ!Elements(m_log_queue)))
      /\ m_log_queue' = NULL /\ m_log_queue # NULL
      /\ UNCHANGED <<line, written, flushed, home, logged>>
  BY DEF Join, threads, QueueInv
<1>2. Queued = BQ!Elements(m_log_queue) /\ Queued' = << >>
  BY <1>1 DEF Queued
<1>3. ASSUME NEW l \in Lines PROVE Total(l)' = One(l <= logged)'
  <2>1. /\ Queued \in Seq(Items) /\ Count(Queued, l) \in Nat
        /\ Count(Queued, l) = 0 <=> l \notin ToSet(Queued)
    BY QueuedType, CountType
  <2>2. Count(Queued, l)' = 0  BY <1>2, CountEmpty
  <2>3. WithThreads(l)' = WithThreads(l) /\ WithThreads(l) \in Nat
    <3>1. {t \in Threads : line[t] = l} \in SUBSET Threads  OBVIOUS
    <3>2. WithThreads(l) \in Nat
      BY <3>1, FS_Subset, FS_CardinalityType, BoundsAssumption DEF WithThreads
    <3> QED  BY <3>2, <1>1 DEF WithThreads
  <2>4. l \in lost' <=> l \in lost \/ l \in ToSet(Queued)  BY <1>1, <1>2
  <2>5. Total(l) = One(l <= logged)  BY DEF AccountInv
  <2>6. PICK a, b, c \in Nat : a = One(written = l) /\ b = One(flushed = l)
                               /\ c = One(home[l] # 0)
    BY DEF One
  <2>7. /\ Total(l) = WithThreads(l) + Count(Queued, l) + a + b + c + One(l \in lost)
        /\ Total(l)' = WithThreads(l)' + Count(Queued, l)' + a + b + c + One(l \in lost)'
        /\ One(l <= logged)' = One(l <= logged)
    BY <2>6, <1>1 DEF Total, One
  <2>8. One(l <= logged) \in {0, 1} /\ One(l \in lost) \in {0, 1}  BY DEF One
  <2>9. CASE l \in ToSet(Queued)
    <3>1. Count(Queued, l) # 0  BY <2>1, <2>9
    <3>2. One(l \in lost)' = 1  BY <2>4, <2>9 DEF One
    <3> QED  BY <3>1, <3>2, <2>1, <2>2, <2>3, <2>5, <2>7, <2>8
  <2>10. CASE l \notin ToSet(Queued)
    <3>1. Count(Queued, l) = 0  BY <2>1, <2>10
    <3>2. One(l \in lost)' = One(l \in lost)  BY <2>4, <2>10 DEF One
    <3> QED  BY <3>1, <3>2, <2>2, <2>3, <2>5, <2>7, <2>8
  <2> QED  BY <2>9, <2>10
<1>4. lost' \subseteq Items  BY <1>1, LineTypes DEF AccountInv
<1> QED  BY <1>1, <1>3, <1>4 DEF AccountInv

(* When the program ends, what is in no file is lost. *)
LEMMA StartAgainKeepsAccount ==
  ASSUME ThreadInv, QueueInv, AccountInv, StartAgain
  PROVE  AccountInv'
<1>0. PICK n \in 0 .. buffered : Restart(n)  BY DEF StartAgain
<1>1. /\ limit' = limit /\ limit \in Limits
      /\ home' = [l \in Lines |-> IF l \in LastLines(n) THEN 0 ELSE home[l]]
      /\ logged' = logged
      /\ lost' = {l \in 1 .. logged : home'[l] = 0}
      /\ line' = [t \in Threads |-> NoLine] /\ written' = NoLine /\ flushed' = NoLine
      /\ m_log_queue' = IF Async THEN BQ!BlockQueue(limit.max_queue_size) ELSE NULL
  BY <1>0 DEF StartAgain, Restart, Ends, ThreadInv, NewQueue
<1>2. Queued' = << >>
  <2>1. CASE Async
    <3>1. limit.max_queue_size \in Nat \ {0}
      BY <2>1, <1>1, LimitType DEF Async
    <3>2. BQ!Elements(BQ!BlockQueue(limit.max_queue_size)) = << >>
      BY <3>1, NewHolds DEF Holds
    <3> QED  BY <3>2, <2>1, <1>1 DEF Queued
  <2>2. CASE ~Async  BY <2>2, <1>1 DEF Queued
  <2> QED  BY <2>1, <2>2
<1>3. ASSUME NEW l \in Lines PROVE Total(l)' = One(l <= logged)'
  <2>1. l # NoLine /\ l \in Nat \ {0} /\ logged \in Nat  BY LineTypes
  <2>2. WithThreads(l)' = 0
    <3>1. {t \in Threads : line[t] = l}' = {}  BY <1>1, <2>1
    <3> QED  BY <3>1, FS_EmptySet DEF WithThreads
  <2>3. Count(Queued, l)' = 0  BY <1>2, CountEmpty
  <2>4. home[l] # 0 => l <= logged
    <3>1. WithThreads(l) \in Nat /\ Count(Queued, l) \in Nat
      <4>1. {t \in Threads : line[t] = l} \in SUBSET Threads  OBVIOUS
      <4>2. WithThreads(l) \in Nat
        BY <4>1, FS_Subset, FS_CardinalityType, BoundsAssumption DEF WithThreads
      <4> QED  BY <4>2, QueuedType
    <3>2. Total(l) = One(l <= logged)  BY DEF AccountInv
    <3> QED  BY <3>1, <3>2 DEF One, Total
  <2>5. l \in lost' <=> l <= logged /\ home'[l] = 0  BY <1>1, <2>1
  <2>6. One(written = l)' = 0 /\ One(flushed = l)' = 0  BY <1>1, <2>1 DEF One
  <2>7. One(home[l] # 0)' + One(l \in lost)' = One(l <= logged)'
    <3>1. home'[l] # 0 => l <= logged  BY <1>1, <2>4
    <3> QED  BY <3>1, <1>1, <2>5 DEF One
  <2>8. One(home[l] # 0)' \in Nat /\ One(l \in lost)' \in Nat  BY DEF One
  <2> QED  BY <2>2, <2>3, <2>6, <2>7, <2>8 DEF Total
<1>4. lost' \subseteq Items  BY <1>1, LineTypes DEF Items
<1>5. home' \in [Lines -> 0 .. MaxDay]
  <2>1. home \in [Lines -> 0 .. MaxDay] /\ 0 \in 0 .. MaxDay  BY LineTypes DEF AccountInv
  <2> QED  BY <2>1, <1>1
<1> QED  BY <1>3, <1>4, <1>5 DEF AccountInv

(* Every step of the log keeps AccountInv. *)
LEMMA AccountStep ==
  ThreadInv /\ QueueInv /\ AccountInv /\ [AsyncNext]_allVars => AccountInv'
<1> SUFFICES ASSUME ThreadInv, QueueInv, AccountInv, [AsyncNext]_allVars
             PROVE  AccountInv'
  OBVIOUS
<1>1. ASSUME NEW t \in Threads, LogLine(t) PROVE AccountInv'
  <2>1. CASE Clock(t) /\ UNCHANGED asyncVars  BY <2>1, ClockKeepsAccount
  <2>2. CASE (localtime(t) \/ Stamp(t) \/ ChooseFile(t)) /\ UNCHANGED asyncVars
    <3>1. UNCHANGED accountVars
      BY <2>2 DEF localtime, Stamp, ChooseFile, asyncVars, accountVars, history
    <3> QED  BY <3>1, AccountSame
  <2> QED  BY <1>1, <2>1, <2>2 DEF LogLine
<1>2. ASSUME NEW t \in Threads, AskQueue(t) PROVE AccountInv'
  <2>1. UNCHANGED accountVars  BY <1>2 DEF AskQueue, asyncVars, accountVars, history
  <2> QED  BY <2>1, AccountSame
<1>3. ASSUME NEW t \in Threads, WriteDirect(t) \/ PushLine(t) PROVE AccountInv'
  BY <1>3, DirectKeepsAccount, PushKeepsAccount
<1>4. CASE NewDay \/ Flush \/ FlushMem \/ (\E deleted \in BOOLEAN : Close(deleted))
           \/ ClearFlag \/ CloseFile \/ UNCHANGED allVars
  <2>1. UNCHANGED accountVars
    BY <1>4 DEF NewDay, Midnight, Flush, FlushMem, Close, ClearFlag, CloseFile,
                allVars, vars, history, asyncVars, accountVars
  <2> QED  BY <2>1, AccountSame
<1>5. CASE WriterTests \/ WriterWakesUp \/ WriterCrashes
  <2>1. UNCHANGED accountVars
    BY <1>5 DEF WriterTests, WriterWakesUp, WriterCrashes, still, threads, accountVars
  <2> QED  BY <2>1, AccountSame
<1>6. CASE WriterPops \/ FlushPops  BY <1>6, PopKeepsAccount
<1>7. CASE WriterWrites \/ FlushWrites  BY <1>7, WriteKeepsAccount
<1>8. CASE WakeUp  BY <1>8, WakeUpKeepsAccount
<1>9. CASE Join  BY <1>9, JoinKeepsAccount
<1>10. CASE StartAgain  BY <1>10, StartAgainKeepsAccount
<1>11. ASSUME NEW opened \in BOOLEAN, OpenLog(opened) PROVE AccountInv'
  <2>1. UNCHANGED accountVars  BY <1>11 DEF OpenLog, history, accountVars
  <2> QED  BY <2>1, AccountSame
<1> QED
  BY <1>1, <1>2, <1>3, <1>4, <1>5, <1>6, <1>7, <1>8, <1>9, <1>10, <1>11
  DEF AsyncNext, Running

-----------------------------------------------------------------------------
(* What is in the buffer of the file *)

(* A line that is being logged has not been written yet. *)
LEMMA NotWrittenYet ==
  ASSUME ThreadInv, QueueInv, AccountInv, NEW l \in Lines,
         (\E t \in Threads : line[t] = l) \/ written = l \/ flushed = l
  PROVE  home[l] = 0
<1>1. Total(l) = One(l <= logged)  BY DEF AccountInv
<1>2. PICK c, q \in Nat : c = WithThreads(l) /\ q = Count(Queued, l)
  BY WithThreadsType, QueuedType
<1>3. PICK w, f, h, o \in Nat :
        /\ w = One(written = l) /\ f = One(flushed = l)
        /\ h = One(home[l] # 0) /\ o = One(l \in lost)
  BY DEF One
<1>4. (\E t \in Threads : line[t] = l) => c # 0
  <2> DEFINE S == {t \in Threads : line[t] = l}
  <2>1. S \in SUBSET Threads  OBVIOUS
  <2>2. IsFiniteSet(S)  BY <2>1, FS_Subset, BoundsAssumption
  <2>3. Cardinality(S) = 0 => S = {}  BY <2>2, FS_EmptySet
  <2> QED  BY <2>3, <1>2 DEF WithThreads
<1>5. c + q + w + f + h + o = One(l <= logged)  BY <1>1, <1>2, <1>3 DEF Total
<1>6. c + w + f >= 1  BY <1>2, <1>3, <1>4 DEF One
<1>7. One(l <= logged) <= 1  BY DEF One
<1>8. h = 0  BY <1>2, <1>3, <1>5, <1>6, <1>7 DEF One
<1> QED  BY <1>3, <1>8 DEF One

(* Only an open file has a buffer; and no line that was flushed is in it. *)
NoBuffer == m_fp \/ buffered = 0

SafeInv ==
    /\ buffered \in Nat /\ NoBuffer
    /\ files[<<m_today, 0>>] # Absent => buffered <= Len(files[<<m_today, 0>>])
    /\ safe \subseteq Lines
    /\ \A l \in safe : home[l] # 0 /\ l \notin LastLines(buffered)

(* SafeInv is about these variables only. *)
LEMMA SafeSame ==
  SafeInv /\ UNCHANGED <<files, m_fp, buffered, m_today, home, safe>> => SafeInv'
  BY DEF SafeInv, NoBuffer, LastLines

(* The file of the day, if there is one. *)
LEMMA FileOfToday ==
  ASSUME ThreadInv, FilesInv
  PROVE  files[<<m_today, 0>>] \in Seq(Items) \cup {Absent}
<1>1. m_today \in Days /\ 0 \in Parts  BY DayAndParts
<1> QED  BY <1>1, NameOf DEF FilesInv, Disk

(* After a flush, all lines that are in a file are safe. *)
LEMMA FlushKeepsSafe ==
  ASSUME SafeInv, files[<<m_today, 0>>]' \in Seq(Items) \cup {Absent},
         buffered' = 0, safe' = safe \cup {l \in Lines : home'[l] # 0},
         \A l \in safe : home'[l] # 0
  PROVE  SafeInv'
<1>1. LastLines(buffered)' = {}
  <2>1. PICK f \in Seq(Items) \cup {Absent} : f = files'[<<m_today', 0>>]
    OBVIOUS
  <2>2. CASE f = Absent  BY <2>1, <2>2 DEF LastLines
  <2>3. CASE f # Absent
    <3>1. Len(f) \in Nat  BY <2>3
    <3>2. \A b : b = 0 => Len(f) - b + 1 .. Len(f) = {}  BY <3>1
    <3>3. LastLines(buffered)'
            = {f[i] : i \in Len(f) - buffered' + 1 .. Len(f)}
      BY <2>1, <2>3 DEF LastLines
    <3> QED  BY <3>2, <3>3
  <2> QED  BY <2>2, <2>3
<1> QED  BY <1>1 DEF SafeInv, NoBuffer

(* A line that is written goes into the buffer. *)
LEMMA fwriteKeepsSafe ==
  ASSUME ThreadInv, FilesInv, SafeInv, m_fp, NEW x \in Items, x \notin safe, fwrite(x),
         UNCHANGED <<m_fp, m_today, safe>>, \A l \in safe : home'[l] # 0
  PROVE  SafeInv'
<1>1. m_today \in Days /\ 0 \in Parts /\ files \in Disk  BY DayAndParts DEF FilesInv
<1>2. PICK f \in Seq(Items) \cup {Absent} : f = files[<<m_today, 0>>]
  BY FileOfToday
<1>3. PICK b \in Nat : b = buffered  BY DEF SafeInv
<1>4. NoBuffer'
  <2>1. m_fp'  OBVIOUS
  <2> QED  BY <2>1 DEF NoBuffer
<1>5. CASE f = Absent
  <2>1. files'[<<m_today', 0>>] = Absent /\ buffered' = buffered
    BY <1>1, <1>2, <1>5, fwriteIs DEF fwrite
  <2>2. LastLines(buffered)' = {}  BY <2>1 DEF LastLines
  <2> QED  BY <2>1, <2>2, <1>4 DEF SafeInv
<1>6. CASE f # Absent
  <2>1. PICK n \in Nat : n = Len(f) /\ f \in Seq(Items)  BY <1>6
  <2>2. PICK g \in Seq(Items) : g = Append(f, x)  BY <2>1, AppendIsNotAbsent
  <2>3. /\ g # Absent /\ Len(g) = n + 1 /\ g[n + 1] = x
        /\ \A i \in 1 .. n : g[i] = f[i]
    <3>1. g # Absent  BY <2>1, <2>2, AppendIsNotAbsent
    <3> QED  BY <3>1, <2>1, <2>2
  <2>4. files'[<<m_today', 0>>] = g /\ buffered' = b + 1
    BY <1>1, <1>2, <1>3, <1>6, <2>2, fwriteIs DEF fwrite
  <2>5. b <= n /\ LastLines(buffered) = {f[i] : i \in n - b + 1 .. n}
    BY <1>2, <1>3, <1>6, <2>1 DEF SafeInv, LastLines
  <2>6. LastLines(buffered)' = {g[i] : i \in (n + 1) - (b + 1) + 1 .. n + 1}
    BY <2>3, <2>4 DEF LastLines
  <2>7. ASSUME NEW l \in safe PROVE l \notin LastLines(buffered)'
    <3>1. ASSUME NEW i \in (n + 1) - (b + 1) + 1 .. n + 1, g[i] = l PROVE FALSE
      <4>1. CASE i = n + 1  BY <4>1, <3>1, <2>3, <2>7
      <4>2. CASE i # n + 1
        <5>1. i \in n - b + 1 .. n /\ i \in 1 .. n  BY <4>2, <2>5
        <5>2. f[i] = l  BY <5>1, <3>1, <2>3
        <5>3. l \in LastLines(buffered)  BY <5>1, <5>2, <2>5
        <5> QED  BY <5>3, <2>7 DEF SafeInv
      <4> QED  BY <4>1, <4>2
    <3> QED  BY <3>1, <2>6
  <2>8. buffered' \in Nat /\ buffered' <= Len(g)  BY <2>3, <2>4, <2>5
  <2> QED  BY <2>4, <2>7, <2>8, <1>4 DEF SafeInv
<1> QED  BY <1>5, <1>6

(* OpenLog opens a file only if there is nothing in a buffer. *)
LEMMA OpenKeepsSafe ==
  ASSUME ThreadInv, FilesInv, FilesInv', ThreadInv', SafeInv,
         NEW opened \in BOOLEAN, OpenLog(opened)
  PROVE  SafeInv'
<1>1. /\ UNCHANGED <<m_today, buffered, home, safe>> /\ m_fp' = opened
      /\ m_today \in Days /\ 0 \in Parts
  BY DayAndParts DEF OpenLog, history
<1>2. CASE m_fp
  <2>1. opened /\ files' = DelLog(files)  BY <1>2 DEF OpenLog
  <2>2. files'[<<m_today', 0>>] \in {files[<<m_today, 0>>], Absent}
    BY <1>1, <2>1, DelLogIs DEF FilesInv
  <2>3. LastLines(buffered)' \subseteq LastLines(buffered)
    BY <2>2, <1>1 DEF LastLines
  <2>4. files'[<<m_today', 0>>] # Absent => buffered' <= Len(files'[<<m_today', 0>>])
    BY <2>2, <1>1 DEF SafeInv
  <2>5. NoBuffer'  BY <2>1, <1>1 DEF NoBuffer
  <2> QED  BY <2>3, <2>4, <2>5, <1>1 DEF SafeInv
<1>3. CASE ~m_fp
  <2>1. buffered = 0  BY <1>3 DEF SafeInv, NoBuffer
  <2>2. PICK f \in Seq(Items) \cup {Absent} : f = files'[<<m_today', 0>>]
    <3>1. m_today' \in Days  BY <1>1
    <3> QED  BY <3>1, <1>1, NameOf DEF FilesInv, Disk
  <2>3. LastLines(buffered)' = {}
    <3>1. CASE f = Absent  BY <2>2, <3>1 DEF LastLines
    <3>2. CASE f # Absent
      <4>1. Len(f) \in Nat  BY <3>2
      <4>2. \A b : b = 0 => Len(f) - b + 1 .. Len(f) = {}  BY <4>1
      <4>3. LastLines(buffered)' = {f[i] : i \in Len(f) - buffered' + 1 .. Len(f)}
        BY <2>2, <3>2 DEF LastLines
      <4> QED  BY <4>2, <4>3, <2>1, <1>1
    <3> QED  BY <3>1, <3>2
  <2>4. f # Absent => buffered' <= Len(f)
    <3>1. f # Absent => Len(f) \in Nat  OBVIOUS
    <3> QED  BY <3>1, <2>1, <1>1
  <2>5. NoBuffer'  BY <2>1, <1>1 DEF NoBuffer
  <2> QED  BY <2>2, <2>3, <2>4, <2>5, <1>1 DEF SafeInv
<1> QED  BY <1>2, <1>3

(* The end of the program takes what is in the buffer, at most. *)
LEMMA RestartKeepsSafe ==
  ASSUME ThreadInv, FilesInv, ThreadInv', FilesInv', AccountInv, SafeInv,
         NEW n \in 0 .. buffered, Restart(n)
  PROVE  SafeInv'
<1>1. /\ home' = [l \in Lines |-> IF l \in LastLines(n) THEN 0 ELSE home[l]]
      /\ buffered' = 0 /\ safe' = safe \cup {l \in Lines : home'[l] # 0}
  BY DEF Restart, Ends, Flushed
<1>2. buffered \in Nat /\ n \in Nat /\ n <= buffered  BY DEF SafeInv
<1>3. LastLines(n) \subseteq LastLines(buffered)
  <2>1. PICK f \in Seq(Items) \cup {Absent} : f = files[<<m_today, 0>>]
    BY FileOfToday
  <2>2. CASE f = Absent  BY <2>1, <2>2 DEF LastLines
  <2>3. CASE f # Absent
    <3>1. Len(f) \in Nat  BY <2>3
    <3>2. Len(f) - n + 1 .. Len(f) \subseteq Len(f) - buffered + 1 .. Len(f)
      BY <3>1, <1>2
    <3>3. /\ LastLines(n) = {f[i] : i \in Len(f) - n + 1 .. Len(f)}
          /\ LastLines(buffered) = {f[i] : i \in Len(f) - buffered + 1 .. Len(f)}
      BY <2>1, <2>3 DEF LastLines
    <3> QED  BY <3>2, <3>3
  <2> QED  BY <2>2, <2>3
<1>4. \A l \in safe : home'[l] # 0  BY <1>1, <1>3 DEF SafeInv
<1>5. files[<<m_today, 0>>]' \in Seq(Items) \cup {Absent}
  <2>1. m_today' \in Days /\ 0 \in Parts
    <3>1. m_today' = clock  BY DEF Restart
    <3> QED  BY <3>1, DayAndParts
  <2> QED  BY <2>1, NameOf DEF FilesInv, Disk
<1> QED  BY <1>1, <1>4, <1>5, FlushKeepsSafe

(* At first nothing is written. *)
LEMMA SafeInit == AsyncInit => SafeInv
<1> SUFFICES ASSUME AsyncInit PROVE SafeInv
  OBVIOUS
<1>1. buffered = 0 /\ m_fp = TRUE /\ safe = {}  BY DEF AsyncInit, Init
<1>2. files[<<m_today, 0>>] \in Seq(Items) \cup {Absent}
  BY ThreadInit, FilesInit, FileOfToday
<1>3. files[<<m_today, 0>>] # Absent => 0 <= Len(files[<<m_today, 0>>])
  BY <1>2
<1> QED  BY <1>1, <1>3 DEF SafeInv, NoBuffer

(* Every step of the log keeps SafeInv. *)
LEMMA SafeStep ==
  ThreadInv /\ QueueInv /\ FilesInv /\ AccountInv /\ SafeInv /\ [AsyncNext]_allVars
    => SafeInv'
<1> SUFFICES ASSUME ThreadInv, QueueInv, FilesInv, AccountInv, SafeInv,
                    [AsyncNext]_allVars
             PROVE  SafeInv'
  OBVIOUS
<1>1. ThreadInv' /\ FilesInv'  BY ThreadStep, FilesStep
<1>2. files[<<m_today, 0>>]' \in Seq(Items) \cup {Absent}
  <2>1. m_today' \in Days /\ 0 \in Parts
    <3>1. clock' \in Today .. MaxDay /\ m_today' \in 1 .. clock' /\ MaxDay \in Nat
      BY <1>1, DayBounds DEF ThreadInv
    <3> QED  BY <3>1, DayBounds, DayAndParts DEF Days
  <2> QED  BY <2>1, <1>1, NameOf DEF FilesInv, Disk
<1> DEFINE Same == UNCHANGED <<files, m_fp, buffered, m_today, home, safe>>
<1>3. ASSUME Same PROVE SafeInv'  BY <1>3, SafeSame
<1>4. ASSUME Flushed(home), UNCHANGED home PROVE SafeInv'
  <2>1. \A l \in safe : home'[l] # 0  BY <1>4 DEF SafeInv
  <2> QED  BY <2>1, <1>2, <1>4, FlushKeepsSafe DEF Flushed
<1>5. ASSUME NEW t \in Threads, LogLine(t) PROVE SafeInv'
  <2>1. CASE Clock(t) \/ localtime(t) \/ Stamp(t)
    <3>1. Same  BY <2>1 DEF Clock, localtime, Stamp, fileVars, history
    <3> QED  BY <3>1, <1>3
  <2>2. CASE ChooseFile(t)
    <3>1. UNCHANGED home  BY <2>2 DEF ChooseFile
    <3>2. CASE \E opened \in BOOLEAN : NextDay(t, opened) \/ NextPart(t, opened)
      <4>1. Flushed(home)  BY <3>2 DEF NextDay, NextPart
      <4> QED  BY <4>1, <3>1, <1>4
    <3>3. CASE NoFile(t) \/ SameFile(t)
      <4>1. Same  BY <3>1, <3>3 DEF NoFile, SameFile, fileVars
      <4> QED  BY <4>1, <1>3
    <3> QED  BY <2>2, <3>2, <3>3 DEF ChooseFile
  <2> QED  BY <1>5, <2>1, <2>2 DEF LogLine
<1>6. ASSUME NEW t \in Threads, AskQueue(t) \/ PushLine(t) PROVE SafeInv'
  <2>1. Same  BY <1>6 DEF AskQueue, PushLine, fileVars, history
  <2> QED  BY <2>1, <1>3
<1>7. ASSUME NEW x \in Items, x \in Lines => home[x] = 0, m_fp, fwrite(x),
             home' = IF x = Farewell THEN home ELSE [home EXCEPT ![x] = m_today],
             UNCHANGED <<m_fp, m_today, safe>>
      PROVE  SafeInv'
  <2>1. x \notin safe  BY <1>7 DEF SafeInv
  <2>2. \A l \in safe : home'[l] # 0
    <3>1. m_today # 0  BY DayAndParts DEF Days
    <3> QED  BY <3>1, <1>7 DEF SafeInv, AccountInv
  <2> QED  BY <1>7, <2>1, <2>2, fwriteKeepsSafe
<1>8. ASSUME NEW t \in Threads, WriteDirect(t) PROVE SafeInv'
  <2>1. PICK x : x = line[t]  OBVIOUS
  <2>2. /\ pc[t] # "idle" /\ UNCHANGED <<m_fp, m_today, safe>>
        /\ IF m_fp THEN Logged(x) ELSE Dropped(x)
    BY <1>8, <2>1 DEF WriteDirect, Write
  <2>3. x \in Lines /\ x \in Items /\ x # Farewell
    BY <2>1, <2>2, LineTypes DEF Farewell
  <2>4. home[x] = 0  BY <2>1, <2>3, NotWrittenYet
  <2>5. CASE m_fp  BY <2>2, <2>3, <2>4, <2>5, <1>7 DEF Logged
  <2>6. CASE ~m_fp
    <3>1. Same  BY <2>2, <2>6 DEF Dropped
    <3> QED  BY <3>1, <1>3
  <2> QED  BY <2>5, <2>6
<1>9. CASE WriterWrites
  <2>1. /\ written \in Items /\ m_fp /\ Written(written)
        /\ UNCHANGED <<m_fp, m_today, safe>>
    BY <1>9 DEF WriterWrites, QueueInv, threads
  <2>2. written \in Lines => home[written] = 0  BY NotWrittenYet
  <2> QED  BY <2>1, <2>2, <1>7 DEF Written
<1>10. CASE FlushWrites
  <2>1. /\ flushed \in Items /\ UNCHANGED <<m_fp, m_today, safe>>
        /\ IF m_fp THEN Written(flushed) ELSE Dropped(flushed)
    BY <1>10 DEF FlushWrites, QueueInv, threads
  <2>2. flushed \in Lines => home[flushed] = 0  BY NotWrittenYet
  <2>3. CASE m_fp  BY <2>1, <2>2, <2>3, <1>7 DEF Written
  <2>4. CASE ~m_fp
    <3>1. Same  BY <2>1, <2>4 DEF Dropped
    <3> QED  BY <3>1, <1>3
  <2> QED  BY <2>3, <2>4
<1>11. CASE NewDay \/ WriterTests \/ WriterPops \/ WriterWakesUp \/ WriterCrashes
  <2>1. Same
    BY <1>11 DEF NewDay, Midnight, WriterTests, WriterPops, WriterWakesUp,
                 WriterCrashes, still, threads, fileVars, history
  <2> QED  BY <2>1, <1>3
<1>12. CASE \/ Flush \/ FlushPops \/ \E deleted \in BOOLEAN : Close(deleted)
            \/ ClearFlag \/ WakeUp \/ Join \/ UNCHANGED allVars
  <2>1. Same
    BY <1>12 DEF Flush, FlushPops, Close, ClearFlag, WakeUp, Join, threads,
                allVars, vars, fileVars, history
  <2> QED  BY <2>1, <1>3
<1>13. CASE FlushMem \/ CloseFile
  <2>1. Flushed(home) /\ UNCHANGED home  BY <1>13 DEF FlushMem, CloseFile
  <2> QED  BY <2>1, <1>4
<1>14. ASSUME NEW opened \in BOOLEAN, OpenLog(opened) PROVE SafeInv'
  BY <1>1, <1>14, OpenKeepsSafe
<1>15. CASE StartAgain
  <2>1. PICK n \in 0 .. buffered : Restart(n)  BY <1>15 DEF StartAgain
  <2> QED  BY <2>1, <1>1, RestartKeepsSafe
<1> QED
  BY <1>5, <1>6, <1>8, <1>9, <1>10, <1>11, <1>12, <1>13, <1>14, <1>15
  DEF AsyncNext, Running

-----------------------------------------------------------------------------
(* Which file a line is in *)

(* Line l is at place i of part k of day d. *)
Has(f, d, k, i, l) ==
    /\ f[<<d, k>>] # Absent
    /\ i \in DOMAIN f[<<d, k>>] /\ f[<<d, k>>][i] = l

(* A line is in the log of its day, *)
InOwnDay(f, h) ==
    \A d \in Days, k \in Parts, i \in Nat, l \in Lines :
        Has(f, d, k, i, l) => h[l] = d

(* at one place, *)
Single(f) ==
    \A d \in Days, j, k \in Parts, h, i \in Nat, l \in Lines :
        Has(f, d, j, h, l) /\ Has(f, d, k, i, l) => j = k /\ h = i

(* and stays there as long as LinesKept says; *)
Kept ==
    \A l \in Lines :
        home[l] # 0 /\ home[l] \notin reopened /\ clock < home[l] + LOG_SAVE_DAY
          => \E k \in Parts, i \in Nat : Has(files, home[l], k, i, l)

(* and the parts of today that are to come are not there yet. *)
NotYet ==
    m_today \in reopened \/ \A k \in Parts :
        k > Part(m_count) => files[<<m_today, k>>] = Absent

KeptInv == InOwnDay(files, home) /\ Single(files) /\ Kept /\ NotYet

(* Files that are deleted or emptied leave the other lines where they are, *)
LEMMA EmptiedKeeps ==
  ASSUME NEW f, NEW h, InOwnDay(f, h), Single(f), NEW g,
         \A d \in Days, k \in Parts : g[<<d, k>>] \in {f[<<d, k>>], << >>, Absent}
  PROVE  InOwnDay(g, h) /\ Single(g)
<1>1. \A d \in Days, k \in Parts, i \in Nat, l \in Lines :
        Has(g, d, k, i, l) => Has(f, d, k, i, l)
  BY DEF Has
<1> QED  BY <1>1 DEF InOwnDay, Single

(* and a file that is renamed takes its lines with it. *)
Moved(f, g, t, p) ==
    /\ g[<<t, 0>>] \in {<< >>, Absent} /\ g[<<t, p>>] \in {f[<<t, 0>>], Absent}
    /\ \A d \in Days, k \in Parts :
         ~(d = t /\ k \in {0, p}) => g[<<d, k>>] \in {f[<<d, k>>], Absent}

(* Such a change keeps every line in one place of its day. *)
LEMMA RenamedKeeps ==
  ASSUME NEW f, NEW h, InOwnDay(f, h), Single(f), NEW g,
         NEW t \in Days, NEW p \in Parts, p # 0, Moved(f, g, t, p)
  PROVE  InOwnDay(g, h) /\ Single(g)
<1> DEFINE Was(d, k) == IF d = t /\ k = p THEN 0 ELSE k
<1>1. \A d \in Days, k \in Parts, i \in Nat, l \in Lines :
        Has(g, d, k, i, l) => /\ Has(f, d, Was(d, k), i, l) /\ Was(d, k) \in Parts
                              /\ ~(d = t /\ k = 0)
  <2>1. 0 \in Parts  BY BoundsAssumption DEF Parts
  <2> QED  BY <2>1 DEF Has, Moved
<1>2. ASSUME NEW d \in Days, NEW k \in Parts, NEW i \in Nat, NEW l \in Lines,
             Has(g, d, k, i, l)
      PROVE  h[l] = d
  <2>1. PICK j \in Parts : Has(f, d, j, i, l)  BY <1>1, <1>2
  <2> QED  BY <2>1 DEF InOwnDay
<1>3. ASSUME NEW d \in Days, NEW j \in Parts, NEW k \in Parts, NEW a \in Nat,
             NEW i \in Nat, NEW l \in Lines, Has(g, d, j, a, l), Has(g, d, k, i, l)
      PROVE  j = k /\ a = i
  <2>1. Was(d, j) = Was(d, k) /\ a = i  BY <1>1, <1>3 DEF Single
  <2> QED  BY <2>1, <1>1, <1>3
<1> QED  BY <1>2, <1>3 DEF InOwnDay, Single

(* A line is written into the log of today. *)
LEMMA WriteKeepsKept ==
  ASSUME ThreadInv, FilesInv, AccountInv, KeptInv, m_fp,
         NEW x \in Items, x \in Lines => home[x] = 0, fwrite(x),
         home' = IF x = Farewell THEN home ELSE [home EXCEPT ![x] = m_today],
         UNCHANGED <<clock, m_today, m_count, reopened>>
  PROVE  KeptInv'
<1>1. /\ m_today \in Days /\ clock \in Nat /\ 0 \in Parts /\ LOG_SAVE_DAY \in Nat
      /\ Part(m_count) \in Nat
  BY DayAndParts DEF Parts
<1>2. files \in Disk /\ home \in [Lines -> 0 .. MaxDay]  BY DEF FilesInv, AccountInv
<1>3. \A d \in Days, k \in Parts :
        files'[<<d, k>>] =
          IF d = m_today /\ k = 0 /\ files[<<d, k>>] # Absent
            THEN Append(files[<<d, k>>], x) ELSE files[<<d, k>>]
  BY <1>1, <1>2, fwriteIs
<1>4. \A d \in Days, k \in Parts : files[<<d, k>>] \in Seq(Items) \cup {Absent}
  BY <1>2, NameOf DEF Disk
<1>5. x \in Lines <=> x # Farewell
  BY DayAndParts DEF Items, Lines, Farewell
<1>6. \A l \in Lines : home'[l] = IF l = x THEN m_today ELSE home[l]
  BY <1>2, <1>5
(* What the append does, place by place. *)
<1>7. PICK f : f = files[<<m_today, 0>>]  OBVIOUS
<1>8. CASE f = Absent
  <2>1. \A d \in Days, k \in Parts : files'[<<d, k>>] = files[<<d, k>>]
    BY <1>3, <1>7, <1>8
  <2>2. ~(clock < m_today + LOG_SAVE_DAY)
    <3>1. OpenExists  BY DEF FilesInv, HasFile
    <3> QED  BY <3>1, <1>7, <1>8 DEF OpenExists
  <2>3. \A d \in Days, k \in Parts, i \in Nat, l \in Lines :
          Has(files, d, k, i, l)' <=> Has(files, d, k, i, l)
    BY <2>1 DEF Has
  <2>4. \A d \in Days, k \in Parts, i \in Nat, l \in Lines :
          Has(files, d, k, i, l) => l # x
    <3>1. \A d \in Days : d # 0  BY DEF Days
    <3> QED  BY <3>1 DEF KeptInv, InOwnDay
  <2>5. InOwnDay(files, home)'
    BY <2>3, <2>4, <1>6 DEF KeptInv, InOwnDay
  <2>6. Single(files)'  BY <2>3 DEF KeptInv, Single
  <2>7. Kept'
    <3>1. \A l \in Lines : home[l] # 0 => home[l] \in Days
      BY <1>2, <1>1 DEF Days
    <3> QED  BY <3>1, <2>2, <2>3, <1>6 DEF KeptInv, Kept
  <2>8. NotYet'  BY <2>1, <1>1 DEF KeptInv, NotYet
  <2> QED  BY <2>5, <2>6, <2>7, <2>8 DEF KeptInv
<1>9. CASE f # Absent
  <2>1. PICK n \in Nat : n = Len(f) /\ f \in Seq(Items)
    BY <1>1, <1>4, <1>7, <1>9
  <2>2. PICK g : g = Append(f, x)  OBVIOUS
  <2>3. /\ g # Absent /\ DOMAIN g = 1 .. n + 1 /\ DOMAIN f = 1 .. n /\ g[n + 1] = x
        /\ \A i \in 1 .. n : g[i] = f[i]
        /\ n + 1 \in Nat /\ n + 1 \in 1 .. n + 1
    <3>1. g # Absent  BY <2>1, <2>2, AppendIsNotAbsent
    <3> QED  BY <3>1, <2>1, <2>2
  <2>4. files'[<<m_today, 0>>] = g  BY <1>1, <1>3, <1>7, <1>9, <2>2
  <2>5. ASSUME NEW d \in Days, NEW k \in Parts, NEW i \in Nat, NEW l \in Lines
        PROVE  Has(files, d, k, i, l)' <=>
                 \/ Has(files, d, k, i, l)
                 \/ d = m_today /\ k = 0 /\ i = n + 1 /\ l = x
    <3>1. CASE d = m_today /\ k = 0
      <4>1. Has(files, d, k, i, l)' <=> i \in 1 .. n + 1 /\ g[i] = l
        BY <2>3, <2>4, <3>1 DEF Has
      <4>2. Has(files, d, k, i, l) <=> i \in 1 .. n /\ f[i] = l
        BY <1>7, <1>9, <2>3, <3>1 DEF Has
      <4>3. i \in 1 .. n + 1 <=> i \in 1 .. n \/ i = n + 1  BY <2>1
      <4>4. n + 1 \notin 1 .. n  BY <2>1
      <4> QED  BY <4>1, <4>2, <4>3, <4>4, <2>3, <3>1
    <3>2. CASE ~(d = m_today /\ k = 0)
      <4>1. files'[<<d, k>>] = files[<<d, k>>]  BY <1>3, <3>2
      <4> QED  BY <4>1, <3>2 DEF Has
    <3> QED  BY <3>1, <3>2
  <2>6. \A d \in Days, k \in Parts, i \in Nat, l \in Lines :
          Has(files, d, k, i, l) => l # x
    <3>1. \A d \in Days : d # 0  BY DEF Days
    <3> QED  BY <3>1 DEF KeptInv, InOwnDay
  <2>7. InOwnDay(files, home)'
    BY <2>5, <2>6, <1>6 DEF KeptInv, InOwnDay
  <2>8. Single(files)'  BY <2>5, <2>6 DEF KeptInv, Single
  <2>9. Kept'
    <3>1. \A l \in Lines : home[l] # 0 => home[l] \in Days
      BY <1>2, <1>1 DEF Days
    <3>2. x \in Lines => Has(files, m_today, 0, n + 1, x)'
      BY <2>3, <2>5, <1>1
    <3> QED  BY <3>1, <3>2, <2>3, <2>5, <1>1, <1>6 DEF KeptInv, Kept
  <2>10. NotYet'
    <3>1. \A k \in Parts : k > Part(m_count) => files'[<<m_today, k>>] = files[<<m_today, k>>]
      BY <1>1, <1>3
    <3> QED  BY <3>1 DEF KeptInv, NotYet
  <2> QED  BY <2>7, <2>8, <2>9, <2>10 DEF KeptInv
<1> QED  BY <1>8, <1>9

(* What KeptInv is about, and that nothing else changes it. *)
keptVars == <<files, home, clock, reopened, m_today, m_count>>

(* KeptInv is about these variables only. *)
LEMMA KeptSame == KeptInv /\ UNCHANGED keptVars => KeptInv'
  BY DEF KeptInv, InOwnDay, Single, Kept, NotYet, Has, keptVars

(* At first there is one file, and it is empty. *)
LEMMA KeptInit == AsyncInit => KeptInv
<1> SUFFICES ASSUME AsyncInit PROVE KeptInv
  OBVIOUS
<1>1. /\ files = Opened([n \in Names |-> Absent], Today) /\ m_today = Today /\ m_count = 0
      /\ home = [l \in Lines |-> 0] /\ Today \in Days
  BY DayBounds DEF AsyncInit, Init
<1>2. PICK f \in Disk : f = [n \in Names |-> Absent]  BY DEF Disk
<1>3. \A x \in Days, k \in Parts :
        files[<<x, k>>] = IF x = Today /\ k = 0 THEN << >> ELSE Absent
  <2>1. \A x \in Days, k \in Parts : f[<<x, k>>] = Absent  BY <1>2, NameOf
  <2>2. \A x \in Days, k \in Parts :
          Opened(f, Today)[<<x, k>>] =
            IF x = Today /\ k = 0 /\ f[<<x, k>>] = Absent THEN << >> ELSE f[<<x, k>>]
    BY <1>1, OpenedIs
  <2> QED  BY <2>1, <2>2, <1>1, <1>2
<1>4. \A d \in Days, k \in Parts, i \in Nat, l \in Lines : ~Has(files, d, k, i, l)
  BY <1>3 DEF Has
<1>5. Part(0) \in 0 .. 0  BY PartNext
<1>6. NotYet  BY <1>1, <1>3, <1>5 DEF NotYet, Parts
<1> QED  BY <1>1, <1>4, <1>6 DEF KeptInv, InOwnDay, Single, Kept

(* A line that is to be kept is in the log of a day that is not deleted. *)
LEMMA KeptWhere ==
  ASSUME ThreadInv, FilesInv, AccountInv, KeptInv, NEW l \in Lines,
         home[l] # 0, home[l] \notin reopened, clock < home[l] + LOG_SAVE_DAY
  PROVE  /\ home[l] \in Days /\ ~Expired(home[l])
         /\ \E k \in Parts, i \in Nat : Has(files, home[l], k, i, l)
<1>1. home[l] \in 0 .. MaxDay /\ home[l] \in Days
  BY BoundsAssumption DEF AccountInv, Days
<1>2. clock \in Nat /\ LOG_SAVE_DAY \in Nat  BY DayAndParts
<1> QED  BY <1>1, <1>2 DEF KeptInv, Kept, Expired, Days

(* A change of file: the first line of a day, *)
LEMMA NextDayKeepsKept ==
  ASSUME ThreadInv, FilesInv, AccountInv, KeptInv, NEW t \in Threads,
         pc[t] = "stamped", NEW opened \in BOOLEAN, NextDay(t, opened),
         UNCHANGED <<clock, home>>
  PROVE  KeptInv'
<1>1. /\ stamp[t] \in Days /\ m_today' = stamp[t] /\ m_count' = 0
      /\ \A x \in Days, k \in Parts :
           files'[<<x, k>>] = IF opened /\ x = stamp[t] /\ k = 0 THEN << >>
                              ELSE DelLog(files)[<<x, k>>]
  BY NextDayIs
<1>2. \A x \in Days, k \in Parts :
        /\ files'[<<x, k>>] \in {files[<<x, k>>], << >>, Absent}
        /\ ~Expired(x) /\ ~(x = stamp[t] /\ k = 0)
             => files'[<<x, k>>] = files[<<x, k>>]
        /\ x = stamp[t] /\ k # 0 => files'[<<x, k>>] \in {files[<<x, k>>], Absent}
  <2>1. PICK f : f = DelLog(files)  OBVIOUS
  <2>2. \A x \in Days, k \in Parts :
          /\ f[<<x, k>>] \in {files[<<x, k>>], Absent}
          /\ ~Expired(x) => f[<<x, k>>] = files[<<x, k>>]
    BY <2>1, DelLogIs DEF FilesInv
  <2>3. \A x \in Days, k \in Parts :
          files'[<<x, k>>] = IF opened /\ x = stamp[t] /\ k = 0 THEN << >> ELSE f[<<x, k>>]
    BY <2>1, <1>1
  <2> QED  BY <2>2, <2>3
<1>3. /\ reopened \subseteq reopened'
      /\ stamp[t] \notin reopened' => \A k \in Parts : files[<<stamp[t], k>>] = Absent
  BY DEF NextDay, OpenedAgain, Begun, Parts
<1>4. InOwnDay(files', home') /\ Single(files')
  <2>1. \A d \in Days, k \in Parts :
          files'[<<d, k>>] \in {files[<<d, k>>], << >>, Absent}
    BY <1>2
  <2>2. InOwnDay(files, home) /\ Single(files)  BY DEF KeptInv
  <2>3. InOwnDay(files', home) /\ Single(files')  BY <2>1, <2>2, EmptiedKeeps
  <2> QED  BY <2>3
<1>5. ASSUME NEW l \in Lines, home'[l] # 0, home'[l] \notin reopened',
             clock' < home'[l] + LOG_SAVE_DAY
      PROVE  \E k \in Parts, i \in Nat : Has(files', home'[l], k, i, l)
  <2>1. PICK d : d = home[l]  OBVIOUS
  <2>2. d \in Days /\ ~Expired(d) /\ d \notin reopened' /\ d = home'[l]
        /\ \E k \in Parts, i \in Nat : Has(files, d, k, i, l)
    BY <1>3, <1>5, <2>1, KeptWhere
  <2>3. PICK k \in Parts, i \in Nat : Has(files, d, k, i, l)  BY <2>2
  <2>4. ~(d = stamp[t] /\ k = 0)  BY <1>3, <2>2, <2>3 DEF Has
  <2>5. files'[<<d, k>>] = files[<<d, k>>]  BY <1>2, <2>2, <2>4
  <2>6. Has(files', d, k, i, l)  BY <2>3, <2>5 DEF Has
  <2> QED  BY <2>2, <2>6
<1>6. ASSUME m_today' \notin reopened', NEW k \in Parts, k > Part(m_count')
      PROVE  files'[<<m_today', k>>] = Absent
  <2>1. Part(m_count') \in 0 .. 0  BY <1>1, PartNext
  <2>2. k # 0  BY <1>6, <2>1 DEF Parts
  <2>3. files[<<stamp[t], k>>] = Absent  BY <1>1, <1>3, <1>6
  <2> QED  BY <1>1, <1>2, <2>2, <2>3
<1>7. Kept' /\ NotYet'  BY <1>5, <1>6 DEF Kept, NotYet, Has
<1> QED  BY <1>4, <1>7 DEF KeptInv, InOwnDay, Single, Has

(* and a new part of a day, which gets a suffix that no file has yet. *)
LEMMA NextPartKeepsKept ==
  ASSUME ThreadInv, FilesInv, AccountInv, KeptInv, NEW t \in Threads,
         pc[t] = "stamped", NEW opened \in BOOLEAN, NextPart(t, opened),
         UNCHANGED <<clock, home>>
  PROVE  KeptInv'
<1>1. PICK p \in Parts : p = Part(m_count') /\ p = Part(m_count) + 1 /\ p # 0
  BY NextPartIs
<1>2. /\ m_today' = m_today /\ reopened' = reopened /\ m_today \in Days
      /\ 0 \in Parts /\ Part(m_count) \in Parts
  BY DayAndParts DEF NextPart
<1>3. PICK g \in Disk :
        /\ \A x \in Days, k \in Parts :
             g[<<x, k>>] =
               IF files[<<m_today, 0>>] = Absent THEN files[<<x, k>>]
               ELSE IF x = m_today /\ k = 0 THEN Absent
               ELSE IF x = m_today /\ k = p THEN files[<<m_today, 0>>]
               ELSE files[<<x, k>>]
        /\ \A x \in Days, k \in Parts :
             files'[<<x, k>>] =
               IF opened /\ x = m_today /\ k = 0 THEN << >> ELSE DelLog(g)[<<x, k>>]
  BY <1>1, NextPartIs
<1>4. \A x \in Days, k \in Parts :
        /\ DelLog(g)[<<x, k>>] \in {g[<<x, k>>], Absent}
        /\ ~Expired(x) => DelLog(g)[<<x, k>>] = g[<<x, k>>]
  BY DelLogIs
<1>5. InOwnDay(files', home') /\ Single(files')
  <2>1. InOwnDay(files, home) /\ Single(files)  BY DEF KeptInv
  <2>2. CASE files[<<m_today, 0>>] = Absent
    <3>1. \A d \in Days, k \in Parts :
            files'[<<d, k>>] \in {files[<<d, k>>], << >>, Absent}
      <4>1. ASSUME NEW d \in Days, NEW k \in Parts
            PROVE  files'[<<d, k>>] \in {files[<<d, k>>], << >>, Absent}
        <5>1. g[<<d, k>>] = files[<<d, k>>]  BY <1>3, <2>2
        <5>2. DelLog(g)[<<d, k>>] \in {g[<<d, k>>], Absent}  BY <1>4
        <5>3. files'[<<d, k>>] = << >> \/ files'[<<d, k>>] = DelLog(g)[<<d, k>>]
          BY <1>3
        <5> QED  BY <5>1, <5>2, <5>3
      <4> QED  BY <4>1
    <3>2. InOwnDay(files', home) /\ Single(files')  BY <2>1, <3>1, EmptiedKeeps
    <3> QED  BY <3>2
  <2>3. CASE files[<<m_today, 0>>] # Absent
    <3>1. Moved(files, files', m_today, p)
      BY <1>1, <1>2, <1>3, <1>4, <2>3 DEF Moved
    <3>2. PICK f, e, h, d : f = files /\ e = files' /\ h = home /\ d = m_today
      OBVIOUS
    <3>3. d \in Days /\ InOwnDay(f, h) /\ Single(f)  BY <2>1, <3>2, <1>2
    <3>4. Moved(f, e, d, p)  BY <3>1, <3>2
    <3>5. InOwnDay(e, h) /\ Single(e)
      BY <3>3, <3>4, <1>1, RenamedKeeps
    <3> QED  BY <3>2, <3>5
  <2> QED  BY <2>2, <2>3
<1>6. m_today \notin reopened =>
        \A k \in Parts : k > Part(m_count) => files[<<m_today, k>>] = Absent
  BY DEF KeptInv, NotYet
<1>7. ASSUME NEW l \in Lines, home'[l] # 0, home'[l] \notin reopened',
             clock' < home'[l] + LOG_SAVE_DAY
      PROVE  \E k \in Parts, i \in Nat : Has(files', home'[l], k, i, l)
  <2>1. PICK d : d = home[l]  OBVIOUS
  <2>2. d \in Days /\ ~Expired(d) /\ d \notin reopened /\ d = home'[l]
        /\ \E k \in Parts, i \in Nat : Has(files, d, k, i, l)
    BY <1>2, <1>7, <2>1, KeptWhere
  <2>3. PICK k \in Parts, i \in Nat : Has(files, d, k, i, l)  BY <2>2
  <2>4. CASE d = m_today /\ k = 0
    <3>1. files'[<<d, p>>] = files[<<d, 0>>]
      <4>1. files[<<m_today, 0>>] # Absent /\ ~Expired(m_today)
        BY <2>2, <2>3, <2>4 DEF Has
      <4>2. g[<<m_today, p>>] = files[<<m_today, 0>>]  BY <4>1, <1>1, <1>2, <1>3
      <4>3. DelLog(g)[<<m_today, p>>] = g[<<m_today, p>>]  BY <4>1, <1>2, <1>4
      <4>4. files'[<<m_today, p>>] = DelLog(g)[<<m_today, p>>]  BY <1>1, <1>2, <1>3
      <4> QED  BY <4>2, <4>3, <4>4, <2>4
    <3>2. Has(files', d, p, i, l)  BY <3>1, <2>3, <2>4 DEF Has
    <3> QED  BY <3>2, <2>2
  <2>5. CASE ~(d = m_today /\ k = 0)
    <3>1. p > Part(m_count)  BY <1>1, <1>2 DEF Parts
    <3>2. ~(d = m_today /\ k = p)  BY <3>1, <1>6, <2>2, <2>3 DEF Has
    <3>3. files'[<<d, k>>] = files[<<d, k>>]  BY <1>3, <1>4, <2>2, <2>5, <3>2
    <3>4. Has(files', d, k, i, l)  BY <2>3, <3>3 DEF Has
    <3> QED  BY <3>4, <2>2
  <2> QED  BY <2>4, <2>5
<1>8. ASSUME m_today' \notin reopened', NEW k \in Parts, k > Part(m_count')
      PROVE  files'[<<m_today', k>>] = Absent
  <2>1. k > Part(m_count) /\ k # p /\ k # 0  BY <1>1, <1>2, <1>8 DEF Parts
  <2>2. files[<<m_today, k>>] = Absent  BY <2>1, <1>2, <1>6, <1>8
  <2> QED  BY <2>1, <2>2, <1>2, <1>3, <1>4
<1>9. Kept' /\ NotYet'  BY <1>7, <1>8 DEF Kept, NotYet, Has
<1> QED  BY <1>5, <1>9 DEF KeptInv, InOwnDay, Single, Has

(* Opening the log again deletes the old log, and no more. *)
LEMMA OpenKeepsKept ==
  ASSUME ThreadInv, FilesInv, AccountInv, KeptInv, NEW opened \in BOOLEAN, OpenLog(opened)
  PROVE  KeptInv'
<1>1. UNCHANGED <<home, clock, reopened, m_today, m_count>> /\ m_today \in Days
      /\ Part(m_count) \in Parts
  BY DayAndParts DEF OpenLog, history
<1>2. PICK f \in Disk :
        /\ f = DelLog(files)
        /\ \A x \in Days, k \in Parts :
             /\ f[<<x, k>>] \in {files[<<x, k>>], Absent}
             /\ ~Expired(x) => f[<<x, k>>] = files[<<x, k>>]
  BY DelLogIs DEF FilesInv
<1>3. \A x \in Days, k \in Parts :
        /\ files'[<<x, k>>] = f[<<x, k>>] \/ files'[<<x, k>>] = << >>
        /\ k # 0 \/ f[<<x, k>>] # Absent => files'[<<x, k>>] = f[<<x, k>>]
  <2>1. CASE m_fp \/ ~opened
    <3>1. files' = f  BY <2>1, <1>2 DEF OpenLog
    <3> QED  BY <3>1
  <2>2. CASE ~m_fp /\ opened
    <3>1. files' = Opened(f, m_today)  BY <2>2, <1>2 DEF OpenLog
    <3>2. \A x \in Days, k \in Parts :
            Opened(f, m_today)[<<x, k>>] =
              IF x = m_today /\ k = 0 /\ f[<<x, k>>] = Absent THEN << >> ELSE f[<<x, k>>]
      BY <1>1, OpenedIs
    <3> QED  BY <3>1, <3>2
  <2> QED  BY <2>1, <2>2
<1>4. InOwnDay(files', home') /\ Single(files')
  <2>1. \A d \in Days, k \in Parts :
          files'[<<d, k>>] \in {files[<<d, k>>], << >>, Absent}
    BY <1>2, <1>3
  <2>2. InOwnDay(files, home) /\ Single(files)  BY DEF KeptInv
  <2>3. InOwnDay(files', home) /\ Single(files')  BY <2>1, <2>2, EmptiedKeeps
  <2> QED  BY <2>3, <1>1
<1>5. ASSUME NEW l \in Lines, home'[l] # 0, home'[l] \notin reopened',
             clock' < home'[l] + LOG_SAVE_DAY
      PROVE  \E k \in Parts, i \in Nat : Has(files', home'[l], k, i, l)
  <2>1. PICK d : d = home[l]  OBVIOUS
  <2>2. d \in Days /\ ~Expired(d) /\ d = home'[l]
        /\ \E k \in Parts, i \in Nat : Has(files, d, k, i, l)
    BY <1>1, <1>5, <2>1, KeptWhere
  <2>3. PICK k \in Parts, i \in Nat : Has(files, d, k, i, l)  BY <2>2
  <2>4. files'[<<d, k>>] = files[<<d, k>>]  BY <1>2, <1>3, <2>2, <2>3 DEF Has
  <2>5. Has(files', d, k, i, l)  BY <2>3, <2>4 DEF Has
  <2> QED  BY <2>2, <2>5
<1>6. ASSUME m_today' \notin reopened', NEW k \in Parts, k > Part(m_count')
      PROVE  files'[<<m_today', k>>] = Absent
  <2>1. k # 0 /\ k > Part(m_count)  BY <1>1, <1>6 DEF Parts
  <2>2. files[<<m_today, k>>] = Absent  BY <2>1, <1>1, <1>6 DEF KeptInv, NotYet
  <2> QED  BY <2>1, <2>2, <1>1, <1>2, <1>3
<1>7. Kept' /\ NotYet'  BY <1>5, <1>6 DEF Kept, NotYet, Has
<1> QED  BY <1>4, <1>7 DEF KeptInv, InOwnDay, Single, Has

(* What the end of the program cuts off, *)
LEMMA CutOffKeeps ==
  ASSUME ThreadInv, FilesInv, SafeInv, NEW n \in 0 .. buffered
  PROVE  \A d \in Days, k \in Parts, i \in Nat, l \in Lines :
           /\ Has(CutOff(n), d, k, i, l) => Has(files, d, k, i, l)
           /\ Has(files, d, k, i, l)
                => \/ Has(CutOff(n), d, k, i, l)
                   \/ d = m_today /\ k = 0 /\ l \in LastLines(n)
           /\ l \in LastLines(n)
                => \E j \in Nat : /\ Has(files, m_today, 0, j, l)
                                  /\ ~Has(CutOff(n), m_today, 0, j, l)
<1>1. m_today \in Days /\ 0 \in Parts /\ files \in Disk  BY DayAndParts DEF FilesInv
<1>2. PICK f \in Seq(Items) \cup {Absent} : f = files[<<m_today, 0>>]
  BY FileOfToday
<1>3. n \in Nat /\ (f # Absent => n <= Len(f))
  <2>1. f # Absent => Len(f) \in Nat /\ buffered <= Len(f) /\ buffered \in Nat
    BY <1>2 DEF SafeInv
  <2> QED  BY <2>1 DEF SafeInv
<1>4. PICK g : g = CutOff(n)  OBVIOUS
<1>5. \A d \in Days, k \in Parts :
        ~(d = m_today /\ k = 0) \/ f = Absent => g[<<d, k>>] = files[<<d, k>>]
  BY <1>1, <1>2, <1>3, <1>4, CutOffIs
<1>6. CASE f = Absent
  <2>1. LastLines(n) = {}  BY <1>2, <1>6 DEF LastLines
  <2> QED  BY <2>1, <1>4, <1>5, <1>6 DEF Has
<1>7. CASE f # Absent
  <2>1. PICK m \in Nat : m = Len(f) - n /\ m <= Len(f) /\ f \in Seq(Items)
                         /\ Len(f) \in Nat /\ Len(f) = m + n
    BY <1>3, <1>7
  <2>2. PICK e : e = SubSeq(f, 1, m)  OBVIOUS
  <2>3. DOMAIN e = 1 .. m /\ (\A i \in 1 .. m : e[i] = f[i]) /\ e \in Seq(Items)
    BY <2>1, <2>2, CutSeq
  <2>4. e # Absent  BY <2>3, BoundsAssumption DEF Items
  <2>5. g[<<m_today, 0>>] = e
    BY <1>1, <1>2, <1>3, <1>4, <1>7, <2>1, <2>2, CutOffIs
  <2>6. LastLines(n) = {f[i] : i \in m + 1 .. m + n}
    <3>1. Len(f) - n + 1 = m + 1  BY <2>1, <1>3
    <3> QED  BY <3>1, <2>1, <1>2, <1>7 DEF LastLines
  <2>7. \A i \in Nat, l \in Lines :
          /\ Has(files, m_today, 0, i, l) <=> i \in 1 .. m + n /\ f[i] = l
          /\ Has(g, m_today, 0, i, l) <=> i \in 1 .. m /\ f[i] = l
    <3>1. DOMAIN f = 1 .. m + n  BY <2>1
    <3> QED  BY <3>1, <1>2, <1>7, <2>3, <2>4, <2>5 DEF Has
  <2>8. ASSUME NEW i \in Nat, NEW l \in Lines
        PROVE  /\ Has(g, m_today, 0, i, l) => Has(files, m_today, 0, i, l)
               /\ Has(files, m_today, 0, i, l)
                    => Has(g, m_today, 0, i, l) \/ l \in LastLines(n)
    <3>1. i \in 1 .. m => i \in 1 .. m + n  BY <2>1, <1>3
    <3>2. i \in 1 .. m + n => i \in 1 .. m \/ i \in m + 1 .. m + n
      BY <2>1, <1>3
    <3> QED  BY <3>1, <3>2, <2>6, <2>7
  <2>9. ASSUME NEW l \in Lines, l \in LastLines(n)
        PROVE  \E j \in Nat : /\ Has(files, m_today, 0, j, l)
                              /\ ~Has(g, m_today, 0, j, l)
    <3>1. PICK j \in m + 1 .. m + n : f[j] = l  BY <2>6, <2>9
    <3>2. j \in Nat /\ j \in 1 .. m + n /\ j \notin 1 .. m
      BY <3>1, <2>1, <1>3
    <3> QED  BY <3>1, <3>2, <2>7
  <2>10. \A d \in Days, k \in Parts, i \in Nat, l \in Lines :
           ~(d = m_today /\ k = 0) => (Has(g, d, k, i, l) <=> Has(files, d, k, i, l))
    BY <1>5 DEF Has
  <2> QED  BY <2>8, <2>9, <2>10, <1>4
<1> QED  BY <1>6, <1>7

(* and a restart, which counts as opening again where there is a file already. *)
LEMMA RestartKeepsKept ==
  ASSUME ThreadInv, FilesInv, AccountInv, SafeInv, KeptInv,
         NEW n \in 0 .. buffered, Restart(n)
  PROVE  KeptInv'
<1>1. /\ UNCHANGED clock /\ clock \in Days /\ m_today \in Days /\ 0 \in Parts
      /\ m_today' = clock /\ m_count' = 0
      /\ home' = [l \in Lines |-> IF l \in LastLines(n) THEN 0 ELSE home[l]]
      /\ n \in Nat
  BY DayAndParts DEF Restart, Ends
<1>2. PICK f \in Disk :
        /\ f = CutOff(n)
        /\ \A d \in Days, k \in Parts : f[<<d, k>>] = Absent <=> files[<<d, k>>] = Absent
  BY <1>1, CutOffIs DEF FilesInv
<1>3. \A x \in Days, k \in Parts :
        files'[<<x, k>>] =
          IF x = clock /\ k = 0 /\ f[<<x, k>>] = Absent THEN << >> ELSE f[<<x, k>>]
  <2>1. files' = Opened(f, clock)  BY <1>2 DEF Restart
  <2> QED  BY <2>1, <1>1, OpenedIs
<1>4. /\ reopened \subseteq reopened'
      /\ clock \notin reopened' => \A k \in Parts : files[<<clock, k>>] = Absent
  BY DEF Restart, OpenedAgain, Begun, Parts
<1>5. \A d \in Days, k \in Parts, i \in Nat, l \in Lines :
        Has(files', d, k, i, l) <=> Has(f, d, k, i, l)
  BY <1>3 DEF Has
<1>6. \A d \in Days, k \in Parts, i \in Nat, l \in Lines :
        /\ Has(f, d, k, i, l) => Has(files, d, k, i, l)
        /\ Has(files, d, k, i, l)
             => \/ Has(f, d, k, i, l)
                \/ d = m_today /\ k = 0 /\ l \in LastLines(n)
        /\ l \in LastLines(n)
             => \E j \in Nat : Has(files, m_today, 0, j, l) /\ ~Has(f, m_today, 0, j, l)
  BY <1>2, CutOffKeeps
<1>7. InOwnDay(files, home) /\ Single(files)  BY DEF KeptInv
<1>8. ASSUME NEW d \in Days, NEW k \in Parts, NEW i \in Nat, NEW l \in Lines,
             Has(f, d, k, i, l)
      PROVE  home'[l] = d
  <2>1. Has(files, d, k, i, l) /\ home[l] = d  BY <1>6, <1>7, <1>8 DEF InOwnDay
  <2>2. ASSUME l \in LastLines(n) PROVE FALSE
    <3>1. PICK j \in Nat : Has(files, m_today, 0, j, l) /\ ~Has(f, m_today, 0, j, l)
      BY <1>6, <2>2
    <3>2. d = m_today  BY <3>1, <2>1, <1>1, <1>7 DEF InOwnDay
    <3>3. k = 0 /\ i = j  BY <3>1, <3>2, <2>1, <1>1, <1>7 DEF Single
    <3> QED  BY <3>1, <3>2, <3>3, <1>8
  <2> QED  BY <2>1, <2>2, <1>1
<1>9. InOwnDay(files', home')  BY <1>5, <1>8 DEF InOwnDay
<1>10. Single(files')  BY <1>5, <1>6, <1>7 DEF Single
<1>11. ASSUME NEW l \in Lines, home'[l] # 0, home'[l] \notin reopened',
              clock' < home'[l] + LOG_SAVE_DAY
       PROVE  \E k \in Parts, i \in Nat : Has(files', home'[l], k, i, l)
  <2>1. PICK d : d = home[l]  OBVIOUS
  <2>2. l \notin LastLines(n) /\ home'[l] = d  BY <1>1, <1>11, <2>1
  <2>3. d \in Days /\ \E k \in Parts, i \in Nat : Has(files, d, k, i, l)
    BY <1>1, <1>4, <1>11, <2>1, <2>2, KeptWhere
  <2>4. PICK k \in Parts, i \in Nat : Has(files, d, k, i, l)  BY <2>3
  <2>5. Has(files', d, k, i, l)  BY <1>5, <1>6, <2>2, <2>3, <2>4
  <2> QED  BY <2>2, <2>5
<1>12. ASSUME m_today' \notin reopened', NEW k \in Parts, k > Part(m_count')
       PROVE  files'[<<m_today', k>>] = Absent
  <2>1. Part(m_count') \in 0 .. 0  BY <1>1, PartNext
  <2>2. k # 0  BY <1>12, <2>1 DEF Parts
  <2>3. files[<<clock, k>>] = Absent  BY <1>1, <1>4, <1>12
  <2> QED  BY <1>1, <1>2, <1>3, <2>2, <2>3
<1>13. Kept' /\ NotYet'  BY <1>11, <1>12 DEF Kept, NotYet, Has
<1> QED  BY <1>9, <1>10, <1>13 DEF KeptInv, InOwnDay, Single, Has

(* The change of file, in its cases. *)
LEMMA ChooseKeepsKept ==
  ASSUME ThreadInv, FilesInv, AccountInv, KeptInv, NEW t \in Threads, ChooseFile(t)
  PROVE  KeptInv'
<1>1. pc[t] = "stamped" /\ UNCHANGED <<clock, home>>  BY DEF ChooseFile
<1>2. ASSUME NEW opened \in BOOLEAN, NextDay(t, opened) PROVE KeptInv'
  BY <1>1, <1>2, NextDayKeepsKept
<1>3. ASSUME NEW opened \in BOOLEAN, NextPart(t, opened) PROVE KeptInv'
  BY <1>1, <1>3, NextPartKeepsKept
<1>4. CASE NoFile(t)
  <2>1. UNCHANGED keptVars  BY <1>1, <1>4 DEF NoFile, fileVars, keptVars
  <2> QED  BY <2>1, KeptSame
<1>5. CASE SameFile(t)
  <2>1. UNCHANGED <<files, home, clock, reopened, m_today>>
        /\ m_count' = m_count + 1 /\ ~Due(m_count + 1)
    BY <1>1, <1>5 DEF SameFile, fileVars
  <2>2. Part(m_count') = Part(m_count)  BY <2>1, DayAndParts, PartNext
  <2> QED  BY <2>1, <2>2 DEF KeptInv, InOwnDay, Single, Kept, NotYet, Has
<1> QED  BY <1>2, <1>3, <1>4, <1>5 DEF ChooseFile

(* A thread, the writer or FlushQueue writes its line. *)
LEMMA LineKeepsKept ==
  ASSUME ThreadInv, QueueInv, FilesInv, AccountInv, KeptInv,
         (\E t \in Threads : WriteDirect(t)) \/ WriterWrites \/ FlushWrites
  PROVE  KeptInv'
<1> DEFINE rest == <<clock, m_today, m_count, reopened>>
<1>1. ASSUME NEW t \in Threads, WriteDirect(t) PROVE KeptInv'
  <2>1. PICK x : x = line[t]  OBVIOUS
  <2>2. /\ pc[t] # "idle" /\ UNCHANGED rest
        /\ IF m_fp THEN Logged(x) ELSE Dropped(x)
    BY <1>1, <2>1 DEF WriteDirect, Write
  <2>3. x \in Lines /\ x \in Items /\ x # Farewell
    BY <2>1, <2>2, LineTypes DEF Farewell
  <2>4. home[x] = 0  BY <2>1, <2>3, NotWrittenYet
  <2>5. CASE m_fp  BY <2>2, <2>3, <2>4, <2>5, WriteKeepsKept DEF Logged
  <2>6. CASE ~m_fp
    <3>1. UNCHANGED keptVars  BY <2>2, <2>6 DEF Dropped, keptVars
    <3> QED  BY <3>1, KeptSame
  <2> QED  BY <2>5, <2>6
<1>2. CASE WriterWrites
  <2>1. written \in Items /\ m_fp /\ Written(written) /\ UNCHANGED rest
    BY <1>2 DEF WriterWrites, QueueInv, threads
  <2>2. written \in Lines => home[written] = 0  BY NotWrittenYet
  <2> QED  BY <2>1, <2>2, WriteKeepsKept DEF Written
<1>3. CASE FlushWrites
  <2>1. /\ flushed \in Items /\ UNCHANGED rest
        /\ IF m_fp THEN Written(flushed) ELSE Dropped(flushed)
    BY <1>3 DEF FlushWrites, QueueInv, threads
  <2>2. flushed \in Lines => home[flushed] = 0  BY NotWrittenYet
  <2>3. CASE m_fp  BY <2>1, <2>2, <2>3, WriteKeepsKept DEF Written
  <2>4. CASE ~m_fp
    <3>1. UNCHANGED keptVars  BY <2>1, <2>4 DEF Dropped, keptVars
    <3> QED  BY <3>1, KeptSame
  <2> QED  BY <2>3, <2>4
<1> QED  BY <1>1, <1>2, <1>3

(* Every step of the log keeps KeptInv. *)
LEMMA KeptStep ==
  ThreadInv /\ QueueInv /\ FilesInv /\ AccountInv /\ SafeInv /\ KeptInv
    /\ [AsyncNext]_allVars => KeptInv'
<1> SUFFICES ASSUME ThreadInv, QueueInv, FilesInv, AccountInv, SafeInv, KeptInv,
                    [AsyncNext]_allVars
             PROVE  KeptInv'
  OBVIOUS
<1>1. ASSUME NEW t \in Threads, LogLine(t) PROVE KeptInv'
  <2>1. CASE Clock(t) \/ localtime(t) \/ Stamp(t)
    <3>1. UNCHANGED keptVars
      BY <2>1 DEF Clock, localtime, Stamp, fileVars, history, keptVars
    <3> QED  BY <3>1, KeptSame
  <2>2. CASE ChooseFile(t)  BY <2>2, ChooseKeepsKept
  <2> QED  BY <1>1, <2>1, <2>2 DEF LogLine
<1>2. ASSUME NEW t \in Threads, AskQueue(t) \/ PushLine(t) PROVE KeptInv'
  <2>1. UNCHANGED keptVars  BY <1>2 DEF AskQueue, PushLine, fileVars, history, keptVars
  <2> QED  BY <2>1, KeptSame
<1>3. CASE (\E t \in Threads : WriteDirect(t)) \/ WriterWrites \/ FlushWrites
  BY <1>3, LineKeepsKept
<1>4. CASE NewDay
  <2>1. UNCHANGED <<files, home, reopened, m_today, m_count>> /\ clock' = clock + 1
    BY <1>4 DEF NewDay, Midnight, fileVars, history
  <2>2. \A l \in Lines : home[l] \in Nat
    BY BoundsAssumption DEF AccountInv
  <2>3. \A l \in Lines : clock' < home[l] + LOG_SAVE_DAY => clock < home[l] + LOG_SAVE_DAY
    BY <2>1, <2>2, DayAndParts
  <2> QED  BY <2>1, <2>3 DEF KeptInv, InOwnDay, Single, Kept, NotYet, Has
<1>5. CASE WriterTests \/ WriterPops \/ WriterWakesUp \/ WriterCrashes
  <2>1. UNCHANGED keptVars
    BY <1>5 DEF WriterTests, WriterPops, WriterWakesUp, WriterCrashes, still, threads,
                keptVars
  <2> QED  BY <2>1, KeptSame
<1>6. CASE \/ Flush \/ FlushPops \/ FlushMem \/ \E deleted \in BOOLEAN : Close(deleted)
           \/ ClearFlag \/ WakeUp \/ Join \/ CloseFile \/ UNCHANGED allVars
  <2>1. UNCHANGED keptVars
    BY <1>6 DEF Flush, FlushPops, FlushMem, Close, ClearFlag, WakeUp, Join, CloseFile,
                threads, allVars, vars, fileVars, history, keptVars
  <2> QED  BY <2>1, KeptSame
<1>7. ASSUME NEW opened \in BOOLEAN, OpenLog(opened) PROVE KeptInv'
  BY <1>7, OpenKeepsKept
<1>8. CASE StartAgain
  <2>1. PICK n \in 0 .. buffered : Restart(n)  BY <1>8 DEF StartAgain
  <2> QED  BY <2>1, RestartKeepsKept
<1> QED
  BY <1>1, <1>2, <1>3, <1>4, <1>5, <1>6, <1>7, <1>8 DEF AsyncNext, Running

(* What the invariant says of the places of a line. *)
LEMMA KeptInvKeeps ==
  ASSUME FilesInv, AccountInv, SafeInv, KeptInv
  PROVE  LinesKept
<1> SUFFICES ASSUME NEW l \in Lines
             PROVE  /\ Cardinality(Places(l)) <= 1
                    /\ home[l] # 0 /\ home[l] \notin reopened
                         /\ clock < home[l] + LOG_SAVE_DAY => Places(l) # {}
  BY DEF LinesKept, SafeInv
<1>1. \A x : x \in Places(l) <=>
        \E d \in Days, k \in Parts, i \in Nat :
          Has(files, d, k, i, l) /\ x = <<<<d, k>>, i>>
  <2>1. ASSUME NEW x \in Places(l)
        PROVE  \E d \in Days, k \in Parts, i \in Nat :
                 Has(files, d, k, i, l) /\ x = <<<<d, k>>, i>>
    <3>1. PICK n \in Names : files[n] # Absent
            /\ x \in {<<n, i>> : i \in {j \in DOMAIN files[n] : files[n][j] = l}}
      BY DEF Places
    <3>2. PICK i \in DOMAIN files[n] : files[n][i] = l /\ x = <<n, i>>
      BY <3>1
    <3>3. PICK d \in Days, k \in Parts : n = <<d, k>>  BY NameOf
    <3>4. i \in Nat  BY <3>1, <3>2 DEF FilesInv, Disk
    <3> QED  BY <3>1, <3>2, <3>3, <3>4 DEF Has
  <2>2. ASSUME NEW d \in Days, NEW k \in Parts, NEW i \in Nat, Has(files, d, k, i, l)
        PROVE  <<<<d, k>>, i>> \in Places(l)
    <3>1. PICK n \in Names : n = <<d, k>>  BY NameOf
    <3>2. files[n] # Absent /\ i \in DOMAIN files[n] /\ files[n][i] = l
      BY <2>2, <3>1 DEF Has
    <3>3. <<n, i>> \in {<<n, j>> : j \in {j \in DOMAIN files[n] : files[n][j] = l}}
      BY <3>2
    <3>4. <<n, i>> \in Places(l)  BY <3>2, <3>3 DEF Places
    <3> QED  BY <3>1, <3>4
  <2> QED  BY <2>1, <2>2
<1>2. \A x, y \in Places(l) : x = y
  <2>1. ASSUME NEW d \in Days, NEW j \in Parts, NEW h \in Nat, Has(files, d, j, h, l),
               NEW e \in Days, NEW k \in Parts, NEW i \in Nat, Has(files, e, k, i, l)
        PROVE  d = e /\ j = k /\ h = i
    <3>1. home[l] = d /\ home[l] = e  BY <2>1 DEF KeptInv, InOwnDay
    <3> QED  BY <2>1, <3>1 DEF KeptInv, Single
  <2> QED  BY <1>1, <2>1
<1>3. Cardinality(Places(l)) <= 1
  <2>1. CASE Places(l) = {}  BY <2>1, FS_EmptySet
  <2>2. CASE Places(l) # {}
    <3>1. PICK x : x \in Places(l)  BY <2>2
    <3>2. Places(l) = {x}  BY <3>1, <1>2
    <3>3. Cardinality(Places(l)) = 1  BY <3>2, FS_Singleton
    <3> QED  BY <3>3
  <2> QED  BY <2>1, <2>2
<1>4. ASSUME home[l] # 0, home[l] \notin reopened, clock < home[l] + LOG_SAVE_DAY
      PROVE  Places(l) # {}
  <2>1. home[l] \in Days  BY <1>4, BoundsAssumption DEF AccountInv, Days
  <2>2. PICK k \in Parts, i \in Nat : Has(files, home[l], k, i, l)
    BY <1>4 DEF KeptInv, Kept
  <2> QED  BY <1>1, <2>1, <2>2
<1> QED  BY <1>3, <1>4

-----------------------------------------------------------------------------
(* How long a file is *)

Size(file) == IF file = Absent THEN 0 ELSE Len(file)
Late == IF limit.max_queue_size = 0 THEN 0 ELSE limit.max_queue_size + 3
Most == Cardinality(Threads) + Late

(* The lines on their way to the file, the one that ends the writer included. *)
Busy == {t \in Threads : pc[t] \in {"chosen", "push", "direct"}}
ToEnd == m_is_async \/ control \in {"clearFlag", "wakeUp"}
Flight ==
    Cardinality(Busy) + Len(Queued) + One(written # NoLine) + One(flushed # NoLine)
      + One(ToEnd)

(* The file of today has, with the lines on their way to it, at most Most lines
   more than were counted for it; but for a program that ended as it changed the
   file, before it began to count anew. *)
Short ==
    \A d \in Days, k \in Parts :
      d \notin reopened => Size(files[<<d, k>>]) < m_split_lines + Most
Fits ==
    m_today \notin reopened =>
      Size(files[<<m_today, 0>>]) + Flight <= (m_count % m_split_lines) + Most

SizeInv == Short /\ (alive => Fits)

(* The size of a file. *)
LEMMA SizeType ==
  ASSUME NEW f \in Disk, NEW d \in Days, NEW k \in Parts
  PROVE  Size(f[<<d, k>>]) \in Nat
<1>1. f[<<d, k>>] \in Seq(Items) \cup {Absent}  BY NameOf DEF Disk
<1> QED  BY <1>1 DEF Size

(* The count within a part. *)
LEMMA CountInPart ==
  ASSUME NEW c \in Nat
  PROVE  /\ c % m_split_lines \in 0 .. m_split_lines - 1 /\ 0 % m_split_lines = 0
         /\ ~Due(c + 1) => (c + 1) % m_split_lines = (c % m_split_lines) + 1
<1> DEFINE s == m_split_lines
<1>1. s \in Nat \ {0}  BY BoundsAssumption
<1> HIDE DEF s
<1>2. PICK k \in Nat, r \in 0 .. s - 1 : r = c % s /\ c = k * s + r
  BY <1>1, DivMod
<1>3. CASE r = s - 1
  <2>1. PICK m \in Nat : m = k + 1  OBVIOUS
  <2>2. PICK z \in 0 .. s - 1 : z = 0  BY <1>1
  <2>3. c + 1 = m * s + z  BY <2>1, <2>2, <1>1, <1>2, <1>3
  <2>4. (m * s + z) % s = z  BY <1>1, DivModUnique
  <2>5. (c + 1) % s = 0  BY <2>2, <2>3, <2>4
  <2>6. 0 % s = 0  BY <1>1
  <2> QED  BY <2>5, <2>6, <1>2 DEF Due, s
<1>4. CASE r # s - 1
  <2>1. PICK z \in 0 .. s - 1 : z = r + 1  BY <1>1, <1>4
  <2>2. c + 1 = k * s + z  BY <2>1, <1>1, <1>2
  <2>3. (k * s + z) % s = z  BY <1>1, DivModUnique
  <2>4. (c + 1) % s = r + 1  BY <2>1, <2>2, <2>3
  <2>5. 0 % s = 0  BY <1>1
  <2> QED  BY <2>4, <2>5, <1>2 DEF s
<1> QED  BY <1>3, <1>4

(* What Most and Flight are, and that no more lines are on their way than Most. *)
FlightOK ==
    /\ Most \in Nat /\ Cardinality(Busy) \in Nat /\ Len(Queued) \in Nat
    /\ Flight \in Nat /\ Flight <= Most

(* FlightOK follows: the queue holds max_queue_size lines at most. *)
LEMMA FlightBound == ThreadInv /\ QueueInv => FlightOK
<1> SUFFICES ASSUME ThreadInv, QueueInv PROVE FlightOK
  OBVIOUS
<1>1. limit.max_queue_size \in Nat  BY LimitType DEF ThreadInv
<1>2. /\ Cardinality(Threads) \in Nat /\ Cardinality(Busy) \in Nat
      /\ Cardinality(Busy) <= Cardinality(Threads)
  <2>1. Busy \in SUBSET Threads  BY DEF Busy
  <2> QED  BY <2>1, FS_Subset, FS_CardinalityType, BoundsAssumption
<1>3. Late \in Nat /\ Most \in Nat  BY <1>1, <1>2 DEF Late, Most
<1>4. /\ Len(Queued) \in 0 .. limit.max_queue_size
      /\ m_log_queue # NULL => limit.max_queue_size # 0
  <2>1. CASE m_log_queue = NULL  BY <2>1, <1>1 DEF Queued
  <2>2. CASE m_log_queue # NULL
    <3>1. QueueHolds(m_log_queue)  BY <2>2 DEF QueueInv
    <3>2. PICK n, q, s : n = limit.max_queue_size /\ q = m_log_queue /\ s = Queued
      OBVIOUS
    <3>3. /\ n \in Nat \ {0} /\ s \in Seq(Items) /\ q \in BQ!Ring(n, Items)
          /\ BQ!Elements(q) = s
      BY <3>1, <3>2, <2>2 DEF QueueHolds, Holds, Queued
    <3>4. q.m_size = Len(s)  BY <3>3, HoldsPlaces
    <3>5. q.m_size \in 0 .. n  BY <3>3, RingPlaces
    <3> QED  BY <3>2, <3>3, <3>4, <3>5
  <2> QED  BY <2>1, <2>2
<1>5. PICK a, b, c \in 0 .. 1 :
        a = One(written # NoLine) /\ b = One(flushed # NoLine) /\ c = One(ToEnd)
  BY DEF One
<1>6. m_log_queue = NULL => a = 0 /\ b = 0 /\ c = 0
  BY <1>5 DEF One, QueueInv, ToEnd
<1>7. Flight = Cardinality(Busy) + Len(Queued) + a + b + c  BY <1>5 DEF Flight
<1>8. CASE m_log_queue = NULL
  <2>1. Len(Queued) = 0  BY <1>8 DEF Queued
  <2> QED  BY <2>1, <1>2, <1>3, <1>6, <1>7, <1>8 DEF Most, FlightOK
<1>9. CASE m_log_queue # NULL
  <2>1. Late = limit.max_queue_size + 3  BY <1>4, <1>9 DEF Late
  <2>2. PICK m, n, o, p \in Nat :
          /\ m = Cardinality(Threads) /\ n = Cardinality(Busy)
          /\ o = limit.max_queue_size /\ p = Len(Queued)
    BY <1>1, <1>2, <1>4
  <2>3. n <= m /\ p <= o /\ Most = m + (o + 3) /\ Flight = n + p + a + b + c
    BY <2>1, <2>2, <1>2, <1>4, <1>7 DEF Most
  <2>4. Flight <= Most /\ Flight \in Nat  BY <2>3
  <2> QED  BY <2>2, <2>4, <1>3 DEF FlightOK
<1> QED  BY <1>8, <1>9

(* A step that changes no file: what is written was on its way, and what is
   chosen is counted. *)
LEMMA SizeMoves ==
  ASSUME ThreadInv, QueueInv, FilesInv, Short, Fits, ThreadInv', QueueInv', FilesInv',
         UNCHANGED <<limit, m_today, reopened>>,
         \A d \in Days, k \in Parts :
           ~(d = m_today /\ k = 0) => Size(files'[<<d, k>>]) <= Size(files[<<d, k>>]),
         NEW x \in Int, NEW y \in Int,
         Size(files'[<<m_today, 0>>]) <= Size(files[<<m_today, 0>>]) + x,
         Flight' <= Flight + y, NEW z \in Nat, x + y <= z,
         m_count' % m_split_lines = (m_count % m_split_lines) + z
  PROVE  Short' /\ Fits'
<1>1. PICK s : s = m_split_lines  OBVIOUS
<1>2. s \in Nat \ {0} /\ m_today \in Days /\ 0 \in Parts /\ m_count \in Nat /\ m_count' \in Nat
  BY <1>1, BoundsAssumption, DayAndParts DEF ThreadInv
<1>3. Most \in Nat /\ Flight \in Nat  BY FlightBound DEF FlightOK
<1>4. Flight' \in Nat
  <2>1. (ThreadInv /\ QueueInv => FlightOK)'  BY FlightBound, PTL
  <2> QED  BY <2>1 DEF FlightOK
<1>5. Most' = Most  BY DEF Most, Late
<1>6. /\ \A d \in Days, k \in Parts : Size(files[<<d, k>>]) \in Nat
      /\ \A d \in Days, k \in Parts : Size(files'[<<d, k>>]) \in Nat
  <2>1. files \in Disk /\ files' \in Disk  BY DEF FilesInv
  <2> QED  BY <2>1, SizeType
<1>7. PICK a, b \in Nat : a = m_count % s /\ b = m_count' % s /\ b = a + z /\ b <= s - 1
  <2>1. m_count % s \in 0 .. s - 1 /\ m_count' % s \in 0 .. s - 1
    BY <1>1, <1>2, CountInPart
  <2>2. PICK a, b \in 0 .. s - 1 : a = m_count % s /\ b = m_count' % s
    BY <2>1
  <2>3. b = a + z  BY <2>2, <1>1
  <2>4. a \in Nat /\ b \in Nat /\ b <= s - 1  BY <1>2
  <2> QED  BY <2>2, <2>3, <2>4
<1>8. ASSUME m_today \notin reopened
      PROVE  /\ Size(files'[<<m_today, 0>>]) + Flight' <= b + Most
             /\ Size(files'[<<m_today, 0>>]) < s + Most
  <2>1. PICK m, n \in Nat :
          m = Size(files[<<m_today, 0>>]) /\ n = Size(files'[<<m_today, 0>>])
    BY <1>2, <1>6
  <2>2. m + Flight <= a + Most  BY <2>1, <1>1, <1>7, <1>8 DEF Short, Fits
  <2>3. n <= m + x  BY <2>1
  <2>4. n + Flight' <= b + Most  BY <2>2, <2>3, <1>3, <1>4, <1>7
  <2>5. n < s + Most  BY <2>4, <1>2, <1>3, <1>4, <1>7
  <2> QED  BY <2>1, <2>4, <2>5
<1>9. ASSUME NEW d \in Days, NEW k \in Parts, d \notin reopened
      PROVE  Size(files'[<<d, k>>]) < s + Most
  <2>1. CASE d = m_today /\ k = 0  BY <2>1, <1>8, <1>9
  <2>2. CASE ~(d = m_today /\ k = 0)
    <3>1. Size(files'[<<d, k>>]) <= Size(files[<<d, k>>])  BY <2>2
    <3>2. Size(files[<<d, k>>]) < s + Most  BY <1>1, <1>9 DEF Short, Fits
    <3> QED  BY <3>1, <3>2, <1>2, <1>3, <1>6
  <2> QED  BY <2>1, <2>2
<1> QED  BY <1>1, <1>5, <1>7, <1>8, <1>9 DEF Short, Fits, Size

(* A change of file: the new one is empty, and counts from the beginning. *)
LEMMA SizeAnew ==
  ASSUME ThreadInv', QueueInv', files' \in Disk, Short, FilesInv,
         QueueInv, ThreadInv,
         limit' = limit, reopened \subseteq reopened',
         m_today' \notin reopened' => Size(files'[<<m_today', 0>>]) = 0,
         m_count' % m_split_lines = 0,
         \A d \in Days, k \in Parts :
           d \notin reopened' =>
             \/ Size(files'[<<d, k>>]) = 0
             \/ \E j \in Parts : Size(files'[<<d, k>>]) <= Size(files[<<d, j>>])
  PROVE  Short' /\ Fits'
<1>1. Most' = Most /\ Most \in Nat /\ m_split_lines \in Nat \ {0}
  <2>1. Most \in Nat  BY FlightBound DEF FlightOK
  <2> QED  BY <2>1, BoundsAssumption DEF Most, Late
<1>2. Flight' \in Nat /\ Flight' <= Most'
  <2>1. (ThreadInv /\ QueueInv => FlightOK)'  BY FlightBound, PTL
  <2> QED  BY <2>1 DEF FlightOK
<1>3. ASSUME NEW d \in Days, NEW k \in Parts, d \notin reopened'
      PROVE  Size(files'[<<d, k>>]) < m_split_lines + Most
  <2>1. CASE Size(files'[<<d, k>>]) = 0  BY <2>1, <1>1
  <2>2. ASSUME NEW j \in Parts, Size(files'[<<d, k>>]) <= Size(files[<<d, j>>])
        PROVE  Size(files'[<<d, k>>]) < m_split_lines + Most
    <3>1. Size(files[<<d, j>>]) < m_split_lines + Most
      BY <1>3 DEF Short
    <3>2. Size(files'[<<d, k>>]) \in Nat /\ Size(files[<<d, j>>]) \in Nat
      BY SizeType DEF FilesInv
    <3> QED  BY <3>1, <3>2, <2>2, <1>1
  <2> QED  BY <2>1, <2>2, <1>3
<1>4. ASSUME m_today' \notin reopened'
      PROVE  Size(files'[<<m_today', 0>>]) + Flight' <= (m_count' % m_split_lines) + Most
  BY <1>1, <1>2, <1>4
<1> QED  BY <1>1, <1>3, <1>4 DEF Short, Fits, Size

(* A step that neither changes nor counts anything in the files, after which no
   more lines are on their way. *)
LEMMA SizeSame ==
  ASSUME ThreadInv, QueueInv, FilesInv, Short, Fits, ThreadInv', QueueInv', FilesInv',
         UNCHANGED <<limit, m_today, reopened, files, m_count>>, Flight' <= Flight
  PROVE  Short' /\ Fits'
<1>1. /\ \A d \in Days, k \in Parts : Size(files[<<d, k>>]) \in Nat
      /\ m_today \in Days /\ 0 \in Parts /\ Flight \in Nat
      /\ m_count % m_split_lines \in Nat
  <2>1. files \in Disk  BY DEF FilesInv
  <2>2. m_count \in Nat /\ m_split_lines \in Nat \ {0}
    BY BoundsAssumption DEF ThreadInv
  <2>3. m_count % m_split_lines \in 0 .. m_split_lines - 1  BY <2>2, CountInPart
  <2> QED  BY <2>1, <2>2, <2>3, SizeType, DayAndParts, FlightBound DEF FlightOK
<1>2. PICK o \in Nat : o = 0  OBVIOUS
<1>3. /\ \A d \in Days, k \in Parts :
           ~(d = m_today /\ k = 0) => Size(files'[<<d, k>>]) <= Size(files[<<d, k>>])
      /\ Size(files'[<<m_today, 0>>]) <= Size(files[<<m_today, 0>>]) + o
      /\ Flight' <= Flight + o /\ o + o <= o
      /\ m_count' % m_split_lines = (m_count % m_split_lines) + o
  BY <1>1, <1>2
<1>4. o \in Int /\ files' \in Disk  BY DEF FilesInv
<1> QED  BY <1>2, <1>3, <1>4, SizeMoves

(* How many threads are on their way to the file. *)
Ahead == {"chosen", "push", "direct"}

(* A thread that gets ahead, or is done. *)
LEMMA BusyAfter ==
  ASSUME pc \in [Threads -> Marks], NEW t \in Threads, NEW mark,
         pc' = [pc EXCEPT ![t] = mark]
  PROVE  Cardinality(Busy)' =
           Cardinality(Busy) + One(mark \in Ahead) - One(pc[t] \in Ahead)
<1>1. IsFiniteSet(Busy)
  <2>1. Busy \in SUBSET Threads  BY DEF Busy
  <2> QED  BY <2>1, FS_Subset, BoundsAssumption
<1>2. PICK n \in Nat : n = Cardinality(Busy)  BY <1>1, FS_CardinalityType
<1>3. CASE mark \in Ahead /\ pc[t] \notin Ahead
  <2>1. Busy' = Busy \cup {t} /\ t \notin Busy  BY <1>3 DEF Busy, Ahead
  <2>2. Cardinality(Busy)' = n + 1  BY <2>1, <1>1, <1>2, FS_AddElement
  <2> QED  BY <2>2, <1>2, <1>3 DEF One
<1>4. CASE mark \notin Ahead /\ pc[t] \in Ahead
  <2>1. Busy' = Busy \ {t} /\ t \in Busy  BY <1>4 DEF Busy, Ahead
  <2>2. Cardinality(Busy)' = n - 1  BY <2>1, <1>1, <1>2, FS_RemoveElement
  <2> QED  BY <2>2, <1>2, <1>4 DEF One
<1>5. CASE (mark \in Ahead /\ pc[t] \in Ahead) \/ (mark \notin Ahead /\ pc[t] \notin Ahead)
  <2>1. Busy' = Busy  BY <1>5 DEF Busy, Ahead
  <2>2. Cardinality(Busy)' = n  BY <2>1, <1>2
  <2> QED  BY <2>2, <1>2, <1>5 DEF One
<1> QED  BY <1>3, <1>4, <1>5

(* A line that is written makes the file of today one line longer. *)
LEMMA WriteGrows ==
  ASSUME ThreadInv, FilesInv, NEW x \in Items, fwrite(x)
  PROVE  /\ \A d \in Days, k \in Parts :
              ~(d = m_today /\ k = 0) => Size(files'[<<d, k>>]) <= Size(files[<<d, k>>])
         /\ Size(files'[<<m_today, 0>>]) <= Size(files[<<m_today, 0>>]) + 1
<1>1. m_today \in Days /\ 0 \in Parts /\ files \in Disk
  BY DayAndParts DEF FilesInv
<1>2. \A d \in Days, k \in Parts :
        files'[<<d, k>>] =
          IF d = m_today /\ k = 0 /\ files[<<d, k>>] # Absent
            THEN Append(files[<<d, k>>], x) ELSE files[<<d, k>>]
  BY <1>1, fwriteIs
<1>3. \A d \in Days, k \in Parts : Size(files[<<d, k>>]) \in Nat
  BY <1>1, SizeType
<1>4. Size(files'[<<m_today, 0>>]) <= Size(files[<<m_today, 0>>]) + 1
  <2>1. PICK f : f = files[<<m_today, 0>>]  OBVIOUS
  <2>2. CASE f = Absent
    <3>1. files'[<<m_today, 0>>] = files[<<m_today, 0>>]
      BY <2>1, <2>2, <1>1, <1>2
    <3>2. PICK n \in Nat : n = Size(files[<<m_today, 0>>])  BY <1>1, <1>3
    <3> QED  BY <3>1, <3>2
  <2>3. CASE f # Absent
    <3>1. f \in Seq(Items)  BY <2>1, <2>3, <1>1, NameOf DEF Disk
    <3>2. PICK g : g = Append(f, x)  OBVIOUS
    <3>3. g # Absent /\ Len(g) = Len(f) + 1 /\ Len(f) \in Nat
      BY <3>1, <3>2, AppendIsNotAbsent
    <3>4. files'[<<m_today, 0>>] = g  BY <2>1, <2>3, <3>2, <1>1, <1>2
    <3> QED  BY <2>1, <2>3, <3>3, <3>4 DEF Size
  <2> QED  BY <2>2, <2>3
<1> QED  BY <1>2, <1>3, <1>4

(* A line that was on its way is written, or dropped. *)
LEMMA LineKeepsSize ==
  ASSUME ThreadInv, QueueInv, FilesInv, Short, Fits, ThreadInv', QueueInv', FilesInv',
         (\E t \in Threads : WriteDirect(t)) \/ WriterWrites \/ FlushWrites
  PROVE  Short' /\ Fits'
<1>1. UNCHANGED <<limit, m_today, reopened, m_count>>
  BY DEF WriteDirect, Write, WriterWrites, FlushWrites, threads
<1>2. UNCHANGED files \/ \E x \in Items : fwrite(x)
  <2>1. ASSUME NEW t \in Threads, WriteDirect(t)
        PROVE  UNCHANGED files \/ \E x \in Items : fwrite(x)
    <3>1. pc[t] # "idle" /\ (UNCHANGED files \/ fwrite(line[t]))
      BY <2>1 DEF WriteDirect, Write, Logged, Dropped
    <3> QED  BY <3>1, LineTypes
  <2> QED  BY <2>1 DEF WriterWrites, FlushWrites, Written, Dropped, QueueInv
<1>3. Flight' = Flight - 1
  <2>1. /\ Cardinality(Busy) \in Nat /\ Len(Queued) \in Nat /\ Queued' = Queued
        /\ NoLine \notin Items /\ pc \in [Threads -> Marks] /\ ToEnd' = ToEnd
    <3>1. UNCHANGED <<m_log_queue, m_is_async>>
      BY DEF WriteDirect, WriterWrites, FlushWrites, asyncVars, threads
    <3>2. control' = control \/ (control = "flushWrite" /\ control' = "flush")
      BY DEF WriteDirect, WriterWrites, FlushWrites, asyncVars
    <3> QED
      BY <3>1, <3>2, FlightBound, BoundsAssumption
      DEF FlightOK, Queued, Items, ThreadInv, ToEnd
  <2>2. PICK a, b, c \in 0 .. 1 :
          a = One(written # NoLine) /\ b = One(flushed # NoLine) /\ c = One(ToEnd)
    BY DEF One
  <2>3. Flight = Cardinality(Busy) + Len(Queued) + a + b + c  BY <2>2 DEF Flight
  <2>4. ASSUME NEW t \in Threads, WriteDirect(t) PROVE Flight' = Flight - 1
    <3>1. pc' = [pc EXCEPT ![t] = "idle"] /\ pc[t] \in Ahead
          /\ UNCHANGED <<written, flushed>>
      BY <2>4 DEF WriteDirect, Write, Returns, asyncVars, Ahead
    <3>2. Cardinality(Busy)' =
            Cardinality(Busy) + One("idle" \in Ahead) - One(pc[t] \in Ahead)
      BY <3>1, <2>1, BusyAfter
    <3>3. Cardinality(Busy)' = Cardinality(Busy) - 1
      BY <3>1, <3>2, <2>1 DEF One, Ahead
    <3>4. Flight' = (Cardinality(Busy) - 1) + Len(Queued) + a + b + c
      BY <3>1, <3>3, <2>1, <2>2 DEF Flight
    <3> QED  BY <3>4, <2>1, <2>2, <2>3
  <2>5. ASSUME WriterWrites \/ FlushWrites PROVE Flight' = Flight - 1
    <3>1. Busy' = Busy  BY <2>5 DEF WriterWrites, FlushWrites, threads, Busy
    <3>2. CASE WriterWrites
      <4>1. written # NoLine /\ written' = NoLine /\ flushed' = flushed
        BY <3>2, <2>1 DEF WriterWrites, QueueInv
      <4>2. a = 1 /\ One(written # NoLine)' = 0  BY <4>1, <2>2 DEF One
      <4>3. Flight' = Cardinality(Busy) + Len(Queued) + 0 + b + c
        BY <3>1, <4>1, <4>2, <2>1, <2>2 DEF Flight
      <4> QED  BY <4>2, <4>3, <2>1, <2>2, <2>3
    <3>3. CASE FlushWrites
      <4>1. flushed # NoLine /\ flushed' = NoLine /\ written' = written
        BY <3>3, <2>1 DEF FlushWrites, QueueInv
      <4>2. b = 1 /\ One(flushed # NoLine)' = 0  BY <4>1, <2>2 DEF One
      <4>3. Flight' = Cardinality(Busy) + Len(Queued) + a + 0 + c
        BY <3>1, <4>1, <4>2, <2>1, <2>2 DEF Flight
      <4> QED  BY <4>2, <4>3, <2>1, <2>2, <2>3
    <3> QED  BY <2>5, <3>2, <3>3
  <2> QED  BY <2>4, <2>5
<1>4. PICK o \in Int, u \in Int, z \in Nat : o = 1 /\ u = -1 /\ z = 0  OBVIOUS
<1>5. m_count % m_split_lines \in Nat /\ Flight \in Nat
  <2>1. m_count % m_split_lines \in 0 .. m_split_lines - 1
    BY CountInPart DEF ThreadInv
  <2>2. m_split_lines \in Nat  BY BoundsAssumption
  <2> QED  BY <2>1, <2>2, FlightBound DEF FlightOK
<1>6. /\ Flight' <= Flight + u /\ o + u <= z
      /\ m_count' % m_split_lines = (m_count % m_split_lines) + z
  BY <1>1, <1>3, <1>4, <1>5
<1>7. /\ \A d \in Days, k \in Parts :
           ~(d = m_today /\ k = 0) => Size(files'[<<d, k>>]) <= Size(files[<<d, k>>])
      /\ Size(files'[<<m_today, 0>>]) <= Size(files[<<m_today, 0>>]) + o
  <2>1. CASE UNCHANGED files
    <3>1. files \in Disk /\ m_today \in Days /\ 0 \in Parts
      BY DayAndParts DEF FilesInv
    <3>2. \A d \in Days, k \in Parts :
            Size(files[<<d, k>>]) \in Nat /\ Size(files'[<<d, k>>]) = Size(files[<<d, k>>])
      BY <3>1, <2>1, SizeType
    <3> QED  BY <3>1, <3>2, <1>4
  <2>2. ASSUME NEW x \in Items, fwrite(x)
        PROVE  /\ \A d \in Days, k \in Parts :
                    ~(d = m_today /\ k = 0)
                      => Size(files'[<<d, k>>]) <= Size(files[<<d, k>>])
               /\ Size(files'[<<m_today, 0>>]) <= Size(files[<<m_today, 0>>]) + o
    BY <2>2, <1>4, WriteGrows
  <2> QED  BY <2>1, <2>2, <1>2
<1> QED  BY <1>1, <1>6, <1>7, SizeMoves

(* A change of file, *)
LEMMA ChooseKeepsSize ==
  ASSUME ThreadInv, QueueInv, FilesInv, Short, Fits, ThreadInv', QueueInv', FilesInv',
         NEW t \in Threads, ChooseFile(t), UNCHANGED asyncVars, alive'
  PROVE  Short' /\ Fits'
<1>1. pc[t] = "stamped" /\ limit' = limit /\ files' \in Disk
  BY DEF ChooseFile, FilesInv
<1>2. /\ 0 \in Parts /\ stamp[t] \in Days /\ m_today \in Days /\ m_count \in Nat
      /\ << >> # Absent
  <2>1. << >> \in Seq(Items)  OBVIOUS
  <2>2. pc[t] \in Dated  BY <1>1 DEF Dated
  <2> QED  BY <2>1, <2>2, StampIsRecent, DayAndParts, BoundsAssumption DEF Items
<1>3. ASSUME NEW opened \in BOOLEAN, NextDay(t, opened)
      PROVE  Short' /\ Fits'
  <2>1. PICK f \in Disk : f = DelLog(files)
    BY <1>1, <1>3, NextDayIs
  <2>2. /\ m_today' = stamp[t] /\ m_count' = 0
        /\ \A x \in Days, k \in Parts :
             files'[<<x, k>>] =
               IF opened /\ x = stamp[t] /\ k = 0 THEN << >> ELSE f[<<x, k>>]
    BY <2>1, <1>1, <1>3, NextDayIs
  <2>3. \A x \in Days, k \in Parts : f[<<x, k>>] \in {files[<<x, k>>], Absent}
    BY <2>1, DelLogIs DEF FilesInv
  <2>4. /\ reopened \subseteq reopened'
        /\ stamp[t] \notin reopened' => files[<<stamp[t], 0>>] = Absent
    <3>1. reopened' = OpenedAgain(stamp[t])  BY <1>3 DEF NextDay
    <3> QED  BY <3>1, <1>2 DEF OpenedAgain, Begun, Parts
  <2>5. m_count' % m_split_lines = 0  BY <2>2, <1>2, CountInPart
  <2>6. m_today' \notin reopened' => Size(files'[<<m_today', 0>>]) = 0
    <3>1. ASSUME stamp[t] \notin reopened'
          PROVE  files'[<<stamp[t], 0>>] \in {<< >>, Absent}
      BY <3>1, <2>2, <2>3, <2>4, <1>2
    <3> QED  BY <3>1, <2>2 DEF Size
  <2>7. ASSUME NEW d \in Days, NEW k \in Parts
        PROVE  \/ Size(files'[<<d, k>>]) = 0
               \/ Size(files'[<<d, k>>]) <= Size(files[<<d, k>>])
    <3>1. files'[<<d, k>>] \in {<< >>, Absent, files[<<d, k>>]}  BY <2>2, <2>3
    <3>2. Size(files[<<d, k>>]) \in Nat  BY SizeType DEF FilesInv
    <3>3. files'[<<d, k>>] \in {<< >>, Absent} => Size(files'[<<d, k>>]) = 0
      BY DEF Size
    <3> QED  BY <3>1, <3>2, <3>3
  <2> QED  BY <2>4, <2>5, <2>6, <2>7, <1>1, SizeAnew
<1>4. ASSUME NEW opened \in BOOLEAN, NextPart(t, opened)
      PROVE  Short' /\ Fits'
  <2>1. PICK p : p = Part(m_count')  OBVIOUS
  <2>2. PICK g \in Disk :
          /\ \A x \in Days, k \in Parts :
               g[<<x, k>>] =
                 IF files[<<m_today, 0>>] = Absent THEN files[<<x, k>>]
                 ELSE IF x = m_today /\ k = 0 THEN Absent
                 ELSE IF x = m_today /\ k = p THEN files[<<m_today, 0>>]
                 ELSE files[<<x, k>>]
          /\ \A x \in Days, k \in Parts :
               files'[<<x, k>>] =
                 IF opened /\ x = m_today /\ k = 0 THEN << >> ELSE DelLog(g)[<<x, k>>]
    BY <2>1, <1>1, <1>4, NextPartIs
  <2>3. PICK f \in Disk : f = DelLog(g)  BY DelLogIs
  <2>4. \A x \in Days, k \in Parts : f[<<x, k>>] \in {g[<<x, k>>], Absent}
    BY <2>3, DelLogIs
  <2>5. m_today' = m_today /\ m_count' % m_split_lines = 0 /\ reopened \subseteq reopened'
    BY <1>4 DEF NextPart, Due
  <2>6. Size(files'[<<m_today', 0>>]) = 0
    <3>1. g[<<m_today, 0>>] = Absent  BY <2>2, <1>2
    <3>2. f[<<m_today, 0>>] = Absent  BY <3>1, <2>4, <1>2
    <3>3. files'[<<m_today, 0>>] \in {<< >>, Absent}  BY <3>2, <2>2, <2>3, <1>2
    <3> QED  BY <3>3, <2>5 DEF Size
  <2>7. ASSUME NEW d \in Days, NEW k \in Parts
        PROVE  \/ Size(files'[<<d, k>>]) = 0
               \/ \E j \in Parts : Size(files'[<<d, k>>]) <= Size(files[<<d, j>>])
    <3>1. files'[<<d, k>>] \in {<< >>, Absent, g[<<d, k>>]}  BY <2>2, <2>3, <2>4
    <3>2. \E j \in Parts : g[<<d, k>>] \in {Absent, files[<<d, j>>]}
      BY <2>2, <1>2
    <3>3. \A j \in Parts : Size(files[<<d, j>>]) \in Nat  BY SizeType DEF FilesInv
    <3>4. files'[<<d, k>>] \in {<< >>, Absent} => Size(files'[<<d, k>>]) = 0
      BY DEF Size
    <3> QED  BY <3>1, <3>2, <3>3, <3>4
  <2> QED  BY <2>5, <2>6, <2>7, <1>1, SizeAnew
<1>5. CASE SameFile(t)
  <2>1. UNCHANGED <<files, m_today, reopened>> /\ m_count' = m_count + 1 /\ ~Due(m_count + 1)
    BY <1>5 DEF SameFile, fileVars
  <2>2. /\ m_count' % m_split_lines = (m_count % m_split_lines) + 1
        /\ m_count % m_split_lines \in Nat
    <3>1. m_split_lines \in Nat  BY BoundsAssumption
    <3>2. m_count % m_split_lines \in 0 .. m_split_lines - 1  BY <1>2, CountInPart
    <3>3. (m_count + 1) % m_split_lines = (m_count % m_split_lines) + 1
      BY <2>1, <1>2, CountInPart
    <3> QED  BY <3>1, <3>2, <3>3, <2>1
  <2>3. Flight' = Flight + 1
    <3>1. pc' = [pc EXCEPT ![t] = "chosen"] /\ pc \in [Threads -> Marks]
      BY DEF ChooseFile, ThreadInv
    <3>2. Cardinality(Busy)' =
            Cardinality(Busy) + One("chosen" \in Ahead) - One(pc[t] \in Ahead)
      BY <3>1, BusyAfter
    <3>3. /\ Cardinality(Busy) \in Nat /\ Len(Queued) \in Nat /\ Queued' = Queued
          /\ UNCHANGED <<written, flushed>> /\ ToEnd' = ToEnd
      BY FlightBound DEF FlightOK, asyncVars, Queued, ToEnd
    <3>4. Cardinality(Busy)' = Cardinality(Busy) + 1
      BY <3>2, <3>3, <1>1 DEF One, Ahead
    <3>5. PICK a, b, c \in 0 .. 1 :
            a = One(written # NoLine) /\ b = One(flushed # NoLine) /\ c = One(ToEnd)
      BY DEF One
    <3>6. /\ Flight = Cardinality(Busy) + Len(Queued) + a + b + c
          /\ Flight' = (Cardinality(Busy) + 1) + Len(Queued) + a + b + c
      BY <3>3, <3>4, <3>5 DEF Flight
    <3> QED  BY <3>3, <3>5, <3>6
  <2>4. PICK o \in Int, u \in Int, z \in Nat : o = 0 /\ u = 1 /\ z = 1  OBVIOUS
  <2>5. /\ \A d \in Days, k \in Parts : Size(files[<<d, k>>]) \in Nat
        /\ Flight \in Nat
    <3>1. files \in Disk  BY DEF FilesInv
    <3> QED  BY <3>1, SizeType, FlightBound DEF FlightOK
  <2>6. /\ \A d \in Days, k \in Parts :
             ~(d = m_today /\ k = 0) => Size(files'[<<d, k>>]) <= Size(files[<<d, k>>])
        /\ Size(files'[<<m_today, 0>>]) <= Size(files[<<m_today, 0>>]) + o
        /\ Flight' <= Flight + u /\ o + u <= z
        /\ m_count' % m_split_lines = (m_count % m_split_lines) + z
    BY <2>1, <2>2, <2>3, <2>4, <2>5, <1>2
  <2> QED  BY <2>1, <2>6, <1>1, SizeMoves
<1>6. ~NoFile(t)
  <2>1. NoFile(t) => alive' = FALSE  BY DEF NoFile
  <2> QED  BY <2>1
<1> QED  BY <1>3, <1>4, <1>5, <1>6 DEF ChooseFile

(* a step that ends the program, after which Fits does not count; *)
LEMMA EndKeepsSize ==
  ASSUME SizeInv, UNCHANGED <<limit, files, reopened>>, alive' = FALSE
  PROVE  SizeInv'
<1>1. Most' = Most  BY DEF Most, Late
<1>2. Short'  BY <1>1 DEF SizeInv, Short, Size
<1> QED  BY <1>2 DEF SizeInv

(* a restart, which opens a file that is empty or marks its day; *)
LEMMA RestartKeepsSize ==
  ASSUME ThreadInv, QueueInv, FilesInv, Short, ThreadInv', QueueInv', FilesInv',
         NEW n \in Nat, Restart(n)
  PROVE  Short' /\ Fits'
<1>1. /\ limit' = limit /\ files' \in Disk /\ clock \in Days /\ 0 \in Parts
      /\ m_today \in Days /\ m_today' = clock /\ m_count' = 0
      /\ files' = Opened(CutOff(n), clock) /\ reopened' = OpenedAgain(clock)
      /\ files \in Disk
  BY DayAndParts DEF Restart, Ends, FilesInv
<1>2. PICK f \in Disk : f = CutOff(n)  BY <1>1, CutOffIs
<1>3. \A x \in Days, k \in Parts :
        files'[<<x, k>>] =
          IF x = clock /\ k = 0 /\ f[<<x, k>>] = Absent THEN << >> ELSE f[<<x, k>>]
  <2>1. clock \in Days  BY <1>1
  <2>2. PICK g \in Disk :
          /\ g = Opened(f, clock)
          /\ \A x \in Days, k \in Parts :
               g[<<x, k>>] =
                 IF x = clock /\ k = 0 /\ f[<<x, k>>] = Absent THEN << >> ELSE f[<<x, k>>]
    BY <2>1, OpenedIs
  <2>3. files' = g  BY <2>2, <1>1, <1>2
  <2> QED  BY <2>2, <2>3
<1>4. m_count' % m_split_lines = 0
  <2>1. 0 \in Nat  OBVIOUS
  <2> QED  BY <2>1, <1>1, CountInPart
<1>5. /\ reopened \subseteq reopened'
      /\ clock \notin reopened' => files[<<clock, 0>>] = Absent
  BY <1>1 DEF OpenedAgain, Begun, Parts
<1>6. m_today' \notin reopened' => Size(files'[<<m_today', 0>>]) = 0
  <2>1. ASSUME clock \notin reopened' PROVE files'[<<clock, 0>>] = << >>
    <3>1. f[<<clock, 0>>] = Absent  BY <2>1, <1>1, <1>2, <1>5, CutOffIs
    <3> QED  BY <3>1, <1>1, <1>3
  <2>2. Size(<< >>) = 0  BY DEF Size
  <2> QED  BY <2>1, <2>2, <1>1
<1>7. ASSUME NEW d \in Days, NEW k \in Parts
      PROVE  \/ Size(files'[<<d, k>>]) = 0
             \/ Size(files'[<<d, k>>]) <= Size(files[<<d, k>>])
  <2>1. files'[<<d, k>>] \in {<< >>, f[<<d, k>>]}  BY <1>3
  <2>2. Size(f[<<d, k>>]) = 0 \/ Size(f[<<d, k>>]) <= Size(files[<<d, k>>])
    <3>1. PICK s \in Seq(Items) \cup {Absent} : s = files[<<d, k>>]
      BY <1>1, NameOf DEF Disk
    <3>2. f[<<d, k>>] = s \/ (s # Absent /\ f[<<d, k>>] = SubSeq(s, 1, Len(s) - n))
      BY <3>1, <1>1, <1>2, CutOffIs
    <3>3. CASE f[<<d, k>>] = s
      <4>1. Size(s) \in Nat  BY <3>1, <1>1, SizeType
      <4> QED  BY <4>1, <3>1, <3>3
    <3>4. CASE s # Absent /\ f[<<d, k>>] = SubSeq(s, 1, Len(s) - n)
      <4>1. PICK r : r = SubSeq(s, 1, Len(s) - n)  OBVIOUS
      <4>2. s \in Seq(Items) /\ Len(s) \in Nat /\ Len(s) - n \in Int /\ Len(s) - n <= Len(s)
        BY <3>4
      <4>3. r \in Seq(Items) /\ Len(r) = IF Len(s) - n > 0 THEN Len(s) - n ELSE 0
        BY <4>1, <4>2, CutSeq
      <4>4. r # Absent  BY <4>3, BoundsAssumption DEF Items
      <4>5. Size(r) = Len(r) /\ Size(s) = Len(s)  BY <4>4, <3>4 DEF Size
      <4>6. Size(r) <= Size(s)  BY <4>2, <4>3, <4>5
      <4> QED  BY <4>1, <4>6, <3>1, <3>4
    <3> QED  BY <3>2, <3>3, <3>4
  <2>3. Size(<< >>) = 0  BY DEF Size
  <2> QED  BY <2>1, <2>2, <2>3
<1> QED  BY <1>1, <1>4, <1>5, <1>6, <1>7, SizeAnew

(* and OpenLog, which makes no file longer. *)
LEMMA OpenKeepsSize ==
  ASSUME ThreadInv, QueueInv, FilesInv, Short, Fits, ThreadInv', QueueInv', FilesInv',
         NEW opened \in BOOLEAN, OpenLog(opened),
         Flight' <= Flight
  PROVE  Short' /\ Fits'
<1>1. UNCHANGED <<limit, m_today, reopened, m_count>> /\ m_today \in Days /\ 0 \in Parts
  BY DayAndParts DEF OpenLog, history
<1>2. PICK f \in Disk :
        /\ f = DelLog(files)
        /\ \A x \in Days, k \in Parts : f[<<x, k>>] \in {files[<<x, k>>], Absent}
  BY DelLogIs DEF FilesInv
<1>3. \A x \in Days, k \in Parts :
        files'[<<x, k>>] = f[<<x, k>>] \/ files'[<<x, k>>] = << >>
  <2>1. CASE m_fp \/ ~opened
    <3>1. files' = f  BY <2>1, <1>2 DEF OpenLog
    <3> QED  BY <3>1
  <2>2. CASE ~m_fp /\ opened
    <3>1. files' = Opened(f, m_today)  BY <2>2, <1>2 DEF OpenLog
    <3> QED  BY <3>1, <1>1, OpenedIs
  <2> QED  BY <2>1, <2>2 DEF OpenLog
<1>4. ASSUME NEW d \in Days, NEW k \in Parts
      PROVE  Size(files'[<<d, k>>]) <= Size(files[<<d, k>>])
  <2>1. PICK n \in Nat : n = Size(files[<<d, k>>])
    <3>1. files \in Disk  BY DEF FilesInv
    <3> QED  BY <3>1, SizeType
  <2>2. files'[<<d, k>>] = files[<<d, k>>] \/ files'[<<d, k>>] \in {<< >>, Absent}
    BY <1>2, <1>3
  <2>3. Size(files'[<<d, k>>]) = n \/ Size(files'[<<d, k>>]) = 0
    BY <2>1, <2>2 DEF Size
  <2> QED  BY <2>1, <2>3
<1>5. PICK o \in Nat : o = 0  OBVIOUS
<1>6. /\ Size(files[<<m_today, 0>>]) \in Nat /\ Flight \in Nat
      /\ m_count % m_split_lines \in Nat
  <2>1. files \in Disk  BY DEF FilesInv
  <2>2. m_split_lines \in Nat /\ m_count \in Nat  BY BoundsAssumption DEF ThreadInv
  <2>3. m_count % m_split_lines \in 0 .. m_split_lines - 1  BY <2>2, CountInPart
  <2> QED  BY <2>1, <2>2, <2>3, <1>1, SizeType, FlightBound DEF FlightOK
<1>7. /\ Size(files'[<<m_today, 0>>]) <= Size(files[<<m_today, 0>>]) + o
      /\ Flight' <= Flight + o /\ o + o <= o /\ o \in Int
      /\ m_count' % m_split_lines = (m_count % m_split_lines) + o
  <2>1. Size(files'[<<m_today, 0>>]) <= Size(files[<<m_today, 0>>])  BY <1>1, <1>4
  <2> QED  BY <2>1, <1>1, <1>5, <1>6
<1> QED  BY <1>1, <1>4, <1>7, SizeMoves

(* The lines on their way: as many as before where nothing moves, *)
LEMMA FlightSame ==
  ASSUME ThreadInv, QueueInv, UNCHANGED <<pc, m_log_queue, written, flushed>>,
         ToEnd' => ToEnd
  PROVE  Flight' <= Flight
<1>1. /\ Cardinality(Busy) \in Nat /\ Len(Queued) \in Nat /\ Queued' = Queued
      /\ Busy' = Busy
  BY FlightBound DEF FlightOK, Queued, Busy
<1>2. PICK a, b, c, e \in 0 .. 1 :
        /\ a = One(written # NoLine) /\ b = One(flushed # NoLine) /\ c = One(ToEnd)
        /\ e = One(ToEnd') /\ e <= c
  BY DEF One
<1>3. /\ Flight = Cardinality(Busy) + Len(Queued) + a + b + c
      /\ Flight' = Cardinality(Busy) + Len(Queued) + a + b + e
  BY <1>1, <1>2 DEF Flight
<1> QED  BY <1>1, <1>2, <1>3

(* for a thread that reads the clock, looks at the queue or pushes its line, *)
Undated(t) == (Clock(t) \/ localtime(t) \/ Stamp(t)) /\ UNCHANGED asyncVars

LEMMA ThreadKeepsFlight ==
  ASSUME ThreadInv, QueueInv, NEW t \in Threads,
         Undated(t) \/ AskQueue(t) \/ PushLine(t)
  PROVE  Flight' <= Flight
<1>1. /\ Cardinality(Busy) \in Nat /\ Len(Queued) \in Nat /\ pc \in [Threads -> Marks]
      /\ UNCHANGED <<written, flushed>> /\ ToEnd' = ToEnd
  BY FlightBound
  DEF FlightOK, ThreadInv, Undated, asyncVars, AskQueue, PushLine, ToEnd
<1>2. PICK a, b, c \in 0 .. 1 :
        a = One(written # NoLine) /\ b = One(flushed # NoLine) /\ c = One(ToEnd)
  BY DEF One
<1>3. /\ Flight = Cardinality(Busy) + Len(Queued) + a + b + c
      /\ Flight' = Cardinality(Busy)' + Len(Queued') + a + b + c
  BY <1>1, <1>2 DEF Flight
<1>4. CASE Undated(t) \/ AskQueue(t)
  <2>1. PICK mark : /\ pc' = [pc EXCEPT ![t] = mark]
                    /\ mark \in Ahead <=> pc[t] \in Ahead
    <3>1. CASE Undated(t)
      <4>1. PICK mark \in {"clocked", "converted", "stamped"} :
              pc' = [pc EXCEPT ![t] = mark]
        BY <3>1 DEF Undated, Clock, localtime, Stamp
      <4>2. mark \notin Ahead /\ pc[t] \notin Ahead
        BY <3>1 DEF Undated, Clock, localtime, Stamp, Ahead
      <4> QED  BY <4>1, <4>2
    <3>2. CASE AskQueue(t)
      <4>1. CASE BQ!full(m_log_queue)  BY <3>2, <4>1 DEF AskQueue, Ahead
      <4>2. CASE ~BQ!full(m_log_queue)  BY <3>2, <4>2 DEF AskQueue, Ahead
      <4> QED  BY <4>1, <4>2
    <3> QED  BY <1>4, <3>1, <3>2
  <2>2. Cardinality(Busy)' = Cardinality(Busy) + One(mark \in Ahead) - One(pc[t] \in Ahead)
    BY <2>1, <1>1, BusyAfter
  <2>3. Cardinality(Busy)' = Cardinality(Busy)  BY <2>1, <2>2, <1>1 DEF One
  <2>4. Queued' = Queued  BY <1>4 DEF Undated, asyncVars, AskQueue, Queued
  <2> QED  BY <2>3, <2>4, <1>1, <1>2, <1>3
<1>5. CASE PushLine(t)
  <2>1. /\ pc' = [pc EXCEPT ![t] = "idle"] /\ pc[t] \in Ahead
        /\ m_log_queue' = BQ!push(m_log_queue, line[t])
        /\ limit \in Limits /\ QueueHolds(m_log_queue) /\ line[t] \in Items
    BY <1>5, LineTypes DEF PushLine, Returns, Ahead, ThreadInv, QueueInv
  <2>2. Cardinality(Busy)' = Cardinality(Busy) + One("idle" \in Ahead) - One(pc[t] \in Ahead)
    BY <2>1, <1>1, BusyAfter
  <2>3. Cardinality(Busy)' = Cardinality(Busy) - 1  BY <2>1, <2>2, <1>1 DEF One, Ahead
  <2>4. Queued' = IF BQ!full(m_log_queue) THEN Queued ELSE Append(Queued, line[t])
    BY <2>1, QueuedPush
  <2>5. Len(Queued') \in Nat /\ Len(Queued') <= Len(Queued) + 1
    <3>1. Queued \in Seq(Items)  BY QueuedType
    <3> QED  BY <3>1, <2>1, <2>4, <1>1
  <2>6. PICK m, n, o \in Nat : m = Cardinality(Busy) /\ n = Len(Queued) /\ o = Len(Queued')
    BY <2>5, <1>1
  <2>7. Flight = m + n + a + b + c /\ Flight' = (m - 1) + o + a + b + c /\ o <= n + 1
    BY <2>3, <2>5, <2>6, <1>3
  <2> QED  BY <2>7
<1> QED  BY <1>4, <1>5

(* for the writer and FlushQueue, which take a line from the queue, *)
LEMMA PopKeepsFlight ==
  ASSUME ThreadInv, QueueInv, WriterPops \/ FlushPops
  PROVE  Flight' <= Flight
<1>1. /\ Cardinality(Busy) \in Nat /\ Len(Queued) \in Nat
      /\ UNCHANGED <<limit, pc, m_is_async>> /\ limit \in Limits
      /\ Queued \in Seq(Items) /\ m_log_queue # NULL /\ QueueHolds(m_log_queue)
  BY FlightBound, QueuedType
  DEF FlightOK, ThreadInv, QueueInv, WriterPops, FlushPops, still, threads, vars
<1>2. Busy' = Busy /\ ToEnd' = ToEnd
  <2>1. CASE WriterPops
    BY <2>1, <1>1 DEF Busy, ToEnd, WriterPops
  <2>2. CASE FlushPops
    <3>1. control = "flush" /\ control' \in {"open", "flushWrite"}
      BY <2>2 DEF FlushPops
    <3> QED  BY <3>1, <1>1 DEF Busy, ToEnd
  <2> QED  BY <2>1, <2>2
<1>3. PICK a, b, c \in 0 .. 1 :
        a = One(written # NoLine) /\ b = One(flushed # NoLine) /\ c = One(ToEnd)
  BY DEF One
<1>4. Flight = Cardinality(Busy) + Len(Queued) + a + b + c  BY <1>3 DEF Flight
<1>5. CASE BQ!empty(m_log_queue)
  <2>1. UNCHANGED <<m_log_queue, written, flushed>>
    BY <1>5 DEF WriterPops, FlushPops
  <2> QED  BY <2>1, <1>1, <1>2, FlightSame
<1>6. CASE ~BQ!empty(m_log_queue)
  <2>1. m_log_queue' = BQ!pop(m_log_queue)  BY <1>6 DEF WriterPops, FlushPops
  <2>2. Queued # << >> /\ Queued' = Tail(Queued)
    BY <2>1, <1>1, <1>6, QueuedPop
  <2>3. Len(Queued') = Len(Queued) - 1  BY <2>2, <1>1
  <2>4. CASE WriterPops
    <3>1. written = NoLine /\ flushed' = flushed
      BY <2>4 DEF WriterPops, QueueInv
    <3>2. a = 0 /\ One(written # NoLine)' \in 0 .. 1  BY <3>1, <1>3 DEF One
    <3>3. PICK e \in 0 .. 1 : e = One(written # NoLine)'  BY <3>2
    <3>4. Flight' = Cardinality(Busy) + (Len(Queued) - 1) + e + b + c
      BY <3>1, <3>3, <2>3, <1>2, <1>3 DEF Flight
    <3> QED  BY <3>2, <3>4, <1>1, <1>3, <1>4
  <2>5. CASE FlushPops
    <3>1. flushed = NoLine /\ written' = written
      BY <2>5 DEF FlushPops, QueueInv
    <3>2. b = 0 /\ One(flushed # NoLine)' \in 0 .. 1  BY <3>1, <1>3 DEF One
    <3>3. PICK e \in 0 .. 1 : e = One(flushed # NoLine)'  BY <3>2
    <3>4. Flight' = Cardinality(Busy) + (Len(Queued) - 1) + a + e + c
      BY <3>1, <3>3, <2>3, <1>2, <1>3 DEF Flight
    <3> QED  BY <3>2, <3>4, <1>1, <1>3, <1>4
  <2> QED  BY <2>4, <2>5
<1> QED  BY <1>5, <1>6

(* and for the line that ends the writer, and the end of the queue. *)
LEMMA CloseKeepsFlight ==
  ASSUME ThreadInv, QueueInv, WakeUp \/ Join
  PROVE  Flight' <= Flight
<1>1. /\ Cardinality(Busy) \in Nat /\ Len(Queued) \in Nat
      /\ UNCHANGED <<limit, pc, m_is_async, written, flushed>> /\ limit \in Limits
      /\ Queued \in Seq(Items) /\ Busy' = Busy /\ ~m_is_async
  BY FlightBound, QueuedType
  DEF FlightOK, ThreadInv, QueueInv, Closing, WakeUp, Join, threads, vars, Busy
<1>2. PICK a, b \in 0 .. 1 :
        a = One(written # NoLine) /\ b = One(flushed # NoLine)
  BY DEF One
<1>3. CASE WakeUp
  <2>1. One(ToEnd) = 1 /\ One(ToEnd)' = 0
    BY <1>1, <1>3 DEF WakeUp, ToEnd, One
  <2>2. /\ Flight = Cardinality(Busy) + Len(Queued) + a + b + 1
        /\ Flight' = Cardinality(Busy) + Len(Queued') + a + b + 0
    BY <2>1, <1>1, <1>2 DEF Flight
  <2>3. Len(Queued') \in Nat /\ Len(Queued') <= Len(Queued) + 1
    <3>1. /\ Farewell \in Items /\ QueueHolds(m_log_queue)
          /\ m_log_queue' = BQ!push(m_log_queue, Farewell)
      BY <1>3, BoundsAssumption DEF WakeUp, QueueInv, Farewell, Items
    <3>2. Queued' = IF BQ!full(m_log_queue) THEN Queued ELSE Append(Queued, Farewell)
      BY <3>1, <1>1, QueuedPush
    <3> QED  BY <3>1, <3>2, <1>1
  <2> QED  BY <2>2, <2>3, <1>1, <1>2
<1>4. CASE Join
  <2>1. ToEnd = FALSE /\ ToEnd' = FALSE  BY <1>1, <1>4 DEF Join, ToEnd
  <2>2. Len(Queued') = 0  BY <1>4 DEF Join, Queued
  <2>3. PICK c \in 0 .. 1 : c = One(ToEnd) /\ c = One(ToEnd)'  BY <2>1 DEF One
  <2>4. /\ Flight = Cardinality(Busy) + Len(Queued) + a + b + c
        /\ Flight' = Cardinality(Busy) + 0 + a + b + c
    BY <2>2, <2>3, <1>1, <1>2 DEF Flight
  <2> QED  BY <2>4, <1>1, <1>2
<1> QED  BY <1>3, <1>4

(* At first the file is empty. *)
LEMMA SizeInit == AsyncInit => SizeInv
<1> SUFFICES ASSUME AsyncInit PROVE SizeInv
  OBVIOUS
<1>1. ThreadInv /\ QueueInv /\ FilesInv  BY ThreadInit, QueueInit, FilesInit
<1>2. Most \in Nat /\ Flight <= Most /\ Flight \in Nat /\ m_split_lines \in Nat \ {0}
  BY <1>1, FlightBound, BoundsAssumption DEF FlightOK
<1>3. m_today \in Days /\ 0 \in Parts  BY <1>1, DayAndParts
<1>4. \A d \in Days, k \in Parts : Size(files[<<d, k>>]) = 0
  <2>1. files = Opened([n \in Names |-> Absent], m_today)  BY DEF AsyncInit, Init
  <2>2. PICK f \in Disk : f = [n \in Names |-> Absent]  BY DEF Disk
  <2>3. \A x \in Days, k \in Parts : f[<<x, k>>] = Absent  BY <2>2, NameOf
  <2>4. files = Opened(f, m_today)  BY <2>1, <2>2
  <2>5. \A x \in Days, k \in Parts :
          files[<<x, k>>] =
            IF x = m_today /\ k = 0 /\ f[<<x, k>>] = Absent THEN << >> ELSE f[<<x, k>>]
    BY <2>4, <1>3, OpenedIs
  <2>6. ASSUME NEW x \in Days, NEW k \in Parts PROVE Size(files[<<x, k>>]) = 0
    <3>1. files[<<x, k>>] = << >> \/ files[<<x, k>>] = Absent  BY <2>3, <2>5
    <3> QED  BY <3>1 DEF Size
  <2> QED  BY <2>6
<1>5. m_count % m_split_lines = 0
  <2>1. m_count = 0 /\ 0 \in Nat  BY DEF AsyncInit, Init
  <2> QED  BY <2>1, CountInPart
<1> QED  BY <1>2, <1>3, <1>4, <1>5 DEF SizeInv, Short, Fits

(* Every step of the log keeps SizeInv. *)
LEMMA SizeStep ==
  ThreadInv /\ QueueInv /\ FilesInv /\ SafeInv /\ SizeInv /\ [AsyncNext]_allVars
    /\ ThreadInv' /\ QueueInv' /\ FilesInv' => SizeInv'
<1> SUFFICES ASSUME ThreadInv, QueueInv, FilesInv, SafeInv, SizeInv,
                    [AsyncNext]_allVars, ThreadInv', QueueInv', FilesInv'
             PROVE  SizeInv'
  OBVIOUS
<1> DEFINE counted == <<limit, m_today, reopened, files, m_count>>
           way == <<pc, m_log_queue, written, flushed>>
<1>1. Short /\ (alive => Fits)  BY DEF SizeInv
<1>2. ASSUME alive, Running PROVE SizeInv'
  <2>1. Fits  BY <1>1, <1>2
  <2>2. ASSUME UNCHANGED counted, Flight' <= Flight PROVE SizeInv'
    <3>1. Short' /\ Fits'  BY <1>1, <2>1, <2>2, SizeSame
    <3> QED  BY <3>1 DEF SizeInv
  <2>3. ASSUME NEW t \in Threads, Undated(t) \/ AskQueue(t) \/ PushLine(t)
        PROVE  SizeInv'
    <3>1. UNCHANGED counted
      BY <2>3 DEF Undated, Clock, localtime, Stamp, AskQueue, PushLine, fileVars, history
    <3>2. Flight' <= Flight  BY <2>3, ThreadKeepsFlight
    <3> QED  BY <3>1, <3>2, <2>2
  <2>4. ASSUME NEW t \in Threads, ChooseFile(t), UNCHANGED asyncVars PROVE SizeInv'
    <3>1. CASE NoFile(t)
      <4>1. UNCHANGED <<limit, files, reopened>> /\ alive' = FALSE
        BY <2>4, <3>1 DEF ChooseFile, NoFile, fileVars
      <4> QED  BY <4>1, EndKeepsSize
    <3>2. CASE ~NoFile(t)
      <4>1. alive' = alive
        BY <2>4, <3>2 DEF ChooseFile, NextDay, NextPart, SameFile
      <4>2. alive'  BY <4>1, <1>2
      <4>3. Short' /\ Fits'  BY <4>2, <2>1, <2>4, <1>1, ChooseKeepsSize
      <4> QED  BY <4>3 DEF SizeInv
    <3> QED  BY <3>1, <3>2
  <2>5. CASE (\E t \in Threads : WriteDirect(t)) \/ WriterWrites \/ FlushWrites
    <3>1. Short' /\ Fits'  BY <2>1, <2>5, <1>1, LineKeepsSize
    <3> QED  BY <3>1 DEF SizeInv
  <2>6. CASE WriterTests \/ WriterWakesUp
    <3>1. UNCHANGED <<counted, way, m_is_async, control>>
      BY <2>6 DEF WriterTests, WriterWakesUp, still, threads
    <3>2. Flight' <= Flight  BY <3>1, FlightSame DEF ToEnd
    <3> QED  BY <3>1, <3>2, <2>2
  <2>7. CASE WriterCrashes
    <3>1. UNCHANGED <<limit, files, reopened>> /\ alive' = FALSE
      BY <2>7 DEF WriterCrashes, threads
    <3> QED  BY <3>1, EndKeepsSize
  <2>8. CASE WriterPops \/ FlushPops
    <3>1. UNCHANGED counted
      BY <2>8 DEF WriterPops, FlushPops, still, threads, vars, fileVars, history
    <3>2. Flight' <= Flight  BY <2>8, PopKeepsFlight
    <3> QED  BY <3>1, <3>2, <2>2
  <2>9. CASE \/ Flush \/ FlushMem \/ (\E deleted \in BOOLEAN : Close(deleted))
             \/ ClearFlag \/ CloseFile
    <3>1. UNCHANGED <<counted, way>>
      BY <2>9 DEF Flush, FlushMem, Close, ClearFlag, CloseFile, vars, fileVars, history
    <3>2. ToEnd' => ToEnd
      BY <2>9 DEF Flush, FlushMem, Close, Call, ClearFlag, CloseFile, ToEnd
    <3>3. Flight' <= Flight  BY <3>1, <3>2, FlightSame
    <3> QED  BY <3>1, <3>3, <2>2
  <2>10. CASE WakeUp \/ Join
    <3>1. UNCHANGED counted  BY <2>10 DEF WakeUp, Join, threads, vars, fileVars, history
    <3>2. Flight' <= Flight  BY <2>10, CloseKeepsFlight
    <3> QED  BY <3>1, <3>2, <2>2
  <2>11. ASSUME NEW opened \in BOOLEAN, OpenLog(opened) PROVE SizeInv'
    <3>1. UNCHANGED way /\ (ToEnd' => ToEnd)  BY <2>11 DEF OpenLog, Call, ToEnd
    <3>2. Flight' <= Flight  BY <3>1, FlightSame
    <3>3. Short' /\ Fits'  BY <3>2, <2>1, <2>11, <1>1, OpenKeepsSize
    <3> QED  BY <3>3 DEF SizeInv
  <2> QED
    BY <1>2, <2>3, <2>4, <2>5, <2>6, <2>7, <2>8, <2>9, <2>10, <2>11
    DEF Running, LogLine, Undated
<1>3. CASE NewDay \/ UNCHANGED allVars
  <2>1. UNCHANGED <<counted, way, m_is_async, control, alive>>
    BY <1>3 DEF NewDay, Midnight, allVars, vars, fileVars, history, asyncVars
  <2>2. Flight' <= Flight  BY <2>1, FlightSame DEF ToEnd
  <2>3. CASE alive
    <3>1. Short' /\ Fits'  BY <2>1, <2>2, <2>3, <1>1, SizeSame
    <3> QED  BY <3>1 DEF SizeInv
  <2>4. CASE ~alive
    <3>1. Most' = Most  BY <2>1 DEF Most, Late
    <3>2. Short'  BY <3>1, <2>1, <1>1 DEF Short, Size
    <3> QED  BY <3>2, <2>1, <2>4 DEF SizeInv
  <2> QED  BY <2>3, <2>4
<1>4. CASE StartAgain
  <2>1. PICK n \in 0 .. buffered : Restart(n)  BY <1>4 DEF StartAgain
  <2>2. n \in Nat  BY <2>1 DEF SafeInv
  <2>3. Short' /\ Fits'  BY <2>1, <2>2, <1>1, RestartKeepsSize
  <2> QED  BY <2>3 DEF SizeInv
<1> QED  BY <1>2, <1>3, <1>4 DEF AsyncNext

(* What the invariant says of the length of a file. *)
LEMMA SizeInvBounds ==
  ASSUME ThreadInv, FilesInv, SizeInv
  PROVE  FilesBounded
<1> SUFFICES ASSUME NEW n \in Names, n[1] \notin reopened, files[n] # Absent
             PROVE  Len(files[n]) < m_split_lines + Cardinality(Threads) + Late
  BY DEF FilesBounded, Late
<1>1. n[1] \in Days /\ n[2] \in Parts /\ n = <<n[1], n[2]>>  BY NameOf
<1>2. Size(files[<<n[1], n[2]>>]) < m_split_lines + Most  BY <1>1 DEF SizeInv, Short
<1>3. Len(files[n]) < m_split_lines + Most  BY <1>1, <1>2 DEF Size
<1>4. PICK a, b, c \in Nat : a = m_split_lines /\ b = Cardinality(Threads) /\ c = Late
  <2>1. limit.max_queue_size \in Nat  BY LimitType DEF ThreadInv
  <2>2. Cardinality(Threads) \in Nat  BY BoundsAssumption, FS_CardinalityType
  <2>3. Late \in Nat  BY <2>1 DEF Late
  <2> QED  BY <2>2, <2>3, BoundsAssumption
<1>5. m_split_lines + Most = m_split_lines + Cardinality(Threads) + Late
  BY <1>4 DEF Most
<1> QED  BY <1>3, <1>5

-----------------------------------------------------------------------------
(* The invariant and what it implies *)

LogInv ==
    ThreadInv /\ QueueInv /\ FilesInv /\ AccountInv /\ SafeInv /\ KeptInv /\ SizeInv

(* LogInv holds of every state of the log. *)
THEOREM LogInvariant == AsyncSpec => []LogInv
<1>1. AsyncInit => LogInv
  BY ThreadInit, QueueInit, FilesInit, AccountInit, SafeInit, KeptInit, SizeInit DEF LogInv
<1>2. LogInv /\ [AsyncNext]_allVars => LogInv'
  <2> SUFFICES ASSUME LogInv, [AsyncNext]_allVars PROVE LogInv'
    OBVIOUS
  <2>1. ThreadInv' /\ QueueInv' /\ FilesInv' /\ AccountInv'
    BY ThreadStep, QueueStep, FilesStep, AccountStep DEF LogInv
  <2>2. SafeInv' /\ KeptInv'  BY SafeStep, KeptStep DEF LogInv
  <2>3. SizeInv'  BY <2>1, SizeStep DEF LogInv
  <2> QED  BY <2>1, <2>2, <2>3 DEF LogInv
<1> QED  BY <1>1, <1>2, PTL DEF AsyncSpec

(* Whoever joins the writer never waits for one that sleeps (CLog.cpp, line
   353), whatever the capacity of the queue, however many threads log. *)
THEOREM JoinEnds == AsyncSpec => []WriterEnds
<1>1. LogInv => WriterEnds  BY DEF LogInv, QueueInv, WriterEnds
<1> QED  BY <1>1, LogInvariant, PTL

(* A change of file leaves nothing of the log that is LOG_SAVE_DAY days old
   (DelLog), through restarts and days that are turned back, unless a thread
   took another day than its own from the buffer of localtime, or a part was
   renamed and fopen failed. *)
THEOREM OldDaysDeleted == AsyncSpec => []OldLogDeleted
<1>1. LogInv => OldLogDeleted  BY FilesInvDeletes DEF LogInv
<1> QED  BY <1>1, LogInvariant, PTL

(* No line is lost but those that push refused, that found no file open, that
   CloseLog left in the queue and that the end of the program found in a
   thread, in the queue or in the buffer, and none is in two places (WriteLog,
   async_write_log, FlushQueue and CloseLog). *)
THEOREM NoLineVanishes == AsyncSpec => []LinesAccounted
<1>1. LogInv => LinesAccounted
  <2> SUFFICES ASSUME LogInv, NEW l \in 1 .. logged
               PROVE  Cardinality({t \in Threads : line[t] = l})
                        + Cardinality({i \in DOMAIN Queued : Queued[i] = l})
                        + Cardinality({h \in {"writer", "flush"} :
                                 l = IF h = "writer" THEN written ELSE flushed})
                        + (IF home[l] # 0 THEN 1 ELSE 0)
                        + (IF l \in lost THEN 1 ELSE 0) = 1
    BY DEF LinesAccounted, Queued
  <2>1. l \in Lines /\ l <= logged
    <3>1. logged \in 0 .. MaxLines /\ MaxLines \in Nat  BY LineTypes DEF LogInv
    <3> QED  BY <3>1 DEF Lines
  <2>2. Total(l) = 1  BY <2>1 DEF LogInv, AccountInv, One
  <2>3. Popped(l) = One(written = l) + One(flushed = l)  BY PoppedIs
  <2>4. WithThreads(l) \in Nat /\ Count(Queued, l) \in Nat
    BY WithThreadsType, QueuedType DEF LogInv
  <2>5. PICK a, b, c, d \in Nat :
          /\ a = One(written = l) /\ b = One(flushed = l)
          /\ c = One(home[l] # 0) /\ d = One(l \in lost)
    BY DEF One
  <2>6. WithThreads(l) + Count(Queued, l) + a + b + c + d = 1
    BY <2>2, <2>5 DEF Total
  <2>7. Popped(l) = a + b  BY <2>3, <2>5
  <2>8. WithThreads(l) + Count(Queued, l) + Popped(l) + c + d = 1
    BY <2>4, <2>6, <2>7
  <2>9. c = (IF home[l] # 0 THEN 1 ELSE 0) /\ d = (IF l \in lost THEN 1 ELSE 0)
    BY <2>5 DEF One
  <2> QED  BY <2>8, <2>9 DEF WithThreads, Count, Popped
<1> QED  BY <1>1, LogInvariant, PTL

(* Types; and while a file is open it exists, but for one that DelLog deleted:
   nobody had logged for LOG_SAVE_DAY days, or a thread had taken that day from
   the buffer of localtime. *)
THEOREM LogTypeCorrect == AsyncSpec => []AsyncTypeOK
<1>1. LogInv => AsyncTypeOK
  <2> SUFFICES ASSUME ThreadInv, QueueInv, FilesInv, AccountInv, SafeInv
               PROVE  AsyncTypeOK
    BY DEF LogInv
  <2>1. /\ limit \in Limits /\ m_count \in 0 .. MaxLines
        /\ pc \in [Threads -> {"idle", "clocked", "converted", "stamped", "chosen",
                               "push", "direct"}]
        /\ {now, stamp} \subseteq [Threads -> 0 .. MaxDay]
        /\ line \in [Threads -> Lines \cup {NoLine}]
        /\ spoiled \subseteq Days
    BY DayAndParts DEF ThreadInv, Marks, Parts
  <2>2. alive \in BOOLEAN  BY DEF ThreadInv, Lively
  <2>3. {clock, m_today, tm} \subseteq Days
    <3>1. clock \in Days /\ m_today \in Days /\ MaxDay \in Nat
      BY DayAndParts, DayBounds
    <3>2. tm \in Days  BY <3>1 DEF ThreadInv, Days
    <3> QED  BY <3>1, <3>2
  <2>4. \A n \in Names : files[n] = Absent \/ files[n] \in Seq(0 .. MaxLines)
    BY DEF FilesInv, Disk, Items
  <2>5. m_fp \in BOOLEAN
    BY DEF FilesInv, HasFile
  <2>6. m_fp => files[<<m_today, 0>>] # Absent \/ clock >= m_today + LOG_SAVE_DAY
    <3>1. m_fp => OpenExists  BY DEF FilesInv, HasFile
    <3>2. CASE clock < m_today + LOG_SAVE_DAY  BY <3>1, <3>2 DEF OpenExists
    <3>3. CASE ~(clock < m_today + LOG_SAVE_DAY)
      <4>1. clock >= m_today + LOG_SAVE_DAY  BY <3>3, DayAndParts DEF Days
      <4> QED  BY <4>1
    <3> QED  BY <3>2, <3>3
  <2>7. /\ home \in [Lines -> 0 .. MaxDay] /\ lost \subseteq 0 .. MaxLines
        /\ buffered \in Nat /\ safe \subseteq Lines
    BY DEF AccountInv, SafeInv, Items
  <2>8. /\ m_is_async \in BOOLEAN /\ ending \in BOOLEAN
        /\ m_is_async => m_log_queue # NULL
        /\ writer \in {"none", "test", "pop", "asleep", "write", "ended"}
        /\ control \in {"open", "flush", "flushWrite", "clearFlag", "wakeUp", "join",
                        "closeFile", "closed", "deleted"}
    BY DEF QueueInv, Logging, Closing
  <2>9. m_log_queue \in BQ!Ring(limit.max_queue_size, 0 .. MaxLines) \cup {NULL}
    BY DEF QueueInv, QueueHolds, Holds, Items
  <2>10. {written, flushed} \subseteq 0 .. MaxLines \cup {NoLine}
    <3>1. written \in 0 .. MaxLines \cup {NoLine}
      BY DEF QueueInv, Items
    <3>2. flushed \in 0 .. MaxLines \cup {NoLine}
      BY DEF QueueInv, Items
    <3> QED  BY <3>1, <3>2
  <2> QED
    BY <2>1, <2>2, <2>3, <2>4, <2>5, <2>6, <2>7, <2>8, <2>9, <2>10 DEF AsyncTypeOK
<1> QED  BY <1>1, LogInvariant, PTL

(* A line that was written stays, once, for LOG_SAVE_DAY days, through every
   change of file by other threads, every suffix and every DelLog, unless the
   log of its day was opened again; and one that was flushed is still written
   when the program has ended (WriteLog, DelLog, rename, fopen and fflush). *)
THEOREM WrittenLinesStay == AsyncSpec => []LinesKept
<1>1. LogInv => LinesKept  BY KeptInvKeeps DEF LogInv
<1> QED  BY <1>1, LogInvariant, PTL

(* A file has at most m_split_lines lines, and those that were on their way when
   it was changed: one of each other thread, and what the queue holds. *)
THEOREM FilesStayShort == AsyncSpec => []FilesBounded
<1>1. LogInv => FilesBounded  BY SizeInvBounds DEF LogInv
<1> QED  BY <1>1, LogInvariant, PTL

=============================================================================
