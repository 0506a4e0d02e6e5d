-------------------------- MODULE IniConfig_proofs --------------------------
(***************************************************************************)
(* Proofs about IniConfig, for all strings of bytes and trees of any size: *)
(* the nodes are counted; and, if no key begins with another one, every    *)
(* tree stays a search tree, and the getters answer what was last set.     *)
(***************************************************************************)
EXTENDS IniConfig, FiniteSetTheorems, SequenceTheorems, WellFoundedInduction, TLAPS

(* Every set of numbers has a least one: induction without an operator. *)
LEMMA LeastNat ==
  ASSUME NEW S \in SUBSET Nat, S # {}
  PROVE  \E m \in S : \A k \in S : m <= k
<1> DEFINE R == OpToRel(<, Nat)
<1>1. IsWellFoundedOn(R, Nat)  BY NatLessThanWellFounded
<1>2. \A i, j \in Nat : i < j => <<i, j>> \in R  BY DEF OpToRel
<1> HIDE DEF R
<1>3. S \subseteq Nat  OBVIOUS
<1>4. PICK x \in S : \A y \in S : ~ (<<y, x>> \in R)
  BY <1>1, <1>3, WFMin
<1>5. \A y \in S : ~ (y < x)  BY <1>2, <1>3, <1>4, Zenon
<1>6. \A y \in S : y \in Nat /\ x \in Nat  BY <1>3
<1> QED  BY <1>4, <1>5, <1>6

-----------------------------------------------------------------------------
(* Strings *)

CString == Seq(1 .. 255)

(* The order of strcmp: the first byte in which they differ decides. *)
Before(a, b) ==
    \E d \in Nat \ {0} :
        /\ Byte(a, d) < Byte(b, d)
        /\ \A i \in 1 .. d - 1 : Byte(a, i) = Byte(b, i)

(* A byte behind the end is 0, and no other one is. *)
LEMMA ByteType ==
  ASSUME NEW a \in CString, NEW i \in Nat \ {0}
  PROVE  /\ Byte(a, i) \in Int
         /\ Byte(a, i) = 0 <=> i > Len(a)
         /\ Byte(a, i) = IF i <= Len(a) THEN a[i] ELSE 0
<1>1. Len(a) \in Nat /\ \A j \in 1 .. Len(a) : a[j] \in 1 .. 255
  BY ElementOfSeq DEF CString
<1>2. i <= Len(a) => i \in 1 .. Len(a) /\ a[i] \in 1 .. 255  BY <1>1
<1>3. i <= Len(a) => Byte(a, i) = a[i]  BY DEF Byte
<1>4. ~ (i <= Len(a)) => Byte(a, i) = 0  BY DEF Byte
<1>5. CASE i <= Len(a)
  <2>1. Byte(a, i) = a[i]  BY <1>3, <1>5
  <2>2. \A x \in 1 .. 255 : x \in Int /\ x # 0  OBVIOUS
  <2>3. a[i] \in Int /\ a[i] # 0  BY <1>2, <1>5, <2>2
  <2>4. ~ (i > Len(a))  BY <1>1, <1>5
  <2> QED  BY <1>5, <2>1, <2>3, <2>4
<1>6. CASE ~ (i <= Len(a))
  <2>1. Byte(a, i) = 0 /\ i > Len(a)  BY <1>1, <1>4, <1>6
  <2> QED  BY <1>6, <2>1
<1> QED  BY <1>5, <1>6

(* It is a strict order. *)
LEMMA BeforeOnce ==
  ASSUME NEW a \in CString, NEW b \in CString
  PROVE  ~ (Before(a, b) /\ Before(b, a)) /\ ~ Before(a, a)
<1>1. \A i \in Nat \ {0} : Byte(a, i) \in Int /\ Byte(b, i) \in Int
  BY ByteType
<1>2. ASSUME NEW d \in Nat \ {0}, NEW e \in Nat \ {0},
             Byte(a, d) < Byte(b, d), \A i \in 1 .. d - 1 : Byte(a, i) = Byte(b, i),
             Byte(b, e) < Byte(a, e), \A i \in 1 .. e - 1 : Byte(b, i) = Byte(a, i)
      PROVE  FALSE
  <2>1. CASE d = e
    <3>1. Byte(a, d) \in Int /\ Byte(b, d) \in Int  BY <1>1
    <3>2. Byte(b, d) < Byte(a, d)  BY <1>2, <2>1
    <3> QED  BY <1>2, <3>1, <3>2
  <2>2. CASE d < e
    <3>1. d \in 1 .. e - 1  BY <2>2
    <3> QED  BY <1>1, <1>2, <3>1
  <2>3. CASE e < d
    <3>1. e \in 1 .. d - 1  BY <2>3
    <3> QED  BY <1>1, <1>2, <3>1
  <2> QED  BY <2>1, <2>2, <2>3
<1>3. ~ Before(a, a)  BY <1>1 DEF Before
<1> QED  BY <1>2, <1>3 DEF Before

LEMMA BeforeTransitive ==
  ASSUME NEW a \in CString, NEW b \in CString, NEW c \in CString,
         Before(a, b), Before(b, c)
  PROVE  Before(a, c)
<1>1. \A i \in Nat \ {0} : /\ Byte(a, i) \in Int /\ Byte(b, i) \in Int
                           /\ Byte(c, i) \in Int
  BY ByteType
<1>2. PICK d \in Nat \ {0} : /\ Byte(a, d) < Byte(b, d)
                             /\ \A i \in 1 .. d - 1 : Byte(a, i) = Byte(b, i)
  BY DEF Before
<1>3. PICK e \in Nat \ {0} : /\ Byte(b, e) < Byte(c, e)
                             /\ \A i \in 1 .. e - 1 : Byte(b, i) = Byte(c, i)
  BY DEF Before
<1> DEFINE m == IF d < e THEN d ELSE e
<1>4. m \in Nat \ {0} /\ \A i \in 1 .. m - 1 : i \in 1 .. d - 1 /\ i \in 1 .. e - 1
  OBVIOUS
<1>5. \A i \in 1 .. m - 1 : Byte(a, i) = Byte(c, i)  BY <1>2, <1>3, <1>4
<1>6. Byte(a, m) < Byte(c, m)
  <2>1. CASE d < e
    <3>1. d \in 1 .. e - 1 /\ m = d  BY <2>1
    <3> QED  BY <1>1, <1>2, <1>3, <3>1
  <2>2. CASE e < d
    <3>1. e \in 1 .. d - 1 /\ m = e  BY <2>2
    <3> QED  BY <1>1, <1>2, <1>3, <3>1
  <2>3. CASE d = e
    <3>1. m = d /\ Byte(b, d) < Byte(c, d)  BY <1>3, <2>3
    <3>2. /\ Byte(a, d) \in Int /\ Byte(b, d) \in Int /\ Byte(c, d) \in Int
          /\ Byte(a, d) < Byte(b, d)
      BY <1>1, <1>2
    <3>3. Byte(a, d) < Byte(c, d)  BY <3>1, <3>2
    <3> QED  BY <3>1, <3>3
  <2> QED  BY <2>1, <2>2, <2>3
<1> HIDE DEF m
<1> QED  BY <1>4, <1>5, <1>6 DEF Before

(* What Compare finds. *)
LEMMA CompareIs ==
  ASSUME NEW a \in CString, NEW b \in CString, NEW n \in Nat
  PROVE  \/ Compare(a, b, n) = 0 /\ \A i \in 1 .. n : Byte(a, i) = Byte(b, i)
         \/ \E d \in 1 .. n :
              /\ Byte(a, d) # Byte(b, d)
              /\ \A i \in 1 .. d - 1 : Byte(a, i) = Byte(b, i)
              /\ Compare(a, b, n) = Byte(a, d) - Byte(b, d)
<1> DEFINE D == {i \in 1 .. n : Byte(a, i) # Byte(b, i)}
<1>1. CASE D = {}  BY <1>1 DEF Compare
<1>2. CASE D # {}
  <2>1. D \in SUBSET Nat  OBVIOUS
  <2>2. PICK m \in D : \A k \in D : m <= k  BY <1>2, <2>1, LeastNat
  <2>3. Min(D) \in D /\ \A k \in D : Min(D) <= k
    BY <2>2 DEF Min
  <2>4. Compare(a, b, n) = Byte(a, Min(D)) - Byte(b, Min(D))
    BY <1>2 DEF Compare
  <2> DEFINE d == Min(D)
  <2>5. d \in 1 .. n /\ Byte(a, d) # Byte(b, d)  BY <2>3
  <2>6. ASSUME NEW i \in 1 .. d - 1 PROVE Byte(a, i) = Byte(b, i)
    <3>1. i \in 1 .. n /\ ~ (d <= i)  BY <2>5
    <3> QED  BY <2>3, <3>1
  <2> QED  BY <2>4, <2>5, <2>6
<1> QED  BY <1>1, <1>2

(* A string begins with another one. *)
Begins(a, b) == Len(a) <= Len(b) /\ \A i \in 1 .. Len(a) : a[i] = b[i]

(* strcmp tells any two strings apart, and in which order they are. *)
LEMMA StrcmpIs ==
  ASSUME NEW a \in CString, NEW b \in CString
  PROVE  /\ Compare(a, b, strcmp(a)) \in Int
         /\ Compare(a, b, strcmp(a)) < 0 <=> Before(a, b)
         /\ Compare(a, b, strcmp(a)) > 0 <=> Before(b, a)
         /\ Compare(a, b, strcmp(a)) = 0 <=> a = b
<1> DEFINE n == strcmp(a)
<1>1. /\ Len(a) \in Nat /\ Len(b) \in Nat /\ n = Len(a) + 1 /\ n \in Nat \ {0}
      /\ \A i \in 1 .. n : i \in Nat \ {0}
  BY DEF CString, strcmp
<1>2. \A i \in Nat \ {0} : Byte(a, i) \in Int /\ Byte(b, i) \in Int
  BY ByteType
<1> HIDE DEF n
<1>3. CASE Compare(a, b, n) = 0 /\ \A i \in 1 .. n : Byte(a, i) = Byte(b, i)
  <2>1. Len(b) <= Len(a)
    <3>1. Byte(a, n) = 0  BY <1>1, ByteType
    <3>2. Byte(b, n) = 0  BY <1>1, <1>3, <3>1
    <3> QED  BY <1>1, <3>2, ByteType
  <2>2. \A i \in 1 .. Len(a) : i <= Len(b) /\ a[i] = b[i]
    <3> SUFFICES ASSUME NEW i \in 1 .. Len(a) PROVE i <= Len(b) /\ a[i] = b[i]
      OBVIOUS
    <3>1. i \in Nat \ {0} /\ i \in 1 .. n  BY <1>1
    <3>2. Byte(a, i) # 0 /\ Byte(a, i) = a[i]  BY <1>1, <3>1, ByteType
    <3>3. Byte(b, i) # 0  BY <1>3, <3>1, <3>2
    <3> QED  BY <1>1, <1>3, <3>1, <3>2, <3>3, ByteType
  <2>3. Len(a) = Len(b)
    <3>1. CASE Len(a) = 0  BY <1>1, <2>1, <3>1
    <3>2. CASE Len(a) # 0
      <4>1. Len(a) \in 1 .. Len(a)  BY <1>1, <3>2
      <4> QED  BY <1>1, <2>1, <2>2, <4>1
    <3> QED  BY <3>1, <3>2
  <2>4. a = b  BY <2>2, <2>3, SeqEqual DEF CString
  <2> QED  BY <1>3, <2>4, BeforeOnce DEF n
<1>4. CASE \E d \in 1 .. n :
              /\ Byte(a, d) # Byte(b, d)
              /\ \A i \in 1 .. d - 1 : Byte(a, i) = Byte(b, i)
              /\ Compare(a, b, n) = Byte(a, d) - Byte(b, d)
  <2>1. PICK d \in 1 .. n : /\ Byte(a, d) # Byte(b, d)
                            /\ \A i \in 1 .. d - 1 : Byte(a, i) = Byte(b, i)
                            /\ Compare(a, b, n) = Byte(a, d) - Byte(b, d)
    BY <1>4
  <2>2. d \in Nat \ {0} /\ Byte(a, d) \in Int /\ Byte(b, d) \in Int
    BY <1>1, <1>2
  <2>3. Byte(a, d) < Byte(b, d) => Before(a, b)  BY <2>1, <2>2 DEF Before
  <2>4. Byte(b, d) < Byte(a, d) => Before(b, a)  BY <2>1, <2>2 DEF Before
  <2>5. a # b  BY <2>1
  <2>6. ~ (Before(a, b) /\ Before(b, a))  BY BeforeOnce
  <2>7. /\ Compare(a, b, n) < 0 <=> Byte(a, d) < Byte(b, d)
        /\ Compare(a, b, n) > 0 <=> Byte(b, d) < Byte(a, d)
        /\ Compare(a, b, n) # 0 /\ Compare(a, b, n) \in Int
        /\ Byte(a, d) < Byte(b, d) \/ Byte(b, d) < Byte(a, d)
    <3>1. \A x, y \in Int : /\ x - y < 0 <=> x < y
                            /\ x - y > 0 <=> y < x
                            /\ x # y => (x - y # 0 /\ (x < y \/ y < x))
                            /\ x - y \in Int
      OBVIOUS
    <3> QED  BY <2>1, <2>2, <3>1
  <2> QED  BY <2>3, <2>4, <2>5, <2>6, <2>7 DEF n
<1> QED  BY <1>1, <1>3, <1>4, CompareIs

(* memcmp finds the same, unless the string begins the other one. *)
LEMMA MemcmpIs ==
  ASSUME NEW a \in CString, NEW b \in CString
  PROVE  \/ Compare(a, b, memcmp(a)) = Compare(a, b, strcmp(a))
         \/ Compare(a, b, memcmp(a)) = 0 /\ Begins(a, b)
<1> DEFINE n == memcmp(a)
<1>1. /\ Len(a) \in Nat /\ Len(b) \in Nat /\ n = Len(a)
      /\ strcmp(a) = Len(a) + 1 /\ strcmp(a) \in Nat
  BY DEF CString, memcmp, strcmp
<1> HIDE DEF n
<1>2. CASE Compare(a, b, n) = 0 /\ \A i \in 1 .. n : Byte(a, i) = Byte(b, i)
  <2>1. \A i \in 1 .. Len(a) : i <= Len(b) /\ a[i] = b[i]
    <3> SUFFICES ASSUME NEW i \in 1 .. Len(a) PROVE i <= Len(b) /\ a[i] = b[i]
      OBVIOUS
    <3>1. i \in Nat \ {0} /\ i \in 1 .. n  BY <1>1
    <3>2. Byte(a, i) # 0 /\ Byte(a, i) = a[i]  BY <1>1, <3>1, ByteType
    <3>3. Byte(b, i) # 0  BY <1>2, <3>1, <3>2
    <3> QED  BY <1>1, <1>2, <3>1, <3>2, <3>3, ByteType
  <2>2. Len(a) <= Len(b)
    <3>1. CASE Len(a) = 0  BY <1>1, <3>1
    <3>2. CASE Len(a) # 0
      <4>1. Len(a) \in 1 .. Len(a)  BY <1>1, <3>2
      <4> QED  BY <1>1, <2>1, <4>1
    <3> QED  BY <3>1, <3>2
  <2> QED  BY <1>2, <2>1, <2>2 DEF n, Begins
<1>3. CASE \E d \in 1 .. n :
              /\ Byte(a, d) # Byte(b, d)
              /\ \A i \in 1 .. d - 1 : Byte(a, i) = Byte(b, i)
              /\ Compare(a, b, n) = Byte(a, d) - Byte(b, d)
  <2>1. PICK d \in 1 .. n : /\ Byte(a, d) # Byte(b, d)
                            /\ \A i \in 1 .. d - 1 : Byte(a, i) = Byte(b, i)
                            /\ Compare(a, b, n) = Byte(a, d) - Byte(b, d)
    BY <1>3
  <2>2. d \in 1 .. strcmp(a) /\ d \in Nat  BY <1>1
  <2>3. PICK e \in 1 .. strcmp(a) :
              /\ Byte(a, e) # Byte(b, e)
              /\ \A i \in 1 .. e - 1 : Byte(a, i) = Byte(b, i)
              /\ Compare(a, b, strcmp(a)) = Byte(a, e) - Byte(b, e)
    <3>1. ~ \A i \in 1 .. strcmp(a) : Byte(a, i) = Byte(b, i)  BY <2>1, <2>2
    <3> QED  BY <1>1, <3>1, CompareIs
  <2>4. d = e
    <3>1. ~ (d \in 1 .. e - 1) /\ ~ (e \in 1 .. d - 1)  BY <2>1, <2>3
    <3> QED  BY <1>1, <2>2, <3>1
  <2> QED  BY <2>1, <2>3, <2>4 DEF n
<1> QED  BY <1>1, <1>2, <1>3, CompareIs

-----------------------------------------------------------------------------
(* Places *)

Place == Seq(Sides)

LEMMA BeginsIs ==
  ASSUME NEW S, NEW s \in Seq(S), NEW t \in Seq(S)
  PROVE  IsPrefix(s, t) <=> Begins(s, t)
<1>1. Len(s) \in Nat /\ Len(t) \in Nat  OBVIOUS
<1>2. CASE Len(s) <= Len(t)
  <2> DEFINE u == SubSeq(s, 1, Len(s))
             v == SubSeq(t, 1, Len(s))
  <2>1. /\ \A i \in 1 .. Len(s) : s[i] \in S
        /\ \A i \in 1 .. Len(s) : i \in 1 .. Len(t) /\ t[i] \in S
    BY <1>1, <1>2, ElementOfSeq
  <2>2. u \in Seq(S) /\ Len(u) = Len(s) /\ \A i \in 1 .. Len(s) : u[i] = s[i]
    BY <1>1, <2>1, SubSeqProperties
  <2>3. v \in Seq(S) /\ Len(v) = Len(s) /\ \A i \in 1 .. Len(s) : v[i] = t[i]
    BY <1>1, <2>1, SubSeqProperties
  <2>4. IsPrefix(s, t) <=> u = v  BY <1>2 DEF IsPrefix
  <2> HIDE DEF u, v
  <2>5. u = v <=> \A i \in 1 .. Len(s) : s[i] = t[i]  BY <2>2, <2>3, SeqEqual
  <2> QED  BY <1>2, <2>4, <2>5 DEF Begins
<1> QED  BY <1>1, <1>2 DEF IsPrefix, Begins

(* The first turns of a place *)
LEMMA UptoIs ==
  ASSUME NEW p \in Place, NEW i \in 1 .. Len(p) + 1
  PROVE  /\ SubSeq(p, 1, i - 1) \in Place
         /\ Len(SubSeq(p, 1, i - 1)) = i - 1
         /\ \A j \in 1 .. i - 1 : SubSeq(p, 1, i - 1)[j] = p[j]
<1>1. Len(p) \in Nat /\ \A j \in 1 .. Len(p) : p[j] \in Sides
  BY ElementOfSeq DEF Place
<1>2. i - 1 \in Int /\ \A j \in 1 .. i - 1 : j \in 1 .. Len(p) /\ p[j] \in Sides
  BY <1>1
<1> QED  BY <1>1, <1>2, SubSeqProperties DEF Place

LEMMA BelowIs ==
  ASSUME NEW p \in Place, NEW d \in Sides, NEW q \in Place
  PROVE  Below(p, d, q) <=> /\ Len(p) < Len(q) /\ q[Len(p) + 1] = d
                            /\ \A i \in 1 .. Len(p) : p[i] = q[i]
<1>1. PICK a : a = Append(p, d)  OBVIOUS
<1>2. /\ a \in Place /\ Len(a) = Len(p) + 1 /\ a[Len(p) + 1] = d
      /\ \A i \in 1 .. Len(p) : a[i] = p[i]
  BY <1>1, AppendProperties DEF Place
<1>3. Below(p, d, q) <=> Begins(a, q)  BY <1>1, <1>2, BeginsIs DEF Below, Place
<1>4. Len(p) \in Nat /\ Len(q) \in Nat  BY DEF Place
<1>5. \A i : i \in 1 .. Len(a) <=> i \in 1 .. Len(p) \/ i = Len(p) + 1
  BY <1>2, <1>4
<1> QED  BY <1>2, <1>3, <1>4, <1>5 DEF Begins

(* A tree without its nodes' contents: whoever has a node has all those on the
   way to it, and the ways are not longer than a number. *)
Grown(t) ==
    /\ DOMAIN t \in SUBSET Place
    /\ \A p \in DOMAIN t : \A i \in 1 .. Len(p) : SubSeq(p, 1, i - 1) \in DOMAIN t
    /\ \E n \in Nat : \A p \in DOMAIN t : Len(p) <= n

(* The loop over a key ends at p. *)
Stops(t, key, n, p) ==
    /\ Leads(t, key, n, p)
    /\ p \in DOMAIN t => Compare(key, t[p].key, n) = 0

LEMMA OnTheWay ==
  ASSUME NEW t, NEW key, NEW n, NEW p, Leads(t, key, n, p), NEW i \in 1 .. Len(p),
         NEW q, q = SubSeq(p, 1, i - 1)
  PROVE  /\ q \in DOMAIN t /\ Compare(key, t[q].key, n) # 0
         /\ p[i] = Turn(Compare(key, t[q].key, n))
  BY DEF Leads

(* It ends at one place only, *)
LEMMA EndUnique ==
  ASSUME NEW t, NEW key, NEW n, NEW p \in Place, NEW q \in Place,
         Stops(t, key, n, p), Stops(t, key, n, q)
  PROVE  p = q
<1>1. Len(p) \in Nat /\ Len(q) \in Nat  BY DEF Place
<1>2. ASSUME NEW a \in Place, NEW b \in Place, Stops(t, key, n, a), Stops(t, key, n, b),
             \A i \in 1 .. Len(a) : a[i] = b[i]
      PROVE  ~ (Len(a) < Len(b))
  <2> SUFFICES ASSUME Len(a) < Len(b) PROVE FALSE  OBVIOUS
  <2>1. Len(a) \in Nat /\ Len(b) \in Nat  BY DEF Place
  <2>2. Len(a) + 1 \in 1 .. Len(b) /\ Len(a) + 1 \in 1 .. Len(b) + 1  BY <2>1
  <2>3. a = SubSeq(b, 1, Len(a) + 1 - 1)
    <3>1. Len(a) + 1 - 1 = Len(a)  BY <2>1
    <3> QED  BY <1>2, <2>1, <2>2, <3>1, UptoIs, SeqEqual DEF Place
  <2>4. a \in DOMAIN t /\ Compare(key, t[a].key, n) # 0
    <3>1. Leads(t, key, n, b)  BY <1>2 DEF Stops
    <3> QED  BY <2>2, <2>3, <3>1, OnTheWay
  <2> QED  BY <1>2, <2>4 DEF Stops
<1> DEFINE D == {i \in Nat : i \in 1 .. Len(p) /\ i \in 1 .. Len(q) /\ p[i] # q[i]}
<1>3. D = {}
  <2> SUFFICES ASSUME D # {} PROVE FALSE  OBVIOUS
  <2>1. PICK i \in D : \A k \in D : i <= k
    <3>1. D \in SUBSET Nat  OBVIOUS
    <3> QED  BY <3>1, LeastNat
  <2>2. /\ i \in Nat \ {0} /\ i \in 1 .. Len(p) /\ i \in 1 .. Len(q) /\ p[i] # q[i]
        /\ i \in 1 .. Len(p) + 1 /\ i \in 1 .. Len(q) + 1
    BY <1>1
  <2>3. \A j \in 1 .. i - 1 : p[j] = q[j]
    <3> SUFFICES ASSUME NEW j \in 1 .. i - 1, p[j] # q[j] PROVE FALSE  OBVIOUS
    <3>1. j \in Nat /\ j \in 1 .. Len(p) /\ j \in 1 .. Len(q) /\ ~ (i <= j)
      BY <1>1, <2>2
    <3> QED  BY <2>1, <3>1
  <2>4. SubSeq(p, 1, i - 1) = SubSeq(q, 1, i - 1)
    <3>1. PICK u : u = SubSeq(p, 1, i - 1)  OBVIOUS
    <3>2. PICK v : v = SubSeq(q, 1, i - 1)  OBVIOUS
    <3>3. u \in Place /\ Len(u) = i - 1 /\ \A j \in 1 .. i - 1 : u[j] = p[j]
      BY <2>2, <3>1, UptoIs
    <3>4. v \in Place /\ Len(v) = i - 1 /\ \A j \in 1 .. i - 1 : v[j] = q[j]
      BY <2>2, <3>2, UptoIs
    <3>5. u = v  BY <2>3, <3>3, <3>4, SeqEqual DEF Place
    <3> QED  BY <3>1, <3>2, <3>5
  <2>5. p[i] = q[i]  BY <2>2, <2>4 DEF Stops, Leads
  <2> QED  BY <2>2, <2>5
<1>4. ASSUME NEW i, i \in 1 .. Len(p), i \in 1 .. Len(q) PROVE p[i] = q[i]
  <2>1. i \in Nat  BY <1>4
  <2> QED  BY <1>3, <1>4, <2>1
<1> HIDE DEF D
<1>5. ~ (Len(p) < Len(q))
  <2> SUFFICES ASSUME Len(p) < Len(q) PROVE FALSE  OBVIOUS
  <2>1. \A i \in 1 .. Len(p) : i \in 1 .. Len(q)  BY <1>1
  <2> QED  BY <1>2, <1>4, <2>1
<1>6. ~ (Len(q) < Len(p))
  <2> SUFFICES ASSUME Len(q) < Len(p) PROVE FALSE  OBVIOUS
  <2>1. \A i \in 1 .. Len(q) : i \in 1 .. Len(p)  BY <1>1
  <2> QED  BY <1>2, <1>4, <2>1
<1>7. Len(p) = Len(q)  BY <1>1, <1>5, <1>6
<1> QED  BY <1>4, <1>7, SeqEqual DEF Place

(* and it does end, as the tree does. *)
LEMMA EndIs ==
  ASSUME NEW t, Grown(t), NEW key, NEW n
  PROVE  /\ End(t, key, n) \in Place /\ Stops(t, key, n, End(t, key, n))
         /\ \A i \in 1 .. Len(End(t, key, n)) :
               SubSeq(End(t, key, n), 1, i - 1) \in DOMAIN t
<1> DEFINE Way(k) == \E p \in Place : Len(p) = k /\ Leads(t, key, n, p)
           L == {k \in Nat : ~ Way(k)}
           Ends == {<< >>} \cup DOMAIN t \cup {Append(q, d) : q \in DOMAIN t, d \in Sides}
<1> SUFFICES /\ \E q \in Ends : Stops(t, key, n, q)
             /\ Ends \in SUBSET Place
  <2> SUFFICES ASSUME NEW q \in Ends, Stops(t, key, n, q), Ends \in SUBSET Place
               PROVE  End(t, key, n) \in Ends /\ Stops(t, key, n, End(t, key, n))
    BY DEF Stops, Leads
  <2> DEFINE C(p) == Leads(t, key, n, p) /\ (p \in DOMAIN t => Compare(key, t[p].key, n) = 0)
  <2>1. End(t, key, n) = CHOOSE p \in Ends : C(p)  BY DEF End
  <2>2. \A p : C(p) <=> Stops(t, key, n, p)  BY DEF Stops
  <2> HIDE DEF C, Ends
  <2>3. \E p \in Ends : C(p)  BY <2>2
  <2>4. (CHOOSE p \in Ends : C(p)) \in Ends /\ C(CHOOSE p \in Ends : C(p))
    BY <2>3, Zenon
  <2> QED  BY <2>1, <2>2, <2>4
<1>0. \A x : x \in Ends <=> \/ x = << >> \/ x \in DOMAIN t
                           \/ \E q \in DOMAIN t, d \in Sides : x = Append(q, d)
  OBVIOUS
<1> HIDE DEF Ends
<1>1. PICK m \in Nat : \A p \in DOMAIN t : Len(p) <= m  BY DEF Grown
<1>2. ~ Way(m + 2)
  <2> SUFFICES ASSUME NEW p \in Place, Len(p) = m + 2, Leads(t, key, n, p)
               PROVE  FALSE
    OBVIOUS
  <2>1. PICK i : i = m + 2  OBVIOUS
  <2>2. i \in 1 .. Len(p) /\ i \in 1 .. Len(p) + 1  BY <2>1
  <2>3. PICK u : u = SubSeq(p, 1, i - 1)  OBVIOUS
  <2>4. Len(u) = i - 1  BY <2>2, <2>3, UptoIs
  <2>5. u \in DOMAIN t  BY <2>2, <2>3, OnTheWay
  <2> QED  BY <1>1, <2>1, <2>4, <2>5
<1>3. PICK k \in L : \A j \in L : k <= j
  <2>1. m + 2 \in L /\ L \in SUBSET Nat  BY <1>2
  <2> HIDE DEF L
  <2> QED  BY <2>1, LeastNat
<1>4. k \in Nat /\ ~ Way(k)  BY <1>3
<1>5. k # 0
  <2>1. << >> \in Place /\ Len(<< >>) = 0 /\ Leads(t, key, n, << >>)  BY DEF Place, Leads
  <2>2. Way(0)  BY <2>1
  <2> QED  BY <1>4, <2>2
<1>6. Way(k - 1)
  <2>1. k - 1 \in Nat /\ ~ (k <= k - 1)  BY <1>4, <1>5
  <2>2. k - 1 \notin L
    <3> HIDE DEF L
    <3> QED  BY <1>3, <2>1
  <2> HIDE DEF Way
  <2> QED  BY <2>1, <2>2
<1>7. PICK p \in Place : Len(p) = k - 1 /\ Leads(t, key, n, p)  BY <1>6
<1>8. Stops(t, key, n, p)
  <2> SUFFICES ASSUME p \in DOMAIN t, Compare(key, t[p].key, n) # 0 PROVE FALSE
    BY <1>7 DEF Stops
  <2>1. PICK d : d = Turn(Compare(key, t[p].key, n))  OBVIOUS
  <2>2. d \in Sides  BY <2>1 DEF Turn, Sides
  <2>3. PICK b : b = Append(p, d)  OBVIOUS
  <2>4. /\ b \in Place /\ Len(b) = k /\ b[k] = d /\ \A i \in 1 .. k - 1 : b[i] = p[i]
        /\ k - 1 + 1 = k
    BY <1>4, <1>5, <1>7, <2>2, <2>3, AppendProperties DEF Place
  <2>5. Leads(t, key, n, b)
    <3> SUFFICES ASSUME NEW i \in 1 .. Len(b)
                 PROVE  LET q == SubSeq(b, 1, i - 1)
                        IN  /\ q \in DOMAIN t
                            /\ Compare(key, t[q].key, n) # 0
                            /\ b[i] = Turn(Compare(key, t[q].key, n))
      BY DEF Leads
    <3>1. PICK u : u = SubSeq(b, 1, i - 1)  OBVIOUS
    <3>2. i \in 1 .. Len(b) + 1 /\ i \in 1 .. Len(p) + 1 /\ i \in 1 .. k
      BY <1>4, <1>5, <1>7, <2>4
    <3>3. u \in Place /\ Len(u) = i - 1 /\ \A j \in 1 .. i - 1 : u[j] = b[j]
      BY <2>4, <3>1, <3>2, UptoIs
    <3>4. PICK v : v = SubSeq(p, 1, i - 1)  OBVIOUS
    <3>5. v \in Place /\ Len(v) = i - 1 /\ \A j \in 1 .. i - 1 : v[j] = p[j]
      BY <1>7, <3>2, <3>4, UptoIs
    <3>6. u = v
      <4>1. \A j \in 1 .. i - 1 : j \in 1 .. k - 1  BY <1>4, <3>2
      <4> QED  BY <2>4, <3>3, <3>5, <4>1, SeqEqual DEF Place
    <3>7. CASE i = k
      <4>1. v = p
        <5>1. Len(v) = Len(p) /\ \A j \in 1 .. Len(v) : v[j] = p[j]  BY <1>7, <3>5, <3>7
        <5> QED  BY <3>5, <5>1, SeqEqual DEF Place
      <4> QED  BY <2>1, <2>4, <3>1, <3>6, <3>7, <4>1
    <3>8. CASE i # k
      <4>1. i \in 1 .. Len(p) /\ i \in 1 .. k - 1  BY <1>4, <1>7, <3>2, <3>8
      <4>2. u = SubSeq(p, 1, i - 1)  BY <3>4, <3>6
      <4>3. /\ u \in DOMAIN t /\ Compare(key, t[u].key, n) # 0
            /\ p[i] = Turn(Compare(key, t[u].key, n))
        BY <1>7, <4>1, <4>2 DEF Leads
      <4> QED  BY <2>4, <3>1, <4>1, <4>3
    <3> QED  BY <3>7, <3>8
  <2> QED  BY <1>4, <2>4, <2>5
<1>9. p \in Ends
  <2>1. CASE p = << >>  BY <1>0, <2>1
  <2>2. CASE p # << >>
    <3>1. k - 1 \in 1 .. Len(p) /\ k - 1 \in 1 .. Len(p) + 1 /\ k - 1 - 1 = k - 2
          /\ k - 2 \in Nat /\ k - 2 + 1 = k - 1
      <4>1. Len(p) # 0  BY <2>2 DEF Place
      <4> QED  BY <1>4, <1>7, <4>1
    <3>2. PICK u : u = SubSeq(p, 1, k - 1 - 1)  OBVIOUS
    <3>3. u \in Place /\ Len(u) = k - 2 /\ \A j \in 1 .. k - 2 : u[j] = p[j]
      BY <3>1, <3>2, UptoIs
    <3>4. u \in DOMAIN t  BY <1>7, <3>1, <3>2, OnTheWay
    <3>5. PICK d \in Sides : d = p[k - 1]  BY <3>1, ElementOfSeq DEF Place
    <3>6. PICK b : b = Append(u, d)  OBVIOUS
    <3>7. b \in Place /\ Len(b) = k - 1 /\ b[k - 1] = d /\ \A j \in 1 .. k - 2 : b[j] = u[j]
      BY <3>1, <3>3, <3>5, <3>6, AppendProperties DEF Place
    <3>8. b = p
      <4>1. \A j \in 1 .. k - 1 : b[j] = p[j]
        <5>1. \A j \in 1 .. k - 1 : j = k - 1 \/ j \in 1 .. k - 2  BY <1>4
        <5> QED  BY <3>3, <3>5, <3>7, <5>1
      <4> QED  BY <1>7, <3>7, <4>1, SeqEqual DEF Place
    <3> QED  BY <1>0, <3>4, <3>5, <3>6, <3>8
  <2> QED  BY <2>1, <2>2
<1> HIDE DEF Way, L
<1>10. Ends \in SUBSET Place
  <2>1. << >> \in Place  BY DEF Place
  <2>2. DOMAIN t \in SUBSET Place  BY DEF Grown
  <2>3. \A q \in DOMAIN t, d \in Sides : Append(q, d) \in Place
    BY <2>2, AppendProperties DEF Place
  <2>4. ASSUME NEW x \in Ends PROVE x \in Place
    <3>1. CASE \E q \in DOMAIN t, d \in Sides : x = Append(q, d)  BY <2>3, <3>1
    <3> QED  BY <1>0, <2>1, <2>2, <2>4, <3>1
  <2> QED  BY <2>4
<1> QED  BY <1>8, <1>9, <1>10

-----------------------------------------------------------------------------
(* Trees with keys from a set *)

Tree(t, K) ==
    /\ Grown(t) /\ IsFiniteSet(DOMAIN t)
    /\ \A p \in DOMAIN t : /\ t[p].key \in K
                           /\ t[p] = [key |-> t[p].key, data |-> t[p].data]

(* A place that a new node may have *)
Reached(t, p) ==
    p \in Place /\ \A i \in 1 .. Len(p) : SubSeq(p, 1, i - 1) \in DOMAIN t

LEMMA EndReached ==
  ASSUME NEW t, NEW K, Tree(t, K), NEW key, NEW n
  PROVE  Reached(t, End(t, key, n)) /\ Stops(t, key, n, End(t, key, n))
BY EndIs DEF Tree, Reached

(* The way to a place without the place *)
LEMMA WayShorter ==
  ASSUME NEW p \in Place, NEW i \in 1 .. Len(p)
  PROVE  SubSeq(p, 1, i - 1) # p
<1>1. i \in 1 .. Len(p) + 1 /\ i - 1 # Len(p)  BY DEF Place
<1> QED  BY <1>1, UptoIs

NodeOf(node, K) == node.key \in K /\ node = [key |-> node.key, data |-> node.data]

(* u is t with the node at p. *)
Joins(t, p, node, u) ==
    /\ DOMAIN u = DOMAIN t \cup {p}
    /\ u[p] = node
    /\ \A q \in DOMAIN t : q # p => u[q] = t[q]
    /\ Cardinality(DOMAIN t) \in Nat
    /\ Cardinality(DOMAIN u) = IF p \in DOMAIN t THEN Cardinality(DOMAIN t)
                               ELSE Cardinality(DOMAIN t) + 1

LEMMA WithIs ==
  ASSUME NEW t, NEW K, Tree(t, K), NEW p, Reached(t, p),
         NEW node, NodeOf(node, K)
  PROVE  Tree(With(t, p, node), K) /\ Joins(t, p, node, With(t, p, node))
<1> PICK u : u = With(t, p, node)  OBVIOUS
<1>1. DOMAIN u = DOMAIN t \cup {p}  BY DEF With
<1>2. u[p] = node  BY DEF With
<1>3. \A q \in DOMAIN t : q # p => u[q] = t[q]  BY DEF With
<1>4. /\ IsFiniteSet(DOMAIN u) /\ Cardinality(DOMAIN t) \in Nat
      /\ Cardinality(DOMAIN u) = IF p \in DOMAIN t THEN Cardinality(DOMAIN t)
                                 ELSE Cardinality(DOMAIN t) + 1
  BY <1>1, FS_AddElement, FS_CardinalityType DEF Tree
<1>5. Grown(u)
  <2>1. DOMAIN u \in SUBSET Place  BY <1>1 DEF Tree, Grown, Reached
  <2>2. \A q \in DOMAIN u : \A i \in 1 .. Len(q) : SubSeq(q, 1, i - 1) \in DOMAIN u
    <3> SUFFICES ASSUME NEW q \in DOMAIN u, NEW i \in 1 .. Len(q)
                 PROVE  SubSeq(q, 1, i - 1) \in DOMAIN t
      BY <1>1
    <3> QED  BY <1>1 DEF Tree, Grown, Reached
  <2>3. PICK n \in Nat : \A q \in DOMAIN t : Len(q) <= n  BY DEF Tree, Grown
  <2>4. Len(p) \in Nat /\ \A q \in DOMAIN t : Len(q) \in Nat
    BY DEF Tree, Grown, Reached, Place
  <2>5. \E m \in Nat : \A q \in DOMAIN u : Len(q) <= m
    <3>1. CASE Len(p) <= n  BY <1>1, <2>3, <3>1
    <3>2. CASE n < Len(p)
      <4>1. \A q \in DOMAIN t : Len(q) <= Len(p)  BY <2>3, <2>4, <3>2
      <4>2. Len(p) <= Len(p)  BY <2>4
      <4> QED  BY <1>1, <2>4, <4>1, <4>2
    <3>3. Len(p) <= n \/ n < Len(p)  BY <2>4
    <3> QED  BY <3>1, <3>2, <3>3
  <2> QED  BY <2>1, <2>2, <2>5 DEF Grown
<1>6. \A q \in DOMAIN u : u[q].key \in K /\ u[q] = [key |-> u[q].key, data |-> u[q].data]
  <2> SUFFICES ASSUME NEW q \in DOMAIN u
               PROVE  u[q].key \in K /\ u[q] = [key |-> u[q].key, data |-> u[q].data]
    OBVIOUS
  <2>1. CASE q = p  BY <1>2, <2>1 DEF NodeOf
  <2>2. CASE q # p
    <3>1. q \in DOMAIN t /\ u[q] = t[q]  BY <1>1, <1>3, <2>2
    <3>2. t[q].key \in K /\ t[q] = [key |-> t[q].key, data |-> t[q].data]
      BY <3>1 DEF Tree
    <3> QED  BY <3>1, <3>2
  <2> QED  BY <2>1, <2>2
<1> QED  BY <1>1, <1>2, <1>3, <1>4, <1>5, <1>6 DEF Tree, Joins

(* Writing through the pointer to a node changes its data. *)
LEMMA StoreIs ==
  ASSUME NEW t, NEW K, Tree(t, K), NEW key, Has(t, key), NEW data,
         NEW u, u = Store(t, key, data), NEW p, p = End(t, key, strcmp(key))
  PROVE  /\ DOMAIN u = DOMAIN t /\ p \in DOMAIN t
         /\ u[p] = [key |-> t[p].key, data |-> data]
         /\ \A q \in DOMAIN t : u[q].key = t[q].key /\ (q # p => u[q] = t[q])
         /\ Tree(u, K)
<1>1. p \in DOMAIN t  BY DEF Has
<1>2. u = [t EXCEPT ![p].data = data]  BY DEF Store
<1>3. DOMAIN u = DOMAIN t /\ \A q \in DOMAIN t : q # p => u[q] = t[q]  BY <1>2
<1>4. t[p].key \in K /\ t[p] = [key |-> t[p].key, data |-> t[p].data]
  BY <1>1 DEF Tree
<1>5. u[p] = [t[p] EXCEPT !.data = data]  BY <1>1, <1>2
<1>6. PICK k : k = t[p].key  OBVIOUS
<1>7. PICK d : d = t[p].data  OBVIOUS
<1>8. u[p] = [[key |-> k, data |-> d] EXCEPT !.data = data]  BY <1>4, <1>5, <1>6, <1>7
<1>9. u[p] = [key |-> k, data |-> data]  BY <1>8
<1>10. \A q \in DOMAIN t : u[q].key = t[q].key  BY <1>3, <1>6, <1>9
<1>11. Grown(u)  BY <1>3 DEF Tree, Grown
<1>12. ASSUME NEW q \in DOMAIN u
       PROVE  u[q].key \in K /\ u[q] = [key |-> u[q].key, data |-> u[q].data]
  <2>1. CASE q = p  BY <1>4, <1>6, <1>9, <2>1
  <2>2. CASE q # p  BY <1>3, <1>12, <2>2 DEF Tree
  <2> QED  BY <2>1, <2>2
<1>13. IsFiniteSet(DOMAIN u)  BY <1>3 DEF Tree
<1>14. Tree(u, K)  BY <1>11, <1>12, <1>13 DEF Tree
<1> QED  BY <1>1, <1>3, <1>6, <1>9, <1>10, <1>14

-----------------------------------------------------------------------------
(* The node that replaces a deleted one *)

(* m is the last node back from the child of p on a side. *)
LastNode(t, p, side, back, m) ==
    /\ m \in DOMAIN t /\ Below(p, side, m)
    /\ \A i \in Len(p) + 2 .. Len(m) : m[i] = back
    /\ Append(m, back) \notin DOMAIN t

(* There is a last one. *)
LEMMA ExtremeIs ==
  ASSUME NEW t, Grown(t), NEW p \in DOMAIN t, NEW side \in Sides, NEW back \in Sides,
         Append(p, side) \in DOMAIN t
  PROVE  LastNode(t, p, side, back, Extreme(t, p, side, back))
<1> DEFINE Line(m) == Below(p, side, m) /\ \A i \in Len(p) + 2 .. Len(m) : m[i] = back
           B == {k \in Nat : \A m \in DOMAIN t : Line(m) => Len(m) <= k}
<1>0. p \in Place /\ \A m \in DOMAIN t : m \in Place /\ Len(m) \in Nat
  BY DEF Grown, Place
<1>1. PICK b \in B : \A k \in B : b <= k
  <2>1. PICK n \in Nat : \A m \in DOMAIN t : Len(m) <= n  BY DEF Grown
  <2>2. n \in B /\ B \in SUBSET Nat  BY <2>1
  <2> HIDE DEF B
  <2> QED  BY <2>2, LeastNat
<1>2. b \in Nat /\ \A m \in DOMAIN t : Line(m) => Len(m) <= b  BY <1>1
<1>3. PICK a : a = Append(p, side)  OBVIOUS
<1>4. /\ a \in DOMAIN t /\ a \in Place /\ Len(a) = Len(p) + 1 /\ a[Len(p) + 1] = side
      /\ \A i \in 1 .. Len(p) : a[i] = p[i]
  BY <1>0, <1>3, AppendProperties DEF Place
<1>5. Line(a)
  <2>1. Len(p) < Len(a) /\ \A i \in Len(p) + 2 .. Len(a) : FALSE  BY <1>0, <1>4
  <2>2. Below(p, side, a)  BY <1>0, <1>4, <2>1, BelowIs
  <2> QED  BY <2>1, <2>2
<1>6. b # 0 /\ b - 1 \in Nat
  <2>1. Len(a) <= b /\ Len(a) # 0  BY <1>0, <1>2, <1>4, <1>5
  <2> QED  BY <1>0, <1>2, <1>4, <2>1
<1>7. PICK m \in DOMAIN t : Line(m) /\ ~ (Len(m) <= b - 1)
  <2>1. b - 1 \notin B
    <3> HIDE DEF B
    <3> QED  BY <1>1, <1>2, <1>6
  <2> HIDE DEF Line
  <2> QED  BY <1>6, <2>1
<1>8. Len(m) = b
  <2>1. Len(m) \in Nat /\ Len(m) <= b  BY <1>0, <1>2, <1>7
  <2> QED  BY <1>2, <1>7, <2>1
<1>9. Append(m, back) \notin DOMAIN t
  <2> SUFFICES ASSUME Append(m, back) \in DOMAIN t PROVE FALSE  OBVIOUS
  <2>1. PICK c : c = Append(m, back)  OBVIOUS
  <2>2. /\ c \in DOMAIN t /\ c \in Place /\ Len(c) = b + 1 /\ c[b + 1] = back
        /\ \A i \in 1 .. b : c[i] = m[i]
    BY <1>0, <1>8, <2>1, AppendProperties DEF Place
  <2>3. Line(c)
    <3>1. /\ Len(p) < b /\ m[Len(p) + 1] = side
          /\ \A i \in 1 .. Len(p) : p[i] = m[i]
      BY <1>0, <1>7, <1>8, BelowIs
    <3>2. Len(p) + 1 \in 1 .. b /\ \A i \in 1 .. Len(p) : i \in 1 .. b
      BY <1>0, <1>2, <3>1
    <3>3. Below(p, side, c)
      <4>1. Len(p) < Len(c) /\ c[Len(p) + 1] = side
        BY <1>0, <1>2, <2>2, <3>1, <3>2
      <4> QED  BY <1>0, <2>2, <3>1, <3>2, <4>1, BelowIs
    <3>4. ASSUME NEW i \in Len(p) + 2 .. Len(c) PROVE c[i] = back
      <4>1. CASE i = b + 1  BY <2>2, <4>1
      <4>2. CASE i # b + 1
        <5>1. i \in 1 .. b /\ i \in Len(p) + 2 .. Len(m)  BY <1>0, <1>8, <2>2, <4>2
        <5> QED  BY <1>7, <2>2, <5>1
      <4> QED  BY <4>1, <4>2
    <3> QED  BY <3>3, <3>4
  <2>4. b + 1 <= b  BY <1>2, <2>2, <2>3
  <2> QED  BY <1>2, <2>4
<1> DEFINE C(x) == /\ Below(p, side, x) /\ \A i \in Len(p) + 2 .. Len(x) : x[i] = back
                   /\ Append(x, back) \notin DOMAIN t
<1>10. Extreme(t, p, side, back) = CHOOSE x \in DOMAIN t : C(x)  BY DEF Extreme
<1>11. C(m)  BY <1>7, <1>9
<1>12. \A x \in DOMAIN t : C(x) => LastNode(t, p, side, back, x)  BY DEF LastNode
<1> HIDE DEF C
<1>13. (CHOOSE x \in DOMAIN t : C(x)) \in DOMAIN t /\ C(CHOOSE x \in DOMAIN t : C(x))
  BY <1>11, Zenon
<1> QED  BY <1>10, <1>12, <1>13

(* The node itself if it is a leaf, or a last one. *)
LEMMA SpareIs ==
  ASSUME NEW t, Grown(t), NEW p \in DOMAIN t
  PROVE  \/ Spare(t, p) = p /\ \A d \in Sides : Append(p, d) \notin DOMAIN t
         \/ \E side \in Sides, back \in Sides :
               side # back /\ LastNode(t, p, side, back, Spare(t, p))
<1>1. "left" \in Sides /\ "right" \in Sides /\ \A d \in Sides : d = "left" \/ d = "right"
  BY DEF Sides
<1>2. CASE Append(p, "left") \in DOMAIN t
  <2>1. Spare(t, p) = Extreme(t, p, "left", "right")  BY <1>2 DEF Spare
  <2> QED  BY <1>1, <1>2, <2>1, ExtremeIs
<1>3. CASE Append(p, "left") \notin DOMAIN t /\ Append(p, "right") \in DOMAIN t
  <2>1. Spare(t, p) = Extreme(t, p, "right", "left")  BY <1>3 DEF Spare
  <2> QED  BY <1>1, <1>3, <2>1, ExtremeIs
<1>4. CASE Append(p, "left") \notin DOMAIN t /\ Append(p, "right") \notin DOMAIN t
  BY <1>1, <1>4 DEF Spare
<1> QED  BY <1>2, <1>3, <1>4

(* Whatever begins with a place and is not that place is on one side of it, *)
LEMMA OnOneSide ==
  ASSUME NEW q \in Place, NEW r \in Place, Begins(q, r), r # q
  PROVE  Len(q) < Len(r) /\ \E d \in Sides : Below(q, d, r)
<1>1. Len(q) \in Nat /\ Len(r) \in Nat /\ Len(q) <= Len(r)  BY DEF Place, Begins
<1>2. Len(q) # Len(r)
  <2> SUFFICES ASSUME Len(q) = Len(r) PROVE FALSE  OBVIOUS
  <2> QED  BY SeqEqual DEF Place, Begins
<1>3. Len(q) < Len(r) /\ Len(q) + 1 \in 1 .. Len(r)  BY <1>1, <1>2
<1>4. r[Len(q) + 1] \in Sides  BY <1>3, ElementOfSeq DEF Place
<1>5. Below(q, r[Len(q) + 1], r)  BY <1>3, <1>4, BelowIs DEF Begins
<1> QED  BY <1>3, <1>4, <1>5

(* and if there is a node, there are the place's own and its child. *)
LEMMA AncestorIs ==
  ASSUME NEW t, Grown(t), NEW q \in Place, NEW d \in Sides, NEW r \in DOMAIN t,
         Below(q, d, r)
  PROVE  q \in DOMAIN t /\ Append(q, d) \in DOMAIN t
<1>1. r \in Place /\ Len(q) \in Nat /\ Len(r) \in Nat  BY DEF Grown, Place
<1>2. Len(q) < Len(r) /\ r[Len(q) + 1] = d /\ \A i \in 1 .. Len(q) : q[i] = r[i]
  BY <1>1, BelowIs
<1>3. PICK k : k = Len(q) + 1  OBVIOUS
<1>4. k \in 1 .. Len(r) /\ k \in 1 .. Len(r) + 1 /\ k - 1 = Len(q)  BY <1>1, <1>2, <1>3
<1>5. PICK u : u = SubSeq(r, 1, k - 1)  OBVIOUS
<1>6. u \in Place /\ Len(u) = Len(q) /\ \A j \in 1 .. Len(q) : u[j] = r[j]
  BY <1>1, <1>4, <1>5, UptoIs
<1>7. u = q  BY <1>2, <1>6, SeqEqual DEF Place
<1>8. u \in DOMAIN t  BY <1>4, <1>5 DEF Grown
<1>9. PICK c : c = Append(q, d)  OBVIOUS
<1>10. c \in Place /\ Len(c) = k /\ c[k] = d /\ \A i \in 1 .. Len(q) : c[i] = q[i]
  BY <1>3, <1>9, AppendProperties DEF Place
<1>11. \A i \in 1 .. k : c[i] = r[i]
  <2>1. \A i \in 1 .. k : i = k \/ i \in 1 .. Len(q)  BY <1>1, <1>3
  <2> QED  BY <1>2, <1>3, <1>10, <2>1
<1>12. c \in DOMAIN t
  <2>1. CASE Len(r) = k
    <3>1. c = r  BY <1>1, <1>10, <1>11, <2>1, SeqEqual DEF Place
    <3> QED  BY <3>1
  <2>2. CASE Len(r) # k
    <3>1. PICK l : l = k + 1  OBVIOUS
    <3>2. l \in 1 .. Len(r) /\ l \in 1 .. Len(r) + 1 /\ l - 1 = k
      BY <1>1, <1>2, <1>3, <2>2, <3>1
    <3>3. PICK v : v = SubSeq(r, 1, l - 1)  OBVIOUS
    <3>4. v \in Place /\ Len(v) = k /\ \A j \in 1 .. k : v[j] = r[j]
      BY <1>1, <3>2, <3>3, UptoIs
    <3>5. v = c  BY <1>10, <1>11, <3>4, SeqEqual DEF Place
    <3>6. v \in DOMAIN t  BY <3>2, <3>3 DEF Grown
    <3> QED  BY <3>5, <3>6
  <2> QED  BY <2>1, <2>2
<1> QED  BY <1>7, <1>8, <1>9, <1>12

(* Where a node moves to: the last one to the place of the deleted one, those
   under it up by one, the others nowhere. *)
Climbs(p, m, side, r, v) ==
    \/ r = m /\ v = p
    \/ /\ Below(m, side, r) /\ Len(v) + 1 = Len(r)
       /\ \A i \in 1 .. Len(m) : v[i] = m[i]
       /\ \A i \in Len(m) + 1 .. Len(v) : v[i] = r[i + 1]
    \/ ~ Begins(m, r) /\ v = r

LEMMA MovedIs ==
  ASSUME NEW t, Grown(t), NEW p \in DOMAIN t, NEW side \in Sides, NEW back \in Sides,
         side # back, NEW m, LastNode(t, p, side, back, m), NEW r \in DOMAIN t
  PROVE  Moved(p, m, r) \in Place /\ Climbs(p, m, side, r, Moved(p, m, r))
<1>1. /\ p \in Place /\ r \in Place /\ m \in Place /\ m \in DOMAIN t
      /\ Len(m) \in Nat /\ Len(r) \in Nat
  BY DEF Grown, LastNode, Place
<1>2. CASE r = m
  <2>1. Moved(p, m, r) = p  BY <1>2 DEF Moved
  <2> QED  BY <1>1, <1>2, <2>1 DEF Climbs
<1>3. CASE r # m /\ ~ Begins(m, r)
  <2>1. ~ IsPrefix(m, r)  BY <1>1, <1>3, BeginsIs DEF Place
  <2>2. Moved(p, m, r) = r  BY <1>3, <2>1 DEF Moved
  <2> QED  BY <1>1, <1>3, <2>2 DEF Climbs
<1>4. CASE r # m /\ Begins(m, r)
  <2>1. PICK d \in Sides : Below(m, d, r)  BY <1>1, <1>4, OnOneSide
  <2>2. Append(m, d) \in DOMAIN t  BY <1>1, <2>1, AncestorIs
  <2>3. d = side  BY <2>2 DEF LastNode, Sides
  <2>4. IsPrefix(m, r)  BY <1>1, <1>4, BeginsIs DEF Place
  <2>5. Moved(p, m, r) = RemoveAt(r, Len(m) + 1)  BY <1>4, <2>4 DEF Moved
  <2>6. Len(m) < Len(r)  BY <1>1, <1>4, OnOneSide
  <2>7. PICK k : k = Len(m) + 1  OBVIOUS
  <2>8. k \in 1 .. Len(r) + 1 /\ k \in 1 .. Len(r) /\ k - 1 = Len(m)  BY <1>1, <2>6, <2>7
  <2>9. PICK u : u = SubSeq(r, 1, k - 1)  OBVIOUS
  <2>10. u \in Place /\ Len(u) = Len(m) /\ \A j \in 1 .. Len(m) : u[j] = r[j]
    BY <1>1, <2>8, <2>9, UptoIs
  <2>11. PICK w : w = SubSeq(r, k + 1, Len(r))  OBVIOUS
  <2>12. w \in Place /\ Len(w) = Len(r) - k /\ \A j \in 1 .. Len(r) - k : w[j] = r[j + k]
    <3>1. \A j \in k + 1 .. Len(r) : r[j] \in Sides
      <4>1. \A j \in k + 1 .. Len(r) : j \in 1 .. Len(r)  BY <1>1, <2>7
      <4> QED  BY <1>1, <4>1, ElementOfSeq DEF Place
    <3>2. k + 1 \in Int /\ Len(r) \in Int  BY <1>1, <2>7
    <3>3. /\ w \in Place
          /\ Len(w) = IF k + 1 <= Len(r) THEN Len(r) - (k + 1) + 1 ELSE 0
          /\ \A j \in 1 .. Len(r) - (k + 1) + 1 : w[j] = r[(k + 1) + j - 1]
      BY <2>11, <3>1, <3>2, SubSeqProperties DEF Place
    <3>4. \A j \in 1 .. Len(r) - k : (k + 1) + j - 1 = j + k  BY <1>1, <2>7
    <3>5. Len(r) - (k + 1) + 1 = Len(r) - k  BY <1>1, <2>7
    <3>6. Len(w) = Len(r) - k  BY <1>1, <2>7, <2>8, <3>3
    <3> QED  BY <3>3, <3>4, <3>5, <3>6
  <2>13. PICK v : v = u \o w  OBVIOUS
  <2>14. /\ v \in Place /\ Len(v) = Len(m) + (Len(r) - k)
         /\ \A i \in 1 .. Len(v) : v[i] = IF i <= Len(m) THEN u[i] ELSE w[i - Len(m)]
    <3>1. u \in Place /\ w \in Place  BY <2>10, <2>12
    <3>2. /\ v \in Place /\ Len(v) = Len(u) + Len(w)
          /\ \A i \in 1 .. Len(u) + Len(w) :
                v[i] = IF i <= Len(u) THEN u[i] ELSE w[i - Len(u)]
      BY <2>13, <3>1, ConcatProperties DEF Place
    <3> QED  BY <2>10, <2>12, <3>2
  <2>15. Len(v) + 1 = Len(r)  BY <1>1, <2>7, <2>14
  <2>16. \A i \in 1 .. Len(m) : v[i] = m[i]
    <3> SUFFICES ASSUME NEW i \in 1 .. Len(m) PROVE v[i] = m[i]  OBVIOUS
    <3>1. i \in 1 .. Len(v) /\ i <= Len(m)  BY <1>1, <2>6, <2>15
    <3>2. v[i] = u[i] /\ u[i] = r[i]  BY <2>10, <2>14, <3>1
    <3> QED  BY <1>4, <3>2 DEF Begins
  <2>17. ASSUME NEW i \in Len(m) + 1 .. Len(v) PROVE v[i] = r[i + 1]
    <3>1. i \in 1 .. Len(v) /\ ~ (i <= Len(m)) /\ i - Len(m) \in 1 .. Len(r) - k
          /\ (i - Len(m)) + k = i + 1
      BY <1>1, <2>7, <2>14
    <3>2. v[i] = w[i - Len(m)]  BY <2>14, <3>1
    <3>3. w[i - Len(m)] = r[(i - Len(m)) + k]  BY <2>12, <3>1
    <3> QED  BY <3>1, <3>2, <3>3
  <2>18. Moved(p, m, r) = v  BY <2>5, <2>7, <2>9, <2>11, <2>13 DEF RemoveAt
  <2> QED  BY <2>1, <2>3, <2>14, <2>15, <2>16, <2>17, <2>18 DEF Climbs
<1> QED  BY <1>2, <1>3, <1>4

(* Two nodes do not get to the same place, *)
LEMMA ClimbsOnce ==
  ASSUME NEW p \in Place, NEW m \in Place, NEW side \in Sides, Below(p, side, m),
         NEW r \in Place, NEW s \in Place, NEW v \in Place,
         r # p, s # p, Climbs(p, m, side, r, v), Climbs(p, m, side, s, v)
  PROVE  r = s
<1>0. Len(p) \in Nat /\ Len(m) \in Nat /\ Len(r) \in Nat /\ Len(s) \in Nat /\ Len(v) \in Nat
  BY DEF Place
<1>1. Len(p) < Len(m)  BY BelowIs
<1>2. ASSUME NEW x \in Place, Below(m, side, x) PROVE Len(m) < Len(x)
  BY <1>2, BelowIs
<1> DEFINE Up(x) == /\ Below(m, side, x) /\ Len(v) + 1 = Len(x)
                    /\ \A i \in 1 .. Len(m) : v[i] = m[i]
                    /\ \A i \in Len(m) + 1 .. Len(v) : v[i] = x[i + 1]
<1>3. ASSUME NEW x \in Place, Up(x) PROVE Len(m) <= Len(v) /\ Begins(m, v) /\ v # p
  <2>1. Len(m) <= Len(v)
    <3>1. Len(x) \in Nat /\ Len(m) < Len(x)  BY <1>2, <1>3 DEF Place
    <3> QED  BY <1>0, <1>3, <3>1
  <2>2. v # p  BY <1>0, <1>1, <2>1
  <2>3. Begins(m, v)  BY <1>3, <2>1 DEF Begins
  <2> QED  BY <2>1, <2>2, <2>3
<1>4. ASSUME Up(r), Up(s) PROVE r = s
  <2>1. Len(r) = Len(s)  BY <1>0, <1>4
  <2>2. /\ \A i \in 1 .. Len(m) : m[i] = r[i] /\ m[i] = s[i]
        /\ r[Len(m) + 1] = side /\ s[Len(m) + 1] = side
    BY <1>4, BelowIs
  <2>3. ASSUME NEW i \in 1 .. Len(r) PROVE r[i] = s[i]
    <3>1. CASE i <= Len(m)
      <4>1. i \in 1 .. Len(m)  BY <1>0, <3>1
      <4> QED  BY <2>2, <4>1
    <3>2. CASE i = Len(m) + 1  BY <2>2, <3>2
    <3>3. CASE i > Len(m) + 1
      <4>1. PICK j : j = i - 1  OBVIOUS
      <4>2. j \in Len(m) + 1 .. Len(v) /\ i = j + 1  BY <1>0, <1>4, <3>3, <4>1
      <4>3. v[j] = r[j + 1] /\ v[j] = s[j + 1]  BY <1>4, <4>2
      <4> QED  BY <4>2, <4>3
    <3> QED  BY <1>0, <3>1, <3>2, <3>3
  <2> QED  BY <2>1, <2>3, SeqEqual DEF Place
<1>5. /\ (r = m /\ v = p) \/ Up(r) \/ (~ Begins(m, r) /\ v = r)
      /\ (s = m /\ v = p) \/ Up(s) \/ (~ Begins(m, s) /\ v = s)
  BY DEF Climbs
<1> HIDE DEF Up
<1> QED  BY <1>3, <1>4, <1>5

(* and what is on a side of another node than the moved one was so before. *)
LEMMA ClimbsBeside ==
  ASSUME NEW p \in Place, NEW m \in Place, NEW side \in Sides, Below(p, side, m),
         NEW r \in Place, NEW s \in Place, NEW v \in Place, NEW w \in Place,
         r # p, s # p, Climbs(p, m, side, r, v), Climbs(p, m, side, s, w),
         NEW d \in Sides, Below(v, d, w)
  PROVE  IF r = m THEN Below(p, d, s) ELSE Below(r, d, s)
<1>0. /\ Len(p) \in Nat /\ Len(m) \in Nat /\ Len(r) \in Nat /\ Len(s) \in Nat
      /\ Len(v) \in Nat /\ Len(w) \in Nat
  BY DEF Place
<1>1. Len(p) < Len(m) /\ m[Len(p) + 1] = side /\ \A i \in 1 .. Len(p) : p[i] = m[i]
  BY BelowIs
<1>2. Len(v) < Len(w) /\ w[Len(v) + 1] = d /\ \A i \in 1 .. Len(v) : v[i] = w[i]
  BY BelowIs
<1> DEFINE Up(x, y) == /\ Below(m, side, x) /\ Len(y) + 1 = Len(x)
                       /\ \A i \in 1 .. Len(m) : y[i] = m[i]
                       /\ \A i \in Len(m) + 1 .. Len(y) : y[i] = x[i + 1]
<1>3. /\ (r = m /\ v = p) \/ Up(r, v) \/ (~ Begins(m, r) /\ v = r)
      /\ (s = m /\ w = p) \/ Up(s, w) \/ (~ Begins(m, s) /\ w = s)
  BY DEF Climbs
<1>4. ASSUME NEW x \in Place, NEW y \in Place, Up(x, y)
      PROVE  /\ Len(m) < Len(x) /\ Len(m) <= Len(y) /\ x[Len(m) + 1] = side
             /\ \A i \in 1 .. Len(m) : x[i] = m[i] /\ y[i] = m[i]
             /\ \A i \in Len(m) + 2 .. Len(x) : x[i] = y[i - 1]
  <2>1. /\ Len(m) < Len(x) /\ x[Len(m) + 1] = side
        /\ \A i \in 1 .. Len(m) : m[i] = x[i]
    BY <1>4, BelowIs
  <2>2. Len(x) \in Nat /\ Len(y) \in Nat /\ Len(m) <= Len(y)  BY <1>0, <1>4, <2>1 DEF Place
  <2>3. ASSUME NEW i \in Len(m) + 2 .. Len(x) PROVE x[i] = y[i - 1]
    <3>1. PICK j : j = i - 1  OBVIOUS
    <3>2. j \in Len(m) + 1 .. Len(y) /\ i = j + 1  BY <1>0, <1>4, <2>2, <3>1
    <3> QED  BY <1>4, <3>1, <3>2
  <2> QED  BY <1>4, <2>1, <2>2, <2>3
<1>5. CASE r = m /\ v = p
  <2>1. CASE s = m /\ w = p  BY <1>0, <1>2, <1>5, <2>1
  <2>2. CASE Up(s, w)
    <3>1. /\ Len(m) < Len(s) /\ \A i \in 1 .. Len(m) : s[i] = m[i] /\ w[i] = m[i]
      BY <1>4, <2>2
    <3>2. /\ Len(p) < Len(s) /\ Len(p) + 1 \in 1 .. Len(m)
          /\ \A i \in 1 .. Len(p) : i \in 1 .. Len(m)
      BY <1>0, <1>1, <3>1
    <3>3. s[Len(p) + 1] = d /\ \A i \in 1 .. Len(p) : p[i] = s[i]
      BY <1>1, <1>2, <1>5, <3>1, <3>2
    <3> QED  BY <1>5, <3>2, <3>3, BelowIs
  <2>3. CASE ~ Begins(m, s) /\ w = s  BY <1>5, <2>3
  <2> QED  BY <1>3, <2>1, <2>2, <2>3
<1>6. CASE Up(r, v)
  <2>1. /\ Len(m) < Len(r) /\ Len(m) <= Len(v) /\ r[Len(m) + 1] = side
        /\ \A i \in 1 .. Len(m) : r[i] = m[i] /\ v[i] = m[i]
        /\ \A i \in Len(m) + 2 .. Len(r) : r[i] = v[i - 1]
        /\ Len(v) + 1 = Len(r)
    BY <1>4, <1>6
  <2>2. Begins(m, w)
    <3>1. \A i \in 1 .. Len(m) : i \in 1 .. Len(v)  BY <1>0, <2>1
    <3> QED  BY <1>0, <1>2, <2>1, <3>1 DEF Begins
  <2>3. Up(s, w)
    <3>1. w # p  BY <1>0, <1>1, <1>2, <2>1
    <3> QED  BY <1>3, <2>2, <3>1
  <2>4. /\ Len(m) < Len(s) /\ s[Len(m) + 1] = side
        /\ \A i \in 1 .. Len(m) : s[i] = m[i] /\ w[i] = m[i]
        /\ \A i \in Len(m) + 2 .. Len(s) : s[i] = w[i - 1]
        /\ Len(w) + 1 = Len(s)
    BY <1>4, <2>3
  <2>5. Len(r) < Len(s) /\ s[Len(r) + 1] = d
    <3>1. PICK k : k = Len(r) + 1  OBVIOUS
    <3>2. k \in Len(m) + 2 .. Len(s) /\ k - 1 = Len(v) + 1 /\ Len(r) < Len(s)
      BY <1>0, <1>2, <2>1, <2>4, <3>1
    <3>3. s[k] = w[k - 1]  BY <2>4, <3>2
    <3> QED  BY <1>2, <3>1, <3>2, <3>3
  <2>6. ASSUME NEW i \in 1 .. Len(r) PROVE r[i] = s[i]
    <3>1. CASE i <= Len(m)
      <4>1. i \in 1 .. Len(m)  BY <1>0, <3>1
      <4> QED  BY <2>1, <2>4, <4>1
    <3>2. CASE i = Len(m) + 1  BY <2>1, <2>4, <3>2
    <3>3. CASE i > Len(m) + 1
      <4>1. i \in Len(m) + 2 .. Len(r) /\ i \in Len(m) + 2 .. Len(s)
            /\ i - 1 \in 1 .. Len(v)
        BY <1>0, <2>1, <2>5, <3>3
      <4>2. r[i] = v[i - 1] /\ s[i] = w[i - 1]  BY <2>1, <2>4, <4>1
      <4> QED  BY <1>2, <4>1, <4>2
    <3> QED  BY <1>0, <3>1, <3>2, <3>3
  <2>7. r # m  BY <1>0, <2>1
  <2> QED  BY <2>5, <2>6, <2>7, BelowIs
<1>7. CASE ~ Begins(m, r) /\ v = r
  <2>0. r # m
    <3>1. Begins(m, m)  BY <1>0 DEF Begins
    <3> QED  BY <1>7, <3>1
  <2>1. CASE ~ Begins(m, s) /\ w = s  BY <1>7, <2>0, <2>1
  <2>2. CASE s = m /\ w = p
    <3>1. /\ Len(r) < Len(m) /\ Len(r) + 1 \in 1 .. Len(p)
          /\ \A i \in 1 .. Len(r) : i \in 1 .. Len(p)
      BY <1>0, <1>1, <1>2, <1>7, <2>2
    <3>2. m[Len(r) + 1] = d /\ \A i \in 1 .. Len(r) : r[i] = m[i]
      BY <1>1, <1>2, <1>7, <2>2, <3>1
    <3> QED  BY <2>0, <2>2, <3>1, <3>2, BelowIs
  <2>3. CASE Up(s, w)
    <3>1. /\ Len(m) < Len(s) /\ Len(m) <= Len(w)
          /\ \A i \in 1 .. Len(m) : s[i] = m[i] /\ w[i] = m[i]
      BY <1>4, <2>3
    <3>2. Len(r) < Len(m)
      <4> SUFFICES ASSUME Len(m) <= Len(r) PROVE FALSE  BY <1>0
      <4>1. \A i \in 1 .. Len(m) : i \in 1 .. Len(r)  BY <1>0
      <4>2. \A i \in 1 .. Len(m) : m[i] = r[i]  BY <1>2, <1>7, <3>1, <4>1
      <4> QED  BY <1>7, <4>2 DEF Begins
    <3>3. /\ Len(r) < Len(s) /\ Len(r) + 1 \in 1 .. Len(m)
          /\ \A i \in 1 .. Len(r) : i \in 1 .. Len(m)
      BY <1>0, <3>1, <3>2
    <3>4. s[Len(r) + 1] = d /\ \A i \in 1 .. Len(r) : r[i] = s[i]
      BY <1>2, <1>7, <3>1, <3>3
    <3> QED  BY <2>0, <3>3, <3>4, BelowIs
  <2> QED  BY <1>3, <2>1, <2>2, <2>3
<1> QED  BY <1>3, <1>5, <1>6, <1>7

-----------------------------------------------------------------------------
(* Deletion *)

LEMMA LeafIs ==
  ASSUME NEW t, Grown(t), NEW p \in DOMAIN t,
         \A d \in Sides : Append(p, d) \notin DOMAIN t,
         NEW r \in DOMAIN t, r # p
  PROVE  Moved(p, p, r) = r
<1>1. p \in Place /\ r \in Place  BY DEF Grown
<1>2. ~ Begins(p, r)
  <2> SUFFICES ASSUME Begins(p, r) PROVE FALSE  OBVIOUS
  <2>1. PICK d \in Sides : Below(p, d, r)  BY <1>1, OnOneSide
  <2> QED  BY <1>1, <2>1, AncestorIs
<1>3. ~ IsPrefix(p, r)  BY <1>1, <1>2, BeginsIs DEF Place
<1> QED  BY <1>3 DEF Moved

(* Every other node keeps its contents. *)
LEMMA DeleteNodes ==
  ASSUME NEW t, IsFiniteSet(DOMAIN t), NEW p \in DOMAIN t, NEW m, m = Spare(t, p),
         \A r, s \in DOMAIN t \ {p} : Moved(p, m, r) = Moved(p, m, s) => r = s,
         NEW u, u = Delete(t, p)
  PROVE  /\ \A v : v \in DOMAIN u <=> \E r \in DOMAIN t \ {p} : v = Moved(p, m, r)
         /\ \A r \in DOMAIN t \ {p} : u[Moved(p, m, r)] = t[r]
         /\ IsFiniteSet(DOMAIN u) /\ Cardinality(DOMAIN t) \in Nat
         /\ Cardinality(DOMAIN u) = Cardinality(DOMAIN t) - 1
<1> DEFINE Nodes == DOMAIN t \ {p}
           f == [r \in Nodes |-> Moved(p, m, r)]
<1>1. u = [q \in {Moved(p, m, r) : r \in Nodes} |->
              t[CHOOSE r \in Nodes : Moved(p, m, r) = q]]
  BY DEF Delete
<1>2. DOMAIN u = {Moved(p, m, r) : r \in Nodes}  BY <1>1
<1>3. ASSUME NEW r \in Nodes PROVE u[Moved(p, m, r)] = t[r]
  <2>1. PICK q : q = Moved(p, m, r)  OBVIOUS
  <2>2. (CHOOSE s \in Nodes : Moved(p, m, s) = q) = r  BY <2>1
  <2>3. q \in {Moved(p, m, s) : s \in Nodes}  BY <2>1
  <2>4. u[q] = t[CHOOSE s \in Nodes : Moved(p, m, s) = q]  BY <1>1, <2>3
  <2> QED  BY <2>1, <2>2, <2>4
<1>4. f \in Bijection(Nodes, DOMAIN u)
  <2>1. f \in [Nodes -> DOMAIN u]  BY <1>2
  <2>2. \A r, s \in Nodes : f[r] = f[s] => r = s  OBVIOUS
  <2>3. \A q \in DOMAIN u : \E r \in Nodes : f[r] = q  BY <1>2
  <2> QED  BY <2>1, <2>2, <2>3 DEF Bijection, Injection, Surjection, IsInjective
<1>5. IsFiniteSet(Nodes) /\ Cardinality(Nodes) = Cardinality(DOMAIN t) - 1
      /\ Cardinality(DOMAIN t) \in Nat
  BY FS_RemoveElement, FS_CardinalityType
<1>6. IsFiniteSet(DOMAIN u) /\ Cardinality(DOMAIN u) = Cardinality(Nodes)
  BY <1>4, <1>5, FS_Bijection DEF ExistsBijection
<1> QED  BY <1>2, <1>3, <1>5, <1>6

LEMMA SpareOnce ==
  ASSUME NEW t, Grown(t), NEW p \in DOMAIN t, NEW m, m = Spare(t, p),
         NEW r \in DOMAIN t \ {p}, NEW s \in DOMAIN t \ {p},
         Moved(p, m, r) = Moved(p, m, s)
  PROVE  r = s
<1>1. CASE m = p /\ \A d \in Sides : Append(p, d) \notin DOMAIN t
  BY <1>1, LeafIs
<1>2. CASE \E side \in Sides, back \in Sides :
               side # back /\ LastNode(t, p, side, back, m)
  <2>1. PICK side \in Sides, back \in Sides :
               side # back /\ LastNode(t, p, side, back, m)
    BY <1>2
  <2>2. /\ p \in Place /\ m \in Place /\ r \in Place /\ s \in Place
        /\ Below(p, side, m)
    BY <2>1 DEF Grown, LastNode
  <2>3. PICK v \in Place : /\ v = Moved(p, m, r) /\ v = Moved(p, m, s)
                           /\ Climbs(p, m, side, r, v) /\ Climbs(p, m, side, s, v)
    BY <2>1, MovedIs
  <2> QED  BY <2>2, <2>3, ClimbsOnce
<1> QED  BY <1>1, <1>2, SpareIs

(* What remains has all the nodes on the way to each node. *)
LEMMA ClimbsWay ==
  ASSUME NEW t, Grown(t), NEW p \in DOMAIN t, NEW side \in Sides, NEW back \in Sides,
         side # back, NEW m, LastNode(t, p, side, back, m), NEW r \in DOMAIN t \ {p},
         NEW v, v = Moved(p, m, r), NEW i \in 1 .. Len(v)
  PROVE  \E s \in DOMAIN t \ {p} : Moved(p, m, s) = SubSeq(v, 1, i - 1)
<1>0. /\ p \in Place /\ m \in Place /\ r \in Place /\ v \in Place /\ m \in DOMAIN t
      /\ Climbs(p, m, side, r, v) /\ Below(p, side, m)
  BY MovedIs DEF Grown, LastNode
<1>1. Len(p) \in Nat /\ Len(m) \in Nat /\ Len(r) \in Nat /\ Len(v) \in Nat
  BY <1>0 DEF Place
<1>2. Len(p) < Len(m) /\ m[Len(p) + 1] = side /\ \A j \in 1 .. Len(p) : p[j] = m[j]
  BY <1>0, BelowIs
<1>3. PICK w : w = SubSeq(v, 1, i - 1)  OBVIOUS
<1>4. w \in Place /\ Len(w) = i - 1 /\ \A j \in 1 .. i - 1 : w[j] = v[j]
  BY <1>0, <1>1, <1>3, UptoIs
<1>5. m # p  BY <1>1, <1>2
<1>6. ASSUME w \in DOMAIN t, ~ Begins(m, w)
      PROVE  \E s \in DOMAIN t \ {p} : Moved(p, m, s) = w
  <2>1. CASE w = p
    <3>1. Moved(p, m, m) = p  BY DEF Moved
    <3> QED  BY <1>0, <1>5, <2>1, <3>1
  <2>2. CASE w # p
    <3>1. w # m
      <4>1. Begins(m, m)  BY <1>1 DEF Begins
      <4> QED  BY <1>6, <4>1
    <3>2. Climbs(p, m, side, w, Moved(p, m, w))  BY <1>6, MovedIs
    <3>3. ~ Below(m, side, w)
      <4>1. Below(m, side, w) => Begins(m, w)
        <5> SUFFICES ASSUME Below(m, side, w) PROVE Begins(m, w)  OBVIOUS
        <5>1. Len(m) < Len(w) /\ \A j \in 1 .. Len(m) : m[j] = w[j]
          BY <1>0, <1>4, BelowIs
        <5> QED  BY <1>1, <1>4, <5>1 DEF Begins
      <4> QED  BY <1>6, <4>1
    <3>4. Moved(p, m, w) = w  BY <3>1, <3>2, <3>3 DEF Climbs
    <3> QED  BY <1>6, <2>2, <3>4
  <2> QED  BY <2>1, <2>2
<1>7. ASSUME NEW x \in DOMAIN t, i \in 1 .. Len(x), \A j \in 1 .. i - 1 : x[j] = v[j]
      PROVE  w \in DOMAIN t
  <2>1. x \in Place /\ i \in 1 .. Len(x) + 1  BY <1>7 DEF Grown, Place
  <2>2. PICK y : y = SubSeq(x, 1, i - 1)  OBVIOUS
  <2>3. y \in Place /\ Len(y) = i - 1 /\ \A j \in 1 .. i - 1 : y[j] = x[j]
    BY <2>1, <2>2, UptoIs
  <2>4. y = w  BY <1>4, <1>7, <2>3, SeqEqual DEF Place
  <2>5. y \in DOMAIN t  BY <1>7, <2>2 DEF Grown
  <2> QED  BY <2>4, <2>5
<1>8. CASE r = m /\ v = p
  <2>1. w \in DOMAIN t  BY <1>7, <1>8
  <2>2. ~ Begins(m, w)  BY <1>1, <1>2, <1>4, <1>8 DEF Begins
  <2> QED  BY <1>3, <1>6, <2>1, <2>2
<1>9. CASE ~ Begins(m, r) /\ v = r
  <2>1. w \in DOMAIN t  BY <1>7, <1>9
  <2>2. ~ Begins(m, w)
    <3> SUFFICES ASSUME Begins(m, w) PROVE FALSE  OBVIOUS
    <3>1. Len(m) <= i - 1 /\ \A j \in 1 .. Len(m) : m[j] = w[j]  BY <1>4 DEF Begins
    <3>2. Len(m) <= Len(r) /\ \A j \in 1 .. Len(m) : j \in 1 .. i - 1
      BY <1>1, <1>9, <3>1
    <3>3. \A j \in 1 .. Len(m) : m[j] = r[j]  BY <1>4, <1>9, <3>1, <3>2
    <3> QED  BY <1>9, <3>2, <3>3 DEF Begins
  <2> QED  BY <1>3, <1>6, <2>1, <2>2
<1>10. CASE /\ Below(m, side, r) /\ Len(v) + 1 = Len(r)
            /\ \A j \in 1 .. Len(m) : v[j] = m[j]
            /\ \A j \in Len(m) + 1 .. Len(v) : v[j] = r[j + 1]
  <2>0. Len(m) < Len(r) /\ r[Len(m) + 1] = side /\ \A j \in 1 .. Len(m) : m[j] = r[j]
    BY <1>0, <1>10, BelowIs
  <2>1. CASE i <= Len(m)
    <3>1. /\ i \in 1 .. Len(m) /\ \A j \in 1 .. i - 1 : j \in 1 .. Len(m)
      BY <1>1, <2>1
    <3>2. w \in DOMAIN t  BY <1>0, <1>7, <1>10, <3>1
    <3>3. ~ Begins(m, w)  BY <1>1, <1>4, <2>1 DEF Begins
    <3> QED  BY <1>3, <1>6, <3>2, <3>3
  <2>2. CASE Len(m) < i
    <3>1. PICK l : l = i + 1  OBVIOUS
    <3>2. l \in 1 .. Len(r) /\ l \in 1 .. Len(r) + 1 /\ l - 1 = i
      BY <1>1, <1>10, <3>1
    <3>3. PICK s : s = SubSeq(r, 1, l - 1)  OBVIOUS
    <3>4. s \in Place /\ Len(s) = i /\ \A j \in 1 .. i : s[j] = r[j]
      BY <1>0, <3>2, <3>3, UptoIs
    <3>5. s \in DOMAIN t  BY <3>2, <3>3 DEF Grown
    <3>6. s # p  BY <1>1, <1>2, <2>2, <3>4
    <3>7. Below(m, side, s)
      <4>1. Len(m) + 1 \in 1 .. i /\ \A j \in 1 .. Len(m) : j \in 1 .. i
        BY <1>1, <2>2
      <4>2. /\ Len(m) < Len(s) /\ s[Len(m) + 1] = side
            /\ \A j \in 1 .. Len(m) : m[j] = s[j]
        BY <2>0, <2>2, <3>4, <4>1
      <4> QED  BY <1>0, <3>4, <4>2, BelowIs
    <3>8. PICK x \in Place : x = Moved(p, m, s) /\ Climbs(p, m, side, s, x)
      BY <3>5, MovedIs
    <3>9. /\ Len(x) + 1 = i /\ \A j \in 1 .. Len(m) : x[j] = m[j]
          /\ \A j \in Len(m) + 1 .. Len(x) : x[j] = s[j + 1]
      <4>1. s # m  BY <1>1, <2>2, <3>4
      <4>2. Begins(m, s)
        <5>1. \A j \in 1 .. Len(m) : j \in 1 .. i  BY <1>1, <2>2
        <5> QED  BY <1>1, <2>0, <2>2, <3>4, <5>1 DEF Begins
      <4> QED  BY <3>4, <3>8, <4>1, <4>2 DEF Climbs
    <3>10. ASSUME NEW j \in 1 .. i - 1 PROVE x[j] = w[j]
      <4>1. w[j] = v[j]  BY <1>4
      <4>2. CASE j <= Len(m)
        <5>1. j \in 1 .. Len(m)  BY <1>1, <4>2
        <5> QED  BY <1>10, <3>9, <4>1, <5>1
      <4>3. CASE Len(m) < j
        <5>1. /\ j \in Len(m) + 1 .. Len(v) /\ j \in Len(m) + 1 .. Len(x)
              /\ j + 1 \in 1 .. i
          BY <1>1, <3>8, <3>9, <4>3 DEF Place
        <5>2. v[j] = r[j + 1] /\ x[j] = s[j + 1] /\ s[j + 1] = r[j + 1]
          BY <1>10, <3>4, <3>9, <5>1
        <5> QED  BY <4>1, <5>2
      <4> QED  BY <1>1, <4>2, <4>3
    <3>11. Len(x) = i - 1  BY <3>8, <3>9 DEF Place
    <3>12. x = w  BY <1>4, <3>8, <3>10, <3>11, SeqEqual DEF Place
    <3> QED  BY <1>3, <3>5, <3>6, <3>8, <3>12
  <2> QED  BY <1>1, <2>1, <2>2
<1> QED  BY <1>0, <1>8, <1>9, <1>10 DEF Climbs

LEMMA DeleteIs ==
  ASSUME NEW t, NEW K, Tree(t, K), NEW p \in DOMAIN t, NEW m, m = Spare(t, p),
         NEW u, u = Delete(t, p)
  PROVE  /\ \A v : v \in DOMAIN u <=> \E r \in DOMAIN t \ {p} : v = Moved(p, m, r)
         /\ \A r \in DOMAIN t \ {p} : u[Moved(p, m, r)] = t[r]
         /\ Tree(u, K) /\ Cardinality(DOMAIN t) \in Nat
         /\ Cardinality(DOMAIN u) = Cardinality(DOMAIN t) - 1
<1>0. Grown(t) /\ IsFiniteSet(DOMAIN t)  BY DEF Tree
<1>1. \A r, s \in DOMAIN t \ {p} : Moved(p, m, r) = Moved(p, m, s) => r = s
  BY <1>0, SpareOnce
<1>2. /\ \A v : v \in DOMAIN u <=> \E r \in DOMAIN t \ {p} : v = Moved(p, m, r)
      /\ \A r \in DOMAIN t \ {p} : u[Moved(p, m, r)] = t[r]
      /\ IsFiniteSet(DOMAIN u) /\ Cardinality(DOMAIN t) \in Nat
      /\ Cardinality(DOMAIN u) = Cardinality(DOMAIN t) - 1
  BY <1>0, <1>1, DeleteNodes
<1>3. PICK n \in Nat : \A r \in DOMAIN t : Len(r) <= n  BY <1>0 DEF Grown
<1>4. p \in Place /\ \A r \in DOMAIN t : r \in Place /\ Len(r) \in Nat
  BY <1>0 DEF Grown, Place
<1>5. ASSUME NEW v \in DOMAIN u
      PROVE  /\ v \in Place /\ Len(v) <= n
             /\ \A i \in 1 .. Len(v) : SubSeq(v, 1, i - 1) \in DOMAIN u
  <2>1. PICK r \in DOMAIN t \ {p} : v = Moved(p, m, r)  BY <1>2, <1>5
  <2>2. CASE m = p /\ \A d \in Sides : Append(p, d) \notin DOMAIN t
    <3>1. v = r  BY <1>0, <2>1, <2>2, LeafIs
    <3>2. ASSUME NEW i \in 1 .. Len(r) PROVE SubSeq(r, 1, i - 1) \in DOMAIN u
      <4>1. PICK s : s = SubSeq(r, 1, i - 1)  OBVIOUS
      <4>2. s \in DOMAIN t  BY <1>0, <4>1 DEF Grown
      <4>3. s # p
        <5> SUFFICES ASSUME s = p PROVE FALSE  OBVIOUS
        <5>1. i \in 1 .. Len(r) + 1 /\ i - 1 < Len(r)  BY <1>4
        <5>2. Len(s) = i - 1 /\ \A j \in 1 .. i - 1 : s[j] = r[j]
          BY <1>4, <4>1, <5>1, UptoIs
        <5>3. Begins(p, r)  BY <1>4, <5>1, <5>2 DEF Begins
        <5>4. PICK d \in Sides : Below(p, d, r)  BY <1>4, <2>1, <5>3, OnOneSide
        <5> QED  BY <1>0, <1>4, <2>2, <5>4, AncestorIs
      <4>4. Moved(p, m, s) = s  BY <1>0, <2>2, <4>2, <4>3, LeafIs
      <4> QED  BY <1>2, <4>1, <4>2, <4>3, <4>4
    <3> QED  BY <1>3, <1>4, <3>1, <3>2
  <2>3. CASE \E side \in Sides, back \in Sides :
               side # back /\ LastNode(t, p, side, back, m)
    <3>1. PICK side \in Sides, back \in Sides :
               side # back /\ LastNode(t, p, side, back, m)
      BY <2>3
    <3>2. v \in Place /\ Climbs(p, m, side, r, v)  BY <1>0, <2>1, <3>1, MovedIs
    <3>3. \A i \in 1 .. Len(v) : SubSeq(v, 1, i - 1) \in DOMAIN u
      <4>1. ASSUME NEW i \in 1 .. Len(v) PROVE SubSeq(v, 1, i - 1) \in DOMAIN u
        <5>1. PICK s \in DOMAIN t \ {p} : Moved(p, m, s) = SubSeq(v, 1, i - 1)
          BY <1>0, <2>1, <3>1, ClimbsWay
        <5> QED  BY <1>2, <5>1
      <4> QED  BY <4>1
    <3>4. Len(v) <= n
      <4>1. Len(v) \in Nat  BY <3>2 DEF Place
      <4>2. v = p \/ v = r \/ Len(v) + 1 = Len(r)  BY <3>2 DEF Climbs
      <4>3. Len(p) <= n /\ Len(r) <= n  BY <1>3
      <4> QED  BY <1>4, <4>1, <4>2, <4>3
    <3> QED  BY <3>2, <3>3, <3>4
  <2> QED  BY <1>0, <2>2, <2>3, SpareIs
<1>6. Grown(u)
  <2>1. DOMAIN u \in SUBSET Place  BY <1>5
  <2>2. \A v \in DOMAIN u : Len(v) <= n  BY <1>5
  <2> QED  BY <1>5, <2>1, <2>2 DEF Grown
<1>7. \A v \in DOMAIN u : u[v].key \in K /\ u[v] = [key |-> u[v].key, data |-> u[v].data]
  <2> SUFFICES ASSUME NEW v \in DOMAIN u
               PROVE  u[v].key \in K /\ u[v] = [key |-> u[v].key, data |-> u[v].data]
    OBVIOUS
  <2>1. PICK r \in DOMAIN t : u[v] = t[r]  BY <1>2
  <2> QED  BY <2>1 DEF Tree
<1> QED  BY <1>2, <1>6, <1>7 DEF Tree

-----------------------------------------------------------------------------
(* The nodes are counted. *)

Shape(tree, K) ==
    /\ Tree(tree.root, K)
    /\ tree = [numNodes |-> Cardinality(DOMAIN tree.root), root |-> tree.root]

LEMMA EmptyShape == ASSUME NEW K PROVE Shape(Empty, K)
<1>1. Empty.root = << >> /\ Empty.numNodes = 0 /\ DOMAIN << >> = {}  BY DEF Empty
<1>2. IsFiniteSet({}) /\ Cardinality({}) = 0  BY FS_EmptySet
<1>3. Grown(<< >>)
  <2>1. 0 \in Nat /\ \A p \in {} : Len(p) <= 0  OBVIOUS
  <2> QED  BY <1>1, <2>1 DEF Grown
<1>4. Tree(<< >>, K)  BY <1>1, <1>2, <1>3 DEF Tree
<1> QED  BY <1>1, <1>2, <1>4 DEF Shape, Empty

LEMMA PutShape ==
  ASSUME NEW tree, NEW K, Shape(tree, K), NEW key \in K, NEW data
  PROVE  Shape(Put(tree, key, data), K)
<1>1. PICK t : t = tree.root  OBVIOUS
<1>2. Tree(t, K) /\ tree.numNodes = Cardinality(DOMAIN t)  BY <1>1 DEF Shape
<1>3. PICK p : p = End(t, key, memcmp(key))  OBVIOUS
<1>4. Reached(t, p)  BY <1>2, <1>3, EndReached
<1>5. PICK node : node = [key |-> key, data |-> data]  OBVIOUS
<1>8. PICK u : u = With(t, p, node)  OBVIOUS
<1>6. /\ Tree(u, K) /\ Cardinality(DOMAIN t) \in Nat
      /\ Cardinality(DOMAIN u) = IF p \in DOMAIN t THEN Cardinality(DOMAIN t)
                                 ELSE Cardinality(DOMAIN t) + 1
  <2>1. NodeOf(node, K)  BY <1>5 DEF NodeOf
  <2>2. Tree(u, K) /\ Joins(t, p, node, u)  BY <1>2, <1>4, <1>8, <2>1, WithIs
  <2> QED  BY <2>2 DEF Joins
<1>7. Put(tree, key, data) = [numNodes |-> Cardinality(DOMAIN u), root |-> u]
  BY <1>1, <1>2, <1>3, <1>5, <1>8, <1>6 DEF Put
<1> QED  BY <1>6, <1>7 DEF Shape

LEMMA RemoveShape ==
  ASSUME NEW tree, NEW K, Shape(tree, K), NEW key
  PROVE  Shape(RemoveNode(tree, key), K)
<1>1. PICK t : t = tree.root  OBVIOUS
<1>2. Tree(t, K) /\ tree.numNodes = Cardinality(DOMAIN t)  BY <1>1 DEF Shape
<1>3. PICK p : p = End(t, key, strcmp(key))  OBVIOUS
<1>4. CASE p \notin DOMAIN t  BY <1>1, <1>3, <1>4 DEF RemoveNode
<1>5. CASE p \in DOMAIN t
  <2>1. PICK u : u = Delete(t, p)  OBVIOUS
  <2>2. Tree(u, K) /\ Cardinality(DOMAIN u) = Cardinality(DOMAIN t) - 1
    BY <1>2, <1>5, <2>1, DeleteIs
  <2>3. RemoveNode(tree, key) = [numNodes |-> Cardinality(DOMAIN u), root |-> u]
    BY <1>1, <1>2, <1>3, <1>5, <2>1, <2>2 DEF RemoveNode
  <2> QED  BY <2>2, <2>3 DEF Shape
<1> QED  BY <1>4, <1>5

(* Where memcmp leads, strcmp does. *)
LEMMA LeadsSame ==
  ASSUME NEW t, NEW K \in SUBSET CString, Tree(t, K), NEW key \in CString, NEW p,
         Leads(t, key, memcmp(key), p)
  PROVE  Leads(t, key, strcmp(key), p)
<1> SUFFICES ASSUME NEW i \in 1 .. Len(p)
             PROVE  LET q == SubSeq(p, 1, i - 1)
                    IN  /\ q \in DOMAIN t
                        /\ Compare(key, t[q].key, strcmp(key)) # 0
                        /\ p[i] = Turn(Compare(key, t[q].key, strcmp(key)))
  BY DEF Leads
<1>1. PICK q : q = SubSeq(p, 1, i - 1)  OBVIOUS
<1>2. /\ q \in DOMAIN t /\ Compare(key, t[q].key, memcmp(key)) # 0
      /\ p[i] = Turn(Compare(key, t[q].key, memcmp(key)))
  BY <1>1 DEF Leads
<1>3. t[q].key \in CString  BY <1>2 DEF Tree
<1>4. Compare(key, t[q].key, memcmp(key)) = Compare(key, t[q].key, strcmp(key))
  BY <1>2, <1>3, MemcmpIs
<1> QED  BY <1>1, <1>2, <1>4

(* So what has been put is found, and it is in its own node. *)
LEMMA PutFound ==
  ASSUME NEW t, NEW K \in SUBSET CString, Tree(t, K), NEW key \in K,
         NEW node, NodeOf(node, K), node.key = key,
         NEW p, p = End(t, key, memcmp(key)), NEW u, u = With(t, p, node)
  PROVE  Tree(u, K) /\ Joins(t, p, node, u) /\ End(u, key, strcmp(key)) = p
<1>1. Reached(t, p) /\ Leads(t, key, memcmp(key), p)  BY EndReached DEF Stops
<1>2. Tree(u, K) /\ Joins(t, p, node, u)  BY <1>1, WithIs
<1>3. key \in CString /\ Leads(t, key, strcmp(key), p)  BY <1>1, LeadsSame
<1>4. p \in Place  BY <1>1 DEF Reached
<1>5. Leads(u, key, strcmp(key), p)
  <2> SUFFICES ASSUME NEW i \in 1 .. Len(p)
               PROVE  LET q == SubSeq(p, 1, i - 1)
                      IN  /\ q \in DOMAIN u
                          /\ Compare(key, u[q].key, strcmp(key)) # 0
                          /\ p[i] = Turn(Compare(key, u[q].key, strcmp(key)))
    BY DEF Leads
  <2>1. PICK q : q = SubSeq(p, 1, i - 1)  OBVIOUS
  <2>2. /\ q \in DOMAIN t /\ Compare(key, t[q].key, strcmp(key)) # 0
        /\ p[i] = Turn(Compare(key, t[q].key, strcmp(key)))
    BY <1>3, <2>1 DEF Leads
  <2>3. q # p  BY <1>4, <2>1, WayShorter
  <2>4. q \in DOMAIN u /\ u[q] = t[q]  BY <1>2, <2>2, <2>3 DEF Joins
  <2> QED  BY <2>1, <2>2, <2>4
<1>6. Compare(key, u[p].key, strcmp(key)) = 0
  <2>1. u[p].key = key  BY <1>2 DEF Joins
  <2> QED  BY <1>3, <2>1, StrcmpIs
<1>7. Stops(u, key, strcmp(key), p)  BY <1>5, <1>6 DEF Stops
<1>8. /\ End(u, key, strcmp(key)) \in Place
      /\ Stops(u, key, strcmp(key), End(u, key, strcmp(key)))
  BY <1>2, EndReached DEF Reached
<1>9. End(u, key, strcmp(key)) = p  BY <1>4, <1>7, <1>8, EndUnique
<1> QED  BY <1>2, <1>9

(* What is found has the key. *)
LEMMA FoundIs ==
  ASSUME NEW t, NEW K \in SUBSET CString, Tree(t, K), NEW key \in CString, Has(t, key),
         NEW p, p = End(t, key, strcmp(key))
  PROVE  p \in DOMAIN t /\ t[p].key = key /\ Find(t, key) = t[p].data
<1>1. p \in DOMAIN t /\ Find(t, key) = t[p].data  BY DEF Has, Find
<1>2. Compare(key, t[p].key, strcmp(key)) = 0  BY <1>1, EndReached DEF Stops
<1>3. t[p].key \in CString  BY <1>1 DEF Tree
<1> QED  BY <1>1, <1>2, <1>3, StrcmpIs

(* The sections have the keys of their names. *)
SectionsShape(c) ==
    /\ Shape(c, Names)
    /\ \A p \in DOMAIN c.root : Shape(c.root[p].data, Keys[c.root[p].key])

LEMMA Strings ==
  Names \in SUBSET CString /\ \A name \in Names : Keys[name] \in SUBSET CString
BY StringsAssumption DEF CString

LEMMA InsertSectionShape ==
  ASSUME NEW c, SectionsShape(c), NEW name \in Names
  PROVE  SectionsShape(InsertSection(c, name)) /\ Has(InsertSection(c, name).root, name)
<1>1. PICK t : t = c.root  OBVIOUS
<1>2. PICK p : p = End(t, name, memcmp(name))  OBVIOUS
<1>3. PICK node : node = [key |-> name, data |-> Empty]  OBVIOUS
<1>4. PICK u : u = With(t, p, node)  OBVIOUS
<1>5. NodeOf(node, Names) /\ node.key = name /\ node.data = Empty  BY <1>3 DEF NodeOf
<1>6. Tree(t, Names)  BY <1>1 DEF SectionsShape, Shape
<1>7. Tree(u, Names) /\ Joins(t, p, node, u) /\ End(u, name, strcmp(name)) = p
  BY <1>2, <1>4, <1>5, <1>6, Strings, PutFound
<1>8. InsertSection(c, name).root = u  BY <1>1, <1>2, <1>3, <1>4 DEF InsertSection, Put
<1>9. Has(u, name)  BY <1>7 DEF Has, Joins
<1>10. Shape(InsertSection(c, name), Names)
  BY PutShape DEF InsertSection, SectionsShape
<1>11. ASSUME NEW q \in DOMAIN u PROVE Shape(u[q].data, Keys[u[q].key])
  <2>1. CASE q = p
    <3>1. u[q].data = Empty  BY <1>5, <1>7, <2>1 DEF Joins
    <3> QED  BY <3>1, EmptyShape
  <2>2. CASE q # p  BY <1>1, <1>7, <2>2 DEF Joins, SectionsShape
  <2> QED  BY <2>1, <2>2
<1> QED  BY <1>8, <1>9, <1>10, <1>11 DEF SectionsShape

LEMMA WithinShape ==
  ASSUME NEW c, SectionsShape(c), NEW name \in Names, Has(c.root, name),
         NEW section, Shape(section, Keys[name])
  PROVE  SectionsShape(Within(c, name, section))
<1>1. PICK t : t = c.root  OBVIOUS
<1>2. PICK u : u = Store(t, name, section)  OBVIOUS
<1>3. PICK p : p = End(t, name, strcmp(name))  OBVIOUS
<1>4. Tree(t, Names) /\ Has(t, name)  BY <1>1 DEF SectionsShape, Shape
<1>5. p \in DOMAIN t /\ t[p].key = name  BY <1>3, <1>4, Strings, FoundIs
<1>6. /\ DOMAIN u = DOMAIN t
      /\ u[p] = [key |-> t[p].key, data |-> section]
      /\ \A q \in DOMAIN t : q # p => u[q] = t[q]
      /\ Tree(u, Names)
  BY <1>2, <1>3, <1>4, StoreIs
<1>7. c = [numNodes |-> Cardinality(DOMAIN t), root |-> t]
  BY <1>1 DEF SectionsShape, Shape
<1>8. Within(c, name, section) = [c EXCEPT !.root = u]  BY <1>1, <1>2 DEF Within
<1>9. Within(c, name, section) = [numNodes |-> Cardinality(DOMAIN u), root |-> u]
  BY <1>6, <1>7, <1>8
<1>10. ASSUME NEW q \in DOMAIN u PROVE Shape(u[q].data, Keys[u[q].key])
  <2>1. CASE q = p
    <3>1. u[q].data = section /\ u[q].key = name  BY <1>5, <1>6, <2>1
    <3> QED  BY <3>1
  <2>2. CASE q # p  BY <1>1, <1>6, <2>2 DEF SectionsShape
  <2> QED  BY <2>1, <2>2
<1> QED  BY <1>6, <1>9, <1>10 DEF SectionsShape, Shape

LEMMA FindShape ==
  ASSUME NEW c, SectionsShape(c), NEW name \in Names, Has(c.root, name)
  PROVE  Shape(Find(c.root, name), Keys[name])
<1>1. PICK t : t = c.root  OBVIOUS
<1>2. PICK p : p = End(t, name, strcmp(name))  OBVIOUS
<1>3. Tree(t, Names) /\ Has(t, name)  BY <1>1 DEF SectionsShape, Shape
<1>4. p \in DOMAIN t /\ t[p].key = name /\ Find(t, name) = t[p].data
  BY <1>2, <1>3, Strings, FoundIs
<1> QED  BY <1>1, <1>4 DEF SectionsShape

LEMMA ShapeInit == Init => SectionsShape(config)
<1> SUFFICES ASSUME Init PROVE SectionsShape(config)  OBVIOUS
<1>1. SectionsShape(Empty)
  <2>1. Empty.root = << >> /\ DOMAIN << >> = {}  BY DEF Empty
  <2> QED  BY <2>1, EmptyShape DEF SectionsShape
<1> QED  BY <1>1, StringsAssumption, InsertSectionShape DEF Init

LEMMA ShapeStep == SectionsShape(config) /\ [Next]_vars => SectionsShape(config')
<1> SUFFICES ASSUME SectionsShape(config), [Next]_vars PROVE SectionsShape(config')
  OBVIOUS
<1>1. ASSUME NEW name \in Names, Header(name) PROVE SectionsShape(config')
  BY <1>1, InsertSectionShape DEF Header
<1>2. ASSUME NEW name \in Names, NEW key \in Keys[name], DeleteKey(name, key)
      PROVE  SectionsShape(config')
  <2>1. Shape(RemoveNode(Find(config.root, name), key), Keys[name])
    BY <1>2, FindShape, RemoveShape DEF DeleteKey
  <2> QED  BY <1>2, <2>1, WithinShape DEF DeleteKey
<1>3. ASSUME NEW name \in Names, NEW key \in Keys[name], NEW value \in Values,
             SetString(name, key, value)
      PROVE  SectionsShape(config')
  <2>1. PICK c : c = IF Has(config.root, name) THEN config ELSE InsertSection(config, name)
    OBVIOUS
  <2>2. SectionsShape(c) /\ Has(c.root, name)  BY <2>1, InsertSectionShape
  <2>3. Shape(Put(Find(c.root, name), key, value), Keys[name])
    BY <2>2, FindShape, PutShape
  <2>4. config' = Within(c, name, Put(Find(c.root, name), key, value))
    BY <1>3, <2>1 DEF SetString
  <2> QED  BY <2>2, <2>3, <2>4, WithinShape
<1>4. CASE UNCHANGED vars  BY <1>4 DEF vars
<1> QED  BY <1>1, <1>2, <1>3, <1>4 DEF Next

LEMMA ShapeCounts == SectionsShape(config) => NodesCounted
<1> SUFFICES ASSUME SectionsShape(config) PROVE NodesCounted  OBVIOUS
<1>1. ASSUME NEW tree, NEW K, Shape(tree, K) PROVE Counted(tree)
  BY <1>1 DEF Shape, Counted
<1>2. Counted(config)  BY <1>1 DEF SectionsShape
<1>3. ASSUME NEW name \in Names, Has(config.root, name)
      PROVE  Counted(Find(config.root, name))
  BY <1>1, <1>3, FindShape
<1> QED  BY <1>2, <1>3 DEF NodesCounted, EveryTree

(* numNodes is right in every tree, also where a key begins with another one. *)
THEOREM NodesAlwaysCounted == Spec => []NodesCounted
<1>1. Init => SectionsShape(config)  BY ShapeInit
<1>2. SectionsShape(config) /\ [Next]_vars => SectionsShape(config)'  BY ShapeStep
<1> QED  BY <1>1, <1>2, ShapeCounts, PTL DEF Spec

-----------------------------------------------------------------------------
(* The order of the keys, where no key begins with another one *)

Alone(K) == \A a, b \in K : Begins(a, b) => a = b

(* b belongs on side d of a. *)
Beyond(d, a, b) == IF d = "left" THEN Before(b, a) ELSE Before(a, b)

LEMMA BeyondOrders ==
  ASSUME NEW d \in Sides, NEW a \in CString, NEW b \in CString, Beyond(d, a, b)
  PROVE  /\ a # b
         /\ \A e \in Sides : e # d => Beyond(e, b, a)
         /\ \A c \in CString : Beyond(d, b, c) => Beyond(d, a, c)
<1>1. d = "left" \/ d = "right"  BY DEF Sides
<1>2. a # b  BY BeforeOnce DEF Beyond
<1>3. \A e \in Sides : e # d => Beyond(e, b, a)
  BY <1>1 DEF Beyond, Sides
<1>4. ASSUME NEW c \in CString, Beyond(d, b, c) PROVE Beyond(d, a, c)
  BY <1>4, BeforeTransitive DEF Beyond
<1> QED  BY <1>2, <1>3, <1>4

(* The loop turns to the side where the key belongs. *)
LEMMA TurnIs ==
  ASSUME NEW key \in CString, NEW a \in CString, NEW d \in Sides
  PROVE  (key # a /\ d = Turn(Compare(key, a, strcmp(key)))) <=> Beyond(d, a, key)
<1>1. d = "left" \/ d = "right"  BY DEF Sides
<1>2. PICK c : c = Compare(key, a, strcmp(key))  OBVIOUS
<1>3. /\ c \in Int
      /\ c < 0 <=> Before(key, a)
      /\ c > 0 <=> Before(a, key)
      /\ c = 0 <=> key = a
  BY <1>2, StrcmpIs
<1>4. c > 0 \/ c = 0 \/ c < 0  BY <1>3
<1>5. CASE d = "left"
  <2>1. d = Turn(c) <=> ~ (c > 0)  BY <1>5 DEF Turn
  <2>2. Beyond(d, a, key) <=> Before(key, a)  BY <1>5 DEF Beyond
  <2>3. c < 0 => ~ (c > 0) /\ c # 0  BY <1>3
  <2> QED  BY <1>2, <1>3, <1>4, <2>1, <2>2, <2>3
<1>6. CASE d = "right"
  <2>1. d = Turn(c) <=> c > 0  BY <1>6 DEF Turn
  <2>2. Beyond(d, a, key) <=> Before(a, key)  BY <1>6 DEF Beyond
  <2>3. c > 0 => c # 0  BY <1>3
  <2> QED  BY <1>2, <1>3, <2>1, <2>2, <2>3
<1> QED  BY <1>1, <1>5, <1>6

(* A tree with each node's key on its side of the nodes above it *)
Ordered(t) ==
    \A p, q \in DOMAIN t : \A d \in Sides :
        Below(p, d, q) => Beyond(d, t[p].key, t[q].key)

LEMMA WayBelow ==
  ASSUME NEW p \in Place, NEW i \in 1 .. Len(p)
  PROVE  p[i] \in Sides /\ Below(SubSeq(p, 1, i - 1), p[i], p)
<1>1. Len(p) \in Nat /\ i \in 1 .. Len(p) + 1 /\ p[i] \in Sides
  BY ElementOfSeq DEF Place
<1>2. PICK u : u = SubSeq(p, 1, i - 1)  OBVIOUS
<1>3. u \in Place /\ Len(u) = i - 1 /\ \A j \in 1 .. i - 1 : u[j] = p[j]
  BY <1>1, <1>2, UptoIs
<1>4. Len(u) < Len(p) /\ Len(u) + 1 = i  BY <1>1, <1>3
<1> QED  BY <1>1, <1>2, <1>3, <1>4, BelowIs

LEMMA BelowWay ==
  ASSUME NEW p \in Place, NEW q \in Place, NEW d \in Sides, Below(q, d, p)
  PROVE  \E i \in 1 .. Len(p) : q = SubSeq(p, 1, i - 1) /\ p[i] = d
<1>1. Len(p) \in Nat /\ Len(q) \in Nat  BY DEF Place
<1>2. Len(q) < Len(p) /\ p[Len(q) + 1] = d /\ \A j \in 1 .. Len(q) : q[j] = p[j]
  BY BelowIs
<1>3. PICK i : i = Len(q) + 1  OBVIOUS
<1>4. i \in 1 .. Len(p) /\ i \in 1 .. Len(p) + 1 /\ i - 1 = Len(q)  BY <1>1, <1>2, <1>3
<1>5. PICK u : u = SubSeq(p, 1, i - 1)  OBVIOUS
<1>6. u \in Place /\ Len(u) = Len(q) /\ \A j \in 1 .. Len(q) : u[j] = p[j]
  BY <1>4, <1>5, UptoIs
<1>7. u = q  BY <1>2, <1>6, SeqEqual DEF Place
<1> QED  BY <1>2, <1>3, <1>4, <1>5, <1>7

(* Every node of an ordered tree is found by its key. *)
LEMMA OwnPlace ==
  ASSUME NEW t, NEW K \in SUBSET CString, Tree(t, K), Ordered(t), NEW p \in DOMAIN t
  PROVE  End(t, t[p].key, strcmp(t[p].key)) = p
<1>1. PICK key : key = t[p].key  OBVIOUS
<1>2. key \in CString /\ p \in Place  BY <1>1 DEF Tree, Grown
<1>3. Leads(t, key, strcmp(key), p)
  <2> SUFFICES ASSUME NEW i \in 1 .. Len(p)
               PROVE  LET q == SubSeq(p, 1, i - 1)
                      IN  /\ q \in DOMAIN t
                          /\ Compare(key, t[q].key, strcmp(key)) # 0
                          /\ p[i] = Turn(Compare(key, t[q].key, strcmp(key)))
    BY DEF Leads
  <2>1. PICK q : q = SubSeq(p, 1, i - 1)  OBVIOUS
  <2>2. q \in DOMAIN t  BY <2>1 DEF Tree, Grown
  <2>3. p[i] \in Sides /\ Below(q, p[i], p)  BY <1>2, <2>1, WayBelow
  <2>4. Beyond(p[i], t[q].key, key)  BY <1>1, <2>2, <2>3 DEF Ordered
  <2>5. t[q].key \in CString  BY <2>2 DEF Tree
  <2>6. key # t[q].key /\ p[i] = Turn(Compare(key, t[q].key, strcmp(key)))
    BY <1>2, <2>3, <2>4, <2>5, TurnIs
  <2>7. Compare(key, t[q].key, strcmp(key)) # 0  BY <1>2, <2>5, <2>6, StrcmpIs
  <2> QED  BY <2>1, <2>2, <2>6, <2>7
<1>4. Compare(key, t[p].key, strcmp(key)) = 0  BY <1>1, <1>2, StrcmpIs
<1>5. Stops(t, key, strcmp(key), p)  BY <1>3, <1>4 DEF Stops
<1>6. /\ End(t, key, strcmp(key)) \in Place
      /\ Stops(t, key, strcmp(key), End(t, key, strcmp(key)))
  BY EndReached DEF Reached
<1>7. End(t, key, strcmp(key)) = p  BY <1>2, <1>5, <1>6, EndUnique
<1> QED  BY <1>1, <1>7

(* So a key is in the tree if a node has it, *)
LEMMA HasIs ==
  ASSUME NEW t, NEW K \in SUBSET CString, Tree(t, K), Ordered(t), NEW key \in CString
  PROVE  /\ Has(t, key) <=> \E p \in DOMAIN t : t[p].key = key
         /\ \A p \in DOMAIN t : t[p].key = key => Find(t, key) = t[p].data
<1>1. \A p \in DOMAIN t : t[p].key = key => End(t, key, strcmp(key)) = p
  BY OwnPlace
<1>2. Has(t, key) => \E p \in DOMAIN t : t[p].key = key  BY FoundIs
<1>3. (\E p \in DOMAIN t : t[p].key = key) => Has(t, key)  BY <1>1 DEF Has
<1>4. \A p \in DOMAIN t : t[p].key = key => Find(t, key) = t[p].data
  BY <1>1 DEF Find
<1> QED  BY <1>2, <1>3, <1>4

(* and only one has it. *)
LEMMA OneHas ==
  ASSUME NEW t, NEW K \in SUBSET CString, Tree(t, K), Ordered(t),
         NEW p \in DOMAIN t, NEW q \in DOMAIN t, t[p].key = t[q].key
  PROVE  p = q
BY OwnPlace

(* Insertion changes the node with the key, or adds one. *)
LEMMA PutPlace ==
  ASSUME NEW t, NEW K \in SUBSET CString, Tree(t, K), Alone(K), NEW key \in K,
         NEW p \in DOMAIN t, p = End(t, key, memcmp(key))
  PROVE  t[p].key = key
<1>1. Compare(key, t[p].key, memcmp(key)) = 0  BY EndReached DEF Stops
<1>2. t[p].key \in K /\ t[p].key \in CString /\ key \in CString  BY DEF Tree
<1>3. Compare(key, t[p].key, strcmp(key)) = 0 \/ Begins(key, t[p].key)
  BY <1>1, <1>2, MemcmpIs
<1> QED  BY <1>2, <1>3, StrcmpIs DEF Alone

LEMMA PutOrdered ==
  ASSUME NEW t, NEW K \in SUBSET CString, Tree(t, K), Ordered(t), Alone(K), NEW key \in K,
         NEW node, NodeOf(node, K), node.key = key,
         NEW p, p = End(t, key, memcmp(key)), NEW u, u = With(t, p, node)
  PROVE  Ordered(u)
<1>1. Tree(u, K) /\ Joins(t, p, node, u)  BY PutFound
<1>2. Reached(t, p) /\ Leads(t, key, memcmp(key), p)  BY EndReached DEF Stops
<1>3. key \in CString /\ Leads(t, key, strcmp(key), p) /\ p \in Place
  BY <1>2, LeadsSame DEF Reached
<1>4. \A q \in DOMAIN t : q \in Place  BY DEF Tree, Grown
<1> SUFFICES ASSUME NEW q \in DOMAIN u, NEW r \in DOMAIN u, NEW d \in Sides, Below(q, d, r)
             PROVE  Beyond(d, u[q].key, u[r].key)
  BY DEF Ordered
<1>5. q \in Place /\ r \in Place  BY <1>1, <1>3, <1>4 DEF Joins
<1>6. q # r
  <2>1. Len(q) < Len(r) /\ Len(r) \in Nat  BY <1>5, BelowIs DEF Place
  <2> QED  BY <2>1
<1>7. CASE q = p
  <2>1. r \in DOMAIN t /\ u[r] = t[r] /\ u[q].key = key
    BY <1>1, <1>6, <1>7 DEF Joins
  <2>2. q \in DOMAIN t  BY <1>5, <2>1, AncestorIs DEF Tree
  <2>3. t[q].key = key  BY <1>7, <2>2, PutPlace
  <2> QED  BY <2>1, <2>2, <2>3 DEF Ordered
<1>8. CASE r = p
  <2>1. q \in DOMAIN t /\ u[q] = t[q] /\ u[r].key = key
    BY <1>1, <1>6, <1>8 DEF Joins
  <2>2. PICK i \in 1 .. Len(p) : q = SubSeq(p, 1, i - 1) /\ p[i] = d
    BY <1>5, <1>8, BelowWay
  <2>3. /\ Compare(key, t[q].key, strcmp(key)) # 0
        /\ d = Turn(Compare(key, t[q].key, strcmp(key)))
    BY <1>3, <2>2 DEF Leads
  <2>4. t[q].key \in CString  BY <2>1 DEF Tree
  <2>5. key # t[q].key  BY <1>3, <2>3, <2>4, StrcmpIs
  <2>6. Beyond(d, t[q].key, key)  BY <1>3, <2>3, <2>4, <2>5, TurnIs
  <2> QED  BY <2>1, <2>6
<1>9. CASE q # p /\ r # p
  <2>1. q \in DOMAIN t /\ r \in DOMAIN t /\ u[q] = t[q] /\ u[r] = t[r]
    BY <1>1, <1>9 DEF Joins
  <2> QED  BY <2>1 DEF Ordered
<1> QED  BY <1>7, <1>8, <1>9

(* The node that moves up belongs in its new place. *)
LEMMA LastBeyond ==
  ASSUME NEW t, NEW K \in SUBSET CString, Tree(t, K), Ordered(t), NEW p \in DOMAIN t,
         NEW side \in Sides, NEW back \in Sides, side # back,
         NEW m, LastNode(t, p, side, back, m),
         NEW r \in DOMAIN t, r # m, NEW d \in Sides, Below(p, d, r)
  PROVE  Beyond(d, t[m].key, t[r].key)
<1>0. /\ p \in Place /\ m \in Place /\ r \in Place /\ m \in DOMAIN t /\ Below(p, side, m)
      /\ t[p].key \in CString /\ t[m].key \in CString /\ t[r].key \in CString
  BY DEF Tree, Grown, LastNode
<1>1. Len(p) \in Nat /\ Len(m) \in Nat /\ Len(r) \in Nat  BY <1>0 DEF Place
<1>2. CASE d # side
  <2>1. Beyond(side, t[p].key, t[m].key) /\ Beyond(d, t[p].key, t[r].key)
    BY <1>0 DEF Ordered
  <2>2. Beyond(d, t[m].key, t[p].key)  BY <1>0, <1>2, <2>1, BeyondOrders
  <2> QED  BY <1>0, <2>1, <2>2, BeyondOrders
<1>3. CASE d = side
  <2>1. /\ Len(p) < Len(m) /\ m[Len(p) + 1] = side /\ \A j \in 1 .. Len(p) : p[j] = m[j]
        /\ Len(p) < Len(r) /\ r[Len(p) + 1] = side /\ \A j \in 1 .. Len(p) : p[j] = r[j]
    BY <1>0, <1>3, BelowIs
  <2>2. \A j \in 1 .. Len(p) + 1 : m[j] = r[j]
    <3>1. \A j \in 1 .. Len(p) + 1 : j \in 1 .. Len(p) \/ j = Len(p) + 1  BY <1>1
    <3> QED  BY <2>1, <3>1
  <2> DEFINE D == {j \in Nat : j \in 1 .. Len(m) /\ j \in 1 .. Len(r) /\ m[j] # r[j]}
  <2>3. CASE D = {}
    <3>1. ASSUME NEW j, j \in 1 .. Len(m), j \in 1 .. Len(r) PROVE m[j] = r[j]
      <4>1. j \in Nat  BY <3>1
      <4> QED  BY <2>3, <3>1, <4>1
    <3> HIDE DEF D
    <3>2. CASE Len(m) <= Len(r)
      <4>1. \A j \in 1 .. Len(m) : j \in 1 .. Len(r)  BY <1>1, <3>2
      <4>2. Begins(m, r)  BY <3>1, <3>2, <4>1 DEF Begins
      <4>3. PICK e \in Sides : Below(m, e, r)  BY <1>0, <4>2, OnOneSide
      <4>4. Append(m, e) \in DOMAIN t  BY <1>0, <4>3, AncestorIs DEF Tree
      <4>5. e = side  BY <4>4 DEF LastNode, Sides
      <4> QED  BY <1>0, <1>3, <4>3, <4>5 DEF Ordered
    <3>3. CASE Len(r) < Len(m)
      <4>1. PICK k : k = Len(r) + 1  OBVIOUS
      <4>2. k \in Len(p) + 2 .. Len(m) /\ \A j \in 1 .. Len(r) : j \in 1 .. Len(m)
        BY <1>1, <2>1, <3>3, <4>1
      <4>3. m[k] = back  BY <4>2 DEF LastNode
      <4>4. \A j \in 1 .. Len(r) : r[j] = m[j]  BY <3>1, <4>2
      <4>5. Below(r, back, m)  BY <1>0, <3>3, <4>1, <4>3, <4>4, BelowIs
      <4>6. Beyond(back, t[r].key, t[m].key)  BY <1>0, <4>5 DEF Ordered
      <4> QED  BY <1>0, <1>3, <4>6, BeyondOrders
    <3> QED  BY <1>1, <3>2, <3>3
  <2>4. CASE D # {}
    <3>1. PICK k \in D : \A j \in D : k <= j
      <4>1. D \in SUBSET Nat  OBVIOUS
      <4> QED  BY <2>4, <4>1, LeastNat
    <3>2. /\ k \in Nat \ {0} /\ k \in 1 .. Len(m) /\ k \in 1 .. Len(r) /\ m[k] # r[k]
          /\ k \in 1 .. Len(m) + 1 /\ k \in 1 .. Len(r) + 1
      BY <1>1
    <3>3. ASSUME NEW j \in 1 .. k - 1 PROVE m[j] = r[j]
      <4> SUFFICES ASSUME m[j] # r[j] PROVE FALSE  OBVIOUS
      <4>1. j \in Nat /\ j \in 1 .. Len(m) /\ j \in 1 .. Len(r) /\ ~ (k <= j)
        BY <1>1, <3>2
      <4> QED  BY <3>1, <4>1
    <3> HIDE DEF D
    <3>4. k \in Len(p) + 2 .. Len(m)
      <4>1. ~ (k \in 1 .. Len(p) + 1)  BY <2>2, <3>2
      <4> QED  BY <1>1, <3>2, <4>1
    <3>5. m[k] = back /\ m[k] \in Sides /\ r[k] \in Sides
      BY <1>0, <3>2, <3>4, ElementOfSeq DEF LastNode, Place
    <3>6. r[k] = side  BY <3>2, <3>5 DEF Sides
    <3>7. PICK c : c = SubSeq(r, 1, k - 1)  OBVIOUS
    <3>8. c \in DOMAIN t /\ Below(c, side, r)
      BY <1>0, <3>2, <3>6, <3>7, WayBelow DEF Tree, Grown
    <3>9. c = SubSeq(m, 1, k - 1)
      <4>1. PICK x : x = SubSeq(m, 1, k - 1)  OBVIOUS
      <4>2. x \in Place /\ Len(x) = k - 1 /\ \A j \in 1 .. k - 1 : x[j] = m[j]
        BY <1>0, <3>2, <4>1, UptoIs
      <4>3. c \in Place /\ Len(c) = k - 1 /\ \A j \in 1 .. k - 1 : c[j] = r[j]
        BY <1>0, <3>2, <3>7, UptoIs
      <4>4. x = c  BY <3>3, <4>2, <4>3, SeqEqual DEF Place
      <4> QED  BY <4>1, <4>4
    <3>10. Below(c, back, m)  BY <1>0, <3>2, <3>5, <3>9, WayBelow
    <3>11. /\ Beyond(side, t[c].key, t[r].key) /\ Beyond(back, t[c].key, t[m].key)
           /\ t[c].key \in CString
      BY <1>0, <3>8, <3>10 DEF Ordered, Tree
    <3>12. Beyond(side, t[m].key, t[c].key)  BY <1>0, <3>11, BeyondOrders
    <3> QED  BY <1>0, <1>3, <3>11, <3>12, BeyondOrders
  <2> QED  BY <2>3, <2>4
<1> QED  BY <1>2, <1>3

LEMMA DeleteOrdered ==
  ASSUME NEW t, NEW K \in SUBSET CString, Tree(t, K), Ordered(t), NEW p \in DOMAIN t,
         NEW u, u = Delete(t, p)
  PROVE  Ordered(u)
<1>0. Grown(t)  BY DEF Tree
<1>1. PICK m : m = Spare(t, p)  OBVIOUS
<1>2. /\ \A v : v \in DOMAIN u <=> \E r \in DOMAIN t \ {p} : v = Moved(p, m, r)
      /\ \A r \in DOMAIN t \ {p} : u[Moved(p, m, r)] = t[r]
  BY <1>1, DeleteIs
<1> SUFFICES ASSUME NEW v \in DOMAIN u, NEW w \in DOMAIN u, NEW d \in Sides, Below(v, d, w)
             PROVE  Beyond(d, u[v].key, u[w].key)
  BY DEF Ordered
<1>3. PICK r \in DOMAIN t \ {p} : v = Moved(p, m, r) /\ u[v] = t[r]  BY <1>2
<1>4. PICK s \in DOMAIN t \ {p} : w = Moved(p, m, s) /\ u[w] = t[s]  BY <1>2
<1>5. CASE m = p /\ \A e \in Sides : Append(p, e) \notin DOMAIN t
  <2>1. v = r /\ w = s  BY <1>0, <1>3, <1>4, <1>5, LeafIs
  <2> QED  BY <1>3, <1>4, <2>1 DEF Ordered
<1>6. CASE \E side \in Sides, back \in Sides :
               side # back /\ LastNode(t, p, side, back, m)
  <2>1. PICK side \in Sides, back \in Sides :
               side # back /\ LastNode(t, p, side, back, m)
    BY <1>6
  <2>2. /\ p \in Place /\ m \in Place /\ r \in Place /\ s \in Place
        /\ Below(p, side, m)
    BY <1>0, <2>1 DEF Grown, LastNode
  <2>3. v \in Place /\ Climbs(p, m, side, r, v)  BY <1>0, <1>3, <2>1, MovedIs
  <2>4. w \in Place /\ Climbs(p, m, side, s, w)  BY <1>0, <1>4, <2>1, MovedIs
  <2>5. IF r = m THEN Below(p, d, s) ELSE Below(r, d, s)
    BY <2>2, <2>3, <2>4, ClimbsBeside
  <2>6. CASE r # m  BY <1>3, <1>4, <2>5, <2>6 DEF Ordered
  <2>7. CASE r = m
    <3>1. s # m
      <4> SUFFICES ASSUME s = m PROVE FALSE  OBVIOUS
      <4>1. v = w  BY <1>3, <1>4, <2>7
      <4>2. Len(v) < Len(w) /\ Len(w) \in Nat  BY <2>3, <2>4, BelowIs DEF Place
      <4> QED  BY <4>1, <4>2
    <3>2. Beyond(d, t[m].key, t[s].key)  BY <2>1, <2>5, <2>7, <3>1, LastBeyond
    <3> QED  BY <1>3, <1>4, <2>7, <3>2
  <2> QED  BY <2>6, <2>7
<1> QED  BY <1>0, <1>1, <1>5, <1>6, SpareIs

(* An ordered tree is what the file is saved from in ascending order. *)
LEMMA OrderedSorted ==
  ASSUME NEW tree, NEW K \in SUBSET CString, Tree(tree.root, K), Ordered(tree.root)
  PROVE  Sorted(tree)
<1>1. PICK t : t = tree.root  OBVIOUS
<1>2. "left" \in Sides /\ "right" \in Sides  BY DEF Sides
<1> SUFFICES ASSUME NEW p \in DOMAIN t, NEW q \in DOMAIN t, Precedes(t, p, q)
             PROVE  Compare(t[p].key, t[q].key, strcmp(t[p].key)) < 0
  BY <1>1 DEF Sorted
<1>3. \A x \in DOMAIN t : t[x].key \in CString  BY <1>1 DEF Tree
<1>4. Before(t[p].key, t[q].key)
  <2>1. CASE Below(p, "right", q)  BY <1>1, <1>2, <2>1 DEF Ordered, Beyond
  <2>2. CASE Below(q, "left", p)  BY <1>1, <1>2, <2>2 DEF Ordered, Beyond
  <2>3. CASE \E c \in DOMAIN t : Below(c, "left", p) /\ Below(c, "right", q)
    <3>1. PICK c \in DOMAIN t : Below(c, "left", p) /\ Below(c, "right", q)  BY <2>3
    <3>2. Beyond("left", t[c].key, t[p].key) /\ Beyond("right", t[c].key, t[q].key)
      BY <1>1, <1>2, <3>1 DEF Ordered
    <3>3. Before(t[p].key, t[c].key) /\ Before(t[c].key, t[q].key)  BY <3>2 DEF Beyond
    <3> QED  BY <1>3, <3>3, BeforeTransitive
  <2> QED  BY <2>1, <2>2, <2>3 DEF Precedes
<1> QED  BY <1>3, <1>4, StrcmpIs

-----------------------------------------------------------------------------
(* What the lookups answer *)

(* The lookups of the other keys answer in u what they do in t. *)
Keeps(t, u, K, key) ==
    \A k \in K : k # key => /\ Has(u, k) <=> Has(t, k)
                            /\ Has(t, k) => Find(u, k) = Find(t, k)

LEMMA PutAnswers ==
  ASSUME NEW tree, NEW K \in SUBSET CString, Shape(tree, K), Ordered(tree.root), Alone(K),
         NEW key \in K, NEW data, NEW u, u = Put(tree, key, data).root
  PROVE  /\ Ordered(u) /\ Has(u, key) /\ Find(u, key) = data
         /\ Keeps(tree.root, u, K, key)
<1>1. PICK t : t = tree.root  OBVIOUS
<1>2. PICK p : p = End(t, key, memcmp(key))  OBVIOUS
<1>3. PICK node : node = [key |-> key, data |-> data]  OBVIOUS
<1>4. NodeOf(node, K) /\ node.key = key /\ node.data = data  BY <1>3 DEF NodeOf
<1>5. u = With(t, p, node)  BY <1>1, <1>2, <1>3 DEF Put
<1>6. Tree(t, K) /\ Ordered(t)  BY <1>1 DEF Shape
<1>7. Tree(u, K) /\ Joins(t, p, node, u)  BY <1>2, <1>4, <1>5, <1>6, PutFound
<1>8. Ordered(u)  BY <1>2, <1>4, <1>5, <1>6, PutOrdered
<1>9. p \in DOMAIN t => t[p].key = key  BY <1>2, <1>6, PutPlace
<1>10. p \in DOMAIN u /\ u[p].key = key /\ u[p].data = data  BY <1>4, <1>7 DEF Joins
<1>11. Has(u, key) /\ Find(u, key) = data  BY <1>7, <1>8, <1>10, HasIs
<1>12. ASSUME NEW k \in K, k # key
       PROVE  /\ Has(u, k) <=> Has(t, k)
              /\ Has(t, k) => Find(u, k) = Find(t, k)
  <2>1. k \in CString  OBVIOUS
  <2>2. \A q \in DOMAIN t : t[q].key = k => q \in DOMAIN u /\ u[q] = t[q]
    BY <1>7, <1>9, <1>12 DEF Joins
  <2>3. \A q \in DOMAIN u : u[q].key = k => q \in DOMAIN t /\ u[q] = t[q]
    BY <1>7, <1>10, <1>12 DEF Joins
  <2>4. Has(u, k) <=> Has(t, k)  BY <1>6, <1>7, <1>8, <2>1, <2>2, <2>3, HasIs
  <2>5. ASSUME Has(t, k) PROVE Find(u, k) = Find(t, k)
    <3>1. PICK q \in DOMAIN t : t[q].key = k  BY <1>6, <2>1, <2>5, HasIs
    <3>2. Find(t, k) = t[q].data  BY <1>6, <2>1, <3>1, HasIs
    <3>3. Find(u, k) = u[q].data  BY <1>7, <1>8, <2>1, <2>2, <3>1, HasIs
    <3> QED  BY <2>2, <3>1, <3>2, <3>3
  <2> QED  BY <2>4, <2>5
<1> QED  BY <1>1, <1>8, <1>11, <1>12 DEF Keeps

LEMMA RemoveAnswers ==
  ASSUME NEW tree, NEW K \in SUBSET CString, Shape(tree, K), Ordered(tree.root),
         NEW key \in K, NEW u, u = RemoveNode(tree, key).root
  PROVE  Ordered(u) /\ ~ Has(u, key) /\ Keeps(tree.root, u, K, key)
<1>1. PICK t : t = tree.root  OBVIOUS
<1>2. PICK p : p = End(t, key, strcmp(key))  OBVIOUS
<1>3. Tree(t, K) /\ Ordered(t)  BY <1>1 DEF Shape
<1>4. CASE p \notin DOMAIN t
  <2>1. u = t  BY <1>1, <1>2, <1>4 DEF RemoveNode
  <2>2. ~ Has(u, key)  BY <1>2, <1>4, <2>1 DEF Has
  <2> QED  BY <1>1, <1>3, <2>1, <2>2 DEF Keeps
<1>5. CASE p \in DOMAIN t
  <2>1. u = Delete(t, p)  BY <1>1, <1>2, <1>5 DEF RemoveNode
  <2>2. PICK m : m = Spare(t, p)  OBVIOUS
  <2>3. /\ \A v : v \in DOMAIN u <=> \E r \in DOMAIN t \ {p} : v = Moved(p, m, r)
        /\ \A r \in DOMAIN t \ {p} : u[Moved(p, m, r)] = t[r]
    BY <1>3, <1>5, <2>1, <2>2, DeleteIs
  <2>4. Tree(u, K)  BY <1>3, <1>5, <2>1, DeleteIs
  <2>5. Ordered(u)  BY <1>3, <1>5, <2>1, DeleteOrdered
  <2>6. Has(t, key)  BY <1>2, <1>5 DEF Has
  <2>7. t[p].key = key  BY <1>2, <1>3, <2>6, FoundIs
  <2>8. \A r \in DOMAIN t \ {p} : t[r].key # key  BY <1>3, <1>5, <2>7, OneHas
  <2>9. ~ Has(u, key)
    <3> SUFFICES ASSUME Has(u, key) PROVE FALSE  OBVIOUS
    <3>1. PICK v \in DOMAIN u : u[v].key = key  BY <2>4, <2>5, HasIs
    <3>2. PICK r \in DOMAIN t \ {p} : u[v] = t[r]  BY <2>3, <3>1
    <3> QED  BY <2>8, <3>1, <3>2
  <2>10. ASSUME NEW k \in K, k # key
         PROVE  /\ Has(u, k) <=> Has(t, k)
                /\ Has(t, k) => Find(u, k) = Find(t, k)
    <3>1. k \in CString  OBVIOUS
    <3>2. ASSUME Has(t, k) PROVE Has(u, k) /\ Find(u, k) = Find(t, k)
      <4>1. PICK r \in DOMAIN t : t[r].key = k /\ Find(t, k) = t[r].data
        BY <1>3, <3>1, <3>2, HasIs
      <4>2. r \in DOMAIN t \ {p}  BY <2>7, <2>10, <4>1
      <4>3. PICK v \in DOMAIN u : u[v] = t[r]  BY <2>3, <4>2
      <4>4. u[v].key = k /\ u[v].data = t[r].data  BY <4>1, <4>3
      <4> QED  BY <2>4, <2>5, <3>1, <4>1, <4>4, HasIs
    <3>3. ASSUME Has(u, k) PROVE Has(t, k)
      <4>1. PICK v \in DOMAIN u : u[v].key = k  BY <2>4, <2>5, <3>1, <3>3, HasIs
      <4>2. PICK r \in DOMAIN t : u[v] = t[r]  BY <2>3, <4>1
      <4> QED  BY <1>3, <3>1, <4>1, <4>2, HasIs
    <3> QED  BY <3>2, <3>3
  <2> QED  BY <1>1, <2>5, <2>9, <2>10 DEF Keeps
<1> QED  BY <1>4, <1>5

LEMMA StoreAnswers ==
  ASSUME NEW t, NEW K \in SUBSET CString, Tree(t, K), Ordered(t), NEW key \in K,
         Has(t, key), NEW data, NEW u, u = Store(t, key, data)
  PROVE  Ordered(u) /\ Has(u, key) /\ Find(u, key) = data /\ Keeps(t, u, K, key)
<1>1. PICK p : p = End(t, key, strcmp(key))  OBVIOUS
<1>2. /\ DOMAIN u = DOMAIN t /\ p \in DOMAIN t
      /\ u[p] = [key |-> t[p].key, data |-> data]
      /\ \A q \in DOMAIN t : u[q].key = t[q].key /\ (q # p => u[q] = t[q])
      /\ Tree(u, K)
  BY <1>1, StoreIs
<1>3. Ordered(u)  BY <1>2 DEF Ordered
<1>4. t[p].key = key  BY <1>1, FoundIs
<1>5. u[p].key = key /\ u[p].data = data  BY <1>2, <1>4
<1>6. Has(u, key) /\ Find(u, key) = data  BY <1>2, <1>3, <1>5, HasIs
<1>7. ASSUME NEW k \in K, k # key
      PROVE  /\ Has(u, k) <=> Has(t, k)
             /\ Has(t, k) => Find(u, k) = Find(t, k)
  <2>1. k \in CString  OBVIOUS
  <2>2. Has(u, k) <=> Has(t, k)  BY <1>2, <1>3, <2>1, HasIs
  <2>3. ASSUME Has(t, k) PROVE Find(u, k) = Find(t, k)
    <3>1. PICK q \in DOMAIN t : t[q].key = k  BY <2>1, <2>3, HasIs
    <3>2. u[q] = t[q] /\ u[q].key = k  BY <1>2, <1>4, <1>7, <3>1
    <3>3. Find(t, k) = t[q].data  BY <2>1, <3>1, HasIs
    <3>4. Find(u, k) = u[q].data  BY <1>2, <1>3, <2>1, <3>1, <3>2, HasIs
    <3> QED  BY <3>2, <3>3, <3>4
  <2> QED  BY <2>2, <2>3
<1> QED  BY <1>3, <1>6, <1>7 DEF Keeps

-----------------------------------------------------------------------------
(* The configuration, where no name and no key of a section begins with another *)

PrefixFree ==
    /\ \A a, b \in Names : IsPrefix(a, b) => a = b
    /\ \A name \in Names : \A a, b \in Keys[name] : IsPrefix(a, b) => a = b

LEMMA PrefixAlone ==
  PrefixFree => Alone(Names) /\ \A name \in Names : Alone(Keys[name])
<1>1. ASSUME NEW K \in SUBSET CString, \A a, b \in K : IsPrefix(a, b) => a = b
      PROVE  Alone(K)
  <2>1. \A a, b \in K : Begins(a, b) <=> IsPrefix(a, b)
    <3>1. \A a, b \in K : a \in CString /\ b \in CString  OBVIOUS
    <3> QED  BY <3>1, BeginsIs DEF CString
  <2> QED  BY <1>1, <2>1 DEF Alone
<1> QED  BY <1>1, Strings DEF PrefixFree

SectionsSearch(c) ==
    /\ SectionsShape(c) /\ Ordered(c.root)
    /\ \A name \in Names : Has(c.root, name) => Ordered(Find(c.root, name).root)

(* What the program has last set is what it gets. *)
Answers(c) ==
    /\ expected = [name \in Names |-> [key \in Keys[name] |-> expected[name][key]]]
    /\ \A name \in Names : \A key \in Keys[name] :
          GetString(c, name, key) = expected[name][key]

LEMMA EmptyOrdered ==
  ASSUME NEW key PROVE Ordered(Empty.root) /\ ~ Has(Empty.root, key)
<1>1. DOMAIN Empty.root = {}  BY DEF Empty
<1> QED  BY <1>1 DEF Ordered, Has

(* A new section hides no other one, and has no key. *)
LEMMA InsertSectionSearch ==
  ASSUME PrefixFree, NEW c, SectionsSearch(c), NEW name \in Names,
         NEW d, d = InsertSection(c, name)
  PROVE  /\ SectionsSearch(d) /\ Has(d.root, name) /\ Find(d.root, name) = Empty
         /\ Keeps(c.root, d.root, Names, name)
<1>1. Shape(c, Names) /\ Ordered(c.root)  BY DEF SectionsSearch, SectionsShape
<1>2. d = Put(c, name, Empty)  BY DEF InsertSection
<1>3. Alone(Names) /\ Names \in SUBSET CString  BY PrefixAlone, Strings
<1>4. /\ Ordered(d.root) /\ Has(d.root, name) /\ Find(d.root, name) = Empty
      /\ Keeps(c.root, d.root, Names, name)
  BY <1>1, <1>2, <1>3, PutAnswers
<1>5. SectionsShape(d)  BY InsertSectionShape DEF SectionsSearch
<1>6. ASSUME NEW other \in Names, Has(d.root, other)
      PROVE  Ordered(Find(d.root, other).root)
  <2>1. CASE other = name  BY <1>4, <2>1, EmptyOrdered
  <2>2. CASE other # name
    <3>1. Has(c.root, other) /\ Find(d.root, other) = Find(c.root, other)
      BY <1>4, <1>6, <2>2 DEF Keeps
    <3> QED  BY <3>1 DEF SectionsSearch
  <2> QED  BY <2>1, <2>2
<1> QED  BY <1>4, <1>5, <1>6 DEF SectionsSearch

LEMMA WithinSearch ==
  ASSUME NEW c, SectionsSearch(c), NEW name \in Names, Has(c.root, name),
         NEW section, Shape(section, Keys[name]), Ordered(section.root),
         NEW d, d = Within(c, name, section)
  PROVE  /\ SectionsSearch(d) /\ Has(d.root, name) /\ Find(d.root, name) = section
         /\ Keeps(c.root, d.root, Names, name)
<1>1. Shape(c, Names) /\ Ordered(c.root)  BY DEF SectionsSearch, SectionsShape
<1>2. PICK u : u = Store(c.root, name, section)  OBVIOUS
<1>3. c = [numNodes |-> Cardinality(DOMAIN c.root), root |-> c.root]  BY <1>1 DEF Shape
<1>4. d = [c EXCEPT !.root = u]  BY <1>2 DEF Within
<1>5. d.root = u  BY <1>3, <1>4
<1>6. Names \in SUBSET CString /\ Tree(c.root, Names)  BY <1>1, Strings DEF Shape
<1>7. /\ Ordered(d.root) /\ Has(d.root, name) /\ Find(d.root, name) = section
      /\ Keeps(c.root, d.root, Names, name)
  BY <1>1, <1>2, <1>5, <1>6, StoreAnswers
<1>8. SectionsShape(d)  BY WithinShape DEF SectionsSearch
<1>9. ASSUME NEW other \in Names, Has(d.root, other)
      PROVE  Ordered(Find(d.root, other).root)
  <2>1. CASE other = name  BY <1>7, <2>1
  <2>2. CASE other # name
    <3>1. Has(c.root, other) /\ Find(d.root, other) = Find(c.root, other)
      BY <1>7, <1>9, <2>2 DEF Keeps
    <3> QED  BY <3>1 DEF SectionsSearch
  <2> QED  BY <2>1, <2>2
<1> QED  BY <1>7, <1>8, <1>9 DEF SectionsSearch

KeepsOthers(c, d, name) == Keeps(c.root, d.root, Names, name)

(* The keys of the other sections keep their values, *)
LEMMA OtherSections ==
  ASSUME NEW c, NEW d, NEW name, KeepsOthers(c, d, name)
  PROVE  \A other \in Names : \A key \in Keys[other] :
             other # name => GetString(d, other, key) = GetString(c, other, key)
<1> SUFFICES ASSUME NEW other \in Names, NEW key \in Keys[other], other # name
             PROVE  GetString(d, other, key) = GetString(c, other, key)
  OBVIOUS
<1>1. /\ Has(d.root, other) <=> Has(c.root, other)
      /\ Has(c.root, other) => Find(d.root, other) = Find(c.root, other)
  BY DEF KeepsOthers, Keeps
<1>2. CASE Has(c.root, other)
  <2>1. Has(d.root, other) /\ Find(d.root, other) = Find(c.root, other)
    BY <1>1, <1>2
  <2> QED  BY <1>2, <2>1 DEF GetString
<1>3. CASE ~ Has(c.root, other)  BY <1>1, <1>3 DEF GetString
<1> QED  BY <1>2, <1>3

(* and so do the other keys of a section that is there. *)
LEMMA OtherKeys ==
  ASSUME NEW c, NEW d, NEW name, Has(c.root, name), Has(d.root, name),
         NEW key, Keeps(Find(c.root, name).root, Find(d.root, name).root, Keys[name], key),
         NEW k \in Keys[name], k # key
  PROVE  GetString(d, name, k) = GetString(c, name, k)
<1>1. PICK t : t = Find(c.root, name).root  OBVIOUS
<1>2. PICK u : u = Find(d.root, name).root  OBVIOUS
<1>3. Has(u, k) <=> Has(t, k)  BY <1>1, <1>2 DEF Keeps
<1>4. Has(t, k) => Find(u, k) = Find(t, k)  BY <1>1, <1>2 DEF Keeps
<1>5. GetString(d, name, k) = IF Has(u, k) THEN Find(u, k) ELSE NoValue
  BY <1>2 DEF GetString
<1>6. GetString(c, name, k) = IF Has(t, k) THEN Find(t, k) ELSE NoValue
  BY <1>1 DEF GetString
<1> QED  BY <1>3, <1>4, <1>5, <1>6

SearchInv == SectionsSearch(config) /\ Answers(config)

LEMMA SearchInit == ASSUME PrefixFree PROVE Init => SearchInv
<1> SUFFICES ASSUME Init PROVE SearchInv  OBVIOUS
<1>1. SectionsSearch(Empty)
  <2>1. DOMAIN Empty.root = {}  BY DEF Empty
  <2>2. SectionsShape(Empty)  BY <2>1, EmptyShape DEF SectionsShape
  <2> QED  BY <2>2, EmptyOrdered DEF SectionsSearch
<1>2. /\ SectionsSearch(config) /\ Find(config.root, Default) = Empty
      /\ Keeps(Empty.root, config.root, Names, Default)
  BY <1>1, StringsAssumption, InsertSectionSearch DEF Init
<1>3. expected = [name \in Names |-> [key \in Keys[name] |-> NoValue]]
  BY DEF Init, NoKeys
<1>4. \A name \in Names : \A key \in Keys[name] : GetString(config, name, key) = NoValue
  <2> SUFFICES ASSUME NEW name \in Names, NEW key \in Keys[name]
               PROVE  GetString(config, name, key) = NoValue
    OBVIOUS
  <2>1. CASE name = Default  BY <1>2, <2>1, EmptyOrdered DEF GetString
  <2>2. CASE name # Default
    <3>1. ~ Has(config.root, name)  BY <1>2, <2>2, EmptyOrdered DEF Keeps
    <3> QED  BY <3>1 DEF GetString
  <2> QED  BY <2>1, <2>2
<1>5. \A name \in Names : expected[name] = [key \in Keys[name] |-> NoValue]  BY <1>3
<1>6. \A name \in Names : \A key \in Keys[name] : expected[name][key] = NoValue  BY <1>5
<1>7. expected = [name \in Names |-> [key \in Keys[name] |-> expected[name][key]]]
  BY <1>3, <1>6
<1> QED  BY <1>2, <1>4, <1>6, <1>7 DEF SearchInv, Answers

Sets(name, key, value) == expected' = [expected EXCEPT ![name][key] = value]

(* The history after a step *)
LEMMA ExpectedSection ==
  ASSUME Answers(config), NEW name \in Names, NEW f,
         f = [key \in Keys[name] |-> f[key]],
         expected' = [expected EXCEPT ![name] = f]
  PROVE  /\ expected' = [n \in Names |-> [key \in Keys[n] |-> expected'[n][key]]]
         /\ expected'[name] = f
         /\ \A n \in Names : n # name => expected'[n] = expected[n]
<1>1. PICK e : e = expected  OBVIOUS
<1>2. PICK g : g = expected'  OBVIOUS
<1>3. e = [n \in Names |-> [key \in Keys[n] |-> e[n][key]]]  BY <1>1 DEF Answers
<1>4. DOMAIN e = Names /\ \A n \in Names : e[n] = [key \in Keys[n] |-> e[n][key]]
  BY <1>3
<1>5. g = [n \in Names |-> IF n = name THEN f ELSE e[n]]  BY <1>1, <1>2, <1>4
<1>6. g[name] = f /\ \A n \in Names : n # name => g[n] = e[n]  BY <1>5
<1>7. \A n \in Names : g[n] = [key \in Keys[n] |-> g[n][key]]
  <2> SUFFICES ASSUME NEW n \in Names PROVE g[n] = [key \in Keys[n] |-> g[n][key]]
    OBVIOUS
  <2>1. CASE n = name
    <3>1. g[n] = f  BY <1>6, <2>1
    <3> QED  BY <2>1, <3>1
  <2>2. CASE n # name
    <3>1. g[n] = e[n]  BY <1>6, <2>2
    <3> QED  BY <1>4, <3>1
  <2> QED  BY <2>1, <2>2
<1>8. g = [n \in Names |-> g[n]]  BY <1>5
<1>9. g = [n \in Names |-> [key \in Keys[n] |-> g[n][key]]]  BY <1>7, <1>8
<1> QED  BY <1>1, <1>2, <1>6, <1>9

LEMMA ExpectedKey ==
  ASSUME Answers(config), NEW name \in Names, NEW key \in Keys[name], NEW value,
         Sets(name, key, value)
  PROVE  /\ expected' = [n \in Names |-> [k \in Keys[n] |-> expected'[n][k]]]
         /\ expected'[name][key] = value
         /\ \A k \in Keys[name] : k # key => expected'[name][k] = expected[name][k]
         /\ \A n \in Names : n # name => expected'[n] = expected[n]
<1>1. PICK h : h = expected[name]  OBVIOUS
<1>2. PICK f : f = [h EXCEPT ![key] = value]  OBVIOUS
<1>3. h = [k \in Keys[name] |-> h[k]]
  <2>1. expected = [n \in Names |-> [k \in Keys[n] |-> expected[n][k]]]  BY DEF Answers
  <2>2. expected[name] = [k \in Keys[name] |-> expected[name][k]]  BY <2>1
  <2> QED  BY <1>1, <2>2
<1>4. f = [k \in Keys[name] |-> IF k = key THEN value ELSE h[k]]  BY <1>2, <1>3
<1>5. /\ f = [k \in Keys[name] |-> f[k]] /\ f[key] = value
      /\ \A k \in Keys[name] : k # key => f[k] = h[k]
  BY <1>4
<1>6. expected' = [expected EXCEPT ![name] = f]  BY <1>1, <1>2 DEF Sets
<1>7. /\ expected' = [n \in Names |-> [k \in Keys[n] |-> expected'[n][k]]]
      /\ expected'[name] = f
      /\ \A n \in Names : n # name => expected'[n] = expected[n]
  BY <1>5, <1>6, ExpectedSection
<1> QED  BY <1>1, <1>5, <1>7

LEMMA HeaderStep ==
  ASSUME PrefixFree, SearchInv, NEW name \in Names, Header(name)
  PROVE  SearchInv'
<1>1. /\ SectionsSearch(config') /\ Has(config'.root, name)
      /\ Find(config'.root, name) = Empty
      /\ Keeps(config.root, config'.root, Names, name)
  BY InsertSectionSearch DEF SearchInv, Header
<1>2. NoKeys(name) = [key \in Keys[name] |-> NoKeys(name)[key]]
      /\ \A key \in Keys[name] : NoKeys(name)[key] = NoValue
  BY DEF NoKeys
<1>3. expected' = [expected EXCEPT ![name] = NoKeys(name)]  BY DEF Header
<1>4. /\ expected' = [n \in Names |-> [key \in Keys[n] |-> expected'[n][key]]]
      /\ expected'[name] = NoKeys(name)
      /\ \A n \in Names : n # name => expected'[n] = expected[n]
  BY <1>2, <1>3, ExpectedSection DEF SearchInv
<1>5. ASSUME NEW n \in Names, NEW key \in Keys[n]
      PROVE  GetString(config', n, key) = expected'[n][key]
  <2>1. CASE n = name
    <3>1. GetString(config', n, key) = NoValue  BY <1>1, <2>1, EmptyOrdered DEF GetString
    <3> QED  BY <1>2, <1>4, <2>1, <3>1
  <2>2. CASE n # name
    <3>1. PICK d : d = config'  OBVIOUS
    <3>2. GetString(d, n, key) = GetString(config, n, key)
      <4>1. PICK b : b = config  OBVIOUS
      <4>2. KeepsOthers(b, d, name)  BY <1>1, <3>1, <4>1 DEF KeepsOthers
      <4>3. GetString(d, n, key) = GetString(b, n, key)  BY <2>2, <4>2, OtherSections
      <4> QED  BY <4>1, <4>3
    <3>3. GetString(config, n, key) = expected[n][key]  BY DEF SearchInv, Answers
    <3> QED  BY <1>4, <2>2, <3>1, <3>2, <3>3
  <2> QED  BY <2>1, <2>2
<1> QED  BY <1>1, <1>4, <1>5 DEF SearchInv, Answers

(* A change of one key in a section that is there *)
LEMMA KeyStep ==
  ASSUME SearchInv, NEW c, SectionsSearch(c), NEW name \in Names, Has(c.root, name),
         \A n \in Names : \A k \in Keys[n] : GetString(c, n, k) = expected[n][k],
         NEW key \in Keys[name], NEW value, NEW section, Shape(section, Keys[name]),
         Ordered(section.root), Keeps(Find(c.root, name).root, section.root, Keys[name], key),
         value = IF Has(section.root, key) THEN Find(section.root, key) ELSE NoValue,
         config' = Within(c, name, section), Sets(name, key, value)
  PROVE  SearchInv'
<1>1. /\ SectionsSearch(config') /\ Has(config'.root, name)
      /\ Find(config'.root, name) = section
      /\ Keeps(c.root, config'.root, Names, name)
  BY WithinSearch
<1>2. /\ expected' = [n \in Names |-> [k \in Keys[n] |-> expected'[n][k]]]
      /\ expected'[name][key] = value
      /\ \A k \in Keys[name] : k # key => expected'[name][k] = expected[name][k]
      /\ \A n \in Names : n # name => expected'[n] = expected[n]
  BY ExpectedKey DEF SearchInv
<1>3. ASSUME NEW n \in Names, NEW k \in Keys[n]
      PROVE  GetString(config', n, k) = expected'[n][k]
  <2>1. CASE n # name
    <3>1. PICK d : d = config'  OBVIOUS
    <3>2. KeepsOthers(c, d, name)  BY <1>1, <3>1 DEF KeepsOthers
    <3>3. GetString(d, n, k) = GetString(c, n, k)  BY <2>1, <3>2, OtherSections
    <3> QED  BY <1>2, <2>1, <3>1, <3>3
  <2>2. CASE n = name /\ k # key
    <3>1. PICK d : d = config'  OBVIOUS
    <3>2. PICK t : t = Find(d.root, name).root  OBVIOUS
    <3>3. Has(d.root, name) /\ Keeps(Find(c.root, name).root, t, Keys[name], key)
      BY <1>1, <3>1, <3>2
    <3>4. GetString(d, name, k) = GetString(c, name, k)
      BY <2>2, <3>2, <3>3, OtherKeys
    <3> QED  BY <1>2, <2>2, <3>1, <3>4
  <2>3. CASE n = name /\ k = key
    <3>1. GetString(config', n, k) = value  BY <1>1, <2>3 DEF GetString
    <3> QED  BY <1>2, <2>3, <3>1
  <2> QED  BY <2>1, <2>2, <2>3
<1> QED  BY <1>1, <1>2, <1>3 DEF SearchInv, Answers

LEMMA DeleteStep ==
  ASSUME PrefixFree, SearchInv, NEW name \in Names, NEW key \in Keys[name],
         DeleteKey(name, key)
  PROVE  SearchInv'
<1>1. PICK tree : tree = Find(config.root, name)  OBVIOUS
<1>2. /\ SectionsSearch(config) /\ Has(config.root, name)
      /\ \A n \in Names : \A k \in Keys[n] : GetString(config, n, k) = expected[n][k]
  BY DEF SearchInv, Answers, DeleteKey
<1>3. Shape(tree, Keys[name]) /\ Ordered(tree.root)
  BY <1>1, <1>2, FindShape DEF SectionsSearch
<1>4. PICK section : section = RemoveNode(tree, key)  OBVIOUS
<1>5. Shape(section, Keys[name])  BY <1>3, <1>4, RemoveShape
<1>6. /\ Ordered(section.root) /\ ~ Has(section.root, key)
      /\ Keeps(tree.root, section.root, Keys[name], key)
  BY <1>3, <1>4, Strings, RemoveAnswers
<1>7. /\ config' = Within(config, name, section)
      /\ Sets(name, key, NoValue)
  BY <1>1, <1>4 DEF DeleteKey, Sets
<1> QED  BY <1>1, <1>2, <1>5, <1>6, <1>7, KeyStep

LEMMA SetStep ==
  ASSUME PrefixFree, SearchInv, NEW name \in Names, NEW key \in Keys[name], NEW value,
         SetString(name, key, value)
  PROVE  SearchInv'
<1>0. /\ SectionsSearch(config)
      /\ \A n \in Names : \A k \in Keys[n] : GetString(config, n, k) = expected[n][k]
  BY DEF SearchInv, Answers
<1>1. PICK c : c = IF Has(config.root, name) THEN config ELSE InsertSection(config, name)
  OBVIOUS
<1>2. /\ SectionsSearch(c) /\ Has(c.root, name)
      /\ \A n \in Names : \A k \in Keys[n] : GetString(c, n, k) = expected[n][k]
  <2>1. CASE Has(config.root, name)  BY <1>0, <1>1, <2>1
  <2>2. CASE ~ Has(config.root, name)
    <3>1. c = InsertSection(config, name)  BY <1>1, <2>2
    <3>2. /\ SectionsSearch(c) /\ Has(c.root, name) /\ Find(c.root, name) = Empty
          /\ Keeps(config.root, c.root, Names, name)
      BY <1>0, <3>1, InsertSectionSearch
    <3>3. ASSUME NEW n \in Names, NEW k \in Keys[n]
          PROVE  GetString(c, n, k) = GetString(config, n, k)
      <4>1. CASE n = name
        <5>1. GetString(c, n, k) = NoValue  BY <3>2, <4>1, EmptyOrdered DEF GetString
        <5>2. GetString(config, n, k) = NoValue  BY <2>2, <4>1 DEF GetString
        <5> QED  BY <5>1, <5>2
      <4>2. CASE n # name
        <5>1. PICK b : b = config  OBVIOUS
        <5>2. KeepsOthers(b, c, name)  BY <3>2, <5>1 DEF KeepsOthers
        <5>3. GetString(c, n, k) = GetString(b, n, k)  BY <4>2, <5>2, OtherSections
        <5> QED  BY <5>1, <5>3
      <4> QED  BY <4>1, <4>2
    <3> QED  BY <1>0, <3>2, <3>3
  <2> QED  BY <2>1, <2>2
<1>3. PICK tree : tree = Find(c.root, name)  OBVIOUS
<1>4. Shape(tree, Keys[name]) /\ Ordered(tree.root)
  BY <1>2, <1>3, FindShape DEF SectionsSearch
<1>5. PICK section : section = Put(tree, key, value)  OBVIOUS
<1>6. Shape(section, Keys[name])  BY <1>4, <1>5, PutShape
<1>7. /\ Ordered(section.root) /\ Has(section.root, key) /\ Find(section.root, key) = value
      /\ Keeps(tree.root, section.root, Keys[name], key)
  BY <1>4, <1>5, Strings, PrefixAlone, PutAnswers
<1>8. /\ config' = Within(c, name, section)
      /\ Sets(name, key, value)
  BY <1>1, <1>3, <1>5 DEF SetString, Sets
<1> QED  BY <1>2, <1>3, <1>6, <1>7, <1>8, KeyStep

LEMMA SearchStep == ASSUME PrefixFree PROVE SearchInv /\ [Next]_vars => SearchInv'
<1> SUFFICES ASSUME SearchInv, [Next]_vars PROVE SearchInv'  OBVIOUS
<1>1. ASSUME NEW name \in Names, Header(name) PROVE SearchInv'  BY <1>1, HeaderStep
<1>2. ASSUME NEW name \in Names, NEW key \in Keys[name], DeleteKey(name, key)
      PROVE  SearchInv'
  BY <1>2, DeleteStep
<1>3. ASSUME NEW name \in Names, NEW key \in Keys[name], NEW value \in Values,
             SetString(name, key, value)
      PROVE  SearchInv'
  BY <1>3, SetStep
<1>4. CASE UNCHANGED vars  BY <1>4 DEF vars, SearchInv, Answers
<1> QED  BY <1>1, <1>2, <1>3, <1>4 DEF Next

(* The invariant says of every tree that it is ordered. *)
LEMMA SearchSorts == SearchInv => SearchTrees
<1> SUFFICES ASSUME SearchInv PROVE SearchTrees  OBVIOUS
<1>1. SectionsSearch(config) /\ SectionsShape(config)  BY DEF SearchInv, SectionsSearch
<1>2. Sorted(config)
  <2>1. Tree(config.root, Names) /\ Ordered(config.root)
    BY <1>1 DEF SectionsSearch, SectionsShape, Shape
  <2> QED  BY <2>1, Strings, OrderedSorted
<1>3. ASSUME NEW name \in Names, Has(config.root, name)
      PROVE  Sorted(Find(config.root, name))
  <2>1. PICK tree : tree = Find(config.root, name)  OBVIOUS
  <2>2. Tree(tree.root, Keys[name]) /\ Ordered(tree.root)
    BY <1>1, <1>3, <2>1, FindShape DEF SectionsSearch, Shape
  <2> QED  BY <2>1, <2>2, Strings, OrderedSorted
<1> QED  BY <1>2, <1>3 DEF SearchTrees, EveryTree

LEMMA SearchAlways == ASSUME PrefixFree PROVE Spec => []SearchInv
<1>1. Init => SearchInv  BY SearchInit
<1>2. SearchInv /\ [Next]_vars => SearchInv'  BY SearchStep
<1> QED  BY <1>1, <1>2, PTL DEF Spec

(* If no key begins with another one, every tree stays sorted for the lookup,
   through every insertion and deletion, *)
THEOREM TreesStaySearchTrees == ASSUME PrefixFree PROVE Spec => []SearchTrees
BY SearchAlways, SearchSorts, PTL

(* and every getter answers what its key was last set to. *)
THEOREM GettersAnswerLastSet == ASSUME PrefixFree PROVE Spec => []GetAnswersLastSet
<1>1. SearchInv => GetAnswersLastSet  BY DEF SearchInv, Answers, GetAnswersLastSet
<1> QED  BY <1>1, SearchAlways, PTL
=============================================================================
