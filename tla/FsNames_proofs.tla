---------------------------- MODULE FsNames_proofs ----------------------------
(***************************************************************************)
(* The name spaces of dummyfs, memoryfs and pssfs, for any threads, names, *)
(* limits and number of calls: proofs about FsNames.                       *)
(*                                                                         *)
(* The invariant IInv has a part for each of the things that the calls     *)
(* share: the containers (TreeInv), the directories in which entries are   *)
(* made or removed (OwnerInv), inode numbers, meta blocks and the count    *)
(* (NumberInv, BlockInv, CountInv, MetaInv), which object a node is        *)
(* (IdInv), the memory of contents (RoomInv), the device (ImageInv,        *)
(* BitmapInv) and the locks (LockInv).  Each handler preserves all of      *)
(* them; then the properties follow from one state of the invariant.  At   *)
(* the end each step of a handler is shown to be a step of the abstract    *)
(* NameSpace or none.                                                      *)
(***************************************************************************)
EXTENDS FsNames, FoldLemmas, SequenceTheorems, FunctionTheorems

USE DEF Root, KB, Paths, Cells

-----------------------------------------------------------------------------
(* Paths                                                                   *)

\* A path that is not empty is its front and its last name.
LEMMA FrontLast ==
  ASSUME NEW S, NEW p \in Seq(S), p # <<>>
  PROVE  /\ Front(p) \in Seq(S) /\ Last(p) \in S
         /\ Len(p) \in Nat \ {0} /\ Len(Front(p)) = Len(p) - 1
         /\ \A i \in 1 .. Len(p) - 1 : Front(p)[i] = p[i]
         /\ p = Append(Front(p), Last(p))
  <1>1. Len(p) \in Nat \ {0}
    OBVIOUS
  <1> DEFINE q == SubSeq(p, 1, Len(p) - 1)
  <1>2. q \in Seq(S) /\ Len(q) = Len(p) - 1 /\ \A i \in 1 .. Len(p) - 1 : q[i] = p[i]
    <2>0. \A i \in 1 .. Len(p) : p[i] \in S
      BY ElementOfSeq
    <2>1. /\ 1 \in Int /\ Len(p) - 1 \in Int /\ Len(p) - 1 >= 0
          /\ \A i \in 1 .. Len(p) - 1 : p[i] \in S
      BY <1>1, <2>0
    <2>2. /\ q \in Seq(S) /\ Len(q) = IF 1 <= Len(p) - 1 THEN (Len(p) - 1) - 1 + 1 ELSE 0
          /\ \A i \in 1 .. (Len(p) - 1) - 1 + 1 : q[i] = p[1 + i - 1]
      BY <2>1, SubSeqProperties
    <2> HIDE DEF q
    <2>3. ASSUME NEW i \in 1 .. Len(p) - 1 PROVE q[i] = p[i]
      <3>1. i \in 1 .. (Len(p) - 1) - 1 + 1 /\ 1 + i - 1 = i
        BY <1>1
      <3>2. q[i] = p[1 + i - 1]
        BY <2>2, <3>1
      <3> QED
        BY <3>1, <3>2
    <2>4. Len(q) = Len(p) - 1
      <3> DEFINE l == Len(p)
      <3>1. l \in Nat \ {0} /\ Len(q) = IF 1 <= l - 1 THEN (l - 1) - 1 + 1 ELSE 0
        BY <1>1, <2>2, Zenon
      <3> HIDE DEF l
      <3>2. Len(q) = l - 1
        BY <3>1
      <3> QED
        BY <3>2 DEF l
    <2> QED
      BY <2>2, <2>3, <2>4
  <1>3. Last(p) = p[Len(p)] /\ p[Len(p)] \in S
    BY <1>1 DEF Last
  <1>4. p = Append(q, p[Len(p)])
    BY <1>1, <1>2, <1>3
  <1> QED
    BY <1>1, <1>2, <1>3, <1>4, Zenon DEF Front, Last

\* A path with one more name has the path as its front.
LEMMA AppendPath ==
  ASSUME NEW S, NEW p \in Seq(S), NEW n \in S
  PROVE  /\ Append(p, n) \in Seq(S) /\ Append(p, n) # <<>>
         /\ Front(Append(p, n)) = p /\ Last(Append(p, n)) = n
  <1> DEFINE q == Append(p, n)
  <1>1. q \in Seq(S) /\ Len(q) = Len(p) + 1 /\ q[Len(p) + 1] = n
        /\ \A i \in 1 .. Len(p) : q[i] = p[i]
    OBVIOUS
  <1>2. q # <<>>
    BY <1>1
  <1> HIDE DEF q
  <1>3. /\ Front(q) \in Seq(S) /\ Len(Front(q)) = Len(p)
        /\ \A i \in 1 .. Len(p) : Front(q)[i] = p[i]
    <2>1. /\ Front(q) \in Seq(S) /\ Len(Front(q)) = Len(q) - 1
          /\ \A i \in 1 .. Len(q) - 1 : Front(q)[i] = q[i]
      BY <1>1, <1>2, FrontLast, Zenon
    <2> QED
      BY <1>1, <2>1
  <1>4. Front(q) = p
    BY <1>3
  <1>5. Len(q) = Len(p) + 1 /\ Last(q) = q[Len(q)]
    BY <1>1 DEF Last
  <1> QED
    BY <1>1, <1>2, <1>4, <1>5 DEF q

\* One path is at or above another when the names agree as far as the first
\* goes.
LEMMA PrefixMeans ==
  ASSUME NEW S, NEW p \in Seq(S), NEW q \in Seq(S)
  PROVE  IsPrefix(p, q) <=> Len(p) <= Len(q) /\ \A i \in 1 .. Len(p) : p[i] = q[i]
  <1>1. SubSeq(p, 1, Len(p)) = p
    OBVIOUS
  <1>2. ASSUME Len(p) <= Len(q)
        PROVE  /\ SubSeq(q, 1, Len(p)) \in Seq(S) /\ Len(SubSeq(q, 1, Len(p))) = Len(p)
               /\ \A i \in 1 .. Len(p) : SubSeq(q, 1, Len(p))[i] = q[i]
    BY <1>2
  <1>3. ASSUME Len(p) <= Len(q)
        PROVE  p = SubSeq(q, 1, Len(p)) <=> \A i \in 1 .. Len(p) : p[i] = q[i]
    BY <1>2, <1>3
  <1> QED
    BY <1>1, <1>3 DEF IsPrefix

\* Being at or above is an order with the root as its least element.
LEMMA PrefixOrder ==
  ASSUME NEW S, NEW p \in Seq(S), NEW q \in Seq(S), NEW r \in Seq(S)
  PROVE  /\ IsPrefix(p, p) /\ IsPrefix(<<>>, p)
         /\ IsPrefix(p, q) /\ IsPrefix(q, r) => IsPrefix(p, r)
         /\ IsPrefix(p, q) /\ Len(q) <= Len(p) => p = q
  <1>1. IsPrefix(p, p) /\ IsPrefix(<<>>, p)
    <2>1. <<>> \in Seq(S) /\ Len(<<>>) = 0 /\ Len(p) \in Nat
      OBVIOUS
    <2>2. IsPrefix(p, p) <=> Len(p) <= Len(p) /\ \A i \in 1 .. Len(p) : p[i] = p[i]
      BY PrefixMeans, Zenon
    <2> DEFINE e == <<>>
    <2>3. e \in Seq(S)
      BY <2>1
    <2>b. Len(e) = 0
      BY <2>1
    <2>a. e = <<>>
      OBVIOUS
    <2> HIDE DEF e
    <2>4. IsPrefix(e, p) <=> Len(e) <= Len(p) /\ \A i \in 1 .. Len(e) : e[i] = p[i]
      BY <2>3, PrefixMeans
    <2>5. IsPrefix(e, p)
      BY <2>1, <2>b, <2>4
    <2>6. IsPrefix(p, p)
      BY <2>1, <2>2
    <2> QED
      BY <2>5, <2>6, <2>a, Zenon
  <1>2. ASSUME IsPrefix(p, q), IsPrefix(q, r) PROVE IsPrefix(p, r)
    <2>1. Len(p) <= Len(q) /\ \A i \in 1 .. Len(p) : p[i] = q[i]
      BY <1>2, PrefixMeans
    <2>2. Len(q) <= Len(r) /\ \A i \in 1 .. Len(q) : q[i] = r[i]
      BY <1>2, PrefixMeans
    <2>3. Len(p) <= Len(r) /\ \A i \in 1 .. Len(p) : p[i] = r[i]
      BY <2>1, <2>2
    <2> QED
      BY <2>3, PrefixMeans
  <1>3. ASSUME IsPrefix(p, q), Len(q) <= Len(p) PROVE p = q
    <2>1. Len(p) <= Len(q) /\ \A i \in 1 .. Len(p) : p[i] = q[i]
      BY <1>3, PrefixMeans
    <2> QED
      BY <1>3, <2>1
  <1> QED
    BY <1>1, <1>2, <1>3

\* What lies above a path is itself or above its parent.
LEMMA PrefixFront ==
  ASSUME NEW S, NEW p \in Seq(S), NEW q \in Seq(S), q # <<>>
  PROVE  /\ IsPrefix(p, q) <=> p = q \/ IsPrefix(p, Front(q))
         /\ IsPrefix(p, Front(q)) => p # q
  <1> DEFINE f == Front(q)
  <1>1. f \in Seq(S) /\ Len(q) \in Nat \ {0} /\ Len(f) = Len(q) - 1
        /\ \A i \in 1 .. Len(q) - 1 : f[i] = q[i]
    BY FrontLast
  <1> HIDE DEF f
  <1>2. ASSUME IsPrefix(p, q), p # q PROVE IsPrefix(p, f)
    <2>1. Len(p) <= Len(q) /\ \A i \in 1 .. Len(p) : p[i] = q[i]
      BY <1>2, PrefixMeans
    <2>2. Len(p) # Len(q)
      BY <1>2, <2>1
    <2>3. Len(p) <= Len(f) /\ \A i \in 1 .. Len(p) : p[i] = f[i]
      BY <1>1, <2>1, <2>2
    <2> QED
      BY <1>1, <2>3, PrefixMeans
  <1>3. ASSUME IsPrefix(p, f) PROVE IsPrefix(p, q) /\ p # q
    <2>1. Len(p) <= Len(f) /\ \A i \in 1 .. Len(p) : p[i] = f[i]
      BY <1>1, <1>3, PrefixMeans
    <2>2. Len(p) < Len(q) /\ \A i \in 1 .. Len(p) : p[i] = q[i]
      BY <1>1, <2>1
    <2> QED
      BY <2>2, PrefixMeans
  <1>4. IsPrefix(q, q)
    BY PrefixOrder
  <1> QED
    BY <1>2, <1>3, <1>4, Zenon DEF f

\* The last name of a concatenation is the last name of its second part.
LEMMA ConcatAppend ==
  ASSUME NEW S, NEW p \in Seq(S), NEW r \in Seq(S), NEW n \in S
  PROVE  p \o Append(r, n) = Append(p \o r, n)
  <1> DEFINE a == p \o Append(r, n)
             b == Append(p \o r, n)
  <1>1. Len(p) \in Nat /\ Len(r) \in Nat
    OBVIOUS
  <1>2. /\ Append(r, n) \in Seq(S) /\ Len(Append(r, n)) = Len(r) + 1
        /\ \A i \in 1 .. Len(r) + 1 : Append(r, n)[i] = IF i <= Len(r) THEN r[i] ELSE n
    OBVIOUS
  <1>3. /\ a \in Seq(S) /\ Len(a) = Len(p) + Len(r) + 1
        /\ \A i \in 1 .. Len(p) + Len(r) + 1 : a[i] = IF i <= Len(p) THEN p[i]
             ELSE IF i <= Len(p) + Len(r) THEN r[i - Len(p)] ELSE n
    BY <1>1, <1>2
  <1>4. /\ b \in Seq(S) /\ Len(b) = Len(p) + Len(r) + 1
        /\ \A i \in 1 .. Len(p) + Len(r) + 1 : b[i] = IF i <= Len(p) THEN p[i]
             ELSE IF i <= Len(p) + Len(r) THEN r[i - Len(p)] ELSE n
    BY <1>1
  <1> HIDE DEF a, b
  <1>5. a = b
    BY <1>3, <1>4, SeqEqual
  <1> QED
    BY <1>5 DEF a, b

\* What follows a prefix is what was joined to it.
LEMMA RestOf ==
  ASSUME NEW S, NEW p \in Seq(S), NEW r \in Seq(S)
  PROVE  p \o r \in Seq(S) /\ IsPrefix(p, p \o r) /\ Rest(p \o r, p) = r
  <1> DEFINE q == p \o r
             s == SubSeq(q, Len(p) + 1, Len(q))
  <1>1. /\ q \in Seq(S) /\ Len(q) = Len(p) + Len(r)
        /\ \A i \in 1 .. Len(p) : q[i] = p[i]
        /\ \A i \in 1 .. Len(r) : q[Len(p) + i] = r[i]
    OBVIOUS
  <1>2. Len(p) \in Nat /\ Len(r) \in Nat
    OBVIOUS
  <1> HIDE DEF q
  <1>3. IsPrefix(p, q)
    <2>1. IsPrefix(p, q) <=> Len(p) <= Len(q) /\ \A i \in 1 .. Len(p) : p[i] = q[i]
      BY <1>1, PrefixMeans, Zenon
    <2> QED
      BY <1>1, <1>2, <2>1
  <1>4. s \in Seq(S) /\ Len(s) = Len(r) /\ \A i \in 1 .. Len(r) : s[i] = q[Len(p) + i]
    BY <1>1, <1>2
  <1>5. s = r
    BY <1>1, <1>4
  <1> QED
    BY <1>1, <1>3, <1>5 DEF Rest, q

\* A path below another is that other and the rest.
LEMMA RestIs ==
  ASSUME NEW S, NEW p \in Seq(S), NEW q \in Seq(S), IsPrefix(p, q)
  PROVE  Rest(q, p) \in Seq(S) /\ q = p \o Rest(q, p) /\ Len(Rest(q, p)) = Len(q) - Len(p)
         /\ \A i \in 1 .. Len(q) - Len(p) : Rest(q, p)[i] = q[Len(p) + i]
  <1> DEFINE s == SubSeq(q, Len(p) + 1, Len(q))
  <1>1. Len(p) \in Nat /\ Len(q) \in Nat /\ Len(p) <= Len(q)
        /\ \A i \in 1 .. Len(p) : p[i] = q[i]
    BY PrefixMeans
  <1>2. /\ s \in Seq(S) /\ Len(s) = Len(q) - Len(p)
        /\ \A i \in 1 .. Len(q) - Len(p) : s[i] = q[Len(p) + i]
    BY <1>1
  <1> HIDE DEF s
  <1>3. /\ p \o s \in Seq(S) /\ Len(p \o s) = Len(q)
        /\ \A i \in 1 .. Len(q) : (p \o s)[i] = q[i]
    <2>1. /\ p \o s \in Seq(S) /\ Len(p \o s) = Len(p) + Len(s)
          /\ \A i \in 1 .. Len(p) + Len(s) :
               (p \o s)[i] = IF i <= Len(p) THEN p[i] ELSE s[i - Len(p)]
      BY <1>2, ConcatProperties
    <2>2. ASSUME NEW i \in 1 .. Len(q), ~ (i <= Len(p)) PROVE s[i - Len(p)] = q[i]
      <3>1. i - Len(p) \in 1 .. Len(q) - Len(p) /\ Len(p) + (i - Len(p)) = i
        BY <1>1, <2>2
      <3> QED
        BY <1>2, <3>1
    <2> QED
      BY <1>1, <1>2, <2>1, <2>2
  <1>4. p \o s = q
    BY <1>3, SeqEqual
  <1> QED
    BY <1>2, <1>4 DEF Rest, s

\* A path that leaves `old` for `new` keeps what follows.
LEMMA RelocatedPath ==
  ASSUME NEW S, NEW old \in Seq(S), NEW new \in Seq(S), NEW p \in Seq(S),
         IsPrefix(old, p)
  PROVE  /\ Relocated(p, old, new) \in Seq(S)
         /\ IsPrefix(new, Relocated(p, old, new))
         /\ Relocated(Relocated(p, old, new), new, old) = p
         /\ Len(Relocated(p, old, new)) = Len(new) + Len(p) - Len(old)
  <1> DEFINE r == Rest(p, old)
             q == Relocated(p, old, new)
  <1>1. r \in Seq(S) /\ p = old \o r /\ Len(r) = Len(p) - Len(old)
    BY RestIs
  <1>2. q = new \o r
    BY DEF Relocated
  <1> HIDE DEF r, q
  <1>3. q \in Seq(S) /\ IsPrefix(new, q) /\ Rest(q, new) = r
    BY <1>1, <1>2, RestOf
  <1>4. Relocated(q, new, old) = p
    BY <1>1, <1>3 DEF Relocated
  <1>5. Len(q) = Len(new) + Len(p) - Len(old)
    BY <1>1, <1>2
  <1> QED
    BY <1>3, <1>4, <1>5 DEF q

\* The subtree that is moved ends up at the new path itself.
LEMMA RelocatedSelf ==
  ASSUME NEW S, NEW old \in Seq(S), NEW new \in Seq(S)
  PROVE  Relocated(old, old, new) = new
  <1> DEFINE r == Rest(old, old)
  <1>1. IsPrefix(old, old) /\ Len(old) \in Nat
    BY PrefixOrder
  <1>2. r \in Seq(S) /\ Len(r) = Len(old) - Len(old)
    BY <1>1, RestIs, Zenon
  <1> HIDE DEF r
  <1>3. r = <<>>
    BY <1>1, <1>2
  <1>4. new \o r = new
    BY <1>3
  <1> QED
    BY <1>4 DEF Relocated, r

\* The next name is not touched.
LEMMA RelocatedNext ==
  ASSUME NEW S, NEW old \in Seq(S), NEW new \in Seq(S), NEW p \in Seq(S), NEW n \in S,
         IsPrefix(old, p)
  PROVE  /\ IsPrefix(old, Append(p, n))
         /\ Relocated(Append(p, n), old, new) = Append(Relocated(p, old, new), n)
  <1> DEFINE r == Rest(p, old)
             q == Append(p, n)
  <1>1. r \in Seq(S) /\ p = old \o r
    BY RestIs, Zenon
  <1>2. q \in Seq(S) /\ q # <<>> /\ Front(q) = p
    BY AppendPath, Zenon
  <1> HIDE DEF r
  <1>a. r \in Seq(S)
    BY <1>1
  <1>b. \A s \in Seq(S) : s \o Append(r, n) = Append(s \o r, n)
    BY <1>a, ConcatAppend
  <1>3. q = old \o Append(r, n)
    BY <1>1, <1>b, Zenon
  <1>4. Append(r, n) \in Seq(S)
    BY <1>1
  <1> HIDE DEF q
  <1>5. Rest(q, old) = Append(r, n)
    BY <1>3, <1>4, RestOf, Zenon
  <1>6. IsPrefix(old, q)
    BY <1>2, PrefixFront, Zenon
  <1>7. new \o Append(r, n) = Append(new \o r, n)
    BY <1>b, Zenon
  <1> QED
    BY <1>5, <1>6, <1>7, Zenon DEF Relocated, r, q

\* Below the moved entry, the parent of the new path is the new path of the
\* parent.
LEMMA RelocatedFront ==
  ASSUME NEW S, NEW old \in Seq(S), NEW new \in Seq(S), NEW p \in Seq(S),
         IsPrefix(old, p), p # old
  PROVE  /\ p # <<>> /\ IsPrefix(old, Front(p))
         /\ Relocated(p, old, new) # <<>>
         /\ Front(Relocated(p, old, new)) = Relocated(Front(p), old, new)
         /\ Last(Relocated(p, old, new)) = Last(p)
  <1>1. p # <<>>
    <2> SUFFICES ASSUME p = <<>> PROVE old = <<>>
      OBVIOUS
    <2>1. Len(p) = 0 /\ Len(p) <= Len(old)
      OBVIOUS
    <2> QED
      BY <2>1, PrefixOrder, Zenon
  <1> DEFINE f == Front(p)
             n == Last(p)
             g == Relocated(f, old, new)
  <1>2. f \in Seq(S) /\ n \in S /\ p = Append(f, n)
    BY <1>1, FrontLast, Zenon
  <1>3. IsPrefix(old, f)
    BY <1>1, PrefixFront, Zenon
  <1> HIDE DEF f, n
  <1>4. g \in Seq(S)
    BY <1>2, <1>3, RelocatedPath, Zenon
  <1>5. Relocated(Append(f, n), old, new) = Append(g, n)
    BY <1>2, <1>3, RelocatedNext
  <1> HIDE DEF g
  <1>6. Append(g, n) # <<>> /\ Front(Append(g, n)) = g /\ Last(Append(g, n)) = n
    BY <1>2, <1>4, AppendPath, Zenon
  <1> QED
    BY <1>1, <1>2, <1>3, <1>5, <1>6, Zenon DEF f, n, g

-----------------------------------------------------------------------------
(* Children                                                                *)

\* A child that was not there is there once after it was appended.
LEMMA AppendRange ==
  ASSUME NEW S, NEW s \in Seq(S), NEW e
  PROVE  /\ Range(Append(s, e)) = Range(s) \cup {e}
         /\ IsInjective(s) /\ e \notin Range(s) => IsInjective(Append(s, e))
  <1> DEFINE u == Append(s, e)
             n == Len(s)
  <1>1. /\ n \in Nat /\ DOMAIN s = 1 .. n /\ DOMAIN u = 1 .. n + 1
        /\ u[n + 1] = e /\ \A i \in 1 .. n : u[i] = s[i]
    OBVIOUS
  <1> HIDE DEF u, n
  <1>2. \A i \in 1 .. n + 1 : i \in 1 .. n \/ i = n + 1
    BY <1>1
  <1>3. Range(u) = Range(s) \cup {e}
    BY <1>1, <1>2 DEF Range
  <1>4. ASSUME IsInjective(s), e \notin Range(s), NEW i \in 1 .. n + 1, NEW j \in 1 .. n + 1,
               u[i] = u[j]
        PROVE  i = j
    BY <1>1, <1>2, <1>4 DEF Range, IsInjective
  <1> QED
    BY <1>1, <1>3, <1>4 DEF IsInjective, u

\* The first occurrence is the only one.
LEMMA RemoveFirstIs ==
  ASSUME NEW S, NEW s \in Seq(S), NEW e, IsInjective(s)
  PROVE  /\ RemoveFirst(s, e) \in Seq(S)
         /\ Range(RemoveFirst(s, e)) = Range(s) \ {e}
         /\ IsInjective(RemoveFirst(s, e))
  <1> DEFINE n == Len(s)
             at == {i \in 1 .. n : s[i] = e}
             k == Min(at)
             r == SubSeq(s, 1, k - 1) \o SubSeq(s, k + 1, n)
  <1>1. n \in Nat /\ DOMAIN s = 1 .. n
    OBVIOUS
  <1>2. \A i, j \in 1 .. n : s[i] = s[j] => i = j
    BY <1>1 DEF IsInjective
  <1>3. CASE at = {}
    <2>1. RemoveFirst(s, e) = s
      BY <1>3 DEF RemoveFirst
    <2>2. Range(s) = Range(s) \ {e}
      BY <1>1, <1>3 DEF Range
    <2> QED
      BY <2>1, <2>2, Zenon
  <1>4. CASE at # {}
    <2>1. k \in 1 .. n /\ s[k] = e
      <3>1. at \in SUBSET Nat
        OBVIOUS
      <3>2. \E i \in at : \A j \in at : i <= j
        BY <1>4, <3>1, LeastNumber, Zenon
      <3>3. k \in at
        BY <3>2, Zenon DEF Min
      <3> QED
        BY <3>3
    <2>2. RemoveFirst(s, e) = r
      <3>1. \E i \in 1 .. Len(s) : s[i] = e
        BY <1>4
      <3>2. SelectInSeq(s, LAMBDA v : v = e) = k
        BY <1>4 DEF SelectInSeq
      <3> QED
        BY <3>1, <3>2 DEF RemoveFirst, RemoveAt
    <2> HIDE DEF k
    <2>3. /\ r \in Seq(S) /\ Len(r) = n - 1 /\ DOMAIN r = 1 .. n - 1
          /\ \A i \in 1 .. n - 1 : r[i] = s[IF i < k THEN i ELSE i + 1]
      <3> DEFINE a == SubSeq(s, 1, k - 1)
                 b == SubSeq(s, k + 1, n)
      <3>1. a \in Seq(S) /\ Len(a) = k - 1 /\ \A i \in 1 .. k - 1 : a[i] = s[i]
        BY <1>1, <2>1
      <3>2. b \in Seq(S) /\ Len(b) = n - k /\ \A i \in 1 .. n - k : b[i] = s[k + i]
        <4>1. k + 1 \in 1 .. n + 1 /\ n \in (k + 1) - 1 .. n /\ n - (k + 1) + 1 = n - k
          BY <1>1, <2>1
        <4>2. /\ b \in Seq(S) /\ Len(b) = n - (k + 1) + 1
              /\ \A i \in 1 .. n - (k + 1) + 1 : b[i] = s[(k + 1) + i - 1]
          BY <4>1, SubSeqProperties
        <4>3. \A i \in 1 .. n - k : (k + 1) + i - 1 = k + i
          BY <1>1, <2>1
        <4> HIDE DEF b, n
        <4> QED
          BY <4>1, <4>2, <4>3
      <3> HIDE DEF a, b, n
      <3>3. /\ a \o b \in Seq(S) /\ Len(a \o b) = n - 1 /\ DOMAIN (a \o b) = 1 .. n - 1
            /\ \A i \in 1 .. n - 1 : (a \o b)[i] = IF i <= k - 1 THEN a[i] ELSE b[i - (k - 1)]
        <4>1. /\ a \o b \in Seq(S) /\ Len(a \o b) = (k - 1) + (n - k)
              /\ \A i \in 1 .. (k - 1) + (n - k) :
                   (a \o b)[i] = IF i <= k - 1 THEN a[i] ELSE b[i - (k - 1)]
          <5>1. /\ a \o b \in Seq(S) /\ Len(a \o b) = Len(a) + Len(b)
                /\ \A i \in 1 .. Len(a) + Len(b) :
                     (a \o b)[i] = IF i <= Len(a) THEN a[i] ELSE b[i - Len(a)]
            BY <3>1, <3>2, ConcatProperties, Zenon
          <5> QED
            BY <3>1, <3>2, <5>1
        <4>2. (k - 1) + (n - k) = n - 1
          BY <1>1, <2>1
        <4> QED
          BY <4>1, <4>2
      <3>4. ASSUME NEW i \in 1 .. n - 1 PROVE (a \o b)[i] = s[IF i < k THEN i ELSE i + 1]
        <4>1. CASE i < k
          BY <1>1, <2>1, <3>1, <3>3, <4>1
        <4>2. CASE ~ (i < k)
          <5>1. i - (k - 1) \in 1 .. n - k /\ k + (i - (k - 1)) = i + 1
            BY <1>1, <2>1, <4>2
          <5>2. (a \o b)[i] = b[i - (k - 1)]
            BY <1>1, <2>1, <3>3, <4>2
          <5> QED
            BY <3>2, <4>2, <5>1, <5>2
        <4> QED
          BY <4>1, <4>2
      <3> QED
        BY <3>3, <3>4 DEF a, b, n
    <2> HIDE DEF r, n
    <2>4. ASSUME NEW i \in 1 .. n - 1, NEW j \in 1 .. n - 1, r[i] = r[j] PROVE i = j
      BY <1>1, <1>2, <2>1, <2>3, <2>4
    <2>5. Range(r) = Range(s) \ {e}
      <3>1. ASSUME NEW i \in 1 .. n - 1 PROVE r[i] \in Range(s) /\ r[i] # e
        <4>1. PICK j \in 1 .. n : j # k /\ r[i] = s[j]
          <5>1. CASE i < k
            BY <1>1, <2>1, <2>3, <5>1
          <5>2. CASE ~ (i < k)
            <6>1. i + 1 \in 1 .. n /\ i + 1 # k
              BY <1>1, <2>1, <5>2
            <6> QED
              BY <2>3, <5>2, <6>1
          <5> QED
            BY <5>1, <5>2
        <4>2. s[j] # s[k]
          BY <1>2, <2>1, <4>1
        <4> QED
          BY <1>1, <2>1, <4>1, <4>2 DEF Range
      <3>2. ASSUME NEW i \in 1 .. n, s[i] # e PROVE \E j \in 1 .. n - 1 : r[j] = s[i]
        <4>1. CASE i < k
          <5>1. i \in 1 .. n - 1 /\ r[i] = s[i]
            BY <1>1, <2>1, <2>3, <4>1
          <5> QED
            BY <5>1
        <4>2. CASE i > k
          <5>1. i - 1 \in 1 .. n - 1 /\ ~ (i - 1 < k) /\ (i - 1) + 1 = i
            BY <1>1, <2>1, <4>2
          <5>2. r[i - 1] = s[i]
            BY <2>3, <5>1
          <5> QED
            BY <5>1, <5>2
        <4>3. i # k
          BY <2>1, <3>2
        <4> QED
          BY <1>1, <2>1, <4>1, <4>2, <4>3
      <3> QED
        <4>1. Range(r) = {r[i] : i \in 1 .. n - 1} /\ Range(s) = {s[i] : i \in 1 .. n}
          BY <1>1, <2>3 DEF Range
        <4>2. Range(r) \subseteq Range(s) \ {e}
          BY <3>1, <4>1
        <4>3. Range(s) \ {e} \subseteq Range(r)
          BY <3>2, <4>1
        <4> QED
          BY <4>2, <4>3
    <2>6. IsInjective(r)
      BY <2>3, <2>4 DEF IsInjective
    <2> QED
      BY <2>2, <2>3, <2>5, <2>6
  <1> QED
    BY <1>3, <1>4

-----------------------------------------------------------------------------
(* Nodes.  Their fields form four groups: what makes the tree, the lock,   *)
(* the memory of the contents, and which object it is.                     *)

Name == Names \cup {"/", "matrix.out", "hello"}

NodeRec ==
  [ name : Name, kind : {"file", "dir"}, nlink : Nat, children : Seq(Nat),
    size : Nat, allocated : Nat, room : Nat,
    busy : BOOLEAN, denied : BOOLEAN, bare : BOOLEAN, id : Nat ]

SameNames(x, y) == y.name = x.name /\ y.kind = x.kind /\ y.children = x.children
SameLock(x, y)  == y.busy = x.busy /\ y.denied = x.denied
SameRoom(x, y)  == /\ y.size = x.size /\ y.allocated = x.allocated
                   /\ y.room = x.room /\ y.bare = x.bare
SameId(x, y)    == y.id = x.id

\* Taking and releasing the lock of a node changes nothing else of it.
LEMMA SetBusy ==
  ASSUME NEW x \in NodeRec, NEW b \in BOOLEAN
  PROVE  LET y == [x EXCEPT !.busy = b]
         IN  /\ y \in NodeRec /\ y.busy = b /\ y.denied = x.denied /\ y.nlink = x.nlink
             /\ SameNames(x, y) /\ SameRoom(x, y) /\ SameId(x, y)
  BY DEF NodeRec, SameNames, SameRoom, SameId

\* The link count is no part of the tree, the lock, the memory or what object it is.
LEMMA SetLinks ==
  ASSUME NEW x \in NodeRec, NEW n \in Nat
  PROVE  LET y == [x EXCEPT !.nlink = n]
         IN  /\ y \in NodeRec /\ y.nlink = n
             /\ SameNames(x, y) /\ SameLock(x, y) /\ SameRoom(x, y) /\ SameId(x, y)
  BY DEF NodeRec, SameNames, SameLock, SameRoom, SameId

\* An entry of the children changes the tree only.
LEMMA SetChildren ==
  ASSUME NEW x \in NodeRec, NEW s \in Seq(Nat)
  PROVE  LET y == [x EXCEPT !.children = s]
         IN  /\ y \in NodeRec /\ y.children = s /\ y.name = x.name /\ y.kind = x.kind
             /\ y.nlink = x.nlink
             /\ SameLock(x, y) /\ SameRoom(x, y) /\ SameId(x, y)
  BY DEF NodeRec, SameLock, SameRoom, SameId

\* A new name (rename sets node->name) changes the tree only.
LEMMA SetName ==
  ASSUME NEW x \in NodeRec, NEW n \in Name
  PROVE  LET y == [x EXCEPT !.name = n]
         IN  /\ y \in NodeRec /\ y.name = n /\ y.kind = x.kind
             /\ y.children = x.children /\ y.nlink = x.nlink
             /\ SameLock(x, y) /\ SameRoom(x, y) /\ SameId(x, y)
  BY DEF NodeRec, SameLock, SameRoom, SameId

\* A call that returned with an error leaves the node locked.
LEMMA SetDenied ==
  ASSUME NEW x \in NodeRec
  PROVE  LET y == [[x EXCEPT !.busy = TRUE] EXCEPT !.denied = TRUE]
         IN  /\ y \in NodeRec /\ y.busy /\ y.denied /\ y.nlink = x.nlink
             /\ SameNames(x, y) /\ SameRoom(x, y) /\ SameId(x, y)
  BY DEF NodeRec, SameNames, SameRoom, SameId

\* realloc of the contents changes the memory of the node only.
LEMMA SetRoom ==
  ASSUME NEW x \in NodeRec, NEW r \in Nat, NEW a \in Nat, NEW s \in Nat
  PROVE  LET y == [[[x EXCEPT !.room = r] EXCEPT !.allocated = a] EXCEPT !.size = s]
         IN  /\ y \in NodeRec /\ y.room = r /\ y.allocated = a /\ y.size = s
             /\ y.bare = x.bare /\ y.nlink = x.nlink
             /\ SameNames(x, y) /\ SameLock(x, y) /\ SameId(x, y)
  BY DEF NodeRec, SameNames, SameLock, SameId

\* A size within the allocated one changes the sizes of the node only.
LEMMA SetSize ==
  ASSUME NEW x \in NodeRec, NEW a \in Nat, NEW s \in Nat
  PROVE  LET y == [[x EXCEPT !.allocated = a] EXCEPT !.size = s]
         IN  /\ y \in NodeRec /\ y.allocated = a /\ y.size = s /\ y.room = x.room
             /\ y.bare = x.bare /\ y.nlink = x.nlink
             /\ SameNames(x, y) /\ SameLock(x, y) /\ SameId(x, y)
  BY DEF NodeRec, SameNames, SameLock, SameId

-----------------------------------------------------------------------------
(* The invariant.                                                          *)

Places == {"idle", "load", "store", "add", "dec", "sub", "save", "write"}
Making == {"load", "store", "add"}
\* The directory of its entry is locked and stays where it is.
Locking == {"load", "store", "add", "dec", "sub"}
Owner(t) == Front(path[t])

CellRec == [number : Nat, block : 0 .. MetaBlocks - 1]

TablesType ==
  /\ program \in Programs /\ inode_map \in [Paths -> Cells]
  /\ Paths \subseteq Seq(Name) /\ IsFiniteSet(Paths) /\ Root \in Paths
  /\ cell \in Seq(CellRec) /\ node \in Seq(NodeRec) /\ Len(node) = Len(cell)
  /\ entry_map \in [Cells -> Cells]
  /\ \A e \in Cells : /\ node[e].children \in Seq(Cells)
                      /\ node[e].kind = "file" => node[e].children = <<>>
NumbersType ==
  /\ cur_inode \in Nat /\ inode_count \in Int /\ meta \subseteq 0 .. MetaBlocks - 1
  /\ image = [table |-> image.table, count |-> image.count, meta |-> image.meta]
  /\ image.meta \subseteq 0 .. MetaBlocks - 1
ThreadType ==
  /\ pc \in [Threads -> Places]
  /\ path \in [Threads -> Seq(Name)] /\ origin \in [Threads -> Seq(Name)]
  /\ kind \in [Threads -> {"none", "file", "dir"}] /\ counter \in [Threads -> Nat \ {0}]
  /\ read \in [Threads -> Int] /\ got \in [Threads -> CellRec]
  /\ DOMAIN walked = Threads
CallType ==
  /\ fault \in {"none", "exit", "overrun", "segv"} /\ calls \in 0 .. MaxCalls
  /\ lost \subseteq {"block", "number", "count", "table"} /\ exchanged \in BOOLEAN
TypeInv == TablesType /\ NumbersType /\ ThreadType /\ CallType
USE DEF TypeInv

\* What inode_add is at, written out.
Stores(t, what) == pc[t] = "store" /\ Counter(t) = what
Numbered(t) ==
  pc[t] = "add" \/ (pc[t] \in {"load", "store"} /\ program = "pssfs" /\ counter[t] > 2)
Blocked(t) ==
  program = "pssfs" /\ (pc[t] = "add" \/ (pc[t] \in {"load", "store"} /\ counter[t] > 1))

ThreadInv ==
  \A t \in Threads :
    /\ counter[t] \in 1 .. Len(Counters)
    /\ Stores(t, "number") => read[t] \in Nat
    /\ Stores(t, "block") => read[t] \in 0 .. MetaBlocks - 1
    /\ pc[t] \in {"dec", "sub", "save", "write"} => program = "pssfs"
    /\ pc[t] # "idle" => path[t] \in Seq(Name) /\ path[t] # <<>>
    /\ pc[t] \in Making => kind[t] # "none"
    /\ pc[t] = "idle" => counter[t] = 1 /\ kind[t] = "none"

\* The number that is drawn when cur_inode is n.
Given(n) == IF program = "dummyfs" THEN n + 1 ELSE n

\* Two threads never make or remove entries in the same directory, nor one below
\* the other's.
ApartInv ==
  \A t, u \in Threads : t # u /\ pc[t] \in Locking /\ pc[u] \in Locking =>
    /\ Owner(t) # Owner(u) /\ ~IsPrefix(path[t], path[u])

\* The directory in which an entry is made or removed stays, and its number is
\* given to no other cell, also when a number is given twice.
OwnerInv ==
  \A t \in Threads : pc[t] \in Locking =>
    LET c == inode_map[Owner(t)]
    IN  /\ path[t] \notin Paths /\ Owner(t) \in Paths
        /\ entry_map[c] = c /\ node[c].kind = "dir"
        /\ cell[c].number < Given(cur_inode)
        /\ \A u \in Threads :
             /\ Stores(u, "number") => cell[c].number < Given(read[u])
             /\ Numbered(u) => cell[c].number # got[u].number

InjectiveInv == \A p, q \in Paths : inode_map[p] = inode_map[q] => p = q

NumberInv ==
  "number" \notin lost =>
    /\ \A e \in Cells : entry_map[e] = e /\ cell[e].number < Given(cur_inode)
    /\ \A d, e \in Cells : cell[d].number = cell[e].number => d = e
    /\ \A t \in Threads : Stores(t, "number") => read[t] = cur_inode
    /\ \A t \in Threads : Numbered(t) =>
         /\ got[t].number < Given(cur_inode)
         /\ \A e \in Cells : cell[e].number # got[t].number
         /\ \A u \in Threads : Numbered(u) /\ got[u].number = got[t].number => t = u

BlockInv ==
  program = "pssfs" /\ "block" \notin lost =>
    /\ \A e \in Cells : cell[e].block \in meta
    /\ \A d, e \in Cells : cell[d].block = cell[e].block => d = e
    /\ \A t \in Threads : Stores(t, "block") => read[t] \notin meta
    /\ \A t \in Threads : Blocked(t) =>
         /\ got[t].block \in meta
         /\ \A e \in Cells : cell[e].block # got[t].block
         /\ \A u \in Threads : Blocked(u) /\ got[u].block = got[t].block => t = u

\* A row of the table is to be added, or was erased and is still counted.
Uncounted == {t \in Threads : pc[t] \in {"add", "dec", "sub"}}
CountInv ==
  program = "pssfs" /\ "count" \notin lost =>
    /\ inode_count = Cardinality(Paths) + Cardinality(Uncounted)
    /\ \A t \in Threads : Stores(t, "count") \/ pc[t] = "sub" => read[t] = inode_count

MetaInv == Cardinality(meta) <= Len(cell) + Cardinality({t \in Threads : Blocked(t)})

\* PathsAgree, where cells and nodes are the same.
Above(p) ==
  IF p = Root THEN node[inode_map[p]].kind = "dir"
  ELSE /\ Front(p) \in Paths /\ node[inode_map[Front(p)]].kind = "dir"
       /\ inode_map[p] \in Range(node[inode_map[Front(p)]].children)
       /\ node[inode_map[p]].name = Last(p)
Beneath(p) ==
  /\ \A c \in Range(node[inode_map[p]].children) :
       Append(p, node[c].name) \in Paths /\ inode_map[Append(p, node[c].name)] = c
  /\ IsInjective(node[inode_map[p]].children)
TreeInv ==
  "number" \notin lost /\ ~exchanged => \A p \in Paths : Above(p) /\ Beneath(p)

IdInv ==
  /\ \A e \in Cells : node[e].id \in Cells
  /\ \A d, e \in Cells : node[d].id = node[e].id => d = e

\* What the room of a file counts for in `total`.
Charge(x) == IF x.bare /\ x.room > 0 THEN x.room - KB ELSE x.room
\* What the rooms of the nodes s count for is at most n: h are the sums of the
\* first nodes.
Charged(s, n) ==
  \E h \in [0 .. Len(s) -> Int] :
    /\ h[0] = 0 /\ h[Len(s)] <= n
    /\ \A i \in 1 .. Len(s) : h[i] = h[i - 1] + Charge(s[i])
RoomOf(x) ==
  /\ {x.size, x.allocated, x.room} \subseteq 0 .. MaxFile
  /\ fault = "none" => x.size <= x.room
  /\ ~x.bare => x.allocated <= x.room
  /\ x.bare /\ fault = "none" => x.allocated >= KB /\ (x.room = 0 => x.allocated = KB)
  /\ x.bare /\ x.room > 0 => x.room >= KB /\ x.size > 0 /\ x.allocated <= x.room
  /\ program = "memoryfs" /\ x.kind = "file" /\ x.room = 0 => x.bare
RoomInv ==
  /\ total \in Nat
  /\ \A e \in Cells : RoomOf(node[e])
  /\ program = "memoryfs" => Charged(node, total)

\* Somebody will write the table, or is about to write what is in memory.
Owes(t) == pc[t] \in {"load", "store", "add", "dec", "sub", "save"}
ImageInv ==
  program = "pssfs" /\ fault = "none" /\ "table" \notin lost =>
    \/ \E t \in Threads : Owes(t)
    \/ \E t \in Threads : pc[t] = "write" /\ walked[t] = <<Table, inode_count>>
    \/ /\ \A t \in Threads : pc[t] = "idle"
       /\ image = [table |-> Table, count |-> inode_count, meta |-> meta]

\* Who makes an entry will write the meta bitmap.
BitmapInv ==
  program = "pssfs" /\ fault = "none" =>
    image.meta = meta \/ \E t \in Threads : kind[t] # "none"

LockInv ==
  \A e \in Cells : node[e].busy =>
    \/ node[e].denied
    \/ \E t \in Threads : pc[t] \in Locking /\ e = inode_map[Owner(t)]

Causes ==
  /\ fault = "exit" =>
       Len(cell) + Cardinality({t \in Threads : pc[t] \in Making}) > MetaBlocks
  /\ fault = "segv" =>
       \/ NoMemory(EntrySize) \/ NoMemory(KeySize * Cardinality(Paths))
       \/ program = "memoryfs" /\ \E e \in Cells : node[e].bare

MapsInv == TypeInv /\ ThreadInv /\ ApartInv /\ OwnerInv /\ InjectiveInv
IInv ==
  /\ MapsInv /\ NumberInv /\ BlockInv /\ CountInv /\ MetaInv /\ TreeInv
  /\ IdInv /\ RoomInv /\ ImageInv /\ BitmapInv /\ LockInv /\ Causes

-----------------------------------------------------------------------------
(* What the parts of the invariant say about one thread or one path.       *)

\* Which counter dummyfs_inode_add is at: three in pssfs, one in the other two.
LEMMA CounterIs ==
  ASSUME ThreadInv, NEW t \in Threads
  PROVE  /\ program = "pssfs" => /\ Len(Counters) = 3 /\ counter[t] \in {1, 2, 3}
                                 /\ Counter(t) = "block" <=> counter[t] = 1
                                 /\ Counter(t) = "number" <=> counter[t] = 2
                                 /\ Counter(t) = "count" <=> counter[t] = 3
         /\ program # "pssfs" => /\ Len(Counters) = 1 /\ counter[t] = 1
                                 /\ Counter(t) = "number"
  <1>1. counter[t] \in 1 .. Len(Counters)
    BY DEF ThreadInv
  <1>2. CASE program = "pssfs"
    <2>1. Counters = << "block", "number", "count" >>
      BY <1>2 DEF Counters
    <2>2. Len(Counters) = 3 /\ counter[t] \in {1, 2, 3}
      BY <1>1, <2>1
    <2>3. Counter(t) = << "block", "number", "count" >>[counter[t]]
      BY <2>1 DEF Counter
    <2> QED
      BY <1>2, <2>2, <2>3
  <1>3. CASE program # "pssfs"
    <2>1. Counters = << "number" >>
      BY <1>3 DEF Counters
    <2>2. Len(Counters) = 1 /\ counter[t] = 1
      BY <1>1, <2>1
    <2> QED
      BY <1>3, <2>1, <2>2 DEF Counter
  <1> QED
    BY <1>2, <1>3

\* A path that a call can make is not the root.
LEMMA NewPathIs ==
  ASSUME NEW p \in NewPaths
  PROVE  /\ p \in Seq(Name) /\ p # <<>>
         /\ Front(p) \in Seq(Name) /\ Last(p) \in Name
         /\ p = Append(Front(p), Last(p))
  <1>1. PICK n \in 1 .. MaxDepth : p \in [1 .. n -> Names]
    BY DEF NewPaths
  <1>2. n \in Nat /\ n > 0
    BY <1>1, BoundsAssumption
  <1>3. p \in [1 .. n -> Name]
    BY <1>1 DEF Name
  <1>4. p \in Seq(Name) /\ Len(p) = n
    BY <1>2, <1>3
  <1>5. p # <<>>
    BY <1>2, <1>4
  <1> QED
    BY <1>4, <1>5, FrontLast, Zenon

\* A path leads through inode_map and entry_map to a node.
LEMMA PathIs ==
  ASSUME TypeInv, NEW p \in Paths
  PROVE  /\ p \in Seq(Name) /\ inode_map[p] \in Cells
         /\ entry_map[inode_map[p]] \in Cells
  BY DEF TablesType

\* What the type invariant says of single cells, nodes and threads.
LEMMA TypesAre ==
  ASSUME TypeInv
  PROVE  /\ Len(cell) \in Nat /\ Cells = 1 .. Len(cell) /\ DOMAIN node = Cells
         /\ cur_inode \in Nat /\ inode_count \in Int
         /\ \A e \in Cells : /\ cell[e] \in CellRec /\ cell[e].number \in Nat
                             /\ cell[e].block \in 0 .. MetaBlocks - 1
                             /\ node[e] \in NodeRec
         /\ \A t \in Threads : /\ got[t] \in CellRec /\ got[t].number \in Nat
                               /\ got[t].block \in 0 .. MetaBlocks - 1
  <1>1. /\ cell \in Seq(CellRec) /\ node \in Seq(NodeRec) /\ Len(node) = Len(cell)
        /\ cur_inode \in Nat /\ inode_count \in Int /\ got \in [Threads -> CellRec]
    BY DEF TablesType, NumbersType, ThreadType
  <1>2. \A c \in CellRec : c.number \in Nat /\ c.block \in 0 .. MetaBlocks - 1
    BY DEF CellRec
  <1> QED
    BY <1>1, <1>2

\* The path of a thread that is not idle.
LEMMA ThreadPath ==
  ASSUME ThreadInv, NEW t \in Threads, pc[t] # "idle"
  PROVE  /\ path[t] \in Seq(Name) /\ path[t] # <<>>
         /\ Owner(t) \in Seq(Name) /\ Last(path[t]) \in Name
         /\ path[t] = Append(Owner(t), Last(path[t]))
  <1>1. path[t] \in Seq(Name) /\ path[t] # <<>>
    BY DEF ThreadInv
  <1> QED
    BY <1>1, FrontLast, Zenon DEF Owner

\* What one node is charged is a number.
LEMMA ChargeIs == \A x \in NodeRec : Charge(x) \in Int
  <1> TAKE x \in NodeRec
  <1>1. x.room \in Nat /\ x.bare \in BOOLEAN
    BY DEF NodeRec
  <1> QED
    BY <1>1 DEF Charge

\* Another value for one node changes the sum by the difference of the two
\* charges.
LEMMA ChargeSet ==
  ASSUME NEW s \in Seq(NodeRec), NEW e \in 1 .. Len(s), NEW x \in NodeRec, NEW n \in Int,
         Charged(s, n)
  PROVE  Charged([s EXCEPT ![e] = x], n + Charge(x) - Charge(s[e]))
  <1> DEFINE l == Len(s)
             u == [s EXCEPT ![e] = x]
             k == Charge(x) - Charge(s[e])
  <1>1. PICK h \in [0 .. l -> Int] : /\ h[0] = 0 /\ h[l] <= n
                                     /\ \A i \in 1 .. l : h[i] = h[i - 1] + Charge(s[i])
    BY DEF Charged
  <1>2. l \in Nat /\ e \in 1 .. l /\ \A i \in 1 .. l : Charge(s[i]) \in Int
    <2>1. l \in Nat /\ e \in 1 .. l /\ \A i \in 1 .. l : s[i] \in NodeRec
      OBVIOUS
    <2> QED
      BY <2>1, ChargeIs
  <1>3. Charge(x) \in Int
    BY ChargeIs
  <1>4. Len(u) = l /\ \A i \in 1 .. l : u[i] = IF i = e THEN x ELSE s[i]
    OBVIOUS
  <1> DEFINE g == [i \in 0 .. l |-> IF i < e THEN h[i] ELSE h[i] + k]
  <1> HIDE DEF u, l
  <1>5. k \in Int
    BY <1>2, <1>3
  <1> HIDE DEF k
  <1>6. g \in [0 .. l -> Int] /\ g[0] = 0 /\ g[l] = h[l] + k
    <2>1. 0 \in 0 .. l /\ l \in 0 .. l /\ 0 < e /\ ~ l < e
      BY <1>2
    <2>2. \A i \in 0 .. l : h[i] \in Int /\ h[i] + k \in Int
      BY <1>1, <1>5
    <2> QED
      BY <1>1, <2>1, <2>2
  <1>7. ASSUME NEW i \in 1 .. l PROVE g[i] = g[i - 1] + Charge(u[i])
    <2>1. i - 1 \in 0 .. l /\ i \in 0 .. l /\ h[i] \in Int /\ h[i - 1] \in Int
      BY <1>1, <1>2
    <2>2. h[i] = h[i - 1] + Charge(s[i]) /\ Charge(s[i]) \in Int
      BY <1>1, <1>2
    <2>3. CASE i < e
      <3>1. g[i] = h[i] /\ g[i - 1] = h[i - 1] /\ u[i] = s[i]
        BY <1>2, <1>4, <2>1, <2>3
      <3> QED
        BY <2>2, <3>1
    <2>4. CASE i = e
      <3>1. g[i] = h[i] + k /\ g[i - 1] = h[i - 1] /\ u[i] = x /\ s[i] = s[e]
        BY <1>2, <1>4, <2>1, <2>4
      <3> QED
        BY <1>3, <2>1, <2>2, <3>1 DEF k
    <2>5. CASE i > e
      <3>1. g[i] = h[i] + k /\ g[i - 1] = h[i - 1] + k /\ u[i] = s[i]
        <4>1. ~ (i < e) /\ ~ (i - 1 < e) /\ i # e
          BY <1>2, <2>5
        <4> QED
          BY <1>4, <2>1, <4>1
      <3> HIDE DEF g
      <3> QED
        BY <1>5, <2>1, <2>2, <3>1
    <2> QED
      BY <1>2, <2>3, <2>4, <2>5
  <1> HIDE DEF g
  <1>8. g[l] <= n + Charge(x) - Charge(s[e])
    <2>1. h[l] \in Int /\ h[l] <= n /\ Charge(s[e]) \in Int
      BY <1>1, <1>2
    <2> QED
      BY <1>3, <1>6, <2>1 DEF k
  <1>9. Charged(u, n + Charge(x) - Charge(s[e]))
    BY <1>4, <1>6, <1>7, <1>8 DEF Charged
  <1> QED
    BY <1>9 DEF u

\* Where no charge is negative, each is at most the sum.
LEMMA ChargeBound ==
  ASSUME NEW s, Len(s) \in Nat, NEW n \in Int, Charged(s, n),
         \A i \in 1 .. Len(s) : Charge(s[i]) \in Nat, NEW e \in 1 .. Len(s)
  PROVE  Charge(s[e]) <= n
  <1> DEFINE l == Len(s)
  <1>1. PICK h \in [0 .. l -> Int] : /\ h[0] = 0 /\ h[l] <= n
                                     /\ \A i \in 1 .. l : h[i] = h[i - 1] + Charge(s[i])
    BY DEF Charged
  <1> HIDE DEF l
  <1>2. l \in Nat /\ e \in 1 .. l /\ \A i \in 1 .. l : Charge(s[i]) \in Nat
    BY DEF l
  <1> DEFINE S == {i \in 0 .. l : h[i] >= 0 /\ (i >= e => h[i] >= Charge(s[e]))}
  <1>3. 0 \in S
    BY <1>1, <1>2
  <1>4. ASSUME NEW i \in 1 .. l, i - 1 \in S PROVE i \in S
    <2>1. h[i] = h[i - 1] + Charge(s[i]) /\ Charge(s[i]) \in Nat /\ Charge(s[e]) \in Nat
      BY <1>1, <1>2
    <2>2. h[i - 1] \in Int /\ h[i - 1] >= 0 /\ (i - 1 >= e => h[i - 1] >= Charge(s[e]))
      BY <1>1, <1>2, <1>4
    <2>3. h[i] >= 0 /\ h[i] >= h[i - 1]
      BY <2>1, <2>2
    <2>4. ASSUME i >= e PROVE h[i] >= Charge(s[e])
      <3>1. CASE i = e
        <4>1. Charge(s[i]) = Charge(s[e])
          BY <3>1
        <4> QED
          BY <2>1, <2>2, <4>1
      <3>2. CASE i # e
        <4>1. i - 1 >= e
          BY <1>2, <2>4, <3>2
        <4> QED
          BY <2>1, <2>2, <4>1
      <3> QED
        BY <3>1, <3>2
    <2>5. i \in 0 .. l
      BY <1>2
    <2> QED
      BY <2>3, <2>4, <2>5
  <1> HIDE DEF S
  <1>5. \A i \in 0 .. l : i \in S
    BY <1>2, <1>3, <1>4, Climb
  <1>6. h[l] >= Charge(s[e])
    BY <1>2, <1>5 DEF S
  <1> QED
    BY <1>1, <1>2, <1>6

-----------------------------------------------------------------------------
(* Steps that leave a part of the state alone.                             *)

NamesKept == /\ UNCHANGED <<program, inode_map, cell, entry_map>>
             /\ Len(node') = Len(node)
             /\ \A e \in Cells : SameNames(node[e], node'[e])

\* The tree stays as long as paths, names and children do.
LEMMA TreeKept ==
  ASSUME TypeInv, TreeInv, NamesKept, lost \subseteq lost', exchanged => exchanged'
  PROVE  TreeInv'
  <1> SUFFICES ASSUME "number" \notin lost, ~ exchanged, NEW p \in Paths
               PROVE  Above(p)' /\ Beneath(p)'
    BY DEF TreeInv, NamesKept
  <1>1. Above(p) /\ Beneath(p)
    BY DEF TreeInv
  <1>2. \A q \in Paths : SameNames(node[inode_map[q]], node'[inode_map[q]])
    BY PathIs DEF NamesKept
  <1>3. Above(p)'
    BY <1>1, <1>2 DEF Above, NamesKept, SameNames
  <1>4. Beneath(p)'
    <2>1. \A c \in Range(node[inode_map[p]].children) : c \in Cells
      <3>1. node[inode_map[p]].children \in Seq(Cells)
        BY PathIs DEF TablesType
      <3> QED
        BY <3>1 DEF Range
    <2>2. \A c \in Range(node[inode_map[p]].children) : node'[c].name = node[c].name
      BY <2>1 DEF NamesKept, SameNames
    <2>3. node'[inode_map[p]].children = node[inode_map[p]].children
      BY <1>2 DEF SameNames
    <2> QED
      BY <1>1, <2>2, <2>3 DEF Beneath, NamesKept
  <1> QED
    BY <1>3, <1>4

\* The objects stay apart as long as their ids stay.
LEMMA IdKept ==
  ASSUME IdInv, UNCHANGED <<program, cell>>, Len(node') = Len(node),
         \A e \in Cells : SameId(node[e], node'[e]) /\ node'[e].kind = node[e].kind
  PROVE  IdInv'
  BY DEF IdInv, SameId

\* The account of memory stays right as long as the buffers stay and what is
\* counted does not become less.
LEMMA RoomKept ==
  ASSUME TypeInv, RoomInv, UNCHANGED <<program, cell>>,
         total' = total \/ (total' \in Nat /\ total <= total'),
         Len(node') = Len(node),
         \A e \in Cells : SameRoom(node[e], node'[e]) /\ node'[e].kind = node[e].kind,
         fault' = "none" => fault = "none"
  PROVE  RoomInv'
  <1>1. total' \in Nat /\ total <= total'
    BY DEF RoomInv
  <1>2. ASSUME NEW e \in Cells PROVE RoomOf(node[e])'
    BY <1>2 DEF RoomInv, RoomOf, SameRoom
  <1>3. \A e \in Cells : Charge(node[e])' = Charge(node[e])
    BY DEF Charge, SameRoom
  <1>4. Cells = 1 .. Len(node) /\ Len(node) \in Nat
    BY DEF TablesType
  <1>5. ASSUME program = "memoryfs" PROVE Charged(node, total)'
    <2>1. PICK h \in [0 .. Len(node) -> Int] :
            /\ h[0] = 0 /\ h[Len(node)] <= total
            /\ \A i \in 1 .. Len(node) : h[i] = h[i - 1] + Charge(node[i])
      BY <1>5 DEF RoomInv, Charged
    <2>2. h[Len(node)] \in Int /\ total \in Nat
      BY <1>4, <2>1 DEF RoomInv
    <2>3. h[Len(node)] <= total'
      BY <1>1, <2>1, <2>2
    <2>4. \A i \in 1 .. Len(node) : h[i] = h[i - 1] + Charge(node'[i])
      BY <1>3, <1>4, <2>1
    <2> QED
      BY <2>1, <2>3, <2>4 DEF Charged, Charge
  <1> QED
    BY <1>1, <1>2, <1>5 DEF RoomInv

\* Locks keep their holders when no thread that makes an entry moves on.
LEMMA LockKept ==
  ASSUME LockInv, UNCHANGED <<inode_map, cell>>,
         \A e \in Cells : SameLock(node[e], node'[e]),
         \A u \in Threads : pc[u] \in Locking => pc'[u] \in Locking /\ path'[u] = path[u]
  PROVE  LockInv'
  <1> SUFFICES ASSUME NEW e \in Cells, node'[e].busy, ~ node'[e].denied
               PROVE  \E u \in Threads : pc'[u] \in Locking /\ e = inode_map[Front(path'[u])]
    BY DEF LockInv, Owner
  <1>1. node[e].busy /\ ~ node[e].denied
    BY DEF SameLock
  <1>2. PICK u \in Threads : pc[u] \in Locking /\ e = inode_map[Front(path[u])]
    BY <1>1 DEF LockInv, Owner
  <1>3. pc'[u] \in Locking /\ e = inode_map[Front(path'[u])]
    BY <1>2
  <1> QED
    BY <1>3

-----------------------------------------------------------------------------
(* Load                                                                    *)

\* The marked meta blocks can be counted.
LEMMA MetaFinite ==
  ASSUME TypeInv
  PROVE  IsFiniteSet(meta) /\ Cardinality(meta) \in Nat
  <1>1. IsFiniteSet(0 .. MetaBlocks - 1)
    <2>1. 0 \in Int /\ MetaBlocks - 1 \in Int
      BY BoundsAssumption
    <2> QED
      BY <2>1, FS_Interval
  <1>2. meta \subseteq 0 .. MetaBlocks - 1
    BY DEF NumbersType
  <1> QED
    BY <1>1, <1>2, FS_Subset, FS_CardinalityType

\* The search of the bitmap finds a block that is not marked.
LEMMA FirstFreeIs ==
  ASSUME FreeBlocks # {}
  PROVE  FirstFree \in 0 .. MetaBlocks - 1 /\ FirstFree \notin meta
  <1>1. FreeBlocks \in SUBSET Nat
    BY DEF FreeBlocks
  <1>2. \E b \in FreeBlocks : \A c \in FreeBlocks : b <= c
    BY <1>1, LeastNumber, Zenon
  <1>3. FirstFree \in FreeBlocks
    BY <1>2, Zenon DEF FirstFree
  <1> QED
    BY <1>3 DEF FreeBlocks

\* The threads that are at a place can be counted.
LEMMA ThreadSets ==
  /\ IsFiniteSet({t \in Threads : Blocked(t)})
  /\ IsFiniteSet({t \in Threads : pc[t] \in Making})
  /\ IsFiniteSet(Uncounted)
  /\ Cardinality({t \in Threads : Blocked(t)}) \in Nat
  /\ Cardinality({t \in Threads : pc[t] \in Making}) \in Nat
  /\ Cardinality(Uncounted) \in Nat
  <1>1. IsFiniteSet(Threads)
    BY BoundsAssumption
  <1>2. /\ {t \in Threads : Blocked(t)} \in SUBSET Threads
        /\ {t \in Threads : pc[t] \in Making} \in SUBSET Threads
        /\ Uncounted \in SUBSET Threads
    BY DEF Uncounted
  <1>3. \A T \in SUBSET Threads : IsFiniteSet(T) /\ Cardinality(T) \in Nat
    BY <1>1, FS_Subset, FS_CardinalityType
  <1> QED
    BY <1>2, <1>3, Zenon

\* The search that finds no free meta block.
LEMMA ExitExplained ==
  ASSUME TypeInv, MetaInv, NEW t \in Threads, pc[t] = "load", counter[t] = 1,
         FreeBlocks = {}
  PROVE  Len(cell) + Cardinality({u \in Threads : pc[u] \in Making}) > MetaBlocks
  <1> DEFINE B == {u \in Threads : Blocked(u)}
             M == {u \in Threads : pc[u] \in Making}
  <1>1. IsFiniteSet(B) /\ IsFiniteSet(M) /\ Cardinality(B) \in Nat /\ Cardinality(M) \in Nat
    BY ThreadSets
  <1>2. meta = 0 .. MetaBlocks - 1
    BY DEF FreeBlocks, NumbersType
  <1>3. Cardinality(meta) = MetaBlocks
    <2>1. MetaBlocks \in Nat \ {0} /\ 0 \in Int /\ MetaBlocks - 1 \in Int
      BY BoundsAssumption
    <2>2. Cardinality(0 .. MetaBlocks - 1) =
            IF 0 > MetaBlocks - 1 THEN 0 ELSE MetaBlocks - 1 - 0 + 1
      BY <2>1, FS_Interval, Zenon
    <2> QED
      BY <1>2, <2>1, <2>2
  <1>4. B \subseteq M \ {t} /\ t \in M
    BY DEF Blocked, Making
  <1>5. Cardinality(B) < Cardinality(M)
    <2>1. IsFiniteSet(M \ {t}) /\ Cardinality(M \ {t}) = Cardinality(M) - 1
      <3>1. Cardinality(M \ {t}) = IF t \in M THEN Cardinality(M) - 1 ELSE Cardinality(M)
        BY <1>1, FS_RemoveElement, Zenon
      <3>2. IsFiniteSet(M \ {t})
        BY <1>1, FS_Subset
      <3> QED
        BY <1>4, <3>1, <3>2, Zenon
    <2>2. Cardinality(B) <= Cardinality(M \ {t})
      BY <1>4, <2>1, FS_Subset
    <2> HIDE DEF B, M
    <2> QED
      BY <1>1, <2>1, <2>2
  <1>6. Cardinality(meta) <= Len(cell) + Cardinality(B)
    BY DEF MetaInv
  <1>7. Len(cell) \in Nat /\ MetaBlocks \in Nat
    BY BoundsAssumption DEF TablesType
  <1> HIDE DEF B, M
  <1>8. Len(cell) + Cardinality(M) > MetaBlocks
    BY <1>1, <1>3, <1>5, <1>6, <1>7
  <1> QED
    BY <1>8 DEF M

\* Which thread is where, for a step from "load" to "store".
LEMMA LoadPlaces ==
  ASSUME TypeInv, NEW t \in Threads, pc[t] = "load", pc' = [pc EXCEPT ![t] = "store"],
         UNCHANGED <<program, counter>>, NEW u \in Threads
  PROVE  /\ pc'[u] = "idle" <=> pc[u] = "idle"
         /\ pc'[u] = "add" <=> pc[u] = "add"
         /\ pc'[u] = "write" <=> pc[u] = "write"
         /\ pc'[u] = "sub" <=> pc[u] = "sub"
         /\ pc'[u] \in {"add", "dec", "sub"} <=> pc[u] \in {"add", "dec", "sub"}
         /\ pc'[u] \in {"dec", "sub", "save", "write"} <=>
              pc[u] \in {"dec", "sub", "save", "write"}
         /\ pc'[u] \in Locking <=> pc[u] \in Locking
         /\ pc'[u] \in Making <=> pc[u] \in Making
         /\ Numbered(u)' <=> Numbered(u)
         /\ Blocked(u)' <=> Blocked(u)
         /\ Owes(u)' <=> Owes(u)
         /\ Stores(u, "block")' <=> IF u = t THEN Counter(t) = "block" ELSE Stores(u, "block")
         /\ Stores(u, "number")' <=> IF u = t THEN Counter(t) = "number" ELSE Stores(u, "number")
         /\ Stores(u, "count")' <=> IF u = t THEN Counter(t) = "count" ELSE Stores(u, "count")
  <1>1. pc'[u] = IF u = t THEN "store" ELSE pc[u]
    BY DEF ThreadType
  <1>2. \A what : (Counter(u) = what)' <=> Counter(u) = what
    BY DEF Counter, Counters
  <1> QED
    BY <1>1, <1>2 DEF Locking, Making, Numbered, Blocked, Owes, Stores


\* The process ends, or nothing at all happens.
LEMMA FaultOnly ==
  ASSUME IInv, fault' \in {"exit", "overrun", "segv"} \/ fault' = fault,
         calls' \in 0 .. MaxCalls,
         UNCHANGED <<program, tables, numbers, total, image, thread, ghosts>>, Causes'
  PROVE  IInv'
  <1>1. /\ UNCHANGED <<program, inode_map, cell, entry_map, node>>
        /\ UNCHANGED <<cur_inode, inode_count, meta, total, image, lost, exchanged>>
        /\ UNCHANGED <<pc, path, origin, kind, counter, read, got, walked>>
    BY DEF tables, numbers, thread, ghosts
  <1>2. /\ \A u \in Threads : (Numbered(u)' <=> Numbered(u)) /\ (Blocked(u)' <=> Blocked(u))
        /\ \A u \in Threads, what \in {"block", "number", "count"} :
             Stores(u, what)' <=> Stores(u, what)
        /\ Len(Counters)' = Len(Counters) /\ Uncounted' = Uncounted
    BY <1>1 DEF Numbered, Blocked, Stores, Counter, Counters, Uncounted
  <1>3. TypeInv' /\ ApartInv' /\ InjectiveInv' /\ MetaInv'
    <2>1. TypeInv'
      BY <1>1 DEF IInv, MapsInv, TablesType, NumbersType, ThreadType, CallType
    <2>2. ApartInv' /\ InjectiveInv'
      BY <1>1 DEF IInv, MapsInv, ApartInv, Owner, InjectiveInv
    <2>3. {u \in Threads : Blocked(u)}' = {u \in Threads : Blocked(u)}
      BY <1>2
    <2> QED
      BY <1>1, <2>1, <2>2, <2>3 DEF IInv, MetaInv
  <1>4. ThreadInv' /\ OwnerInv'
    BY <1>1, <1>2 DEF IInv, MapsInv, ThreadInv, OwnerInv, Owner, Given
  <1>5. NumberInv' /\ BlockInv' /\ CountInv'
    BY <1>1, <1>2 DEF IInv, NumberInv, BlockInv, CountInv, Given
  <1>6. TreeInv' /\ IdInv' /\ RoomInv'
    <2>1. NamesKept /\ \A e \in Cells : SameRoom(node[e], node'[e]) /\ SameId(node[e], node'[e])
      BY <1>1 DEF NamesKept, SameNames, SameRoom, SameId
    <2> QED
      BY <1>1, <2>1, TreeKept, IdKept, RoomKept DEF IInv, MapsInv
  <1>7. ImageInv' /\ LockInv' /\ BitmapInv'
    <2>1. Table' = Table /\ (\A u \in Threads : Owes(u)' <=> Owes(u))
      BY <1>1 DEF Table, Rows, Owes
    <2>2. ImageInv'
      BY <1>1, <2>1 DEF IInv, ImageInv
    <2> QED
      BY <1>1, <2>2 DEF IInv, LockInv, BitmapInv, Owner
  <1> QED
    BY <1>3, <1>4, <1>5, <1>6, <1>7 DEF IInv, MapsInv

\* Reading a counter of dummyfs_inode_add preserves the invariant.
LEMMA LoadKeeps ==
  ASSUME IInv, NEW t \in Threads, Load(t)
  PROVE  IInv'
  <1>0. /\ fault = "none" /\ pc[t] = "load"
        /\ UNCHANGED <<program, tables, numbers, total, image, path, origin, kind, counter, got,
                       walked, calls, ghosts>>
    BY DEF Load
  <1>1. CASE /\ Counter(t) = "block" /\ FreeBlocks = {} /\ fault' = "exit"
             /\ UNCHANGED <<pc, read>>
    <2>1. /\ UNCHANGED <<program, tables, numbers, total, image, thread, ghosts>>
          /\ UNCHANGED <<program, cell, pc>> /\ calls' \in 0 .. MaxCalls
      BY <1>0, <1>1 DEF tables, thread, IInv, MapsInv, CallType
    <2>2. counter[t] = 1
      BY <1>1, CounterIs DEF IInv, MapsInv
    <2>3. Len(cell) + Cardinality({u \in Threads : pc[u] \in Making}) > MetaBlocks
      BY <1>0, <1>1, <2>2, ExitExplained DEF IInv, MapsInv
    <2>4. Causes'
      BY <1>1, <2>1, <2>3 DEF Causes
    <2> QED
      BY <1>1, <2>1, <2>4, FaultOnly
  <1>2. CASE /\ Counter(t) = "block" => FreeBlocks # {}
             /\ read' = [read EXCEPT ![t] = CASE Counter(t) = "block"  -> FirstFree
                                              [] Counter(t) = "number" -> cur_inode
                                              [] Counter(t) = "count"  -> inode_count]
             /\ pc' = [pc EXCEPT ![t] = "store"] /\ UNCHANGED fault
    <2>1. /\ UNCHANGED <<program, inode_map, cell, entry_map, node, fault, calls>>
          /\ UNCHANGED <<cur_inode, inode_count, meta, total, image, lost, exchanged>>
          /\ UNCHANGED <<path, origin, kind, counter, got, walked>>
      BY <1>0, <1>2 DEF tables, numbers, ghosts
    <2> DEFINE r == CASE Counter(t) = "block"  -> FirstFree
                      [] Counter(t) = "number" -> cur_inode
                      [] Counter(t) = "count"  -> inode_count
    <2>2. /\ Counter(t) \in {"block", "number", "count"}
          /\ Counter(t) = "block" => r \in 0 .. MetaBlocks - 1 /\ r \notin meta
          /\ Counter(t) = "number" => r = cur_inode
          /\ Counter(t) = "count" => r = inode_count
      BY <1>2, CounterIs, FirstFreeIs DEF IInv, MapsInv
    <2>r. read' = [read EXCEPT ![t] = r]
      BY <1>2
    <2> HIDE DEF r
    <2>3. r \in Int /\ (Counter(t) = "number" => r \in Nat)
      <3>1. cur_inode \in Nat /\ inode_count \in Int
        BY DEF IInv, MapsInv, NumbersType
      <3> QED
        BY <2>2, <3>1
    <2>4. \A u \in Threads : read'[u] = IF u = t THEN r ELSE read[u]
      BY <2>r DEF IInv, MapsInv, ThreadType
    <2>5. TypeInv'
      <3>1. read' \in [Threads -> Int]
        BY <2>r, <2>3 DEF IInv, MapsInv, ThreadType
      <3>2. pc' \in [Threads -> Places]
        BY <1>2 DEF IInv, MapsInv, ThreadType, Places
      <3> QED
        BY <2>1, <3>1, <3>2 DEF IInv, MapsInv, TablesType, NumbersType, ThreadType, CallType
    <2>p. ASSUME NEW u \in Threads
          PROVE  /\ pc'[u] = "idle" <=> pc[u] = "idle"
                 /\ pc'[u] = "add" <=> pc[u] = "add"
                 /\ pc'[u] = "write" <=> pc[u] = "write"
                 /\ pc'[u] = "sub" <=> pc[u] = "sub"
                 /\ pc'[u] \in {"add", "dec", "sub"} <=> pc[u] \in {"add", "dec", "sub"}
                 /\ pc'[u] \in {"dec", "sub", "save", "write"} <=>
                      pc[u] \in {"dec", "sub", "save", "write"}
                 /\ pc'[u] \in Locking <=> pc[u] \in Locking
                 /\ pc'[u] \in Making <=> pc[u] \in Making
                 /\ Numbered(u)' <=> Numbered(u)
                 /\ Blocked(u)' <=> Blocked(u)
                 /\ Owes(u)' <=> Owes(u)
                 /\ Stores(u, "block")' <=> IF u = t THEN Counter(t) = "block" ELSE Stores(u, "block")
                 /\ Stores(u, "number")' <=>
                      IF u = t THEN Counter(t) = "number" ELSE Stores(u, "number")
                 /\ Stores(u, "count")' <=> IF u = t THEN Counter(t) = "count" ELSE Stores(u, "count")
      BY <1>0, <1>2, <2>1, LoadPlaces, Zenon DEF IInv, MapsInv
    <2>6. ThreadInv'
      <3>1. Len(Counters)' = Len(Counters)
        BY <2>1 DEF Counters
      <3> QED
        BY <2>p, <2>1, <2>2, <2>3, <2>4, <3>1 DEF IInv, MapsInv, ThreadInv
    <2>7. ApartInv' /\ InjectiveInv'
      BY <2>p, <2>1 DEF IInv, MapsInv, ApartInv, InjectiveInv, Owner
    <2>8. OwnerInv'
      BY <2>p, <2>1, <2>2, <2>4 DEF IInv, MapsInv, OwnerInv, Owner, Given
    <2>9. NumberInv'
      BY <2>p, <2>1, <2>2, <2>4 DEF IInv, NumberInv, Given
    <2>10. BlockInv'
      BY <2>p, <2>1, <2>2, <2>4 DEF IInv, BlockInv
    <2>11. CountInv'
      <3>1. Uncounted' = Uncounted
        BY <2>p DEF Uncounted
      <3> QED
        BY <1>0, <2>p, <2>1, <2>2, <2>4, <3>1 DEF IInv, CountInv
    <2>12. MetaInv' /\ Causes'
      <3>1. {u \in Threads : Blocked(u)}' = {u \in Threads : Blocked(u)}
        BY <2>p
      <3> QED
        BY <1>0, <2>1, <3>1 DEF IInv, MetaInv, Causes
    <2>13. TreeInv' /\ IdInv' /\ RoomInv'
      <3>1. NamesKept /\ \A e \in Cells : SameRoom(node[e], node'[e]) /\ SameId(node[e], node'[e])
        BY <2>1 DEF NamesKept, SameNames, SameRoom, SameId
      <3> QED
        BY <2>1, <3>1, TreeKept, IdKept, RoomKept DEF IInv, MapsInv
    <2>14. ImageInv'
      <3>1. Table' = Table
        BY <2>1 DEF Table, Rows
      <3> QED
        BY <2>p, <2>1, <3>1 DEF IInv, ImageInv
    <2>15. LockInv' /\ BitmapInv'
      BY <2>p, <2>1 DEF IInv, LockInv, BitmapInv, Owner
    <2> QED
      BY <2>5, <2>6, <2>7, <2>8, <2>9, <2>10, <2>11, <2>12, <2>13, <2>14, <2>15
      DEF IInv, MapsInv
  <1> QED
    BY <1>1, <1>2 DEF Load

-----------------------------------------------------------------------------
(* Store                                                                   *)

\* What a set has more when one element joins it.
LEMMA OneMore ==
  ASSUME NEW T, IsFiniteSet(T), NEW x
  PROVE  /\ IsFiniteSet(T \cup {x}) /\ Cardinality(T) \in Nat
         /\ x \notin T => Cardinality(T \cup {x}) = Cardinality(T) + 1
         /\ Cardinality(T \cup {x}) <= Cardinality(T) + 1
  <1>1. IsFiniteSet(T \cup {x})
    BY FS_AddElement
  <1>2. Cardinality(T \cup {x}) = IF x \in T THEN Cardinality(T) ELSE Cardinality(T) + 1
    BY FS_AddElement, Zenon
  <1>3. Cardinality(T) \in Nat
    BY FS_CardinalityType
  <1> QED
    BY <1>1, <1>2, <1>3

\* Which thread is where, for a step that stores a counter.
LEMMA StorePlaces ==
  ASSUME TypeInv, ThreadInv, NEW t \in Threads, pc[t] = "store", UNCHANGED program,
         IF counter[t] = Len(Counters)
           THEN pc' = [pc EXCEPT ![t] = "add"] /\ UNCHANGED counter
           ELSE /\ pc' = [pc EXCEPT ![t] = "load"]
                /\ counter' = [counter EXCEPT ![t] = @ + 1]
  PROVE  /\ pc' \in [Threads -> Places] /\ counter' \in [Threads -> Nat \ {0}]
         /\ \A u \in Threads :
              /\ counter'[u] \in 1 .. Len(Counters)
              /\ pc'[u] = "idle" <=> pc[u] = "idle"
              /\ pc'[u] = "idle" => counter'[u] = counter[u]
              /\ pc'[u] \in {"dec", "sub", "save", "write"} =>
                   u # t /\ pc[u] \in {"dec", "sub", "save", "write"}
              /\ pc'[u] = "sub" => u # t /\ pc[u] = "sub"
              /\ pc'[u] \in Locking <=> pc[u] \in Locking
              /\ pc'[u] \in Making <=> pc[u] \in Making
              /\ \A what \in {"block", "number", "count"} :
                   Stores(u, what)' <=> u # t /\ Stores(u, what)
         /\ \A u \in Threads \ {t} :
              /\ pc'[u] \in {"add", "dec", "sub"} <=> pc[u] \in {"add", "dec", "sub"}
              /\ Numbered(u)' <=> Numbered(u)
              /\ Blocked(u)' <=> Blocked(u)
         /\ Numbered(t) <=> Counter(t) = "count"
         /\ Numbered(t)' <=> Counter(t) # "block"
         /\ Blocked(t) <=> program = "pssfs" /\ Counter(t) # "block"
         /\ Blocked(t)' <=> program = "pssfs"
         /\ program = "pssfs" => (pc'[t] = "add" <=> Counter(t) = "count")
         /\ Owes(t)'
  <1>1. /\ \A u \in Threads : u # t => pc'[u] = pc[u] /\ counter'[u] = counter[u]
        /\ \/ counter[t] = Len(Counters) /\ pc'[t] = "add" /\ counter'[t] = counter[t]
           \/ counter[t] # Len(Counters) /\ pc'[t] = "load" /\ counter'[t] = counter[t] + 1
        /\ pc' \in [Threads -> Places] /\ counter' \in [Threads -> Nat \ {0}]
    <2>1. pc \in [Threads -> Places] /\ counter \in [Threads -> Nat \ {0}]
      BY DEF ThreadType
    <2>2. CASE counter[t] = Len(Counters) /\ pc' = [pc EXCEPT ![t] = "add"] /\ UNCHANGED counter
      BY <2>1, <2>2 DEF Places
    <2>3. CASE /\ counter[t] # Len(Counters) /\ pc' = [pc EXCEPT ![t] = "load"]
               /\ counter' = [counter EXCEPT ![t] = @ + 1]
      BY <2>1, <2>3 DEF Places
    <2> QED
      BY <2>2, <2>3
  <1>2. \A u \in Threads : u # t => Counter(u)' = Counter(u)
    BY <1>1 DEF Counter, Counters
  <1>3. counter[t] \in 1 .. Len(Counters) /\ Len(Counters) \in Nat
    BY CounterIs DEF ThreadInv
  <1>4. \A u \in Threads : counter[u] \in 1 .. Len(Counters) /\ counter'[u] \in 1 .. Len(Counters)
    BY <1>1, <1>3 DEF ThreadInv
  <1>5. ASSUME NEW u \in Threads
        PROVE  /\ pc'[u] = "idle" <=> pc[u] = "idle"
               /\ pc'[u] = "idle" => counter'[u] = counter[u]
               /\ pc'[u] \in {"dec", "sub", "save", "write"} =>
                    u # t /\ pc[u] \in {"dec", "sub", "save", "write"}
               /\ pc'[u] = "sub" => u # t /\ pc[u] = "sub"
               /\ pc'[u] \in Locking <=> pc[u] \in Locking
               /\ pc'[u] \in Making <=> pc[u] \in Making
    BY <1>1 DEF Locking, Making
  <1>6. ASSUME NEW u \in Threads, NEW what \in {"block", "number", "count"}
        PROVE  Stores(u, what)' <=> u # t /\ Stores(u, what)
    <2>1. pc'[t] # "store"
      BY <1>1
    <2>2. CASE u = t
      BY <2>1, <2>2 DEF Stores
    <2>3. CASE u # t
      <3>1. pc'[u] = pc[u] /\ Counter(u)' = Counter(u)
        BY <1>1, <1>2, <2>3
      <3> QED
        BY <2>3, <3>1 DEF Stores
    <2> QED
      BY <2>2, <2>3
  <1>7. ASSUME NEW u \in Threads \ {t}
        PROVE  /\ pc'[u] \in {"add", "dec", "sub"} <=> pc[u] \in {"add", "dec", "sub"}
               /\ Numbered(u)' <=> Numbered(u)
               /\ Blocked(u)' <=> Blocked(u)
    BY <1>1 DEF Numbered, Blocked
  <1>8. CASE program = "pssfs"
    <2>1. /\ Len(Counters) = 3 /\ counter[t] \in {1, 2, 3}
          /\ Counter(t) = "block" <=> counter[t] = 1
          /\ Counter(t) = "number" <=> counter[t] = 2
          /\ Counter(t) = "count" <=> counter[t] = 3
      BY <1>8, CounterIs
    <2> QED
      BY <1>1, <1>4, <1>5, <1>6, <1>7, <1>8, <2>1 DEF Numbered, Blocked, Owes
  <1>9. CASE program # "pssfs"
    <2>1. Len(Counters) = 1 /\ counter[t] = 1 /\ Counter(t) = "number"
      BY <1>9, CounterIs
    <2> QED
      BY <1>1, <1>4, <1>5, <1>6, <1>7, <1>9, <2>1 DEF Numbered, Blocked, Owes
  <1> QED
    BY <1>8, <1>9


\* Writing a counter back preserves the invariant: it is the old value plus
\* one, or the counter is lost.
LEMMA StoreKeeps ==
  ASSUME IInv, NEW t \in Threads, Store(t)
  PROVE  IInv'
  <1>0. TypeInv /\ ThreadInv
    BY DEF IInv, MapsInv
  <1>1. /\ fault = "none" /\ pc[t] = "store"
        /\ cur_inode' = (IF Counter(t) = "number" THEN read[t] + 1 ELSE cur_inode)
        /\ inode_count' = (IF Counter(t) = "count" THEN read[t] + 1 ELSE inode_count)
        /\ meta' = (IF Counter(t) = "block" THEN meta \cup {read[t]} ELSE meta)
        /\ lost' = lost \cup Updated(t, Counter(t))
        /\ read' = [read EXCEPT ![t] = 0]
    BY DEF Store, WriteBack
  <1>2. got' = CASE Counter(t) = "block"  -> [got EXCEPT ![t].block = read[t]]
                 [] Counter(t) = "number" ->
                      [got EXCEPT ![t].number =
                         IF program = "dummyfs" THEN read[t] + 1 ELSE read[t]]
                 [] Counter(t) = "count"  -> got
    BY DEF Store
  <1>3. /\ UNCHANGED <<program, inode_map, cell, entry_map, node>>
        /\ UNCHANGED <<total, image, path, origin, kind, walked, fault, calls, exchanged>>
    BY DEF Store, tables
  <1>4. IF counter[t] = Len(Counters)
          THEN pc' = [pc EXCEPT ![t] = "add"] /\ UNCHANGED counter
          ELSE /\ pc' = [pc EXCEPT ![t] = "load"]
               /\ counter' = [counter EXCEPT ![t] = @ + 1]
    BY DEF Store
  <1>5. /\ pc' \in [Threads -> Places] /\ counter' \in [Threads -> Nat \ {0}]
        /\ \A u \in Threads :
             /\ counter'[u] \in 1 .. Len(Counters)
             /\ pc'[u] = "idle" <=> pc[u] = "idle"
             /\ pc'[u] = "idle" => counter'[u] = counter[u]
             /\ pc'[u] \in {"dec", "sub", "save", "write"} =>
                  u # t /\ pc[u] \in {"dec", "sub", "save", "write"}
             /\ pc'[u] = "sub" => u # t /\ pc[u] = "sub"
             /\ pc'[u] \in Locking <=> pc[u] \in Locking
             /\ pc'[u] \in Making <=> pc[u] \in Making
             /\ \A what \in {"block", "number", "count"} :
                  Stores(u, what)' <=> u # t /\ Stores(u, what)
        /\ \A u \in Threads \ {t} :
             /\ pc'[u] \in {"add", "dec", "sub"} <=> pc[u] \in {"add", "dec", "sub"}
             /\ Numbered(u)' <=> Numbered(u)
             /\ Blocked(u)' <=> Blocked(u)
        /\ Numbered(t) <=> Counter(t) = "count"
        /\ Numbered(t)' <=> Counter(t) # "block"
        /\ Blocked(t) <=> program = "pssfs" /\ Counter(t) # "block"
        /\ Blocked(t)' <=> program = "pssfs"
        /\ program = "pssfs" => (pc'[t] = "add" <=> Counter(t) = "count")
        /\ Owes(t)'
    BY <1>0, <1>1, <1>3, <1>4, StorePlaces, Zenon
  <1>6. /\ Counter(t) \in {"block", "number", "count"}
        /\ program # "pssfs" => Counter(t) = "number"
    BY <1>0, CounterIs
  <1>7. /\ Stores(t, Counter(t))
        /\ read[t] \in Int
        /\ Counter(t) = "number" => read[t] \in Nat
        /\ Counter(t) = "block" => read[t] \in 0 .. MetaBlocks - 1
    BY <1>0, <1>1 DEF Stores, ThreadInv, ThreadType
  <1>8. /\ got' \in [Threads -> CellRec]
        /\ \A u \in Threads : u # t => got'[u] = got[u]
        /\ got'[t].number = IF Counter(t) = "number" THEN Given(read[t]) ELSE got[t].number
        /\ got'[t].block = IF Counter(t) = "block" THEN read[t] ELSE got[t].block
    <2>0. got \in [Threads -> CellRec] /\ read[t] \in Int
      BY <1>0 DEF ThreadType
    <2>1. CASE Counter(t) = "block"
      BY <1>2, <1>7, <2>0, <2>1 DEF CellRec
    <2>2. CASE Counter(t) = "number"
      BY <1>2, <1>7, <2>0, <2>2 DEF CellRec, Given
    <2>3. CASE Counter(t) = "count"
      BY <1>2, <2>0, <2>3
    <2> QED
      BY <1>6, <2>1, <2>2, <2>3
  <1>9. \A u \in Threads : u # t => read'[u] = read[u]
    BY <1>0, <1>1 DEF ThreadType
  \* Nothing that is written back was read by another thread.
  <1>10. ASSUME Counter(t) \notin lost', NEW u \in Threads, u # t
         PROVE  ~ Stores(u, Counter(t)) /\ (Counter(t) = "count" => pc[u] # "sub")
    BY <1>1, <1>10 DEF Updated, Stale, Stores
  <1>11. TypeInv'
    <2>1. cur_inode' \in Nat /\ inode_count' \in Int /\ meta' \subseteq 0 .. MetaBlocks - 1
      BY <1>0, <1>1, <1>7 DEF NumbersType
    <2>2. read' \in [Threads -> Int]
      BY <1>0, <1>1 DEF ThreadType
    <2>3. lost' \subseteq {"block", "number", "count", "table"}
      BY <1>0, <1>1, <1>6 DEF CallType, Updated
    <2> QED
      BY <1>0, <1>3, <1>5, <1>8, <2>1, <2>2, <2>3
      DEF TablesType, NumbersType, ThreadType, CallType
  <1>12. ThreadInv'
    <2>1. Len(Counters)' = Len(Counters)
      BY <1>3 DEF Counters
    <2> QED
      BY <1>0, <1>3, <1>5, <1>9, <2>1 DEF ThreadInv
  <1>13. ApartInv' /\ InjectiveInv'
    BY <1>3, <1>5 DEF IInv, MapsInv, ApartInv, InjectiveInv, Owner
  <1>14. OwnerInv'
    <2> SUFFICES ASSUME NEW v \in Threads, pc'[v] \in Locking
                 PROVE  LET c == inode_map[Owner(v)]
                        IN  /\ path[v] \notin Paths /\ Owner(v) \in Paths
                            /\ entry_map[c] = c /\ node[c].kind = "dir"
                            /\ cell[c].number < Given(cur_inode)'
                            /\ \A u \in Threads :
                                 /\ Stores(u, "number")' => cell[c].number < Given(read[u])'
                                 /\ Numbered(u)' => cell[c].number # got'[u].number
      BY <1>3 DEF OwnerInv, Owner
    <2> DEFINE c == inode_map[Owner(v)]
    <2>1. /\ path[v] \notin Paths /\ Owner(v) \in Paths
          /\ entry_map[c] = c /\ node[c].kind = "dir"
          /\ cell[c].number < Given(cur_inode)
          /\ \A u \in Threads :
               /\ Stores(u, "number") => cell[c].number < Given(read[u])
               /\ Numbered(u) => cell[c].number # got[u].number
      BY <1>5 DEF IInv, MapsInv, OwnerInv
    <2>2. c \in Cells /\ cell[c].number \in Nat /\ cur_inode \in Nat
      BY <1>0, <2>1, PathIs, TypesAre
    <2> DEFINE n == cell[c].number
    <2>3. n \in Nat
      BY <2>2
    <2> HIDE DEF n, c
    <2>4. /\ n < Given(cur_inode)
          /\ \A u \in Threads : /\ Stores(u, "number") => n < Given(read[u])
                                /\ Numbered(u) => n # got[u].number
      BY <2>1 DEF n
    <2>5. n < Given(cur_inode)'
      BY <1>1, <1>3, <1>7, <2>2, <2>3, <2>4 DEF Given
    <2>6. ASSUME NEW u \in Threads
          PROVE  /\ Stores(u, "number")' => n < Given(read[u])'
                 /\ Numbered(u)' => n # got'[u].number
      <3>1. CASE u = t
        BY <1>5, <1>6, <1>7, <1>8, <2>3, <2>4, <3>1 DEF Given
      <3>2. CASE u # t
        BY <1>3, <1>5, <1>8, <1>9, <2>4, <3>2 DEF Given
      <3> QED
        BY <3>1, <3>2
    <2> QED
      BY <2>1, <2>5, <2>6 DEF n, c
  <1>15. NumberInv'
    <2> SUFFICES ASSUME "number" \notin lost' PROVE NumberInv'
      BY DEF NumberInv
    <2>1. "number" \notin lost
      BY <1>1
    <2>2. /\ \A e \in Cells : entry_map[e] = e /\ cell[e].number < Given(cur_inode)
          /\ \A d, e \in Cells : cell[d].number = cell[e].number => d = e
          /\ \A u \in Threads : Stores(u, "number") => read[u] = cur_inode
          /\ \A u \in Threads : Numbered(u) =>
               /\ got[u].number < Given(cur_inode)
               /\ \A e \in Cells : cell[e].number # got[u].number
               /\ \A v \in Threads : Numbered(v) /\ got[v].number = got[u].number => u = v
      BY <2>1 DEF IInv, NumberInv
    <2>3. /\ \A e \in Cells : cell[e].number \in Nat
          /\ \A u \in Threads : got[u].number \in Nat
          /\ cur_inode \in Nat
      BY <1>0, TypesAre
    <2>4. CASE Counter(t) = "number"
      <3>1. cur_inode' = cur_inode + 1 /\ Given(cur_inode)' = Given(cur_inode) + 1
        BY <1>1, <1>3, <1>7, <2>2, <2>4 DEF Given
      <3>2. \A u \in Threads : ~ Stores(u, "number")'
        BY <1>5, <1>10, <2>4
      <3>3. got'[t].number = Given(cur_inode) /\ Given(cur_inode) \in Nat
        BY <1>7, <1>8, <2>2, <2>3, <2>4 DEF Given
      <3>4. \A e \in Cells : entry_map[e] = e /\ cell[e].number < Given(cur_inode)'
        BY <2>2, <2>3, <3>1, <3>3
      <3>5. ASSUME NEW u \in Threads, Numbered(u)'
            PROVE  /\ got'[u].number < Given(cur_inode)'
                   /\ \A e \in Cells : cell[e].number # got'[u].number
                   /\ u # t => got'[u].number # got'[t].number
        <4>1. CASE u = t
          BY <2>2, <2>3, <3>1, <3>3, <4>1
        <4>2. CASE u # t
          <5>1. Numbered(u) /\ got'[u] = got[u]
            BY <1>5, <1>8, <3>5, <4>2
          <5> QED
            BY <2>2, <2>3, <3>1, <3>3, <5>1
        <4> QED
          BY <4>1, <4>2
      <3>6. ASSUME NEW u \in Threads, NEW v \in Threads, Numbered(u)', Numbered(v)',
                   got'[v].number = got'[u].number
            PROVE  u = v
        <4>1. CASE u = t \/ v = t
          BY <3>5, <3>6, <4>1
        <4>2. CASE u # t /\ v # t
          BY <1>5, <1>8, <2>2, <3>6, <4>2
        <4> QED
          BY <4>1, <4>2
      <3> QED
        BY <1>3, <2>2, <3>2, <3>4, <3>5, <3>6 DEF NumberInv
    <2>5. CASE Counter(t) # "number"
      <3>1. cur_inode' = cur_inode /\ Given(cur_inode)' = Given(cur_inode)
        BY <1>1, <1>3, <2>5 DEF Given
      <3>2. \A u \in Threads : /\ Numbered(u)' => Numbered(u)
                               /\ got'[u].number = got[u].number
        BY <1>5, <1>6, <1>8, <2>5
      <3>3. \A u \in Threads : Stores(u, "number")' => read'[u] = cur_inode
        BY <1>5, <1>9, <2>2
      <3> QED
        BY <1>3, <2>2, <3>1, <3>2, <3>3 DEF NumberInv
    <2> QED
      BY <2>4, <2>5
  <1>16. BlockInv'
    <2> SUFFICES ASSUME program = "pssfs", "block" \notin lost' PROVE BlockInv'
      BY <1>3 DEF BlockInv
    <2>1. "block" \notin lost
      BY <1>1
    <2>2. /\ \A e \in Cells : cell[e].block \in meta
          /\ \A d, e \in Cells : cell[d].block = cell[e].block => d = e
          /\ \A u \in Threads : Stores(u, "block") => read[u] \notin meta
          /\ \A u \in Threads : Blocked(u) =>
               /\ got[u].block \in meta
               /\ \A e \in Cells : cell[e].block # got[u].block
               /\ \A v \in Threads : Blocked(v) /\ got[v].block = got[u].block => u = v
      BY <2>1 DEF IInv, BlockInv
    <2>3. CASE Counter(t) = "block"
      <3>1. meta' = meta \cup {read[t]} /\ read[t] \notin meta /\ got'[t].block = read[t]
        BY <1>1, <1>7, <1>8, <2>2, <2>3
      <3>2. \A u \in Threads : ~ Stores(u, "block")'
        BY <1>5, <1>10, <2>3
      <3>3. ASSUME NEW u \in Threads, Blocked(u)'
            PROVE  /\ got'[u].block \in meta'
                   /\ \A e \in Cells : cell[e].block # got'[u].block
                   /\ u # t => got'[u].block # got'[t].block
        <4>1. CASE u = t
          BY <2>2, <3>1, <4>1
        <4>2. CASE u # t
          <5>1. Blocked(u) /\ got'[u] = got[u]
            BY <1>5, <1>8, <3>3, <4>2
          <5> QED
            BY <2>2, <3>1, <5>1
        <4> QED
          BY <4>1, <4>2
      <3>4. ASSUME NEW u \in Threads, NEW v \in Threads, Blocked(u)', Blocked(v)',
                   got'[v].block = got'[u].block
            PROVE  u = v
        <4>1. CASE u = t \/ v = t
          BY <3>3, <3>4, <4>1
        <4>2. CASE u # t /\ v # t
          BY <1>5, <1>8, <2>2, <3>4, <4>2
        <4> QED
          BY <4>1, <4>2
      <3> QED
        BY <1>3, <2>2, <3>1, <3>2, <3>3, <3>4 DEF BlockInv
    <2>4. CASE Counter(t) # "block"
      <3>1. \A u \in Threads : (Blocked(u)' => Blocked(u)) /\ got'[u].block = got[u].block
        BY <1>5, <1>6, <1>8, <2>4
      <3>2. \A u \in Threads : Stores(u, "block")' => read'[u] \notin meta
        BY <1>5, <1>9, <2>2
      <3> QED
        BY <1>1, <1>3, <2>2, <2>4, <3>1, <3>2 DEF BlockInv
    <2> QED
      BY <2>3, <2>4
  <1>17. CountInv'
    <2> SUFFICES ASSUME program = "pssfs", "count" \notin lost' PROVE CountInv'
      BY <1>3 DEF CountInv
    <2>1. /\ inode_count = Cardinality(Paths) + Cardinality(Uncounted)
          /\ \A u \in Threads : Stores(u, "count") \/ pc[u] = "sub" => read[u] = inode_count
      BY <1>1 DEF IInv, CountInv
    <2>2. CASE Counter(t) = "count"
      <3>1. inode_count' = inode_count + 1
        BY <1>1, <1>7, <2>1, <2>2
      <3>2. Uncounted' = Uncounted \cup {t} /\ t \notin Uncounted
        BY <1>1, <1>5, <2>2 DEF Uncounted
      <3>3. Cardinality(Uncounted') = Cardinality(Uncounted) + 1 /\ Cardinality(Uncounted) \in Nat
        BY <3>2, ThreadSets, OneMore, Zenon
      <3>4. Cardinality(Paths) \in Nat
        BY <1>0, FS_CardinalityType DEF TablesType
      <3>5. \A u \in Threads : ~ Stores(u, "count")' /\ pc'[u] # "sub"
        BY <1>5, <1>10, <2>2
      <3> QED
        BY <1>3, <2>1, <3>1, <3>3, <3>4, <3>5 DEF CountInv
    <2>3. CASE Counter(t) # "count"
      <3>1. Uncounted' = Uncounted
        BY <1>1, <1>5, <2>3 DEF Uncounted
      <3>2. \A u \in Threads : Stores(u, "count")' \/ pc'[u] = "sub" => read'[u] = inode_count
        BY <1>5, <1>9, <2>1
      <3> QED
        BY <1>1, <1>3, <2>1, <2>3, <3>1, <3>2 DEF CountInv
    <2> QED
      BY <2>2, <2>3
  <1>18. MetaInv'
    <2> DEFINE B == {u \in Threads : Blocked(u)}
    <2>1. Cardinality(meta) <= Len(cell) + Cardinality(B)
      BY DEF IInv, MetaInv
    <2>2. /\ IsFiniteSet(B) /\ Cardinality(B) \in Nat /\ Len(cell) \in Nat
          /\ IsFiniteSet(meta) /\ Cardinality(meta) \in Nat
      BY <1>0, ThreadSets, MetaFinite, TypesAre
    <2>3. CASE Counter(t) = "block"
      <3>1. B' = B \cup {t} /\ t \notin B
        BY <1>5, <1>6, <2>3
      <3>2. Cardinality(B \cup {t}) = Cardinality(B) + 1
        BY <2>2, <3>1, OneMore
      <3>3. /\ Cardinality(meta \cup {read[t]}) <= Cardinality(meta) + 1
            /\ Cardinality(meta \cup {read[t]}) \in Nat
        BY <2>2, OneMore, FS_CardinalityType
      <3> HIDE DEF B
      <3>4. Cardinality(meta') <= Len(cell) + Cardinality(B')
        BY <1>1, <2>1, <2>2, <2>3, <3>1, <3>2, <3>3
      <3> QED
        BY <1>3, <3>4 DEF MetaInv, B
    <2>4. CASE Counter(t) # "block"
      <3>1. B' = B
        BY <1>3, <1>5, <1>6, <2>4
      <3> QED
        BY <1>1, <1>3, <2>1, <2>4, <3>1 DEF MetaInv
    <2> QED
      BY <2>3, <2>4
  <1>19. TreeInv' /\ IdInv' /\ RoomInv'
    <2>1. NamesKept /\ \A e \in Cells : SameRoom(node[e], node'[e]) /\ SameId(node[e], node'[e])
      BY <1>3 DEF NamesKept, SameNames, SameRoom, SameId
    <2>2. lost \subseteq lost' /\ (exchanged => exchanged') /\ Len(node') = Len(node)
          /\ UNCHANGED <<program, cell, node, total, fault>>
      BY <1>1, <1>3
    <2>3. TreeInv'
      BY <1>0, <2>1, <2>2, TreeKept DEF IInv
    <2> QED
      BY <1>0, <2>1, <2>2, <2>3, IdKept, RoomKept DEF IInv
  <1>20. ImageInv' /\ BitmapInv' /\ LockInv' /\ Causes'
    <2>1. ImageInv' /\ BitmapInv'
      <3>1. kind'[t] # "none"
        BY <1>0, <1>1, <1>3 DEF ThreadInv, Making
      <3> QED
        BY <1>5, <3>1 DEF ImageInv, BitmapInv
    <2>2. LockInv'
      BY <1>3, <1>5 DEF IInv, LockInv, Owner
    <2>3. Causes'
      BY <1>1, <1>3 DEF Causes
    <2> QED
      BY <2>1, <2>2, <2>3
  <1> QED
    BY <1>11, <1>12, <1>13, <1>14, <1>15, <1>16, <1>17, <1>18, <1>19, <1>20 DEF IInv, MapsInv

-----------------------------------------------------------------------------
(* Walk and Save                                                           *)

\* A thread that returns leaves the others where they are.
LEMMA Returned ==
  ASSUME TypeInv, NEW t \in Threads, Return(t)
  PROVE  /\ pc' \in [Threads -> Places] /\ path' \in [Threads -> Seq(Name)]
         /\ kind' \in [Threads -> {"none", "file", "dir"}] /\ counter' \in [Threads -> Nat \ {0}]
         /\ got' \in [Threads -> CellRec] /\ DOMAIN walked' = Threads
         /\ origin' \in [Threads -> Seq(Name)]
         /\ pc'[t] = "idle" /\ counter'[t] = 1 /\ kind'[t] = "none"
         /\ \A u \in Threads \ {t} :
              /\ pc'[u] = pc[u] /\ path'[u] = path[u] /\ kind'[u] = kind[u]
              /\ counter'[u] = counter[u] /\ got'[u] = got[u] /\ walked'[u] = walked[u]
  <1>1. /\ pc \in [Threads -> Places] /\ path \in [Threads -> Seq(Name)]
        /\ kind \in [Threads -> {"none", "file", "dir"}] /\ counter \in [Threads -> Nat \ {0}]
        /\ got \in [Threads -> CellRec] /\ DOMAIN walked = Threads
        /\ origin \in [Threads -> Seq(Name)]
    BY DEF ThreadType
  <1>2. /\ pc' = [pc EXCEPT ![t] = "idle"] /\ path' = [path EXCEPT ![t] = Root]
        /\ origin' = [origin EXCEPT ![t] = Root]
        /\ kind' = [kind EXCEPT ![t] = "none"] /\ counter' = [counter EXCEPT ![t] = 1]
        /\ walked' = [walked EXCEPT ![t] = << >>]
        /\ got' = [got EXCEPT ![t] = [number |-> 0, block |-> 0]]
    BY DEF Return
  <1>3. [number |-> 0, block |-> 0] \in CellRec /\ Root \in Seq(Name)
    BY BoundsAssumption DEF CellRec, Root
  <1> QED
    BY <1>1, <1>2, <1>3 DEF Places

\* A step of a thread that holds no lock and draws nothing.
LEMMA SavingKeeps ==
  ASSUME IInv, NEW t \in Threads, pc[t] \in {"save", "write"}, pc'[t] \in {"idle", "write"},
         fault = "none",
         UNCHANGED <<program, inode_map, cell, entry_map, node, cur_inode, inode_count>>,
         UNCHANGED <<meta, total, read, fault, calls, exchanged>>,
         pc' \in [Threads -> Places], path' \in [Threads -> Seq(Name)],
         kind' \in [Threads -> {"none", "file", "dir"}], counter' \in [Threads -> Nat \ {0}],
         got' \in [Threads -> CellRec], DOMAIN walked' = Threads,
         origin' \in [Threads -> Seq(Name)],
         pc'[t] = "write" => path'[t] = path[t] /\ counter'[t] = counter[t],
         pc'[t] = "idle" => counter'[t] = 1 /\ kind'[t] = "none",
         \A u \in Threads \ {t} :
           /\ pc'[u] = pc[u] /\ path'[u] = path[u] /\ kind'[u] = kind[u]
           /\ counter'[u] = counter[u] /\ got'[u] = got[u],
         lost \subseteq lost', lost' \subseteq {"block", "number", "count", "table"},
         image' = [table |-> image'.table, count |-> image'.count, meta |-> image'.meta],
         image'.meta \subseteq 0 .. MetaBlocks - 1,
         ImageInv', BitmapInv'
  PROVE  IInv'
  <1>0. TypeInv /\ ThreadInv
    BY DEF IInv, MapsInv
  <1>1. Len(Counters)' = Len(Counters) /\ 1 \in 1 .. Len(Counters)
    BY <1>0, CounterIs DEF Counters
  <1>2. ASSUME NEW u \in Threads
        PROVE  /\ pc[u] \in Locking => u # t
               /\ pc'[u] \in Locking <=> pc[u] \in Locking
               /\ pc'[u] \in Making <=> pc[u] \in Making
               /\ pc'[u] \in {"add", "dec", "sub"} <=> pc[u] \in {"add", "dec", "sub"}
               /\ pc'[u] = "sub" <=> pc[u] = "sub"
               /\ pc'[u] \in Making \/ pc'[u] = "idle" =>
                    kind'[u] = IF u = t THEN "none" ELSE kind[u]
               /\ Numbered(u)' <=> Numbered(u)
               /\ Blocked(u)' <=> Blocked(u)
               /\ Numbered(u) => u # t
               /\ Blocked(u) => u # t
               /\ pc'[u] # "idle" => pc[u] # "idle" /\ path'[u] = path[u]
               /\ pc'[u] = "idle" => counter'[u] = 1
               /\ pc'[u] \in {"dec", "sub", "save", "write"} =>
                    pc[u] \in {"dec", "sub", "save", "write"}
               /\ counter'[u] \in 1 .. Len(Counters)
    BY <1>0, <1>1 DEF Locking, Making, Numbered, Blocked, ThreadInv
  <1>m. \A u \in Threads : pc[u] \in Locking => path'[u] = path[u]
    BY <1>2
  <1>3. ASSUME NEW u \in Threads, NEW what \in {"block", "number", "count"}
        PROVE  Stores(u, what)' <=> Stores(u, what)
    <2>1. CASE u = t
      BY <2>1 DEF Stores
    <2>2. CASE u # t
      <3>1. Counter(u)' = Counter(u) /\ pc'[u] = pc[u]
        BY <2>2 DEF Counter, Counters
      <3> QED
        BY <3>1 DEF Stores
    <2> QED
      BY <2>1, <2>2
  <1>4. TypeInv'
    BY <1>0 DEF TablesType, NumbersType, ThreadType, CallType
  <1>5. ThreadInv' /\ ApartInv' /\ InjectiveInv'
    <2>1. ThreadInv'
      <3> SUFFICES ASSUME NEW u \in Threads
                   PROVE  /\ counter'[u] \in 1 .. Len(Counters)
                          /\ Stores(u, "number") => read[u] \in Nat
                          /\ Stores(u, "block") => read[u] \in 0 .. MetaBlocks - 1
                          /\ pc'[u] \in {"dec", "sub", "save", "write"} => program = "pssfs"
                          /\ pc'[u] # "idle" => path'[u] \in Seq(Name) /\ path'[u] # <<>>
                          /\ pc'[u] \in Making => kind'[u] # "none"
                          /\ pc'[u] = "idle" => counter'[u] = 1 /\ kind'[u] = "none"
        BY <1>1, <1>3 DEF ThreadInv
      <3>1. /\ Stores(u, "number") => read[u] \in Nat
            /\ Stores(u, "block") => read[u] \in 0 .. MetaBlocks - 1
            /\ pc[u] \in {"dec", "sub", "save", "write"} => program = "pssfs"
            /\ pc[u] # "idle" => path[u] \in Seq(Name) /\ path[u] # <<>>
            /\ pc[u] \in Making => kind[u] # "none"
            /\ pc[u] = "idle" => counter[u] = 1 /\ kind[u] = "none"
        BY <1>0 DEF ThreadInv
      <3>2. pc'[u] \in Making => u # t
        BY DEF Making
      <3>3. u # t => pc'[u] = pc[u] /\ kind'[u] = kind[u]
        OBVIOUS
      <3> QED
        BY <1>2, <3>1, <3>2, <3>3
    <2>2. ApartInv'
      <3> SUFFICES ASSUME NEW u \in Threads, NEW v \in Threads, u # v,
                          pc[u] \in Locking, pc[v] \in Locking
                   PROVE  Front(path'[u]) # Front(path'[v]) /\ ~ IsPrefix(path'[u], path'[v])
        BY <1>2 DEF ApartInv, Owner
      <3>1. path'[u] = path[u] /\ path'[v] = path[v]
        BY <1>m
      <3> QED
        BY <3>1 DEF IInv, MapsInv, ApartInv, Owner
    <2>3. InjectiveInv'
      BY DEF IInv, MapsInv, InjectiveInv
    <2> QED
      BY <2>1, <2>2, <2>3
  <1>6. OwnerInv'
    <2>1. \A u \in Threads : Numbered(u) => got'[u].number = got[u].number
      BY <1>2
    <2>2. \A u \in Threads : /\ Stores(u, "number")' <=> Stores(u, "number")
                             /\ Numbered(u)' <=> Numbered(u)
                             /\ pc'[u] \in Locking <=> pc[u] \in Locking
      BY <1>2, <1>3
    <2> SUFFICES ASSUME NEW v \in Threads, pc[v] \in Locking
                 PROVE  LET c == inode_map[Front(path'[v])]
                        IN  /\ path'[v] \notin Paths /\ Front(path'[v]) \in Paths
                            /\ entry_map[c] = c /\ node[c].kind = "dir"
                            /\ cell[c].number < Given(cur_inode)
                            /\ \A u \in Threads :
                                 /\ Stores(u, "number") => cell[c].number < Given(read[u])
                                 /\ Numbered(u) => cell[c].number # got'[u].number
      BY <2>2 DEF OwnerInv, Owner, Given
    <2>3. path'[v] = path[v]
      BY <1>m
    <2> QED
      BY <2>1, <2>3 DEF IInv, MapsInv, OwnerInv, Owner
  <1>7. NumberInv' /\ BlockInv'
    <2>1. \A u \in Threads : Numbered(u) \/ Blocked(u) => got'[u] = got[u]
      BY <1>2
    <2>2. NumberInv'
      <3>1. \A u \in Threads : Stores(u, "number")' <=> Stores(u, "number")
        BY <1>3
      <3>2. \A u \in Threads : Numbered(u) => got'[u].number = got[u].number
        BY <2>1
      <3>3. \A u \in Threads : Numbered(u)' <=> Numbered(u)
        BY <1>2
      <3> QED
        BY <3>1, <3>2, <3>3 DEF IInv, NumberInv, Given
    <2>3. BlockInv'
      <3>1. \A u \in Threads : Stores(u, "block")' <=> Stores(u, "block")
        BY <1>3
      <3>2. \A u \in Threads : Blocked(u) => got'[u].block = got[u].block
        BY <2>1
      <3>3. \A u \in Threads : Blocked(u)' <=> Blocked(u)
        BY <1>2
      <3> SUFFICES ASSUME program = "pssfs", "block" \notin lost'
                   PROVE  /\ \A e \in Cells : cell[e].block \in meta
                          /\ \A d, e \in Cells : cell[d].block = cell[e].block => d = e
                          /\ \A u \in Threads : Stores(u, "block") => read[u] \notin meta
                          /\ \A u \in Threads : Blocked(u) =>
                               /\ got'[u].block \in meta
                               /\ \A e \in Cells : cell[e].block # got'[u].block
                               /\ \A v \in Threads :
                                    Blocked(v) /\ got'[v].block = got'[u].block => u = v
        BY <3>1, <3>3 DEF BlockInv
      <3>4. "block" \notin lost
        OBVIOUS
      <3>5. /\ \A e \in Cells : cell[e].block \in meta
            /\ \A d, e \in Cells : cell[d].block = cell[e].block => d = e
            /\ \A u \in Threads : Stores(u, "block") => read[u] \notin meta
            /\ \A u \in Threads : Blocked(u) =>
                 /\ got[u].block \in meta
                 /\ \A e \in Cells : cell[e].block # got[u].block
                 /\ \A v \in Threads : Blocked(v) /\ got[v].block = got[u].block => u = v
        BY <3>4 DEF IInv, BlockInv
      <3>6. ASSUME NEW u \in Threads, Blocked(u)
            PROVE  /\ got'[u].block \in meta
                   /\ \A e \in Cells : cell[e].block # got'[u].block
                   /\ \A v \in Threads :
                        Blocked(v) /\ got'[v].block = got'[u].block => u = v
        <4>1. got'[u].block = got[u].block
          BY <3>2, <3>6
        <4> QED
          BY <3>2, <3>5, <3>6, <4>1
      <3> QED
        BY <3>5, <3>6
    <2> QED
      BY <2>2, <2>3
  <1>8. CountInv' /\ MetaInv'
    <2>1. Uncounted' = Uncounted
      BY <1>2 DEF Uncounted
    <2>2. {u \in Threads : Blocked(u)}' = {u \in Threads : Blocked(u)}
      BY <1>2
    <2> QED
      BY <1>3, <2>1, <2>2 DEF IInv, CountInv, MetaInv
  <1>9. TreeInv' /\ IdInv' /\ RoomInv'
    <2>1. NamesKept /\ \A e \in Cells : SameRoom(node[e], node'[e]) /\ SameId(node[e], node'[e])
      BY DEF NamesKept, SameNames, SameRoom, SameId
    <2>2. TreeInv'
      BY <1>0, <2>1, TreeKept DEF IInv
    <2> QED
      BY <1>0, <2>1, <2>2, IdKept, RoomKept DEF IInv
  <1>10. LockInv' /\ Causes'
    <2>1. \A e \in Cells : SameLock(node[e], node'[e])
      BY DEF SameLock
    <2>2. LockInv'
      <3>1. \A u \in Threads : pc[u] \in Locking => pc'[u] \in Locking /\ path'[u] = path[u]
        BY <1>2, <1>m
      <3>2. UNCHANGED <<inode_map, cell>> /\ LockInv
        BY DEF IInv
      <3> QED
        BY <2>1, <3>1, <3>2, LockKept, Zenon
    <2>4. Causes'
      BY DEF Causes
    <2> QED
      BY <2>2, <2>4
  <1> QED
    BY <1>4, <1>5, <1>6, <1>7, <1>8, <1>9, <1>10 DEF IInv, MapsInv

\* Collecting the inode table preserves the invariant.
LEMMA WalkKeeps ==
  ASSUME IInv, NEW t \in Threads, Walk(t)
  PROVE  IInv'
  <1>0. TypeInv /\ ThreadInv
    BY DEF IInv, MapsInv
  <1>1. /\ fault = "none" /\ pc[t] = "save" /\ pc' = [pc EXCEPT ![t] = "write"]
        /\ walked' = [walked EXCEPT ![t] = <<Table, inode_count>>]
        /\ UNCHANGED <<program, inode_map, cell, entry_map, node, cur_inode, inode_count>>
        /\ UNCHANGED <<meta, total, read, fault, calls, exchanged, image, lost>>
        /\ UNCHANGED <<path, origin, kind, counter, got>>
    BY DEF Walk, tables, numbers, ghosts
  <1>2. /\ pc' \in [Threads -> Places] /\ DOMAIN walked' = Threads
        /\ pc'[t] = "write" /\ \A u \in Threads \ {t} : pc'[u] = pc[u]
        /\ walked'[t] = <<Table, inode_count>>
    BY <1>0, <1>1 DEF ThreadType, Places
  <1>3. Table' = Table
    BY <1>1 DEF Table, Rows
  <1>4. ImageInv' /\ BitmapInv'
    BY <1>1, <1>2, <1>3 DEF IInv, ImageInv, BitmapInv
  <1>5. /\ path' \in [Threads -> Seq(Name)] /\ kind' \in [Threads -> {"none", "file", "dir"}]
        /\ counter' \in [Threads -> Nat \ {0}] /\ got' \in [Threads -> CellRec]
        /\ origin' \in [Threads -> Seq(Name)]
        /\ lost' \subseteq {"block", "number", "count", "table"}
        /\ image' = [table |-> image'.table, count |-> image'.count, meta |-> image'.meta]
        /\ image'.meta \subseteq 0 .. MetaBlocks - 1
    BY <1>0, <1>1 DEF NumbersType, ThreadType, CallType
  <1> QED
    BY <1>1, <1>2, <1>4, <1>5, SavingKeeps


\* Writing the inode table to the device preserves the invariant.
LEMMA SaveKeeps ==
  ASSUME IInv, NEW t \in Threads, Save(t)
  PROVE  IInv'
  <1>0. TypeInv /\ ThreadInv
    BY DEF IInv, MapsInv
  <1>1. /\ fault = "none" /\ pc[t] = "write" /\ image' = Written(t) /\ Return(t)
        /\ lost' = lost \cup Updated(t, "table")
        /\ UNCHANGED <<program, inode_map, cell, entry_map, node, cur_inode, inode_count>>
        /\ UNCHANGED <<meta, total, read, fault, calls, exchanged>>
    BY DEF Save, tables, numbers
  <1>2. /\ pc' \in [Threads -> Places] /\ path' \in [Threads -> Seq(Name)]
        /\ kind' \in [Threads -> {"none", "file", "dir"}] /\ counter' \in [Threads -> Nat \ {0}]
        /\ got' \in [Threads -> CellRec] /\ DOMAIN walked' = Threads
        /\ origin' \in [Threads -> Seq(Name)]
        /\ pc'[t] = "idle" /\ counter'[t] = 1 /\ kind'[t] = "none"
        /\ \A u \in Threads \ {t} :
             /\ pc'[u] = pc[u] /\ path'[u] = path[u] /\ kind'[u] = kind[u]
             /\ counter'[u] = counter[u] /\ got'[u] = got[u] /\ walked'[u] = walked[u]
    BY <1>0, <1>1, Returned
  <1>3. /\ image' = [table |-> image'.table, count |-> image'.count, meta |-> image'.meta]
        /\ image'.meta = IF kind[t] = "none" THEN image.meta ELSE meta
        /\ image'.table = walked[t][1] /\ image'.count = walked[t][2]
    BY <1>1 DEF Written
  <1>4. image'.meta \subseteq 0 .. MetaBlocks - 1
    BY <1>0, <1>3 DEF NumbersType
  <1>5. lost \subseteq lost' /\ lost' \subseteq {"block", "number", "count", "table"}
    BY <1>0, <1>1 DEF CallType, Updated
  <1>b. BitmapInv'
    BY <1>1, <1>2, <1>3 DEF IInv, BitmapInv
  <1>6. ImageInv'
    <2> SUFFICES ASSUME program = "pssfs", "table" \notin lost',
                        ~ \E u \in Threads : Owes(u)'
                 PROVE  /\ \A u \in Threads : pc'[u] = "idle"
                        /\ image' = [table |-> Table', count |-> inode_count', meta |-> meta']
      BY <1>1 DEF ImageInv
    <2>1. Table' = Table /\ "table" \notin lost
      BY <1>1 DEF Table, Rows
    <2>2. \A u \in Threads \ {t} : pc[u] # "write"
      BY <1>1 DEF Updated, Stale
    <2>3. \A u \in Threads \ {t} : ~ Owes(u)
      BY <1>2 DEF Owes
    <2>4. \A u \in Threads : pc'[u] = "idle"
      <3>1. \A u \in Threads : pc[u] \in Places
        BY <1>0 DEF ThreadType
      <3> TAKE u \in Threads
      <3>2. CASE u = t
        BY <1>2, <3>2
      <3>3. CASE u # t
        <4>1. pc'[u] = pc[u] /\ pc[u] # "write" /\ ~ Owes(u)
          BY <1>2, <2>2, <2>3, <3>3
        <4> QED
          BY <3>1, <4>1 DEF Owes, Places
      <3> QED
        BY <3>2, <3>3
    <2>5. walked[t] = <<Table, inode_count>>
      <3>1. ~ Owes(t) /\ pc[t] # "idle"
        BY <1>1 DEF Owes
      <3> QED
        BY <1>1, <2>1, <2>2, <2>3, <3>1 DEF IInv, ImageInv
    <2>6. image'.meta = meta'
      <3>1. \A u \in Threads : kind'[u] = "none"
        <4>1. \A u \in Threads \ {t} : pc[u] = "idle"
          BY <1>2, <2>4
        <4> QED
          BY <1>0, <1>2, <4>1 DEF ThreadInv
      <3> QED
        BY <1>b, <1>1, <3>1 DEF BitmapInv
    <2> QED
      BY <1>1, <1>3, <2>1, <2>4, <2>5, <2>6
  <1>7. /\ pc[t] \in {"save", "write"} /\ pc'[t] \in {"idle", "write"} /\ pc'[t] # "write"
        /\ \A u \in Threads \ {t} :
             /\ pc'[u] = pc[u] /\ path'[u] = path[u] /\ kind'[u] = kind[u]
             /\ counter'[u] = counter[u] /\ got'[u] = got[u]
    BY <1>1, <1>2
  <1> QED
    BY <1>1, <1>2, <1>3, <1>4, <1>5, <1>6, <1>7, <1>b, SavingKeeps

-----------------------------------------------------------------------------
(* Begin                                                                   *)

\* While no number was given twice, cells and nodes are the same.
LEMMA EntryIs ==
  ASSUME TypeInv, NumberInv, "number" \notin lost, NEW p \in Paths
  PROVE  Entry(p) = inode_map[p] /\ Entry(p) \in Cells
  BY PathIs DEF NumberInv, Entry

\* Another value for one node leaves the nodes well typed and the others alone.
LEMMA NodeSet ==
  ASSUME TypeInv, NEW e \in Cells, NEW x \in NodeRec, x.children \in Seq(Cells),
         x.kind = "file" => x.children = <<>>, node' = [node EXCEPT ![e] = x]
  PROVE  /\ node' \in Seq(NodeRec) /\ Len(node') = Len(node)
         /\ node'[e] = x /\ \A d \in Cells : d # e => node'[d] = node[d]
         /\ \A d \in Cells : /\ node'[d].children \in Seq(Cells)
                             /\ node'[d].kind = "file" => node'[d].children = <<>>
  <1>1. /\ node \in Seq(NodeRec) /\ Cells = 1 .. Len(node)
        /\ \A d \in Cells : /\ node[d].children \in Seq(Cells)
                            /\ node[d].kind = "file" => node[d].children = <<>>
    BY TypesAre DEF TablesType
  <1>2. /\ node' \in Seq(NodeRec) /\ Len(node') = Len(node)
        /\ \A d \in Cells : node'[d] = IF d = e THEN x ELSE node[d]
    BY <1>1
  <1> QED
    BY <1>1, <1>2

\* Locking the directory of a new entry preserves the invariant: its owner is a
\* directory that no other thread works in.
LEMMA BeginKeeps ==
  ASSUME IInv, NEW t \in Threads, Begin(t)
  PROVE  IInv'
  <1>0. TypeInv /\ ThreadInv
    BY DEF IInv, MapsInv
  <1>1. /\ fault = "none" /\ calls' = calls + 1 /\ calls < MaxCalls /\ pc[t] = "idle"
        /\ ~ exchanged /\ "number" \notin lost
        /\ pc' = [pc EXCEPT ![t] = "load"]
        /\ UNCHANGED <<program, inode_map, cell, entry_map, cur_inode, inode_count, meta>>
        /\ UNCHANGED <<total, image, counter, read, got, walked, fault, lost, exchanged>>
    BY DEF Begin, Call, numbers, ghosts
  <1>2. PICK p \in NewPaths \ Paths, k \in {"file", "dir"} :
          /\ IsDir(Front(p)) /\ Admitted(p)
          /\ node' = [node EXCEPT ![Entry(Front(p))].busy = program # "dummyfs"]
          /\ path' = [path EXCEPT ![t] = p] /\ origin' = [origin EXCEPT ![t] = p]
          /\ kind' = [kind EXCEPT ![t] = k]
    BY DEF Begin
  <1>p. p \in Seq(Name) /\ p # <<>>
    BY NewPathIs
  <1> DEFINE c == inode_map[Front(p)]
  <1>3. Front(p) \in Paths /\ c \in Cells /\ Entry(Front(p)) = c /\ node[c].kind = "dir"
    BY <1>0, <1>1, <1>2, EntryIs DEF IsDir, IInv
  <1> DEFINE b == program # "dummyfs"
             x == [node[c] EXCEPT !.busy = b]
  <1>4. /\ x \in NodeRec /\ x.busy = b /\ x.denied = node[c].denied
        /\ SameNames(node[c], x) /\ SameRoom(node[c], x) /\ SameId(node[c], x)
    <2>1. node[c] \in NodeRec
      BY <1>0, <1>3, TypesAre
    <2>2. b \in BOOLEAN
      OBVIOUS
    <2> HIDE DEF b
    <2> QED
      BY <2>1, <2>2, SetBusy
  <1>5. node' = [node EXCEPT ![c] = x]
    BY <1>2, <1>3
  <1>6. /\ x.children \in Seq(Cells) /\ (x.kind = "file" => x.children = <<>>)
    BY <1>0, <1>3, <1>4 DEF SameNames, TablesType
  <1> HIDE DEF x, c
  <1>7. /\ node' \in Seq(NodeRec) /\ Len(node') = Len(node)
        /\ node'[c] = x /\ \A d \in Cells : d # c => node'[d] = node[d]
        /\ \A d \in Cells : /\ node'[d].children \in Seq(Cells)
                            /\ node'[d].kind = "file" => node'[d].children = <<>>
    BY <1>0, <1>3, <1>4, <1>5, <1>6, NodeSet
  <1>8. \A e \in Cells : /\ SameNames(node[e], node'[e]) /\ SameRoom(node[e], node'[e])
                         /\ SameId(node[e], node'[e])
    BY <1>4, <1>7 DEF SameNames, SameRoom, SameId
  <1>9. /\ pc' \in [Threads -> Places] /\ path' \in [Threads -> Seq(Name)]
        /\ kind' \in [Threads -> {"none", "file", "dir"}]
        /\ origin' \in [Threads -> Seq(Name)]
        /\ pc'[t] = "load" /\ path'[t] = p /\ kind'[t] # "none"
        /\ \A u \in Threads : u # t => /\ pc'[u] = pc[u] /\ path'[u] = path[u]
                                       /\ kind'[u] = kind[u]
    <2>1. /\ pc \in [Threads -> Places] /\ path \in [Threads -> Seq(Name)]
          /\ kind \in [Threads -> {"none", "file", "dir"}]
          /\ origin \in [Threads -> Seq(Name)]
      BY <1>0 DEF ThreadType
    <2> QED
      BY <1>1, <1>2, <1>p, <2>1 DEF Places
  <1>10. counter[t] = 1 /\ Len(Counters)' = Len(Counters)
    BY <1>0, <1>1 DEF ThreadInv, Counters
  <1>11. ASSUME NEW u \in Threads
         PROVE  /\ Numbered(u)' <=> Numbered(u)
                /\ Blocked(u)' <=> Blocked(u)
                /\ Stores(u, "block")' <=> Stores(u, "block")
                /\ Stores(u, "number")' <=> Stores(u, "number")
                /\ Stores(u, "count")' <=> Stores(u, "count")
                /\ pc'[u] = "sub" <=> pc[u] = "sub"
                /\ pc'[u] \in {"add", "dec", "sub"} <=> pc[u] \in {"add", "dec", "sub"}
    <2>1. Counter(u)' = Counter(u)
      BY <1>1 DEF Counter, Counters
    <2>2. CASE u = t
      BY <1>1, <1>9, <1>10, <2>2 DEF Numbered, Blocked, Stores
    <2>3. CASE u # t
      <3>1. pc'[u] = pc[u] /\ counter'[u] = counter[u] /\ program' = program
        BY <1>1, <1>9, <2>3
      <3> QED
        BY <2>1, <3>1 DEF Numbered, Blocked, Stores
    <2> QED
      BY <2>2, <2>3
  <1>12. TypeInv'
    <2>1. calls' \in 0 .. MaxCalls
      BY <1>0, <1>1, BoundsAssumption DEF CallType
    <2>2. TablesType'
      BY <1>0, <1>1, <1>7 DEF TablesType
    <2>3. ThreadType'
      BY <1>0, <1>1, <1>9 DEF ThreadType
    <2>4. NumbersType' /\ CallType'
      BY <1>0, <1>1, <2>1 DEF NumbersType, CallType
    <2> QED
      BY <2>2, <2>3, <2>4
  <1>13. ThreadInv'
    BY <1>0, <1>1, <1>9, <1>p, <1>10, <1>11 DEF ThreadInv, Making
  <1>14. ApartInv' /\ InjectiveInv'
    <2>1. ASSUME NEW u \in Threads, u # t, pc[u] # "idle"
          PROVE  /\ Front(path[u]) # Front(p)
                 /\ ~ IsPrefix(p, path[u]) /\ ~ IsPrefix(path[u], p)
      BY <1>2, <2>1 DEF Admitted
    <2>2. ApartInv'
      <3> SUFFICES ASSUME NEW u \in Threads, NEW v \in Threads, u # v,
                          pc'[u] \in Locking, pc'[v] \in Locking
                   PROVE  Front(path'[u]) # Front(path'[v]) /\ ~ IsPrefix(path'[u], path'[v])
        BY DEF ApartInv, Owner
      <3>1. \A w \in {u, v} : w # t => pc[w] \in Locking /\ pc[w] # "idle" /\ path'[w] = path[w]
        BY <1>9 DEF Locking
      <3>2. CASE u # t /\ v # t
        BY <3>1, <3>2 DEF IInv, MapsInv, ApartInv, Owner
      <3>3. CASE u = t
        BY <1>9, <2>1, <3>1, <3>3
      <3>4. CASE v = t
        BY <1>9, <2>1, <3>1, <3>4
      <3> QED
        BY <3>2, <3>3, <3>4
    <2>3. InjectiveInv'
      BY <1>1 DEF IInv, MapsInv, InjectiveInv
    <2> QED
      BY <2>2, <2>3
  <1>15. OwnerInv'
    <2> SUFFICES ASSUME NEW v \in Threads, pc'[v] \in Locking
                 PROVE  LET f == Front(path'[v])
                        IN  /\ path'[v] \notin Paths /\ f \in Paths
                            /\ entry_map[inode_map[f]] = inode_map[f]
                            /\ node'[inode_map[f]].kind = "dir"
                            /\ cell[inode_map[f]].number < Given(cur_inode)
                            /\ \A u \in Threads :
                                 /\ Stores(u, "number")' =>
                                      cell[inode_map[f]].number < Given(read[u])
                                 /\ Numbered(u)' => cell[inode_map[f]].number # got[u].number
      BY <1>1 DEF OwnerInv, Owner, Given
    <2>1. CASE v = t
      <3>1. /\ entry_map[c] = c /\ cell[c].number < Given(cur_inode)
            /\ \A u \in Threads :
                 /\ Stores(u, "number") => cell[c].number < Given(read[u])
                 /\ Numbered(u) => cell[c].number # got[u].number
        BY <1>1, <1>3 DEF IInv, NumberInv, Given
      <3>2. node'[c].kind = "dir"
        BY <1>3, <1>8 DEF SameNames
      <3> QED
        BY <1>2, <1>3, <1>9, <1>11, <2>1, <3>1, <3>2 DEF c
    <2>2. CASE v # t
      <3>1. pc[v] \in Locking /\ path'[v] = path[v]
        BY <1>9, <2>2
      <3> DEFINE f == Front(path[v])
      <3>2. /\ path[v] \notin Paths /\ f \in Paths
            /\ entry_map[inode_map[f]] = inode_map[f]
            /\ node[inode_map[f]].kind = "dir"
            /\ cell[inode_map[f]].number < Given(cur_inode)
            /\ \A u \in Threads :
                 /\ Stores(u, "number") => cell[inode_map[f]].number < Given(read[u])
                 /\ Numbered(u) => cell[inode_map[f]].number # got[u].number
        BY <3>1 DEF IInv, MapsInv, OwnerInv, Owner
      <3>3. node'[inode_map[f]].kind = "dir"
        BY <1>0, <1>8, <3>2, PathIs DEF SameNames
      <3> QED
        BY <1>11, <3>1, <3>2, <3>3
    <2> QED
      BY <2>1, <2>2
  <1>16. NumberInv' /\ BlockInv'
    <2>1. NumberInv'
      BY <1>1, <1>11 DEF IInv, NumberInv, Given
    <2>2. BlockInv'
      BY <1>1, <1>11 DEF IInv, BlockInv
    <2> QED
      BY <2>1, <2>2
  <1>17. CountInv' /\ MetaInv'
    <2>1. Uncounted' = Uncounted
      BY <1>11 DEF Uncounted
    <2>2. {u \in Threads : Blocked(u)}' = {u \in Threads : Blocked(u)}
      BY <1>11
    <2> QED
      BY <1>1, <1>11, <2>1, <2>2 DEF IInv, CountInv, MetaInv
  <1>18. TreeInv' /\ IdInv' /\ RoomInv'
    <2>1. NamesKept /\ lost \subseteq lost'
      BY <1>1, <1>7, <1>8 DEF NamesKept
    <2>2. \A e \in Cells : node'[e].kind = node[e].kind
      BY <1>8 DEF SameNames
    <2>3. TreeInv'
      BY <1>0, <1>1, <2>1, TreeKept DEF IInv
    <2> QED
      BY <1>0, <1>1, <1>7, <1>8, <2>2, <2>3, IdKept, RoomKept DEF IInv
  <1>19. ImageInv' /\ BitmapInv'
    <2>1. Owes(t)'
      BY <1>9 DEF Owes
    <2> QED
      BY <1>9, <2>1 DEF ImageInv, BitmapInv
  <1>20. LockInv'
    <2> SUFFICES ASSUME NEW e \in Cells, node'[e].busy, ~ node'[e].denied
                 PROVE  \E u \in Threads : pc'[u] \in Locking /\ e = inode_map[Front(path'[u])]
      BY <1>1 DEF LockInv, Owner
    <2>1. CASE e = c
      <3>1. pc'[t] \in Locking /\ e = inode_map[Front(path'[t])]
        BY <1>9, <2>1 DEF Locking, c
      <3> QED
        BY <3>1
    <2>2. CASE e # c
      <3>1. PICK u \in Threads : pc[u] \in Locking /\ e = inode_map[Front(path[u])]
        BY <1>7, <2>2 DEF IInv, LockInv, Owner
      <3>2. u # t
        BY <1>1, <3>1 DEF Locking
      <3>3. pc'[u] \in Locking /\ e = inode_map[Front(path'[u])]
        BY <1>9, <3>1, <3>2
      <3> QED
        BY <3>3
    <2> QED
      BY <2>1, <2>2
  <1>21. Causes'
    BY <1>1 DEF Causes
  <1> QED
    BY <1>12, <1>13, <1>14, <1>15, <1>16, <1>17, <1>18, <1>19, <1>20, <1>21 DEF IInv, MapsInv

-----------------------------------------------------------------------------
(* LoadCount and StoreCount                                                *)

\* Where a thread is that counts what it removed.
LEMMA CountPlaces ==
  ASSUME TypeInv, NEW t \in Threads, NEW place \in {"sub", "save"}, pc[t] \in {"dec", "sub"},
         pc' = [pc EXCEPT ![t] = place], UNCHANGED <<program, counter>>, NEW u \in Threads
  PROVE  /\ pc'[u] = IF u = t THEN place ELSE pc[u]
         /\ pc'[u] = "idle" <=> pc[u] = "idle"
         /\ pc'[u] = "write" <=> pc[u] = "write"
         /\ pc'[u] \in {"dec", "sub", "save", "write"} <=>
              pc[u] \in {"dec", "sub", "save", "write"}
         /\ pc'[u] \in Locking => pc[u] \in Locking
         /\ pc'[u] \in Making <=> pc[u] \in Making
         /\ Numbered(u)' <=> Numbered(u)
         /\ Blocked(u)' <=> Blocked(u)
         /\ Owes(u)' <=> Owes(u)
         /\ Stores(u, "block")' <=> Stores(u, "block")
         /\ Stores(u, "number")' <=> Stores(u, "number")
         /\ Stores(u, "count")' <=> Stores(u, "count")
         /\ Stores(u, "number") \/ Stores(u, "block") \/ Stores(u, "count") => u # t
  <1>1. pc'[u] = IF u = t THEN place ELSE pc[u]
    BY DEF ThreadType
  <1>2. \A what : (Counter(u) = what)' <=> Counter(u) = what
    BY DEF Counter, Counters
  <1> QED
    BY <1>1, <1>2 DEF Locking, Making, Numbered, Blocked, Owes, Stores

\* A step of a thread that counts what it removed.
LEMMA CountingKeeps ==
  ASSUME IInv, NEW t \in Threads, NEW place \in {"sub", "save"}, pc[t] \in {"dec", "sub"},
         pc' = [pc EXCEPT ![t] = place], fault = "none",
         UNCHANGED <<program, inode_map, cell, entry_map, cur_inode, meta, total, image>>,
         UNCHANGED <<path, origin, kind, counter, got, walked, fault, calls, exchanged>>,
         read' \in [Threads -> Int], \A u \in Threads \ {t} : read'[u] = read[u],
         inode_count' \in Int,
         lost \subseteq lost', lost' \subseteq {"block", "number", "count", "table"},
         node' \in Seq(NodeRec), Len(node') = Len(node),
         \A e \in Cells : /\ SameNames(node[e], node'[e]) /\ SameRoom(node[e], node'[e])
                          /\ SameId(node[e], node'[e]),
         CountInv', LockInv'
  PROVE  IInv'
  <1>0. TypeInv /\ ThreadInv /\ ApartInv /\ OwnerInv
    BY DEF IInv, MapsInv
  <1>1. \A u \in Threads :
          /\ pc'[u] = "idle" <=> pc[u] = "idle"
          /\ pc'[u] = "write" <=> pc[u] = "write"
          /\ pc'[u] \in {"dec", "sub", "save", "write"} <=>
               pc[u] \in {"dec", "sub", "save", "write"}
          /\ pc'[u] \in Locking => pc[u] \in Locking
          /\ pc'[u] \in Making <=> pc[u] \in Making
          /\ Numbered(u)' <=> Numbered(u)
          /\ Blocked(u)' <=> Blocked(u)
          /\ Owes(u)' <=> Owes(u)
          /\ Stores(u, "block")' <=> Stores(u, "block")
          /\ Stores(u, "number")' <=> Stores(u, "number")
          /\ Stores(u, "number") \/ Stores(u, "block") => read'[u] = read[u]
    <2> TAKE u \in Threads
    <2>1. UNCHANGED <<program, counter>>
      OBVIOUS
    <2>2. /\ pc'[u] = "idle" <=> pc[u] = "idle"
          /\ pc'[u] = "write" <=> pc[u] = "write"
          /\ pc'[u] \in {"dec", "sub", "save", "write"} <=>
               pc[u] \in {"dec", "sub", "save", "write"}
          /\ pc'[u] \in Locking => pc[u] \in Locking
          /\ pc'[u] \in Making <=> pc[u] \in Making
          /\ Numbered(u)' <=> Numbered(u)
          /\ Blocked(u)' <=> Blocked(u)
          /\ Owes(u)' <=> Owes(u)
          /\ Stores(u, "block")' <=> Stores(u, "block")
          /\ Stores(u, "number")' <=> Stores(u, "number")
          /\ Stores(u, "number") \/ Stores(u, "block") \/ Stores(u, "count") => u # t
      BY <1>0, <2>1, CountPlaces, Zenon
    <2> QED
      BY <2>2
  <1>2. pc'[t] = place
    BY <1>0 DEF ThreadType
  <1>3. TypeInv'
    <2>1. TablesType'
      <3>1. \A e \in Cells : /\ node'[e].children \in Seq(Cells)
                             /\ node'[e].kind = "file" => node'[e].children = <<>>
        BY <1>0 DEF TablesType, SameNames
      <3> QED
        BY <1>0, <3>1 DEF TablesType
    <2>2. ThreadType'
      BY <1>0 DEF ThreadType, Places
    <2> QED
      BY <1>0, <2>1, <2>2 DEF NumbersType, CallType
  <1>4. ThreadInv' /\ ApartInv' /\ InjectiveInv'
    <2>1. Len(Counters)' = Len(Counters)
      BY DEF Counters
    <2>2. ThreadInv'
      BY <1>0, <1>1, <2>1 DEF ThreadInv
    <2> QED
      BY <1>0, <1>1, <2>2 DEF IInv, MapsInv, ApartInv, Owner, InjectiveInv
  <1>5. OwnerInv'
    <2> SUFFICES ASSUME NEW v \in Threads, pc'[v] \in Locking
                 PROVE  LET c == inode_map[Owner(v)]
                        IN  /\ path[v] \notin Paths /\ Owner(v) \in Paths
                            /\ entry_map[c] = c /\ node'[c].kind = "dir"
                            /\ cell[c].number < Given(cur_inode)
                            /\ \A u \in Threads :
                                 /\ Stores(u, "number") => cell[c].number < Given(read'[u])
                                 /\ Numbered(u) => cell[c].number # got[u].number
      BY <1>1 DEF OwnerInv, Owner, Given
    <2>1. pc[v] \in Locking
      BY <1>1
    <2> DEFINE c == inode_map[Owner(v)]
    <2>2. /\ path[v] \notin Paths /\ Owner(v) \in Paths
          /\ entry_map[c] = c /\ node[c].kind = "dir"
          /\ cell[c].number < Given(cur_inode)
          /\ \A u \in Threads :
               /\ Stores(u, "number") => cell[c].number < Given(read[u])
               /\ Numbered(u) => cell[c].number # got[u].number
      BY <1>0, <2>1 DEF OwnerInv
    <2>3. c \in Cells
      BY <1>0, <2>2, PathIs
    <2> HIDE DEF c
    <2>4. node'[c].kind = "dir"
      BY <2>2, <2>3 DEF SameNames
    <2> QED
      BY <1>1, <2>2, <2>4 DEF c
  <1>6. NumberInv' /\ BlockInv'
    <2>1. NumberInv'
      BY <1>1 DEF IInv, NumberInv, Given
    <2>2. BlockInv'
      BY <1>1 DEF IInv, BlockInv
    <2> QED
      BY <2>1, <2>2
  <1>7. MetaInv'
    <2>1. {u \in Threads : Blocked(u)}' = {u \in Threads : Blocked(u)}
      BY <1>1
    <2> QED
      BY <2>1 DEF IInv, MetaInv
  <1>8. TreeInv' /\ IdInv' /\ RoomInv'
    <2>1. NamesKept
      BY DEF NamesKept
    <2>2. \A e \in Cells : node'[e].kind = node[e].kind
      BY DEF SameNames
    <2>3. TreeInv' /\ IdInv'
      BY <1>0, <2>1, <2>2, TreeKept, IdKept DEF IInv
    <2>4. RoomInv'
      BY <1>0, <2>2, RoomKept DEF IInv
    <2> QED
      BY <2>3, <2>4
  <1>9. ImageInv' /\ BitmapInv' /\ Causes'
    <2>1. Owes(t)'
      BY <1>2 DEF Owes
    <2>2. BitmapInv'
      BY DEF IInv, BitmapInv
    <2> QED
      BY <2>1, <2>2 DEF ImageInv, Causes
  <1> QED
    BY <1>3, <1>4, <1>5, <1>6, <1>7, <1>8, <1>9 DEF IInv, MapsInv

\* Reading the count for inode_count-- preserves the invariant.
LEMMA LoadCountKeeps ==
  ASSUME IInv, NEW t \in Threads, LoadCount(t)
  PROVE  IInv'
  <1>0. TypeInv
    BY DEF IInv, MapsInv
  <1>1. /\ fault = "none" /\ pc[t] = "dec" /\ pc' = [pc EXCEPT ![t] = "sub"]
        /\ read' = [read EXCEPT ![t] = inode_count]
        /\ UNCHANGED <<program, inode_map, cell, entry_map, node, cur_inode, inode_count, meta>>
        /\ UNCHANGED <<total, image, path, origin, kind, counter, got, walked, fault, calls>>
        /\ UNCHANGED <<lost, exchanged>>
    BY DEF LoadCount, tables, numbers, ghosts
  <1>2. /\ read' \in [Threads -> Int] /\ read'[t] = inode_count
        /\ \A u \in Threads \ {t} : read'[u] = read[u]
    BY <1>0, <1>1 DEF ThreadType, NumbersType
  <1>3. \A u \in Threads : /\ pc'[u] = IF u = t THEN "sub" ELSE pc[u]
                           /\ Stores(u, "count")' <=> Stores(u, "count")
                           /\ Stores(u, "count") => u # t
    BY <1>0, <1>1, CountPlaces
  <1>4. CountInv'
    <2>1. Uncounted' = Uncounted
      BY <1>1, <1>3 DEF Uncounted
    <2> QED
      BY <1>1, <1>2, <1>3, <2>1 DEF IInv, CountInv
  <1>5. LockInv'
    <2>1. \A u \in Threads : pc[u] \in Locking => pc'[u] \in Locking /\ path'[u] = path[u]
      BY <1>1, <1>3 DEF Locking
    <2>2. LockInv /\ UNCHANGED <<inode_map, cell>> /\ \A e \in Cells : SameLock(node[e], node'[e])
      BY <1>1 DEF IInv, SameLock
    <2> QED
      BY <2>1, <2>2, LockKept, Zenon
  <1>6. /\ node' \in Seq(NodeRec) /\ Len(node') = Len(node) /\ inode_count' \in Int
        /\ \A e \in Cells : /\ SameNames(node[e], node'[e]) /\ SameRoom(node[e], node'[e])
                            /\ SameId(node[e], node'[e])
        /\ lost \subseteq lost' /\ lost' \subseteq {"block", "number", "count", "table"}
    BY <1>0, <1>1 DEF TablesType, NumbersType, CallType, SameNames, SameRoom, SameId
  <1> QED
    BY <1>1, <1>2, <1>4, <1>5, <1>6, CountingKeeps

\* Writing the count back and releasing the directory preserves the invariant.
LEMMA StoreCountKeeps ==
  ASSUME IInv, NEW t \in Threads, StoreCount(t)
  PROVE  IInv'
  <1>0. TypeInv /\ ThreadInv /\ OwnerInv
    BY DEF IInv, MapsInv
  <1> DEFINE c == inode_map[Owner(t)]
             x == [node[c] EXCEPT !.busy = FALSE]
  <1>1. /\ fault = "none" /\ pc[t] = "sub" /\ pc' = [pc EXCEPT ![t] = "save"]
        /\ inode_count' = read[t] - 1 /\ lost' = lost \cup Updated(t, "count")
        /\ read' = [read EXCEPT ![t] = 0]
        /\ node' = [node EXCEPT ![Entry(Front(path[t]))].busy = FALSE]
        /\ UNCHANGED <<program, inode_map, cell, entry_map, cur_inode, meta>>
        /\ UNCHANGED <<total, image, path, origin, kind, counter, got, walked, fault, calls>>
        /\ UNCHANGED exchanged
    BY DEF StoreCount, Cleared
  <1>2. c \in Cells /\ Entry(Front(path[t])) = c
    <2>1. Owner(t) \in Paths /\ entry_map[c] = c
      BY <1>0, <1>1 DEF OwnerInv, Locking
    <2> QED
      BY <1>0, <2>1, PathIs DEF Entry, Owner
  <1>3. /\ x \in NodeRec /\ ~ x.busy /\ x.denied = node[c].denied
        /\ SameNames(node[c], x) /\ SameRoom(node[c], x) /\ SameId(node[c], x)
    <2>1. node[c] \in NodeRec
      BY <1>0, <1>2, TypesAre
    <2> QED
      BY <2>1, SetBusy
  <1>4. x.children \in Seq(Cells) /\ (x.kind = "file" => x.children = <<>>)
    BY <1>0, <1>2, <1>3 DEF SameNames, TablesType
  <1>5. node' = [node EXCEPT ![c] = x]
    BY <1>1, <1>2
  <1> HIDE DEF x, c
  <1>6. /\ node' \in Seq(NodeRec) /\ Len(node') = Len(node)
        /\ node'[c] = x /\ \A d \in Cells : d # c => node'[d] = node[d]
    BY <1>0, <1>2, <1>3, <1>4, <1>5, NodeSet
  <1>7. \A e \in Cells : /\ SameNames(node[e], node'[e]) /\ SameRoom(node[e], node'[e])
                         /\ SameId(node[e], node'[e])
    BY <1>3, <1>6 DEF SameNames, SameRoom, SameId
  <1>8. /\ read' \in [Threads -> Int] /\ inode_count' \in Int
        /\ \A u \in Threads \ {t} : read'[u] = read[u]
    <2>1. read \in [Threads -> Int]
      BY <1>0 DEF ThreadType
    <2> QED
      BY <1>1, <2>1
  <1>9. lost \subseteq lost' /\ lost' \subseteq {"block", "number", "count", "table"}
    BY <1>0, <1>1 DEF CallType, Updated
  <1>10. \A u \in Threads : /\ pc'[u] = IF u = t THEN "save" ELSE pc[u]
                            /\ Stores(u, "count")' <=> Stores(u, "count")
                            /\ Stores(u, "count") => u # t
    BY <1>0, <1>1, CountPlaces
  <1>11. CountInv'
    <2> SUFFICES ASSUME program = "pssfs", "count" \notin lost'
                 PROVE  /\ read[t] - 1 = Cardinality(Paths) + Cardinality(Uncounted')
                        /\ \A u \in Threads : ~ (Stores(u, "count")' \/ pc'[u] = "sub")
      BY <1>1 DEF CountInv
    <2>1. "count" \notin lost /\ ~ Stale(t, "count")
      BY <1>1 DEF Updated
    <2>2. /\ inode_count = Cardinality(Paths) + Cardinality(Uncounted) /\ read[t] = inode_count
      BY <1>1, <2>1 DEF IInv, CountInv
    <2>3. \A u \in Threads \ {t} : ~ Stores(u, "count") /\ pc[u] # "sub"
      BY <2>1 DEF Stale, Stores
    <2>4. t \in Uncounted /\ Uncounted' = Uncounted \ {t}
      BY <1>1, <1>10 DEF Uncounted
    <2>5. /\ Cardinality(Uncounted') = Cardinality(Uncounted) - 1
          /\ Cardinality(Uncounted) \in Nat /\ Cardinality(Paths) \in Nat
      BY <1>0, <2>4, ThreadSets, FS_RemoveElement, FS_CardinalityType DEF TablesType
    <2> QED
      BY <1>10, <2>2, <2>3, <2>5
  <1>12. LockInv'
    <2> SUFFICES ASSUME NEW e \in Cells, node'[e].busy, ~ node'[e].denied
                 PROVE  \E u \in Threads : pc'[u] \in Locking /\ e = inode_map[Owner(u)]
      BY <1>1 DEF LockInv, Owner
    <2>1. e # c /\ node'[e] = node[e]
      BY <1>3, <1>6
    <2>2. PICK u \in Threads : pc[u] \in Locking /\ e = inode_map[Owner(u)]
      BY <2>1 DEF IInv, LockInv
    <2>3. u # t
      BY <2>1, <2>2 DEF c
    <2> QED
      BY <1>10, <2>2, <2>3
  <1> QED
    BY <1>1, <1>6, <1>7, <1>8, <1>9, <1>11, <1>12, CountingKeeps

-----------------------------------------------------------------------------
(* Add                                                                     *)

\* What the directory of a new entry becomes.
LEMMA ParentIs ==
  ASSUME NEW x \in NodeRec, NEW e \in Nat, NEW b \in BOOLEAN
  PROVE  LET y == [[x EXCEPT !.children = Append(@, e)] EXCEPT !.busy = b]
         IN  /\ y \in NodeRec /\ y.children = Append(x.children, e) /\ y.busy = b
             /\ y.name = x.name /\ y.kind = x.kind /\ y.denied = x.denied
             /\ SameRoom(x, y) /\ SameId(x, y)
  <1>1. Append(x.children, e) \in Seq(Nat)
    <2>1. x.children \in Seq(Nat)
      BY DEF NodeRec
    <2> QED
      BY <2>1
  <1> QED
    BY <1>1 DEF NodeRec, SameRoom, SameId

\* A cell is found again unless the new one has its number.
LEMMA EntryMapsIs ==
  ASSUME TypeInv, NEW c \in CellRec, NEW map \in EntryMaps(c)
  PROVE  /\ map \in [Cells \cup {Len(cell) + 1} -> Cells \cup {Len(cell) + 1}]
         /\ \A d \in Cells : cell[d].number # c.number => map[d] = entry_map[d]
         /\ (\A d \in Cells : cell[d].number # c.number) => map[Len(cell) + 1] = Len(cell) + 1
  <1> DEFINE e == Len(cell) + 1
             same == {d \in Cells : cell[d].number = c.number}
  <1>0. entry_map \in [Cells -> Cells] /\ e \notin Cells
    BY TypesAre DEF TablesType
  <1> HIDE DEF e
  <1>1. CASE \E new \in SUBSET same :
               map = [d \in Cells \cup {e} |-> IF d \in new \cup {e} THEN e ELSE entry_map[d]]
    BY <1>0, <1>1 DEF e
  <1>2. CASE \E f \in same :
               map = [d \in Cells \cup {e} |-> IF d = e THEN entry_map[f] ELSE entry_map[d]]
    BY <1>0, <1>2 DEF e
  <1> QED
    BY <1>1, <1>2 DEF EntryMaps, e

\* A new file has the buffer that it claims, or claims a kilobyte without one.
LEMMA ContentsIs ==
  ASSUME TypeInv, RoomInv, NEW t \in Threads, kind[t] # "none"
  PROVE  LET c == Contents(t)
         IN  /\ c.room \in 0 .. MaxFile /\ c.allocated \in 0 .. MaxFile /\ c.bare \in BOOLEAN
             /\ ~ c.bare => c.allocated <= c.room
             /\ c.bare => c.allocated = KB /\ c.room = 0
             /\ program = "memoryfs" /\ kind[t] = "file" /\ c.room = 0 => c.bare
  <1>1. MaxFile \in Nat /\ MaxFile >= 2
    BY BoundsAssumption
  <1>2. program \in {"dummyfs", "memoryfs", "pssfs"} /\ kind[t] \in {"file", "dir"}
    BY BoundsAssumption DEF TablesType, ThreadType
  <1>3. CASE kind[t] = "dir" \/ program = "pssfs"
    <2>1. Contents(t) = [room |-> 0, allocated |-> 0, bare |-> FALSE]
      BY <1>2, <1>3 DEF Contents
    <2> QED
      BY <1>1, <1>2, <1>3, <2>1
  <1>4. CASE kind[t] = "file" /\ program = "dummyfs"
    <2>1. Contents(t) = [room |-> MaxFile, allocated |-> 0, bare |-> FALSE]
      BY <1>4 DEF Contents
    <2> QED
      BY <1>1, <1>4, <2>1
  <1>5. CASE kind[t] = "file" /\ program = "memoryfs"
    <2>1. Contents(t) = IF NoMemory(EntrySize + KB)
                          THEN [room |-> 0, allocated |-> KB, bare |-> TRUE]
                          ELSE [room |-> KB, allocated |-> KB, bare |-> FALSE]
      BY <1>5 DEF Contents
    <2> QED
      BY <1>1, <1>5, <2>1
  <1> QED
    BY <1>2, <1>3, <1>4, <1>5


\* What a step of Add does to the tables; e is the new cell and node, c the
\* directory.
Entered(t, e, c) ==
  /\ e = Len(cell) + 1 /\ e \notin Cells /\ c = inode_map[Owner(t)] /\ c \in Cells
  /\ path[t] \in Seq(Name) /\ path[t] # <<>> /\ path[t] \notin Paths /\ Owner(t) \in Paths
  /\ path[t] = Append(Owner(t), Last(path[t])) /\ Last(path[t]) \in Name
  /\ Paths' = Paths \cup {path[t]} /\ Cells' = Cells \cup {e}
  /\ inode_map'[path[t]] = e /\ \A p \in Paths : inode_map'[p] = inode_map[p]
  /\ cell'[e] = got[t] /\ \A d \in Cells : cell'[d] = cell[d]
  /\ \A d \in Cells : cell[d].number # got[t].number => entry_map'[d] = entry_map[d]
  /\ (\A d \in Cells : cell[d].number # got[t].number) => entry_map'[e] = e
  /\ \A d \in Cells \ {c} : node'[d] = node[d]
  /\ node[c].kind = "dir" /\ node'[c].children = Append(node[c].children, e)
  /\ node'[c].busy = FALSE /\ node'[c].name = node[c].name /\ node'[c].kind = node[c].kind
  /\ SameRoom(node[c], node'[c]) /\ SameId(node[c], node'[c])
  /\ LET x == node'[e]  r == Contents(t)
     IN  /\ x.name = Last(path[t]) /\ x.kind = kind[t] /\ x.children = <<>>
         /\ x.id = e /\ x.size = 0 /\ x.busy = FALSE
         /\ x.room = r.room /\ x.allocated = r.allocated /\ x.bare = r.bare

Entering(t) ==
  /\ inode_map' = [p \in Paths \cup {path[t]} |->
                     IF p = path[t] THEN Len(cell) + 1 ELSE inode_map[p]]
  /\ cell' = Append(cell, got[t]) /\ entry_map' \in EntryMaps(got[t])
  /\ node' = Append([node EXCEPT ![Entry(Owner(t))].children = Append(@, Len(cell) + 1),
                                 ![Entry(Owner(t))].busy = Cleared(t)],
                    [NewNode(Last(path[t]), kind[t], Len(cell) + 1) EXCEPT
                       !.room = Contents(t).room, !.allocated = Contents(t).allocated,
                       !.bare = Contents(t).bare])
  /\ UNCHANGED program

\* create and mkdir put one new cell with one new node below the locked
\* directory.
LEMMA AddEnters ==
  ASSUME IInv, NEW t \in Threads, pc[t] = "add", Entering(t)
  PROVE  \E e, c : Entered(t, e, c) /\ TablesType'
  <1>0. TypeInv /\ ThreadInv /\ RoomInv /\ pc[t] \in Locking
    BY DEF IInv, MapsInv, Locking
  <1> DEFINE e == Len(cell) + 1
             c == inode_map[Owner(t)]
  <1>1. /\ path[t] \notin Paths /\ Owner(t) \in Paths
        /\ c \in Cells /\ Entry(Owner(t)) = c /\ node[c].kind = "dir"
    BY <1>0, PathIs DEF IInv, MapsInv, OwnerInv, Entry
  <1>2. /\ path[t] \in Seq(Name) /\ path[t] # <<>> /\ Last(path[t]) \in Name
        /\ path[t] = Append(Owner(t), Last(path[t]))
    BY <1>0, ThreadPath DEF Locking
  <1>3. /\ Len(cell) \in Nat /\ Cells = 1 .. Len(cell) /\ e \in Nat /\ e \notin Cells
        /\ cell \in Seq(CellRec) /\ got[t] \in CellRec
        /\ node \in Seq(NodeRec) /\ Len(node) = Len(cell)
        /\ \A d \in Cells : /\ node[d].children \in Seq(Cells)
                            /\ node[d].kind = "file" => node[d].children = <<>>
    <2>1. /\ Len(cell) \in Nat /\ Cells = 1 .. Len(cell) /\ got[t] \in CellRec
      BY <1>0, TypesAre
    <2>2. e \in Nat /\ e \notin Cells
      BY <2>1
    <2> QED
      BY <1>0, <2>1, <2>2 DEF TablesType
  <1>4. /\ cell' \in Seq(CellRec) /\ Len(cell') = e /\ Cells' = Cells \cup {e}
        /\ cell'[e] = got[t] /\ \A d \in Cells : cell'[d] = cell[d]
    <2>1. cell' = Append(cell, got[t])
      BY DEF Entering
    <2> QED
      BY <1>3, <2>1
  <1> DEFINE y == [[node[c] EXCEPT !.children = Append(@, e)] EXCEPT !.busy = FALSE]
             n == Last(path[t])
             k == kind[t]
             r == Contents(t)
             x == [NewNode(n, k, e) EXCEPT !.room = r.room, !.allocated = r.allocated,
                                              !.bare = r.bare]
  <1>5. /\ y \in NodeRec /\ y.children = Append(node[c].children, e) /\ y.busy = FALSE
        /\ y.name = node[c].name /\ y.kind = node[c].kind
        /\ SameRoom(node[c], y) /\ SameId(node[c], y)
    <2>1. node[c] \in NodeRec
      BY <1>0, <1>1, TypesAre
    <2> QED
      BY <1>3, <2>1, ParentIs
  <1>6. /\ x \in NodeRec /\ x.name = n /\ x.kind = k /\ x.children = <<>>
        /\ x.id = e /\ x.size = 0 /\ x.busy = FALSE
        /\ x.room = r.room /\ x.allocated = r.allocated /\ x.bare = r.bare
    <2>2. kind[t] # "none"
      BY <1>0 DEF ThreadInv, Making
    <2>1. r.room \in Nat /\ r.allocated \in Nat /\ r.bare \in BOOLEAN
      BY <1>0, <2>2, ContentsIs
    <2>3. k \in {"file", "dir"}
      BY <1>0, <2>2 DEF ThreadType
    <2>4. n \in Name /\ e \in Nat
      BY <1>2, <1>3
    <2> HIDE DEF e, r, k, n
    <2>5. (IF k = "dir" THEN 2 ELSE 1) \in Nat /\ <<>> \in Seq(Nat)
      OBVIOUS
    <2> QED
      BY <2>1, <2>3, <2>4, <2>5 DEF NewNode, NodeRec
  <1>7. node' = Append([node EXCEPT ![c] = y], x)
    BY <1>1 DEF Entering, Cleared
  <1> HIDE DEF x, y, c, r, k, n
  <1>8. /\ node' \in Seq(NodeRec) /\ Len(node') = e /\ node'[e] = x /\ node'[c] = y
        /\ \A d \in Cells \ {c} : node'[d] = node[d]
    BY <1>1, <1>3, <1>5, <1>6, <1>7
  <1>9. /\ entry_map' \in [Cells \cup {e} -> Cells \cup {e}]
        /\ \A d \in Cells : cell[d].number # got[t].number => entry_map'[d] = entry_map[d]
        /\ (\A d \in Cells : cell[d].number # got[t].number) => entry_map'[e] = e
    BY <1>0, <1>3, EntryMapsIs DEF Entering
  <1>10. /\ Paths' = Paths \cup {path[t]} /\ inode_map'[path[t]] = e
         /\ \A p \in Paths : inode_map'[p] = inode_map[p]
         /\ inode_map' = [p \in Paths' |-> inode_map'[p]]
    BY <1>1 DEF Entering
  <1>11. TablesType'
    <2>1. /\ inode_map \in [Paths -> Cells] /\ Paths \subseteq Seq(Name) /\ IsFiniteSet(Paths)
          /\ Root \in Paths /\ program' \in Programs
      BY <1>0 DEF TablesType, Entering
    <2>2. /\ inode_map' \in [Paths' -> Cells'] /\ Paths' \subseteq Seq(Name) /\ Root \in Paths'
      BY <1>2, <1>4, <1>10, <2>1
    <2>3. IsFiniteSet(Paths')
      <3>1. IsFiniteSet(Paths \cup {path[t]})
        BY <2>1, FS_AddElement
      <3> QED
        BY <1>10, <3>1
    <2>4. ASSUME NEW d \in Cells'
          PROVE  /\ node'[d].children \in Seq(Cells')
                 /\ node'[d].kind = "file" => node'[d].children = <<>>
      <3>1. CASE d = e
        <4>1. node'[d].children = <<>>
          BY <1>6, <1>8, <3>1
        <4>2. <<>> \in Seq(Cells')
          OBVIOUS
        <4> QED
          BY <4>1, <4>2
      <3>2. CASE d = c
        <4>1. node[c].children \in Seq(Cells)
          BY <1>1, <1>3
        <4>2. node[c].children \in Seq(Cells')
          BY <1>4, <4>1
        <4>3. Append(node[c].children, e) \in Seq(Cells')
          BY <1>4, <4>2
        <4> QED
          BY <1>1, <1>5, <1>8, <3>2, <4>3
      <3>3. CASE d # e /\ d # c
        <4>1. node'[d] = node[d] /\ d \in Cells
          BY <1>4, <1>8, <3>3
        <4>2. node[d].children \in Seq(Cells)
          BY <1>3, <4>1
        <4>3. node[d].children \in Seq(Cells')
          BY <1>4, <4>2
        <4> QED
          BY <1>3, <4>1, <4>3
      <3> QED
        BY <3>1, <3>2, <3>3
    <2> QED
      BY <1>4, <1>8, <1>9, <2>1, <2>2, <2>3, <2>4 DEF TablesType
  <1>12. Entered(t, e, c)
    BY <1>1, <1>2, <1>3, <1>4, <1>5, <1>6, <1>8, <1>9, <1>10 DEF Entered, c, r, k, n
  <1> QED
    BY <1>11, <1>12


\* A thread that is done making an entry, and the others.
LEMMA AddPlaces ==
  ASSUME TypeInv, ThreadInv, NEW t \in Threads, pc[t] = "add", UNCHANGED <<program, read>>,
         \/ /\ program = "pssfs" /\ pc' = [pc EXCEPT ![t] = "save"]
            /\ UNCHANGED <<path, origin, kind, counter, got, walked>>
         \/ program # "pssfs" /\ Return(t)
  PROVE  /\ ThreadType' /\ ThreadInv'
         /\ pc'[t] \notin Locking /\ (program = "pssfs" => Owes(t)' /\ kind'[t] # "none")
         /\ pc[t] \in Locking /\ Numbered(t) /\ (Blocked(t) <=> program = "pssfs")
         /\ ~ Numbered(t)' /\ ~ Blocked(t)'
         /\ \A u \in Threads : /\ pc'[u] # "idle" => pc[u] # "idle" /\ path'[u] = path[u]
                               /\ pc'[u] = "sub" <=> pc[u] = "sub"
                               /\ Stores(u, "block")' <=> Stores(u, "block")
                               /\ Stores(u, "number")' <=> Stores(u, "number")
                               /\ Stores(u, "count")' <=> Stores(u, "count")
         /\ \A u \in Threads \ {t} :
              /\ pc'[u] = pc[u] /\ path'[u] = path[u] /\ got'[u] = got[u]
              /\ Numbered(u)' <=> Numbered(u)
              /\ Blocked(u)' <=> Blocked(u)
  <1>1. /\ ThreadType' /\ pc'[t] \in {"save", "idle"}
        /\ pc'[t] = "save" => /\ program = "pssfs" /\ path'[t] = path[t]
                              /\ counter'[t] = counter[t] /\ kind'[t] = kind[t]
        /\ pc'[t] = "idle" => counter'[t] = 1 /\ kind'[t] = "none" /\ program # "pssfs"
        /\ \A u \in Threads \ {t} :
             /\ pc'[u] = pc[u] /\ path'[u] = path[u] /\ counter'[u] = counter[u]
             /\ got'[u] = got[u] /\ kind'[u] = kind[u]
    <2>1. CASE /\ program = "pssfs" /\ pc' = [pc EXCEPT ![t] = "save"]
               /\ UNCHANGED <<path, origin, kind, counter, got, walked>>
      BY <2>1 DEF ThreadType, Places
    <2>2. CASE program # "pssfs" /\ Return(t)
      <3>1. /\ pc' \in [Threads -> Places] /\ path' \in [Threads -> Seq(Name)]
            /\ kind' \in [Threads -> {"none", "file", "dir"}] /\ counter' \in [Threads -> Nat \ {0}]
            /\ got' \in [Threads -> CellRec] /\ DOMAIN walked' = Threads
            /\ origin' \in [Threads -> Seq(Name)]
            /\ pc'[t] = "idle" /\ counter'[t] = 1 /\ kind'[t] = "none"
            /\ \A u \in Threads \ {t} :
                 /\ pc'[u] = pc[u] /\ path'[u] = path[u] /\ kind'[u] = kind[u]
                 /\ counter'[u] = counter[u] /\ got'[u] = got[u] /\ walked'[u] = walked[u]
        BY <2>2, Returned
      <3>2. read' \in [Threads -> Int]
        BY DEF ThreadType
      <3> QED
        BY <2>2, <3>1, <3>2 DEF ThreadType
    <2> QED
      BY <2>1, <2>2
  <1>2. ASSUME NEW u \in Threads \ {t}
        PROVE  /\ Numbered(u)' <=> Numbered(u)
               /\ Blocked(u)' <=> Blocked(u)
               /\ Stores(u, "block")' <=> Stores(u, "block")
               /\ Stores(u, "number")' <=> Stores(u, "number")
               /\ Stores(u, "count")' <=> Stores(u, "count")
    <2>1. /\ pc'[u] = pc[u] /\ counter'[u] = counter[u] /\ program' = program
          /\ Counter(u)' = Counter(u)
      BY <1>1 DEF Counter, Counters
    <2> QED
      BY <2>1 DEF Numbered, Blocked, Stores
  <1>3. /\ ~ Numbered(t)' /\ ~ Blocked(t)' /\ Numbered(t) /\ (Blocked(t) <=> program = "pssfs")
        /\ ~ Stores(t, "block") /\ ~ Stores(t, "number") /\ ~ Stores(t, "count")
        /\ ~ Stores(t, "block")' /\ ~ Stores(t, "number")' /\ ~ Stores(t, "count")'
    BY <1>1 DEF Numbered, Blocked, Stores
  <1>4. ThreadInv'
    <2>1. Len(Counters)' = Len(Counters) /\ 1 \in 1 .. Len(Counters)
      BY CounterIs DEF Counters
    <2>2. path[t] \in Seq(Name) /\ path[t] # <<>>
      BY DEF ThreadInv
    <2>3. CASE pc'[t] = "save"
      BY <1>1, <1>2, <1>3, <2>1, <2>2, <2>3 DEF ThreadInv, Making
    <2>4. CASE pc'[t] = "idle"
      BY <1>1, <1>2, <1>3, <2>1, <2>2, <2>4 DEF ThreadInv, Making
    <2> QED
      BY <1>1, <2>3, <2>4
  <1>5. kind[t] # "none"
    BY DEF ThreadInv, Making
  <1> QED
    BY <1>1, <1>2, <1>3, <1>4, <1>5 DEF Locking, Owes


\* The new entry is in all three containers, under the same name.
LEMMA AddTree ==
  ASSUME TypeInv, TreeInv, InjectiveInv, NumberInv, NEW t \in Threads, Numbered(t), NEW e, NEW c,
         Entered(t, e, c), lost' = lost, exchanged' = exchanged
  PROVE  TreeInv'
  <1> SUFFICES ASSUME "number" \notin lost, ~ exchanged, NEW p \in Paths'
               PROVE  Above(p)' /\ Beneath(p)'
    BY DEF TreeInv
  <1> DEFINE f == Owner(t)
             q == path[t]
  <1>1. /\ e \notin Cells /\ c = inode_map[f] /\ c \in Cells /\ Cells' = Cells \cup {e}
        /\ q \notin Paths /\ f \in Paths /\ f \in Seq(Name) /\ Last(q) \in Name
        /\ q = Append(f, Last(q)) /\ q # Root /\ Front(q) = f
        /\ Paths' = Paths \cup {q} /\ inode_map'[q] = e
        /\ \A s \in Paths : inode_map'[s] = inode_map[s] /\ inode_map[s] \in Cells
    BY PathIs DEF Entered, Owner
  <1>2. /\ \A d \in Cells \ {c} : node'[d] = node[d]
        /\ node[c].kind = "dir" /\ node'[c].children = Append(node[c].children, e)
        /\ node'[c].name = node[c].name /\ node'[c].kind = node[c].kind
        /\ node'[e].name = Last(q) /\ node'[e].children = <<>>
    BY DEF Entered
  <1>3. \A d \in Cells : node'[d].name = node[d].name /\ node'[d].kind = node[d].kind
    BY <1>2
  <1>4. \A d \in Cells : node[d].children \in Seq(Cells)
    BY DEF TablesType
  <1>5. /\ Range(node'[c].children) = Range(node[c].children) \cup {e}
        /\ \A d \in Cells : Range(node[d].children) \subseteq Cells
    <2>1. node[c].children \in Seq(Cells)
      BY <1>1, <1>4
    <2>2. Range(Append(node[c].children, e)) = Range(node[c].children) \cup {e}
      BY <2>1, AppendRange
    <2>3. ASSUME NEW d \in Cells PROVE Range(node[d].children) \subseteq Cells
      <3>1. node[d].children \in Seq(Cells)
        BY <1>4
      <3> QED
        BY <3>1 DEF Range
    <2> QED
      BY <1>2, <2>2, <2>3
  <1> HIDE DEF f, q
  <1>6. CASE p = q
    <2>1. Above(p)'
      BY <1>1, <1>2, <1>3, <1>5, <1>6 DEF Above
    <2>2. Beneath(p)'
      <3>1. node'[inode_map'[p]].children = <<>>
        BY <1>1, <1>2, <1>6
      <3>2. Range(<<>>) = {} /\ IsInjective(<<>>)
        BY DEF Range, IsInjective
      <3> QED
        BY <3>1, <3>2 DEF Beneath
    <2> QED
      BY <2>1, <2>2
  <1>7. CASE p \in Paths
    <2>1. Above(p) /\ Beneath(p)
      BY <1>7 DEF TreeInv
    <2>2. Above(p)'
      <3>0. CASE p = Root
        BY <1>1, <1>3, <1>7, <2>1, <3>0 DEF Above
      <3> SUFFICES ASSUME p # Root
                   PROVE  /\ Front(p) \in Paths' /\ node'[inode_map'[Front(p)]].kind = "dir"
                          /\ inode_map'[p] \in Range(node'[inode_map'[Front(p)]].children)
                          /\ node'[inode_map'[p]].name = Last(p)
        BY <3>0 DEF Above
      <3>1. /\ Front(p) \in Paths /\ node[inode_map[Front(p)]].kind = "dir"
            /\ inode_map[p] \in Range(node[inode_map[Front(p)]].children)
            /\ node[inode_map[p]].name = Last(p)
        BY <2>1 DEF Above
      <3>2. \A d \in Cells : Range(node[d].children) \subseteq Range(node'[d].children)
        BY <1>2, <1>5
      <3> QED
        BY <1>1, <1>3, <1>7, <3>1, <3>2
    <2>3. Beneath(p)'
      <3>1. /\ \A d \in Range(node[inode_map[p]].children) :
                 /\ Append(p, node[d].name) \in Paths /\ inode_map[Append(p, node[d].name)] = d
            /\ IsInjective(node[inode_map[p]].children)
        BY <2>1 DEF Beneath
      <3>2. \A d \in Range(node[inode_map[p]].children) :
              /\ Append(p, node'[d].name) \in Paths' /\ inode_map'[Append(p, node'[d].name)] = d
        BY <1>1, <1>3, <1>5, <1>7, <3>1
      <3>3. CASE inode_map[p] = c
        <4>1. p = f
          BY <1>1, <1>7, <3>3 DEF InjectiveInv
        <4>2. Append(p, node'[e].name) \in Paths' /\ inode_map'[Append(p, node'[e].name)] = e
          BY <1>1, <1>2, <4>1
        <4>3. IsInjective(Append(node[c].children, e))
          <5>1. e \notin Range(node[c].children)
            BY <1>1, <1>5
          <5>3. IsInjective(node[c].children)
            <6>1. node[inode_map[p]].children = node[c].children
              BY <3>3
            <6> QED
              BY <3>1, <6>1, Zenon
          <5>2. node[c].children \in Seq(Cells)
            BY <1>1, <1>4
          <5> QED
            BY <5>1, <5>2, <5>3, AppendRange, Zenon
        <4>4. inode_map'[p] = c
          BY <1>1, <1>7, <3>3
        <4>5. IsInjective(node'[inode_map'[p]].children)
          BY <1>2, <4>3, <4>4, Zenon
        <4>6. \A d \in Range(node'[inode_map'[p]].children) :
                /\ Append(p, node'[d].name) \in Paths' /\ inode_map'[Append(p, node'[d].name)] = d
          BY <1>5, <3>2, <3>3, <4>2, <4>4
        <4> QED
          BY <4>5, <4>6, Zenon DEF Beneath
      <3>4. CASE inode_map[p] # c
        <4>1. inode_map'[p] = inode_map[p] /\ node'[inode_map[p]] = node[inode_map[p]]
          BY <1>1, <1>2, <1>7, <3>4
        <4> QED
          BY <3>1, <3>2, <4>1 DEF Beneath
      <3> QED
        BY <3>3, <3>4
    <2> QED
      BY <2>2, <2>3
  <1> QED
    BY <1>1, <1>6, <1>7


\* Entering the new object preserves the invariant.
LEMMA AddKeeps ==
  ASSUME IInv, NEW t \in Threads, Add(t)
  PROVE  IInv'
  <1>0. /\ TypeInv /\ ThreadInv /\ TreeInv /\ InjectiveInv /\ NumberInv /\ RoomInv
        /\ ApartInv /\ OwnerInv
    BY DEF IInv, MapsInv
  <1>1. /\ fault = "none" /\ pc[t] = "add"
        /\ UNCHANGED <<program, cur_inode, inode_count, meta, image, read, calls>>
        /\ UNCHANGED <<lost, exchanged>>
    BY DEF Add, numbers, ghosts
  <1>2. CASE /\ fault' = "overrun" \/ (fault' = "segv" /\ NoMemory(EntrySize))
             /\ UNCHANGED <<tables, total, pc, path, origin, kind, counter, got, walked>>
    <2>1. /\ UNCHANGED <<program, tables, numbers, total, image, thread, ghosts>>
          /\ UNCHANGED <<program, cell, pc, node>> /\ calls' \in 0 .. MaxCalls
      BY <1>0, <1>1, <1>2 DEF tables, numbers, thread, ghosts, CallType
    <2>2. NoMemory(EntrySize)' <=> NoMemory(EntrySize)
      BY <1>1, <1>2 DEF NoMemory
    <2>3. Causes'
      BY <1>2, <2>1, <2>2 DEF Causes
    <2> QED
      BY <1>2, <2>1, <2>3, FaultOnly
  <1>3. CASE /\ Entering(t) /\ fault' = fault
             /\ total' = IF program = "dummyfs" THEN total
                                               ELSE total + EntrySize + Contents(t).room
             /\ \/ /\ program = "pssfs" /\ pc' = [pc EXCEPT ![t] = "save"]
                   /\ UNCHANGED <<path, origin, kind, counter, got, walked>>
                \/ program # "pssfs" /\ Return(t)
    <2>1. PICK e, c : Entered(t, e, c) /\ TablesType'
      BY <1>1, <1>3, AddEnters, Zenon
    <2>2. /\ ThreadType' /\ ThreadInv'
          /\ pc'[t] \notin Locking /\ (program = "pssfs" => Owes(t)' /\ kind'[t] # "none")
          /\ pc[t] \in Locking /\ Numbered(t) /\ (Blocked(t) <=> program = "pssfs")
          /\ ~ Numbered(t)' /\ ~ Blocked(t)'
      BY <1>0, <1>1, <1>3, AddPlaces
    <2>3. ASSUME NEW u \in Threads
          PROVE  /\ pc'[u] # "idle" => pc[u] # "idle" /\ path'[u] = path[u]
                 /\ pc'[u] = "sub" <=> pc[u] = "sub"
                 /\ Stores(u, "block")' <=> Stores(u, "block")
                 /\ Stores(u, "number")' <=> Stores(u, "number")
                 /\ Stores(u, "count")' <=> Stores(u, "count")
      BY <1>0, <1>1, <1>3, AddPlaces
    <2>4. ASSUME NEW u \in Threads \ {t}
          PROVE  /\ pc'[u] = pc[u] /\ path'[u] = path[u] /\ got'[u] = got[u]
                 /\ Numbered(u)' <=> Numbered(u)
                 /\ Blocked(u)' <=> Blocked(u)
      BY <1>0, <1>1, <1>3, AddPlaces
    <2> DEFINE n == got[t].number
    <2>5. /\ e = Len(cell) + 1 /\ e \notin Cells /\ c = inode_map[Owner(t)] /\ c \in Cells
          /\ path[t] \notin Paths /\ Owner(t) \in Paths
          /\ Paths' = Paths \cup {path[t]} /\ Cells' = Cells \cup {e}
          /\ inode_map'[path[t]] = e /\ \A p \in Paths : inode_map'[p] = inode_map[p]
          /\ cell'[e] = got[t] /\ \A d \in Cells : cell'[d] = cell[d]
      BY <2>1 DEF Entered
    <2>6. /\ \A d \in Cells : cell[d].number # n => entry_map'[d] = entry_map[d]
          /\ (\A d \in Cells : cell[d].number # n) => entry_map'[e] = e
      BY <2>1 DEF Entered
    <2>7. /\ \A d \in Cells \ {c} : node'[d] = node[d]
          /\ node'[c].busy = FALSE /\ node'[c].kind = node[c].kind
          /\ SameRoom(node[c], node'[c]) /\ SameId(node[c], node'[c])
      BY <2>1 DEF Entered
    <2>8. LET x == node'[e]  r == Contents(t)
          IN  /\ x.kind = kind[t] /\ x.id = e
              /\ x.size = 0 /\ x.busy = FALSE
              /\ x.room = r.room /\ x.allocated = r.allocated /\ x.bare = r.bare
      BY <2>1 DEF Entered
    <2>9. /\ Len(cell) \in Nat /\ Len(cell') = Len(cell) + 1 /\ Len(node) = Len(cell)
          /\ Len(node') = Len(cell') /\ Cells = 1 .. Len(cell)
      <3>1. cell' = Append(cell, got[t])
        BY <1>3 DEF Entering
      <3>2. Len(cell) \in Nat /\ Len(node) = Len(cell) /\ cell \in Seq(CellRec)
            /\ Cells = 1 .. Len(cell)
        BY <1>0, TypesAre DEF TablesType
      <3>3. Len(node') = Len(cell')
        BY <2>1 DEF TablesType
      <3> QED
        BY <3>1, <3>2, <3>3
    <2>10. \A p \in Paths : inode_map[p] \in Cells
      BY <1>0, PathIs
    <2>11. TypeInv'
      <3>1. NumbersType'
        BY <1>0, <1>1 DEF NumbersType
      <3>2. CallType'
        BY <1>0, <1>1, <1>3 DEF CallType
      <3> QED
        BY <2>1, <2>2, <3>1, <3>2
    <2>12. ApartInv' /\ InjectiveInv'
      <3>1. ApartInv'
        <4>1. \A u \in Threads : pc'[u] \in Locking => pc[u] \in Locking
          BY <2>2, <2>4
        <4>2. \A u \in Threads : pc[u] \in Locking /\ pc'[u] \in Locking => path'[u] = path[u]
          BY <2>3 DEF Locking
        <4> QED
          BY <1>0, <4>1, <4>2 DEF ApartInv, Owner
      <3>2. InjectiveInv'
        BY <1>0, <2>5, <2>10 DEF InjectiveInv
      <3> QED
        BY <3>1, <3>2
    <2>13. OwnerInv'
      <3> SUFFICES ASSUME NEW v \in Threads, pc'[v] \in Locking
                   PROVE  LET f == Front(path'[v])  d == inode_map'[f]
                          IN  /\ path'[v] \notin Paths' /\ f \in Paths'
                              /\ entry_map'[d] = d /\ node'[d].kind = "dir"
                              /\ cell'[d].number < Given(cur_inode)
                              /\ \A u \in Threads :
                                   /\ Stores(u, "number")' => cell'[d].number < Given(read[u])
                                   /\ Numbered(u)' => cell'[d].number # got'[u].number
        BY <1>1 DEF OwnerInv, Owner, Given
      <3>1. v # t /\ pc[v] \in Locking /\ path'[v] = path[v]
        BY <2>2, <2>4
      <3> DEFINE f == Owner(v)
                 d == inode_map[f]
      <3>2. /\ path[v] \notin Paths /\ f \in Paths
            /\ entry_map[d] = d /\ node[d].kind = "dir"
            /\ cell[d].number < Given(cur_inode)
            /\ \A u \in Threads :
                 /\ Stores(u, "number") => cell[d].number < Given(read[u])
                 /\ Numbered(u) => cell[d].number # got[u].number
        BY <1>0, <3>1 DEF OwnerInv
      <3>3. path[v] # path[t]
        BY <1>0, <1>1, <3>1 DEF ApartInv, Owner, Locking
      <3>4. inode_map'[f] = d /\ d \in Cells /\ cell'[d] = cell[d] /\ entry_map'[d] = entry_map[d]
        BY <2>2, <2>5, <2>6, <2>10, <3>2
      <3>5. node'[d].kind = "dir"
        BY <2>7, <3>2, <3>4
      <3>6. \A u \in Threads : Numbered(u)' => Numbered(u) /\ got'[u] = got[u]
        BY <2>2, <2>4
      <3>7. f = Front(path'[v])
        BY <3>1 DEF Owner
      <3> HIDE DEF f, d
      <3> QED
        BY <2>3, <2>5, <3>1, <3>2, <3>3, <3>4, <3>5, <3>6, <3>7
    <2>14. NumberInv'
      <3> SUFFICES ASSUME "number" \notin lost
                   PROVE  /\ \A d \in Cells' : entry_map'[d] = d /\ cell'[d].number < Given(cur_inode)
                          /\ \A b, d \in Cells' : cell'[b].number = cell'[d].number => b = d
                          /\ \A u \in Threads : Stores(u, "number")' => read[u] = cur_inode
                          /\ \A u \in Threads : Numbered(u)' =>
                               /\ got'[u].number < Given(cur_inode)
                               /\ \A d \in Cells' : cell'[d].number # got'[u].number
                               /\ \A v \in Threads :
                                    Numbered(v)' /\ got'[v].number = got'[u].number => u = v
        BY <1>1 DEF NumberInv, Given
      <3>1. /\ \A d \in Cells : entry_map[d] = d /\ cell[d].number < Given(cur_inode)
            /\ \A b, d \in Cells : cell[b].number = cell[d].number => b = d
            /\ \A u \in Threads : Stores(u, "number") => read[u] = cur_inode
        BY <1>0 DEF NumberInv
      <3>2. \A u \in Threads : Numbered(u) =>
              /\ got[u].number < Given(cur_inode)
              /\ \A d \in Cells : cell[d].number # got[u].number
              /\ \A v \in Threads : Numbered(v) /\ got[v].number = got[u].number => u = v
        BY <1>0 DEF NumberInv
      <3>3. n < Given(cur_inode) /\ \A d \in Cells : cell[d].number # n
        BY <2>2, <3>2
      <3>4. \A u \in Threads : Numbered(u)' => u # t /\ Numbered(u) /\ got'[u] = got[u]
        BY <2>2, <2>4
      <3>5. \A d \in Cells' : entry_map'[d] = d /\ cell'[d].number < Given(cur_inode)
        BY <2>5, <2>6, <3>1, <3>3
      <3>6. \A b, d \in Cells' : cell'[b].number = cell'[d].number => b = d
        BY <2>5, <3>1, <3>3
      <3>7. \A u \in Threads : Stores(u, "number")' => read[u] = cur_inode
        BY <2>3, <3>1
      <3>8. \A u \in Threads : Numbered(u)' =>
              /\ got'[u].number < Given(cur_inode)
              /\ \A d \in Cells' : cell'[d].number # got'[u].number
              /\ \A v \in Threads : Numbered(v)' /\ got'[v].number = got'[u].number => u = v
        BY <2>2, <2>5, <3>2, <3>4
      <3> QED
        BY <3>5, <3>6, <3>7, <3>8
    <2>15. BlockInv'
      <3> SUFFICES ASSUME program = "pssfs", "block" \notin lost
                   PROVE  /\ \A d \in Cells' : cell'[d].block \in meta
                          /\ \A b, d \in Cells' : cell'[b].block = cell'[d].block => b = d
                          /\ \A u \in Threads : Stores(u, "block")' => read[u] \notin meta
                          /\ \A u \in Threads : Blocked(u)' =>
                               /\ got'[u].block \in meta
                               /\ \A d \in Cells' : cell'[d].block # got'[u].block
                               /\ \A v \in Threads :
                                    Blocked(v)' /\ got'[v].block = got'[u].block => u = v
        BY <1>1 DEF BlockInv
      <3>1. /\ \A d \in Cells : cell[d].block \in meta
            /\ \A b, d \in Cells : cell[b].block = cell[d].block => b = d
            /\ \A u \in Threads : Stores(u, "block") => read[u] \notin meta
        BY DEF IInv, BlockInv
      <3>2. \A u \in Threads : Blocked(u) =>
              /\ got[u].block \in meta
              /\ \A d \in Cells : cell[d].block # got[u].block
              /\ \A v \in Threads : Blocked(v) /\ got[v].block = got[u].block => u = v
        BY DEF IInv, BlockInv
      <3>3. Blocked(t)
        BY <2>2
      <3>4. \A u \in Threads : Blocked(u)' => u # t /\ Blocked(u) /\ got'[u] = got[u]
        BY <2>2, <2>4
      <3>5. \A d \in Cells' : cell'[d].block \in meta
        BY <2>5, <3>1, <3>2, <3>3
      <3>6. \A b, d \in Cells' : cell'[b].block = cell'[d].block => b = d
        BY <2>5, <3>1, <3>2, <3>3
      <3>7. \A u \in Threads : Stores(u, "block")' => read[u] \notin meta
        BY <2>3, <3>1
      <3>8. \A u \in Threads : Blocked(u)' =>
              /\ got'[u].block \in meta
              /\ \A d \in Cells' : cell'[d].block # got'[u].block
              /\ \A v \in Threads : Blocked(v)' /\ got'[v].block = got'[u].block => u = v
        BY <2>2, <2>5, <3>2, <3>3, <3>4
      <3> QED
        BY <3>5, <3>6, <3>7, <3>8
    <2>16. CountInv'
      <3>1. Uncounted' = Uncounted \ {t} /\ t \in Uncounted
        BY <1>1, <2>2, <2>4 DEF Uncounted, Locking
      <3>2. IsFiniteSet(Uncounted) /\ Cardinality(Uncounted) \in Nat
        BY ThreadSets
      <3>3. Cardinality(Uncounted') = Cardinality(Uncounted) - 1
        <4>1. Cardinality(Uncounted \ {t}) =
                IF t \in Uncounted THEN Cardinality(Uncounted) - 1 ELSE Cardinality(Uncounted)
          BY <3>2, FS_RemoveElement
        <4> QED
          BY <3>1, <4>1
      <3>4. IsFiniteSet(Paths) /\ Cardinality(Paths) \in Nat
        BY <1>0, FS_CardinalityType DEF TablesType
      <3>5. Cardinality(Paths') = Cardinality(Paths) + 1
        <4>1. Cardinality(Paths \cup {path[t]}) =
                IF path[t] \in Paths THEN Cardinality(Paths) ELSE Cardinality(Paths) + 1
          BY <3>4, FS_AddElement
        <4> QED
          BY <2>5, <4>1
      <3> DEFINE a == Cardinality(Uncounted)
                 b == Cardinality(Paths)
                 a2 == Cardinality(Uncounted')
                 b2 == Cardinality(Paths')
      <3>6. b2 + a2 = b + a
        <4> HIDE DEF a, b, a2, b2
        <4>1. a \in Nat /\ b \in Nat /\ a2 = a - 1 /\ b2 = b + 1
          BY <3>2, <3>3, <3>4, <3>5 DEF a, b, a2, b2
        <4> QED
          BY <4>1
      <3> QED
        BY <1>1, <2>3, <3>6 DEF IInv, CountInv
    <2>17. MetaInv'
      <3> DEFINE B == {u \in Threads : Blocked(u)}
                 m == Cardinality(meta)
                 b == Cardinality(B)
                 b2 == Cardinality(B')
      <3>1. IsFiniteSet(B) /\ b \in Nat /\ m \in Nat
        BY <1>0, ThreadSets, MetaFinite
      <3>2. B' = B \ {t}
        BY <2>2, <2>4
      <3>3. b2 = IF t \in B THEN b - 1 ELSE b
        BY <3>1, <3>2, FS_RemoveElement
      <3>4. m <= Len(cell) + b
        BY DEF IInv, MetaInv
      <3>5. m <= Len(cell') + b2
        <4> HIDE DEF m, b, b2, B
        <4> QED
          BY <2>9, <3>1, <3>3, <3>4
      <3> QED
        BY <1>1, <3>5 DEF MetaInv
    <2>18. TreeInv'
      BY <1>0, <1>1, <2>1, <2>2, AddTree
    <2>19. IdInv'
      <3>1. /\ \A d \in Cells : node[d].id \in Cells
            /\ \A b, d \in Cells : node[b].id = node[d].id => b = d
        BY DEF IInv, IdInv
      <3>2. \A d \in Cells : node'[d].id = node[d].id
        BY <2>7 DEF SameId
      <3>4. \A d \in Cells' : node'[d].id \in Cells'
        BY <2>5, <2>8, <3>1, <3>2
      <3>5. \A b, d \in Cells' : node'[b].id = node'[d].id => b = d
        BY <2>5, <2>8, <3>1, <3>2
      <3> QED
        BY <1>1, <3>4, <3>5 DEF IdInv
    <2>20. RoomInv'
      <3> DEFINE r == Contents(t)
      <3>1. /\ r.room \in 0 .. MaxFile /\ r.allocated \in 0 .. MaxFile /\ r.bare \in BOOLEAN
            /\ ~ r.bare => r.allocated <= r.room
            /\ r.bare => r.allocated = KB /\ r.room = 0
            /\ program = "memoryfs" /\ kind[t] = "file" /\ r.room = 0 => r.bare
        <4>1. kind[t] # "none"
          BY <1>0, <1>1 DEF ThreadInv, Making
        <4> QED
          BY <1>0, <4>1, ContentsIs
      <3> HIDE DEF r
      <3>2. /\ total \in Nat /\ \A d \in Cells : RoomOf(node[d])
            /\ program = "memoryfs" => Charged(node, total)
        BY <1>0 DEF RoomInv
      <3>3. total' \in Nat /\ (program = "memoryfs" => total' >= total + r.room)
        <4>1. total' = IF program = "dummyfs" THEN total ELSE total + EntrySize + r.room
          BY <1>3 DEF r
        <4> QED
          BY <3>1, <3>2, <4>1, BoundsAssumption
      <3>4. \A d \in Cells : /\ SameRoom(node[d], node'[d]) /\ node'[d].kind = node[d].kind
        BY <2>7 DEF SameRoom
      <3>5. ASSUME NEW d \in Cells' PROVE RoomOf(node[d])'
        <4>1. CASE d = e
          <5>1. /\ node'[e].kind = kind[t] /\ node'[e].size = 0 /\ node'[e].room = r.room
                /\ node'[e].allocated = r.allocated /\ node'[e].bare = r.bare
            BY <2>8 DEF r
          <5> QED
            BY <1>1, <1>3, <3>1, <4>1, <5>1, BoundsAssumption DEF RoomOf
        <4>2. CASE d \in Cells
          BY <1>1, <1>3, <3>2, <3>4, <4>2 DEF RoomOf, SameRoom
        <4> QED
          BY <2>5, <4>1, <4>2
      <3>6. ASSUME program = "memoryfs"
            PROVE  Charged(node, total)'
        <4>1. PICK h \in [0 .. Len(node) -> Int] :
                /\ h[0] = 0
                /\ \A i \in 1 .. Len(node) : h[i] = h[i - 1] + Charge(node[i])
                /\ h[Len(node)] <= total
          BY <3>2, <3>6 DEF Charged
        <4> DEFINE l == Len(cell)
                   g == [i \in 0 .. l + 1 |-> IF i = l + 1 THEN h[l] + r.room ELSE h[i]]
        <4>2. l \in Nat /\ Len(node) = l /\ Len(node') = l + 1 /\ e = l + 1 /\ Cells = 1 .. l
          BY <2>5, <2>9
        <4>3. \A i \in 1 .. l : Charge(node'[i]) = Charge(node[i])
          BY <3>4, <4>2 DEF Charge, SameRoom
        <4>4. Charge(node'[l + 1]) = r.room
          <5>1. node'[e].room = r.room /\ node'[e].bare = r.bare
            BY <2>8 DEF r
          <5> QED
            BY <3>1, <4>2, <5>1 DEF Charge
        <4>a. r.room \in Nat
          BY <3>1, BoundsAssumption
        <4> HIDE DEF l
        <4>5. g \in [0 .. l + 1 -> Int] /\ g[0] = 0 /\ g[l + 1] = h[l] + r.room
              /\ g[l] = h[l] /\ \A i \in 1 .. l : g[i] = h[i] /\ g[i - 1] = h[i - 1]
          BY <4>1, <4>2, <4>a
        <4> HIDE DEF g
        <4>6. ASSUME NEW i \in 1 .. l + 1 PROVE g[i] = g[i - 1] + Charge(node'[i])
          <5>1. CASE i = l + 1
            <6>1. i - 1 = l
              BY <4>2, <5>1
            <6> QED
              BY <4>4, <4>5, <5>1, <6>1
          <5>2. CASE i \in 1 .. l
            BY <4>1, <4>2, <4>3, <4>5, <5>2
          <5> QED
            BY <4>2, <5>1, <5>2
        <4>7. g[l + 1] <= total'
          <5>1. h[l] \in Int /\ h[l] <= total
            BY <4>1, <4>2
          <5> QED
            BY <3>2, <3>3, <3>6, <4>5, <4>a, <5>1
        <4> QED
          BY <4>2, <4>5, <4>6, <4>7 DEF Charged
      <3> QED
        BY <1>1, <3>3, <3>5, <3>6 DEF RoomInv
    <2>21. ImageInv' /\ BitmapInv'
      BY <1>1, <2>2 DEF ImageInv, BitmapInv
    <2>22. LockInv'
      <3> SUFFICES ASSUME NEW d \in Cells', node'[d].busy, ~ node'[d].denied
                   PROVE  \E u \in Threads : pc'[u] \in Locking /\ d = inode_map'[Front(path'[u])]
        BY DEF LockInv, Owner
      <3>1. d # e /\ d # c /\ d \in Cells /\ node'[d] = node[d]
        BY <2>5, <2>7, <2>8
      <3>2. PICK u \in Threads : pc[u] \in Locking /\ d = inode_map[Owner(u)]
        BY <3>1 DEF IInv, LockInv
      <3>3. u # t
        BY <2>5, <3>1, <3>2
      <3>4. Owner(u) \in Paths
        BY <1>0, <3>2 DEF OwnerInv
      <3>5. pc'[u] \in Locking /\ d = inode_map'[Front(path'[u])]
        BY <2>4, <2>5, <3>2, <3>3, <3>4 DEF Owner
      <3> QED
        BY <3>5
    <2>23. Causes'
      BY <1>1, <1>3 DEF Causes
    <2> QED
      BY <2>2, <2>11, <2>12, <2>13, <2>14, <2>15, <2>16, <2>17, <2>18, <2>19, <2>20, <2>21,
         <2>22, <2>23 DEF IInv, MapsInv
  <1>4. Add(t) => \/ /\ fault' = "overrun" \/ (fault' = "segv" /\ NoMemory(EntrySize))
                     /\ UNCHANGED <<tables, total, pc, path, origin, kind, counter, got, walked>>
                  \/ /\ Entering(t) /\ fault' = fault
                     /\ total' = IF program = "dummyfs" THEN total
                                                       ELSE total + EntrySize + Contents(t).room
                     /\ \/ /\ program = "pssfs" /\ pc' = [pc EXCEPT ![t] = "save"]
                           /\ UNCHANGED <<path, origin, kind, counter, got, walked>>
                        \/ program # "pssfs" /\ Return(t)
    BY DEF Add, Entering, Owner
  <1> QED
    BY <1>2, <1>3, <1>4

-----------------------------------------------------------------------------
(* The other calls.  None of them moves a thread that makes an entry, nor  *)
(* the directory in which it makes it.                                     *)

\* A thread that is where it was; one that was idle and is now in a call of pssfs
\* that removes an entry of a directory it has for itself, or that moved one.
Stays(u) == pc'[u] = pc[u] /\ path'[u] = path[u]
Arrives(u) ==
  /\ pc[u] = "idle" /\ pc'[u] \in {"dec", "save"} /\ program = "pssfs"
  /\ path'[u] \in Seq(Name) /\ path'[u] # <<>>
  /\ pc'[u] = "dec" =>
       /\ path'[u] \notin Paths' /\ Front(path'[u]) \in Paths'
       /\ node'[inode_map'[Front(path'[u])]].kind = "dir"
       /\ \A v \in Threads : pc[v] \in Locking =>
            /\ Owner(v) # Front(path'[u])
            /\ ~ IsPrefix(path[v], path'[u]) /\ ~ IsPrefix(path'[u], path[v])

\* What these calls leave alone.
Quiet ==
  /\ UNCHANGED <<program, cell, entry_map, cur_inode, inode_count, meta, image, lost>>
  /\ Call /\ fault' \in {"none", "exit", "overrun", "segv"} /\ exchanged' \in BOOLEAN
  /\ TablesType' /\ ThreadType'
  /\ UNCHANGED <<kind, counter, read, got, walked>>
  /\ \A u \in Threads : Stays(u) \/ Arrives(u)
  /\ \A u, v \in Threads : Arrives(u) /\ Arrives(v) => u = v
  /\ program # "pssfs" \/ UNCHANGED inode_map \/ \E u \in Threads : Arrives(u)
  /\ \A t \in Threads : pc[t] \in Locking =>
       /\ path[t] \notin Paths' /\ Owner(t) \in Paths'
       /\ inode_map'[Owner(t)] = inode_map[Owner(t)]
       /\ node'[inode_map[Owner(t)]].kind = "dir"
  /\ \A e \in Cells : node'[e].busy =>
       \/ node'[e].denied
       \/ node[e].busy /\ ~ node[e].denied
       \/ \E u \in Threads : /\ Arrives(u) /\ pc'[u] = "dec"
                             /\ e = inode_map'[Front(path'[u])]

\* Every path is either in the table or will be counted, or was and still is.
CountKept ==
  program = "pssfs" =>
    Cardinality(Paths') + Cardinality(Uncounted') = Cardinality(Paths) + Cardinality(Uncounted)

\* The threads of a call that moves none, and its counters.
LEMMA ThreadsStay ==
  ASSUME ThreadType, UNCHANGED thread
  PROVE  /\ ThreadType' /\ UNCHANGED <<kind, counter, read, got, walked>>
         /\ Uncounted' = Uncounted
         /\ \A u \in Threads : Stays(u) /\ ~ Arrives(u)
  <1>1. UNCHANGED <<pc, path, origin, kind, counter, read, got, walked>>
    BY DEF thread
  <1> QED
    BY <1>1 DEF ThreadType, Uncounted, Stays, Arrives

\* The threads of a call in which one arrives.
LEMMA ThreadArrives ==
  ASSUME ThreadType, NEW t \in Threads, NEW place \in {"dec", "save"},
         NEW new \in Seq(Name), NEW old \in Seq(Name), Enters(t, place, new, old)
  PROVE  /\ ThreadType' /\ UNCHANGED <<kind, counter, read, got, walked>>
         /\ pc[t] = "idle" /\ pc'[t] = place /\ path'[t] = new
         /\ \A u \in Threads \ {t} : Stays(u) /\ ~ Arrives(u)
         /\ t \notin Uncounted
         /\ Uncounted' = IF place = "dec" THEN Uncounted \cup {t} ELSE Uncounted
  <1>1. /\ pc[t] = "idle" /\ pc' = [pc EXCEPT ![t] = place]
        /\ path' = [path EXCEPT ![t] = new] /\ origin' = [origin EXCEPT ![t] = old]
        /\ UNCHANGED <<kind, counter, read, got, walked>>
    BY DEF Enters
  <1>2. ThreadType' /\ pc'[t] = place /\ path'[t] = new
    BY <1>1 DEF ThreadType, Places
  <1>3. \A u \in Threads \ {t} : pc'[u] = pc[u] /\ path'[u] = path[u]
    BY <1>1 DEF ThreadType
  <1>4. t \notin Uncounted
    BY <1>1 DEF Uncounted
  <1>5. Uncounted' = IF place = "dec" THEN Uncounted \cup {t} ELSE Uncounted
    BY <1>1, <1>2, <1>3 DEF Uncounted
  <1> QED
    BY <1>1, <1>2, <1>3, <1>4, <1>5 DEF Stays, Arrives

\* What the other calls leave of dummyfs_inode_add.
LEMMA QuietThreads ==
  ASSUME Quiet, NEW u \in Threads
  PROVE  /\ Numbered(u)' <=> Numbered(u)
         /\ Blocked(u)' <=> Blocked(u)
         /\ Stores(u, "block")' <=> Stores(u, "block")
         /\ Stores(u, "number")' <=> Stores(u, "number")
         /\ Stores(u, "count")' <=> Stores(u, "count")
         /\ pc'[u] = "sub" <=> pc[u] = "sub"
         /\ pc[u] # "idle" => Stays(u)
         /\ pc'[u] \in Locking => (pc[u] \in Locking /\ Stays(u)) \/ (Arrives(u) /\ pc'[u] = "dec")
  <1>1. UNCHANGED <<program, kind, counter, read, got, walked>> /\ (Stays(u) \/ Arrives(u))
    BY DEF Quiet
  <1>2. (Counter(u)' = Counter(u)) /\ (Stays(u) => pc'[u] = pc[u])
    BY <1>1 DEF Counters, Counter, Stays
  <1>3. Arrives(u) => pc[u] = "idle" /\ pc'[u] \in {"dec", "save"}
    BY DEF Arrives
  <1> QED
    BY <1>1, <1>2, <1>3 DEF Numbered, Blocked, Stores, Locking

\* A call that makes no entry has to preserve the parts about the tree and the
\* memory only.
LEMMA QuietKeeps ==
  ASSUME IInv, Quiet, CountKept, InjectiveInv', TreeInv', IdInv', RoomInv', Causes'
  PROVE  IInv'
  <1>0. TypeInv /\ ThreadInv /\ ApartInv /\ OwnerInv /\ NumberInv /\ BlockInv /\ MetaInv
    BY DEF IInv, MapsInv
  <1>1. /\ UNCHANGED <<program, cell, entry_map, cur_inode, inode_count, meta, image, lost>>
        /\ fault = "none" /\ "number" \notin lost /\ calls < MaxCalls /\ calls' = calls + 1
        /\ fault' \in {"none", "exit", "overrun", "segv"} /\ exchanged' \in BOOLEAN
        /\ TablesType' /\ ThreadType' /\ UNCHANGED <<kind, counter, read, got, walked>>
    BY DEF Quiet, Call
  <1>2. \A t \in Threads : pc[t] \in Locking =>
          /\ path[t] \notin Paths' /\ Owner(t) \in Paths'
          /\ inode_map'[Owner(t)] = inode_map[Owner(t)]
          /\ node'[inode_map[Owner(t)]].kind = "dir"
    BY DEF Quiet
  <1>3. \A u \in Threads : /\ Numbered(u)' <=> Numbered(u)
                           /\ Blocked(u)' <=> Blocked(u)
                           /\ Stores(u, "block")' <=> Stores(u, "block")
                           /\ Stores(u, "number")' <=> Stores(u, "number")
                           /\ Stores(u, "count")' <=> Stores(u, "count")
                           /\ pc'[u] = "sub" <=> pc[u] = "sub"
    BY QuietThreads
  <1>a. \A u \in Threads :
          /\ pc[u] # "idle" => Stays(u)
          /\ pc'[u] \in Locking => \/ pc[u] \in Locking /\ Stays(u)
                                   \/ Arrives(u) /\ pc'[u] = "dec"
    BY QuietThreads
  <1>b. \A u \in Threads : Stays(u) \/ Arrives(u)
    BY DEF Quiet
  <1>4. TypeInv'
    <2>1. calls' \in 0 .. MaxCalls
      BY <1>0, <1>1, BoundsAssumption DEF CallType
    <2>2. NumbersType' /\ CallType'
      BY <1>0, <1>1, <2>1 DEF NumbersType, CallType
    <2> QED
      BY <1>1, <2>2
  <1>5. ThreadInv'
    <2> SUFFICES ASSUME NEW t \in Threads
                 PROVE  /\ counter[t] \in 1 .. Len(Counters)
                        /\ Stores(t, "number")' => read[t] \in Nat
                        /\ Stores(t, "block")' => read[t] \in 0 .. MetaBlocks - 1
                        /\ pc'[t] \in {"dec", "sub", "save", "write"} => program = "pssfs"
                        /\ pc'[t] # "idle" => path'[t] \in Seq(Name) /\ path'[t] # <<>>
                        /\ pc'[t] \in Making => kind[t] # "none"
                        /\ pc'[t] = "idle" => counter[t] = 1 /\ kind[t] = "none"
      <3>1. Len(Counters)' = Len(Counters)
        BY <1>1 DEF Counters
      <3> QED
        BY <1>1, <3>1 DEF ThreadInv
    <2>1. CASE Stays(t)
      BY <1>0, <1>3, <2>1 DEF ThreadInv, Stays
    <2>2. CASE Arrives(t)
      BY <1>0, <1>3, <2>2 DEF ThreadInv, Arrives, Making
    <2> QED
      BY <1>b, <2>1, <2>2
  <1>6. ApartInv'
    <2> SUFFICES ASSUME NEW t \in Threads, NEW u \in Threads, t # u,
                        pc'[t] \in Locking, pc'[u] \in Locking
                 PROVE  Front(path'[t]) # Front(path'[u]) /\ ~ IsPrefix(path'[t], path'[u])
      BY DEF ApartInv, Owner
    <2>1. CASE pc[t] \in Locking /\ Stays(t) /\ pc[u] \in Locking /\ Stays(u)
      BY <1>0, <2>1 DEF ApartInv, Owner, Stays
    <2>2. CASE Arrives(t) /\ pc'[t] = "dec" /\ pc[u] \in Locking /\ Stays(u)
      BY <2>2 DEF Arrives, Owner, Stays
    <2>3. CASE pc[t] \in Locking /\ Stays(t) /\ Arrives(u) /\ pc'[u] = "dec"
      BY <2>3 DEF Arrives, Owner, Stays
    <2>4. ~ (Arrives(t) /\ Arrives(u))
      BY DEF Quiet
    <2> QED
      BY <1>a, <2>1, <2>2, <2>3, <2>4
  <1>7. OwnerInv'
    <2> SUFFICES ASSUME NEW t \in Threads, pc'[t] \in Locking
                 PROVE  LET f == Front(path'[t])  c == inode_map'[f]
                        IN  /\ path'[t] \notin Paths' /\ f \in Paths'
                            /\ entry_map[c] = c /\ node'[c].kind = "dir"
                            /\ cell[c].number < Given(cur_inode)
                            /\ \A u \in Threads :
                                 /\ Stores(u, "number") => cell[c].number < Given(read[u])
                                 /\ Numbered(u) => cell[c].number # got[u].number
      BY <1>1, <1>3 DEF OwnerInv, Owner, Given
    <2>1. CASE pc[t] \in Locking /\ Stays(t)
      <3>1. Front(path'[t]) = Owner(t) /\ path'[t] = path[t]
        BY <2>1 DEF Stays, Owner
      <3> QED
        BY <1>0, <1>2, <2>1, <3>1 DEF OwnerInv
    <2>2. CASE Arrives(t) /\ pc'[t] = "dec"
      <3> DEFINE f == Front(path'[t])
                 c == inode_map'[f]
      <3>1. path'[t] \notin Paths' /\ f \in Paths' /\ node'[c].kind = "dir"
        BY <2>2 DEF Arrives
      <3>2. c \in Cells
        BY <1>1, <3>1 DEF TablesType
      <3> HIDE DEF c, f
      <3>3. /\ entry_map[c] = c /\ cell[c].number < Given(cur_inode)
            /\ \A u \in Threads : /\ Stores(u, "number") => read[u] = cur_inode
                                  /\ Numbered(u) => cell[c].number # got[u].number
        BY <1>0, <1>1, <3>2 DEF NumberInv
      <3> QED
        BY <3>1, <3>3 DEF c, f
    <2> QED
      BY <1>a, <2>1, <2>2
  <1>8. NumberInv' /\ BlockInv'
    <2>1. NumberInv'
      BY <1>0, <1>1, <1>3 DEF NumberInv, Given
    <2>2. BlockInv'
      BY <1>0, <1>1, <1>3 DEF BlockInv
    <2> QED
      BY <2>1, <2>2
  <1>9. MetaInv' /\ CountInv'
    <2>1. {u \in Threads : Blocked(u)}' = {u \in Threads : Blocked(u)}
      BY <1>3
    <2>2. CountInv'
      BY <1>1, <1>3 DEF IInv, CountInv, CountKept
    <2> QED
      BY <1>0, <1>1, <2>1, <2>2 DEF MetaInv
  <1>10. LockInv'
    <2> SUFFICES ASSUME NEW e \in Cells, node'[e].busy, ~ node'[e].denied
                 PROVE  \E u \in Threads : pc'[u] \in Locking /\ e = inode_map'[Front(path'[u])]
      BY <1>1 DEF LockInv, Owner
    <2>1. CASE node[e].busy /\ ~ node[e].denied
      <3>1. PICK u \in Threads : pc[u] \in Locking /\ e = inode_map[Owner(u)]
        BY <2>1 DEF IInv, LockInv
      <3>2. pc'[u] \in Locking /\ e = inode_map'[Front(path'[u])]
        BY <1>2, <1>a, <3>1 DEF Owner, Stays, Locking
      <3> QED
        BY <3>2
    <2>2. CASE \E u \in Threads : /\ Arrives(u) /\ pc'[u] = "dec"
                                  /\ e = inode_map'[Front(path'[u])]
      BY <2>2 DEF Locking
    <2> QED
      BY <2>1, <2>2 DEF Quiet
  <1>11. ImageInv' /\ BitmapInv'
    <2>1. BitmapInv'
      BY <1>1 DEF IInv, BitmapInv
    <2>2. CASE \E u \in Threads : Arrives(u)
      <3>1. \E u \in Threads : Owes(u)'
        BY <2>2 DEF Owes, Arrives
      <3> QED
        BY <2>1, <3>1 DEF ImageInv
    <2>3. CASE program # "pssfs"
      BY <1>1, <2>1, <2>3 DEF ImageInv
    <2>4. CASE UNCHANGED inode_map /\ \A u \in Threads : ~ Arrives(u)
      <3>1. \A u \in Threads : pc'[u] = pc[u] /\ (Owes(u)' <=> Owes(u))
        BY <1>b, <2>4 DEF Stays, Owes
      <3>2. Table' = Table
        BY <1>1, <2>4 DEF Table, Rows
      <3> QED
        BY <1>1, <2>1, <3>1, <3>2 DEF IInv, ImageInv
    <2> QED
      BY <2>2, <2>3, <2>4 DEF Quiet
  <1> QED
    BY <1>4, <1>5, <1>6, <1>7, <1>8, <1>9, <1>10, <1>11 DEF IInv, MapsInv

\* No other call is at work in or below what a call is admitted to.
LEMMA NotBelow ==
  ASSUME ThreadInv, NEW p \in Seq(Name), Admitted(p), NEW t \in Threads, pc[t] # "idle"
  PROVE  /\ ~ IsPrefix(p, Owner(t)) /\ Owner(t) # p /\ Owner(t) # Front(p)
         /\ ~ IsPrefix(p, path[t]) /\ ~ IsPrefix(path[t], p)
  <1>1. /\ Front(path[t]) # Front(p) /\ ~ IsPrefix(p, path[t]) /\ ~ IsPrefix(path[t], p)
    BY DEF Admitted
  <1>2. path[t] \in Seq(Name) /\ path[t] # <<>> /\ Owner(t) \in Seq(Name)
    BY ThreadPath
  <1>3. IsPrefix(p, path[t]) <=> p = path[t] \/ IsPrefix(p, Front(path[t]))
    BY <1>2, PrefixFront, Zenon
  <1>4. ~ IsPrefix(p, Owner(t))
    BY <1>1, <1>3, Zenon DEF Owner
  <1>5. IsPrefix(p, p)
    BY PrefixOrder, Zenon
  <1> QED
    BY <1>1, <1>4, <1>5, Zenon DEF Owner

-----------------------------------------------------------------------------
(* Unlink                                                                  *)

\* One path less.
LEMMA UnlinkKeptKeeps ==
  ASSUME IInv, NEW p \in Paths, IsFile(p), Alone(p), UnlinkKept(p),
         UNCHANGED <<program, cell, entry_map, numbers, total, image, fault, ghosts>>
  PROVE  IInv'
  <1>0. TypeInv /\ NumberInv /\ OwnerInv /\ fault = "none" /\ "number" \notin lost
    BY DEF IInv, MapsInv, Alone, Call
  <1>1. /\ UNCHANGED <<program, inode_map, cell, entry_map, total, image, thread, fault>>
        /\ UNCHANGED <<cur_inode, inode_count, meta, lost, exchanged>> /\ program # "pssfs"
    BY DEF UnlinkKept, numbers, ghosts
  <1> DEFINE e == inode_map[p]
             x == [node[e] EXCEPT !.nlink = 0]
  <1>2. e \in Cells /\ Entry(p) = e
    BY <1>0, EntryIs
  <1>3. /\ x \in NodeRec /\ SameNames(node[e], x) /\ SameLock(node[e], x)
        /\ SameRoom(node[e], x) /\ SameId(node[e], x)
    <2>1. node[e] \in NodeRec /\ 0 \in Nat
      BY <1>0, <1>2, TypesAre
    <2> QED
      BY <2>1, SetLinks
  <1>4. node' = [node EXCEPT ![e] = x]
    BY <1>2 DEF UnlinkKept
  <1>5. x.children \in Seq(Cells) /\ (x.kind = "file" => x.children = <<>>)
    BY <1>0, <1>2, <1>3 DEF SameNames, TablesType
  <1> HIDE DEF x, e
  <1>6. /\ node' \in Seq(NodeRec) /\ Len(node') = Len(node)
        /\ node'[e] = x /\ \A d \in Cells : d # e => node'[d] = node[d]
        /\ \A d \in Cells : /\ node'[d].children \in Seq(Cells)
                            /\ node'[d].kind = "file" => node'[d].children = <<>>
    BY <1>0, <1>2, <1>3, <1>4, <1>5, NodeSet
  <1>7. \A d \in Cells : /\ SameNames(node[d], node'[d]) /\ SameLock(node[d], node'[d])
                         /\ SameRoom(node[d], node'[d]) /\ SameId(node[d], node'[d])
    BY <1>3, <1>6 DEF SameNames, SameLock, SameRoom, SameId
  <1>8. Quiet
    <2>1. TablesType'
      BY <1>0, <1>1, <1>6 DEF TablesType
    <2>2. \A t \in Threads : pc[t] \in Locking =>
            /\ path[t] \notin Paths' /\ Owner(t) \in Paths'
            /\ inode_map'[Owner(t)] = inode_map[Owner(t)]
            /\ node'[inode_map[Owner(t)]].kind = "dir"
      BY <1>0, <1>1, <1>7, PathIs DEF OwnerInv, SameNames
    <2>3. \A d \in Cells : node'[d].busy => node'[d].denied \/ (node[d].busy /\ ~ node[d].denied)
      BY <1>7 DEF SameLock
    <2>4. /\ ThreadType' /\ UNCHANGED <<kind, counter, read, got, walked>>
          /\ \A u \in Threads : Stays(u) /\ ~ Arrives(u)
      BY <1>0, <1>1, ThreadsStay
    <2> QED
      BY <1>0, <1>1, <2>1, <2>2, <2>3, <2>4 DEF Quiet, Alone, CallType
  <1>9. InjectiveInv' /\ CountKept /\ Causes'
    BY <1>0, <1>1 DEF IInv, MapsInv, InjectiveInv, CountKept, Causes
  <1>10. TreeInv' /\ IdInv' /\ RoomInv'
    <2>1. NamesKept
      BY <1>1, <1>6, <1>7 DEF NamesKept
    <2>2. TreeInv'
      BY <1>0, <1>1, <2>1, TreeKept DEF IInv
    <2>3. \A d \in Cells : node'[d].kind = node[d].kind
      BY <1>7 DEF SameNames
    <2>4. IdInv'
      BY <1>1, <1>6, <1>7, <2>3, IdKept DEF IInv
    <2>5. RoomInv'
      BY <1>0, <1>1, <1>6, <1>7, <2>3, RoomKept DEF IInv
    <2> QED
      BY <2>2, <2>4, <2>5
  <1> QED
    BY <1>8, <1>9, <1>10, QuietKeeps

\* unlink of pssfs, which erases the path, preserves the invariant.
LEMMA UnlinkErasedKeeps ==
  ASSUME IInv, NEW p \in Paths, IsFile(p), Alone(p), UnlinkErased(p),
         UNCHANGED <<program, cell, entry_map, numbers, total, image, fault, ghosts>>
  PROVE  IInv'
  <1>0. /\ TypeInv /\ NumberInv /\ OwnerInv /\ InjectiveInv /\ TreeInv /\ ThreadInv
        /\ fault = "none" /\ "number" \notin lost /\ ~ exchanged
    BY DEF IInv, MapsInv, Alone, Call
  <1>1. /\ program = "pssfs"
        /\ inode_map' = [q \in Paths \ {p} |-> inode_map[q]]
        /\ UNCHANGED <<program, cell, entry_map, cur_inode, inode_count, meta, total, image>>
        /\ UNCHANGED <<fault, lost, exchanged>>
    BY DEF UnlinkErased, numbers, ghosts
  <1> DEFINE e == inode_map[p]
             f == Front(p)
             c == inode_map[f]
  <1>2. e \in Cells /\ Entry(p) = e /\ node[e].kind = "file"
    BY <1>0, EntryIs DEF IsFile
  <1>3. \A q \in Paths : Above(q) /\ Beneath(q)
    BY <1>0 DEF TreeInv
  <1>4. /\ p # Root /\ f \in Paths /\ node[c].kind = "dir" /\ e \in Range(node[c].children)
        /\ node[e].name = Last(p)
    BY <1>2, <1>3 DEF Above
  <1>5. c \in Cells /\ Entry(f) = c /\ e # c
    BY <1>0, <1>2, <1>4, EntryIs
  <1>6. node[c].children \in Seq(Cells) /\ IsInjective(node[c].children)
    BY <1>0, <1>3, <1>4, <1>5 DEF Beneath, TablesType
  <1> DEFINE x == [node[e] EXCEPT !.nlink = 0]
             s == RemoveFirst(node[c].children, e)
             z == [node[c] EXCEPT !.children = s]
             y == [z EXCEPT !.busy = TRUE]
  <1>7. /\ x \in NodeRec /\ SameNames(node[e], x) /\ SameLock(node[e], x)
        /\ SameRoom(node[e], x) /\ SameId(node[e], x)
    <2>1. node[e] \in NodeRec /\ 0 \in Nat
      BY <1>0, <1>2, TypesAre
    <2> QED
      BY <2>1, SetLinks
  <1>8. s \in Seq(Cells) /\ Range(s) = Range(node[c].children) \ {e} /\ IsInjective(s)
    BY <1>6, RemoveFirstIs
  <1>9. /\ y \in NodeRec /\ y.children = s /\ y.name = node[c].name /\ y.kind = "dir"
        /\ SameRoom(node[c], y) /\ SameId(node[c], y)
    <2>1. node[c] \in NodeRec /\ Cells \subseteq Nat
      BY <1>0, <1>5, TypesAre
    <2>2. s \in Seq(Nat)
      BY <1>8, <2>1
    <2> HIDE DEF s
    <2>3. /\ z \in NodeRec /\ z.children = s /\ z.name = node[c].name /\ z.kind = "dir"
          /\ SameRoom(node[c], z) /\ SameId(node[c], z)
      BY <1>4, <2>1, <2>2, SetChildren
    <2> HIDE DEF z
    <2>4. y \in NodeRec /\ SameNames(z, y) /\ SameRoom(z, y) /\ SameId(z, y)
      BY <2>3, SetBusy
    <2> QED
      BY <2>3, <2>4 DEF SameNames, SameRoom, SameId
  <1>10. node' = [[node EXCEPT ![e] = x] EXCEPT ![c] = y]
    <2>1. e \in DOMAIN node /\ c \in DOMAIN node /\ e # c
      BY <1>0, <1>2, <1>5, TypesAre
    <2>2. node' = [node EXCEPT ![e].nlink = 0, ![c].children = s, ![c].busy = TRUE]
      BY <1>2, <1>5 DEF UnlinkErased
    <2> HIDE DEF s, e, c
    <2> QED
      BY <2>1, <2>2
  <1> HIDE DEF x, y, z, s, e, c
  <1>11. /\ node' \in Seq(NodeRec) /\ Len(node') = Len(node)
         /\ node'[e] = x /\ node'[c] = y
         /\ \A d \in Cells : d # e /\ d # c => node'[d] = node[d]
    <2>1. node \in Seq(NodeRec) /\ Cells = 1 .. Len(node)
      BY <1>0, TypesAre DEF TablesType
    <2> QED
      BY <1>2, <1>5, <1>7, <1>9, <1>10, <2>1
  <1>12. \A d \in Cells : /\ node'[d].name = node[d].name /\ node'[d].kind = node[d].kind
                          /\ d # c => node'[d].children = node[d].children
    BY <1>4, <1>7, <1>9, <1>11 DEF SameNames
  <1>13. \A d \in Cells : /\ d # c => SameLock(node[d], node'[d])
                          /\ SameRoom(node[d], node'[d]) /\ SameId(node[d], node'[d])
    BY <1>7, <1>9, <1>11 DEF SameLock, SameRoom, SameId
  <1>14. /\ Paths' = Paths \ {p} /\ \A q \in Paths' : inode_map'[q] = inode_map[q]
         /\ f \in Paths' /\ inode_map' = [q \in Paths' |-> inode_map'[q]]
    BY <1>1, <1>2, <1>4, <1>5 DEF e, c
  <1>15. TablesType'
    <2>1. /\ Paths' \subseteq Seq(Name) /\ IsFiniteSet(Paths') /\ Root \in Paths'
          /\ inode_map' \in [Paths' -> Cells]
      BY <1>0, <1>4, <1>14, FS_RemoveElement, PathIs DEF TablesType
    <2>2. \A d \in Cells : /\ node'[d].children \in Seq(Cells)
                           /\ node'[d].kind = "file" => node'[d].children = <<>>
      BY <1>0, <1>8, <1>9, <1>11, <1>12 DEF TablesType
    <2> QED
      BY <1>0, <1>1, <1>11, <2>1, <2>2 DEF TablesType
  <1>a. PICK w \in Threads : Enters(w, "dec", p, p)
    BY DEF UnlinkErased
  <1>b. p \in Seq(Name) /\ Admitted(p)
    BY <1>0, PathIs DEF Alone
  <1>c. /\ ThreadType' /\ UNCHANGED <<kind, counter, read, got, walked>>
        /\ pc[w] = "idle" /\ pc'[w] = "dec" /\ path'[w] = p
        /\ \A u \in Threads \ {w} : Stays(u) /\ ~ Arrives(u)
        /\ w \notin Uncounted /\ Uncounted' = Uncounted \cup {w}
    <2>1. "dec" \in {"dec", "save"} /\ ThreadType
      BY <1>0
    <2> QED
      BY <1>a, <1>b, <2>1, ThreadArrives
  <1>d. Arrives(w)
    <2>1. \A v \in Threads : pc[v] \in Locking =>
            Owner(v) # Front(p) /\ ~ IsPrefix(path[v], p) /\ ~ IsPrefix(p, path[v])
      BY <1>0, <1>b, NotBelow DEF Locking
    <2>2. p \notin Paths' /\ f \in Paths' /\ inode_map'[f] = c
      BY <1>14 DEF c
    <2>3. node'[c].kind = "dir"
      BY <1>9, <1>11
    <2> QED
      BY <1>1, <1>4, <1>b, <1>c, <2>1, <2>2, <2>3 DEF Arrives
  <1>16. Quiet
    <2>1. \A t \in Threads : pc[t] \in Locking =>
            /\ path[t] \notin Paths' /\ Owner(t) \in Paths'
            /\ inode_map'[Owner(t)] = inode_map[Owner(t)]
            /\ node'[inode_map[Owner(t)]].kind = "dir"
      <3> SUFFICES ASSUME NEW t \in Threads, pc[t] \in Locking
                   PROVE  /\ path[t] \notin Paths' /\ Owner(t) \in Paths'
                          /\ inode_map'[Owner(t)] = inode_map[Owner(t)]
                          /\ node'[inode_map[Owner(t)]].kind = "dir"
        OBVIOUS
      <3>1. /\ path[t] \notin Paths /\ Owner(t) \in Paths
            /\ node[inode_map[Owner(t)]].kind = "dir"
        BY <1>0 DEF OwnerInv
      <3>2. Owner(t) # p
        BY <1>2, <3>1 DEF e
      <3>3. inode_map[Owner(t)] \in Cells
        BY <1>0, <3>1, PathIs
      <3> QED
        BY <1>12, <1>14, <3>1, <3>2, <3>3
    <2>2. \A d \in Cells : node'[d].busy =>
            \/ node'[d].denied
            \/ node[d].busy /\ ~ node[d].denied
            \/ \E u \in Threads : /\ Arrives(u) /\ pc'[u] = "dec"
                                  /\ d = inode_map'[Front(path'[u])]
      <3> SUFFICES ASSUME NEW d \in Cells, node'[d].busy, ~ node'[d].denied
                   PROVE  \/ node[d].busy /\ ~ node[d].denied
                          \/ \E u \in Threads : /\ Arrives(u) /\ pc'[u] = "dec"
                                                /\ d = inode_map'[Front(path'[u])]
        OBVIOUS
      <3>1. CASE d = c
        <4>1. d = inode_map'[Front(path'[w])]
          BY <1>14, <1>c, <3>1 DEF c
        <4> QED
          BY <1>c, <1>d, <4>1
      <3>2. CASE d # c
        BY <1>13, <3>2 DEF SameLock
      <3> QED
        BY <3>1, <3>2
    <2>3. /\ \A u \in Threads : Stays(u) \/ Arrives(u)
          /\ \A u, v \in Threads : Arrives(u) /\ Arrives(v) => u = v
      BY <1>c, <1>d
    <2> QED
      BY <1>0, <1>1, <1>15, <1>c, <1>d, <2>1, <2>2, <2>3 DEF Quiet, Alone, CallType
  <1>17. InjectiveInv'
    BY <1>0, <1>14 DEF InjectiveInv
  <1>18. CountKept
    <2> DEFINE a == Cardinality(Uncounted)
               b == Cardinality(Paths)
               a2 == Cardinality(Uncounted')
               b2 == Cardinality(Paths')
    <2>1. IsFiniteSet(Paths) /\ b \in Nat /\ a \in Nat /\ IsFiniteSet(Uncounted)
      BY <1>0, ThreadSets, FS_CardinalityType DEF TablesType
    <2>2. b2 = b - 1
      <3>1. Cardinality(Paths \ {p}) = IF p \in Paths THEN Cardinality(Paths) - 1
                                                       ELSE Cardinality(Paths)
        BY <2>1, FS_RemoveElement, Zenon
      <3> QED
        BY <1>14, <3>1
    <2>3. a2 = a + 1
      <3>1. Cardinality(Uncounted \cup {w}) = IF w \in Uncounted THEN Cardinality(Uncounted)
                                                                 ELSE Cardinality(Uncounted) + 1
        BY <2>1, FS_AddElement, Zenon
      <3> QED
        BY <1>c, <3>1
    <2>4. b2 + a2 = b + a
      <3> HIDE DEF a, b, a2, b2
      <3> QED
        BY <2>1, <2>2, <2>3
    <2> QED
      BY <2>4 DEF CountKept
  <1>19. TreeInv'
    <2> SUFFICES ASSUME NEW q \in Paths' PROVE Above(q)' /\ Beneath(q)'
      BY DEF TreeInv
    <2>1. q \in Paths /\ q # p /\ inode_map'[q] = inode_map[q] /\ inode_map[q] \in Cells
          /\ inode_map[q] # e
      BY <1>0, <1>14, PathIs DEF InjectiveInv, e
    <2>2. Above(q) /\ Beneath(q)
      BY <1>3, <2>1
    <2>3. Above(q)'
      <3>1. CASE q = Root
        BY <1>12, <2>1, <2>2, <3>1 DEF Above
      <3>2. CASE q # Root
        <4> DEFINE g == Front(q)
        <4>1. /\ g \in Paths /\ node[inode_map[g]].kind = "dir"
              /\ inode_map[q] \in Range(node[inode_map[g]].children)
              /\ node[inode_map[q]].name = Last(q)
          BY <2>2, <3>2 DEF Above
        <4>2. g # p /\ inode_map[g] \in Cells
          BY <1>0, <1>2, <4>1, PathIs DEF e
        <4>3. g \in Paths' /\ inode_map'[g] = inode_map[g]
          BY <1>14, <4>1, <4>2
        <4>4. inode_map[q] \in Range(node'[inode_map[g]].children)
          <5>1. CASE inode_map[g] = c
            BY <1>8, <1>9, <1>11, <2>1, <4>1, <5>1
          <5>2. CASE inode_map[g] # c
            BY <1>12, <4>1, <4>2, <5>2
          <5> QED
            BY <5>1, <5>2
        <4>5. node'[inode_map[g]].kind = "dir" /\ node'[inode_map[q]].name = Last(q)
          BY <1>12, <2>1, <4>1, <4>2
        <4> QED
          BY <2>1, <3>2, <4>3, <4>4, <4>5 DEF Above
      <3> QED
        BY <3>1, <3>2
    <2>4. Beneath(q)'
      <3> DEFINE d == inode_map[q]
      <3>1. /\ \A b \in Range(node[d].children) :
                 Append(q, node[b].name) \in Paths /\ inode_map[Append(q, node[b].name)] = b
            /\ IsInjective(node[d].children)
        BY <2>2 DEF Beneath
      <3>2. IsInjective(node'[d].children)
        BY <1>8, <1>9, <1>11, <1>12, <2>1, <3>1
      <3>3. ASSUME NEW b \in Range(node'[d].children)
            PROVE  b \in Range(node[d].children) /\ b # e /\ b \in Cells
        <4>1. b \in Range(node[d].children)
          BY <1>8, <1>9, <1>11, <1>12, <2>1
        <4>2. node[d].children \in Seq(Cells)
          BY <1>0, <2>1 DEF TablesType
        <4>3. b \in Cells
          BY <4>1, <4>2 DEF Range
        <4>4. CASE d = c
          BY <1>8, <1>9, <1>11, <4>1, <4>3, <4>4
        <4>5. CASE d # c
          <5>1. ASSUME b = e PROVE FALSE
            <6>1. inode_map[Append(q, node[b].name)] = inode_map[p] /\ Append(q, node[b].name) \in Paths
              BY <3>1, <4>1, <5>1 DEF e
            <6>2. p = Append(q, node[b].name)
              BY <1>0, <6>1 DEF InjectiveInv
            <6>3. q \in Seq(Name) /\ node[b].name \in Name
              <7>1. node[b] \in NodeRec
                BY <1>0, <4>3, TypesAre
              <7> QED
                BY <1>0, <2>1, <7>1, PathIs DEF NodeRec
            <6>4. Front(p) = q
              BY <6>2, <6>3, AppendPath, Zenon
            <6> QED
              BY <4>5, <6>4 DEF c
          <5> QED
            BY <4>1, <4>3, <5>1
        <4> QED
          BY <4>4, <4>5
      <3>4. ASSUME NEW b \in Range(node'[d].children)
            PROVE  Append(q, node'[b].name) \in Paths' /\ inode_map'[Append(q, node'[b].name)] = b
        <4>1. /\ Append(q, node[b].name) \in Paths /\ inode_map[Append(q, node[b].name)] = b
              /\ node'[b].name = node[b].name /\ b # e
          BY <1>12, <3>1, <3>3
        <4>2. Append(q, node[b].name) # p
          BY <4>1 DEF e
        <4> QED
          BY <1>14, <4>1, <4>2
      <3> QED
        BY <2>1, <3>2, <3>4 DEF Beneath
    <2> QED
      BY <2>3, <2>4
  <1>20. IdInv' /\ RoomInv'
    <2>1. IdInv'
      BY <1>1, <1>11, <1>12, <1>13, IdKept DEF IInv
    <2>2. RoomInv'
      BY <1>0, <1>1, <1>11, <1>12, <1>13, RoomKept DEF IInv
    <2> QED
      BY <2>1, <2>2
  <1>21. Causes'
    BY <1>0, <1>1 DEF Causes
  <1> QED
    BY <1>16, <1>17, <1>18, <1>19, <1>20, <1>21, QuietKeeps

\* unlink preserves the invariant.
LEMMA UnlinkKeeps ==
  ASSUME IInv, Unlink
  PROVE  IInv'
  BY UnlinkKeptKeeps, UnlinkErasedKeeps DEF Unlink

-----------------------------------------------------------------------------
(* Exchange                                                                *)

\* RENAME_EXCHANGE preserves the invariant.
LEMMA ExchangeKeeps ==
  ASSUME IInv, Exchange
  PROVE  IInv'
  <1>1. PICK p, q \in Paths \ {Root} :
          /\ program \in {"memoryfs", "pssfs"}
          /\ ~ IsPrefix(p, q) /\ ~ IsPrefix(q, p)
          /\ Alone(p) /\ Admitted(q)
          /\ node' = [node EXCEPT ![Entry(p)] = node[Entry(q)], ![Entry(q)] = node[Entry(p)]]
          /\ exchanged' = \/ Last(p) # Last(q)
                          \/ node[Entry(p)].children # <<>> \/ node[Entry(q)].children # <<>>
          /\ UNCHANGED <<program, inode_map, cell, entry_map, numbers, total, image, thread, fault,
                         lost>>
    BY DEF Exchange
  <1>0. /\ TypeInv /\ NumberInv /\ OwnerInv /\ InjectiveInv /\ TreeInv /\ ThreadInv
        /\ fault = "none" /\ "number" \notin lost /\ ~ exchanged
    BY <1>1 DEF IInv, MapsInv, Alone, Call
  <1>2. UNCHANGED <<program, inode_map, cell, entry_map, cur_inode, inode_count, meta, total,
                    image, thread, fault, lost>>
    BY <1>1 DEF numbers
  <1> DEFINE x == inode_map[p]
             y == inode_map[q]
  <1>3. x \in Cells /\ y \in Cells /\ Entry(p) = x /\ Entry(q) = y
    BY <1>0, EntryIs
  <1>4. x # y
    <2>1. IsPrefix(p, p)
      BY <1>0, PathIs, PrefixOrder
    <2> QED
      BY <1>0, <1>1, <2>1 DEF InjectiveInv
  <1>5. node' = [[node EXCEPT ![x] = node[y]] EXCEPT ![y] = node[x]]
    BY <1>1, <1>3
  <1> HIDE DEF x, y
  <1>6. /\ node \in Seq(NodeRec) /\ Cells = 1 .. Len(node) /\ Len(node) \in Nat
        /\ \A d \in Cells : /\ node[d] \in NodeRec /\ node[d].children \in Seq(Cells)
                            /\ node[d].kind = "file" => node[d].children = <<>>
    BY <1>0, TypesAre DEF TablesType
  <1> DEFINE sw == [d \in Cells |-> IF d = x THEN y ELSE IF d = y THEN x ELSE d]
  <1>7. /\ node' \in Seq(NodeRec) /\ Len(node') = Len(node)
        /\ node'[x] = node[y] /\ node'[y] = node[x]
        /\ \A d \in Cells : d # x /\ d # y => node'[d] = node[d]
    BY <1>3, <1>4, <1>5, <1>6
  <1>8. /\ \A d \in Cells : sw[d] \in Cells /\ node'[d] = node[sw[d]]
        /\ \A b, d \in Cells : sw[b] = sw[d] => b = d
    BY <1>3, <1>4, <1>7
  <1> HIDE DEF sw
  <1>9. \A t \in Threads : pc[t] \in Locking =>
          /\ path[t] \notin Paths /\ Owner(t) \in Paths
          /\ node[inode_map[Owner(t)]].kind = "dir"
          /\ inode_map[Owner(t)] \in Cells \ {x, y}
    <2> SUFFICES ASSUME NEW t \in Threads, pc[t] \in Locking
                 PROVE  /\ path[t] \notin Paths /\ Owner(t) \in Paths
                        /\ node[inode_map[Owner(t)]].kind = "dir"
                        /\ inode_map[Owner(t)] \in Cells \ {x, y}
      OBVIOUS
    <2>1. /\ path[t] \notin Paths /\ Owner(t) \in Paths
          /\ node[inode_map[Owner(t)]].kind = "dir"
      BY <1>0 DEF OwnerInv
    <2>2. Owner(t) # p /\ Owner(t) # q
      <3>1. pc[t] # "idle" /\ p \in Seq(Name) /\ q \in Seq(Name) /\ Admitted(p) /\ Admitted(q)
        BY <1>0, <1>1, PathIs DEF Locking, Alone
      <3> QED
        BY <1>0, <3>1, NotBelow
    <2>3. inode_map[Owner(t)] \in Cells
      BY <1>0, <2>1, PathIs
    <2> QED
      BY <1>0, <2>1, <2>2, <2>3 DEF InjectiveInv, x, y
  <1>10. TablesType'
    <2>1. \A d \in Cells : /\ node'[d].children \in Seq(Cells)
                           /\ node'[d].kind = "file" => node'[d].children = <<>>
      <3> TAKE d \in Cells
      <3>1. PICK b \in Cells : node'[d] = node[b]
        BY <1>8
      <3> QED
        BY <1>6, <3>1
    <2> QED
      BY <1>0, <1>2, <1>7, <2>1 DEF TablesType
  <1>11. Quiet
    <2>1. \A t \in Threads : pc[t] \in Locking =>
            /\ path[t] \notin Paths' /\ Owner(t) \in Paths'
            /\ inode_map'[Owner(t)] = inode_map[Owner(t)]
            /\ node'[inode_map[Owner(t)]].kind = "dir"
      BY <1>2, <1>7, <1>9
    <2>2. ASSUME NEW d \in Cells, node'[d].busy
          PROVE  node'[d].denied \/ (node[d].busy /\ ~ node[d].denied)
      <3>1. ASSUME NEW b \in {x, y}, node[b].busy PROVE node[b].denied
        <4>1. b \in Cells
          BY <1>3, <3>1
        <4> QED
          BY <1>9, <3>1, <4>1 DEF IInv, LockInv
      <3> QED
        BY <1>7, <2>2, <3>1
    <2>3. exchanged' \in BOOLEAN /\ Call
      BY <1>1 DEF Alone
    <2>4. /\ ThreadType' /\ UNCHANGED <<kind, counter, read, got, walked>>
          /\ \A u \in Threads : Stays(u) /\ ~ Arrives(u)
      BY <1>0, <1>2, ThreadsStay
    <2> QED
      BY <1>0, <1>2, <1>10, <2>1, <2>2, <2>3, <2>4 DEF Quiet
  <1>12. InjectiveInv' /\ CountKept /\ Causes'
    <2>1. InjectiveInv'
      BY <1>0, <1>2 DEF InjectiveInv
    <2>2. CountKept
      BY <1>0, <1>2, ThreadsStay DEF CountKept
    <2> QED
      BY <1>0, <1>2, <2>1, <2>2 DEF Causes
  <1>13. TreeInv'
    <2> SUFFICES ASSUME ~ exchanged', NEW r \in Paths PROVE Above(r)' /\ Beneath(r)'
      BY <1>2 DEF TreeInv
    <2>1. /\ Last(p) = Last(q) /\ node[x].children = <<>> /\ node[y].children = <<>>
      BY <1>1, <1>3
    <2>2. \A s \in Paths : Above(s) /\ Beneath(s)
      BY <1>0 DEF TreeInv
    <2>3. node[x].name = Last(p) /\ node[y].name = Last(q)
      BY <2>2, <1>1 DEF Above, x, y
    <2>4. \A d \in Cells : /\ node'[d].name = node[d].name
                           /\ node'[d].children = node[d].children
      BY <1>7, <2>1, <2>3
    <2>5. Range(node[x].children) = {} /\ Range(node[y].children) = {}
      <3>1. \A s : s = <<>> => Range(s) = {}
        BY DEF Range
      <3> QED
        BY <2>1, <3>1
    <2>6. Above(r)'
      <3>1. CASE r = Root
        <4>1. inode_map[r] # x /\ inode_map[r] # y
          BY <1>0, <1>1, <3>1 DEF InjectiveInv, x, y
        <4>2. inode_map[r] \in Cells
          BY <1>0, PathIs
        <4> QED
          BY <1>2, <1>7, <2>2, <3>1, <4>1, <4>2 DEF Above
      <3>2. CASE r # Root
        <4> DEFINE g == Front(r)
        <4>1. /\ g \in Paths /\ node[inode_map[g]].kind = "dir"
              /\ inode_map[r] \in Range(node[inode_map[g]].children)
              /\ node[inode_map[r]].name = Last(r)
          BY <2>2, <3>2 DEF Above
        <4>2. inode_map[g] # x /\ inode_map[g] # y
          BY <2>5, <4>1
        <4>3. inode_map[g] \in Cells /\ inode_map[r] \in Cells
          BY <1>0, <4>1, PathIs
        <4>4. node'[inode_map[g]] = node[inode_map[g]]
          BY <1>7, <4>2, <4>3
        <4> HIDE DEF g
        <4>5. node'[inode_map[r]].name = Last(r)
          BY <2>4, <4>1, <4>3
        <4> QED
          BY <1>2, <3>2, <4>1, <4>4, <4>5 DEF Above, g
      <3> QED
        BY <3>1, <3>2
    <2>7. Beneath(r)'
      <3>1. inode_map[r] \in Cells /\ inode_map'[r] = inode_map[r]
        BY <1>0, <1>2, PathIs
      <3>2. \A d \in Range(node[inode_map[r]].children) : d \in Cells
        BY <1>6, <3>1 DEF Range
      <3>3. \A d \in Range(node[inode_map[r]].children) : node'[d].name = node[d].name
        BY <2>4, <3>2
      <3>4. node'[inode_map[r]].children = node[inode_map[r]].children
        BY <2>4, <3>1
      <3>5. Beneath(r)
        BY <2>2
      <3> QED
        BY <1>2, <3>3, <3>4, <3>5 DEF Beneath
    <2> QED
      BY <2>6, <2>7
  <1>14. IdInv'
    <2>1. /\ \A d \in Cells : node[d].id \in Cells
          /\ \A b, d \in Cells : node[b].id = node[d].id => b = d
      BY DEF IInv, IdInv
    <2>2. UNCHANGED <<program, cell>>
      BY <1>2
    <2>3. \A d \in Cells : node'[d].id \in Cells
      <3> TAKE d \in Cells
      <3>1. sw[d] \in Cells /\ node'[d] = node[sw[d]]
        BY <1>8
      <3> QED
        BY <2>1, <3>1
    <2>4. \A b, d \in Cells : node'[b].id = node'[d].id => b = d
      <3> TAKE b, d \in Cells
      <3>1. sw[b] \in Cells /\ sw[d] \in Cells /\ node'[b] = node[sw[b]] /\ node'[d] = node[sw[d]]
        BY <1>8
      <3>2. node'[b].id = node'[d].id => sw[b] = sw[d]
        BY <2>1, <3>1
      <3> QED
        BY <1>8, <3>2
    <2> QED
      BY <2>2, <2>3, <2>4 DEF IdInv
  <1>15. RoomInv'
    <2>1. /\ total \in Nat /\ \A d \in Cells : RoomOf(node[d])
          /\ program = "memoryfs" => Charged(node, total)
      BY DEF IInv, RoomInv
    <2>2. \A d \in Cells : RoomOf(node[d])'
      <3> TAKE d \in Cells
      <3>1. PICK b \in Cells : node'[d] = node[b]
        BY <1>8
      <3>2. RoomOf(node[b]) /\ fault' = fault /\ program' = program
        BY <1>2, <2>1
      <3> QED
        BY <3>1, <3>2 DEF RoomOf
    <2>3. ASSUME program = "memoryfs" PROVE Charged(node, total)'
      <3> DEFINE s == [node EXCEPT ![x] = node[y]]
                 cx == Charge(node[x])
                 cy == Charge(node[y])
      <3>1. cx \in Int /\ cy \in Int
        <4>1. \A z \in NodeRec : Charge(z) \in Int
          BY DEF Charge, NodeRec
        <4> QED
          BY <1>3, <1>6, <4>1
      <3>2. Charged(s, total + cy - cx)
        BY <1>3, <1>6, <2>1, <2>3, ChargeSet
      <3>3. s \in Seq(NodeRec) /\ y \in 1 .. Len(s) /\ s[y] = node[y]
        BY <1>3, <1>4, <1>6
      <3>4. total + cy - cx \in Int
        BY <2>1, <3>1
      <3> HIDE DEF cx, cy, s
      <3>5. Charged([s EXCEPT ![y] = node[x]], total + cy - cx + Charge(node[x]) - Charge(s[y]))
        BY <1>3, <1>6, <3>2, <3>3, <3>4, ChargeSet
      <3>6. total + cy - cx + Charge(node[x]) - Charge(s[y]) = total
        <4>1. Charge(node[x]) = cx /\ Charge(s[y]) = cy
          BY <3>3 DEF cx, cy
        <4> QED
          BY <2>1, <3>1, <4>1
      <3>7. node' = [s EXCEPT ![y] = node[x]] /\ total' = total
        BY <1>2, <1>5 DEF s
      <3>8. Charged(node', total')
        BY <3>5, <3>6, <3>7
      <3> QED
        BY <3>8 DEF Charged, Charge
    <2> QED
      BY <1>2, <2>1, <2>2, <2>3 DEF RoomInv
  <1> QED
    BY <1>11, <1>12, <1>13, <1>14, <1>15, QuietKeeps

-----------------------------------------------------------------------------
(* Resize                                                                  *)

\* Only the contents of node e change, to those of x.
Resized(e, x) ==
  /\ x \in NodeRec /\ node' = [node EXCEPT ![e] = x]
  /\ SameNames(node[e], x) /\ SameId(node[e], x)
  /\ x.busy => x.denied \/ (node[e].busy /\ ~ node[e].denied)
  /\ fault' \in {"none", "exit", "overrun", "segv"} /\ total' \in Nat
  /\ RoomOf(node[e])' /\ (program = "memoryfs" => total + Charge(x) - Charge(node[e]) <= total')

\* write and truncate that are granted preserve the invariant.
LEMMA ResizedKeeps ==
  ASSUME IInv, NEW e \in Cells, NEW x, Resized(e, x), Call, program # "pssfs",
         UNCHANGED <<program, inode_map, cell, entry_map, numbers, image, thread, ghosts>>, Causes'
  PROVE  IInv'
  <1>0. /\ TypeInv /\ OwnerInv /\ TreeInv /\ RoomInv /\ fault = "none" /\ "number" \notin lost
    BY DEF IInv, MapsInv, Call
  <1>1. UNCHANGED <<program, inode_map, cell, entry_map, cur_inode, inode_count, meta, image,
                    thread, lost, exchanged>>
    BY DEF numbers, ghosts
  <1>2. /\ x \in NodeRec /\ node' = [node EXCEPT ![e] = x]
        /\ SameNames(node[e], x) /\ SameId(node[e], x)
        /\ x.busy => x.denied \/ (node[e].busy /\ ~ node[e].denied)
        /\ fault' \in {"none", "exit", "overrun", "segv"} /\ total' \in Nat
    BY DEF Resized
  <1>3. RoomOf(node[e])' /\ (program = "memoryfs" => total + Charge(x) - Charge(node[e]) <= total')
    BY DEF Resized
  <1>4. x.children \in Seq(Cells) /\ (x.kind = "file" => x.children = <<>>)
    BY <1>0, <1>2 DEF SameNames, TablesType
  <1>5. /\ node' \in Seq(NodeRec) /\ Len(node') = Len(node)
        /\ node'[e] = x /\ \A d \in Cells : d # e => node'[d] = node[d]
        /\ \A d \in Cells : /\ node'[d].children \in Seq(Cells)
                            /\ node'[d].kind = "file" => node'[d].children = <<>>
    BY <1>0, <1>2, <1>4, NodeSet
  <1>6. \A d \in Cells : SameNames(node[d], node'[d]) /\ SameId(node[d], node'[d])
    BY <1>2, <1>5 DEF SameNames, SameId
  <1>7. Quiet
    <2>1. TablesType'
      BY <1>0, <1>1, <1>5 DEF TablesType
    <2>2. \A t \in Threads : pc[t] \in Locking =>
            /\ path[t] \notin Paths' /\ Owner(t) \in Paths'
            /\ inode_map'[Owner(t)] = inode_map[Owner(t)]
            /\ node'[inode_map[Owner(t)]].kind = "dir"
      BY <1>0, <1>1, <1>6, PathIs DEF OwnerInv, SameNames
    <2>3. \A d \in Cells : node'[d].busy => node'[d].denied \/ (node[d].busy /\ ~ node[d].denied)
      <3>1. \A d \in Cells : d # e /\ node'[d].busy =>
              node'[d].denied \/ (node[d].busy /\ ~ node[d].denied)
        <4> SUFFICES ASSUME NEW d \in Cells, d # e, node'[d].busy, ~ node'[d].denied
                     PROVE  node[d].busy /\ ~ node[d].denied
          OBVIOUS
        <4> QED
          BY <1>5
      <3> QED
        BY <1>2, <1>5, <3>1
    <2>4. /\ ThreadType' /\ UNCHANGED <<kind, counter, read, got, walked>>
          /\ \A u \in Threads : Stays(u) /\ ~ Arrives(u)
      BY <1>0, <1>1, ThreadsStay
    <2>5. exchanged' \in BOOLEAN
      BY <1>0, <1>1 DEF CallType
    <2> QED
      BY <1>0, <1>1, <1>2, <2>1, <2>2, <2>3, <2>4, <2>5 DEF Quiet
  <1>8. InjectiveInv' /\ CountKept
    BY <1>1 DEF IInv, MapsInv, InjectiveInv, CountKept
  <1>9. TreeInv' /\ IdInv'
    <2>1. NamesKept
      BY <1>1, <1>5, <1>6 DEF NamesKept
    <2>2. TreeInv'
      BY <1>0, <1>1, <2>1, TreeKept
    <2>3. \A d \in Cells : node'[d].kind = node[d].kind
      BY <1>6 DEF SameNames
    <2>4. IdInv'
      BY <1>1, <1>5, <1>6, <2>3, IdKept DEF IInv
    <2> QED
      BY <2>2, <2>4
  <1>10. RoomInv'
    <2>1. \A d \in Cells : RoomOf(node[d])'
      <3> TAKE d \in Cells
      <3>1. CASE d = e
        BY <1>3, <3>1
      <3>2. CASE d # e
        <4>1. RoomOf(node[d]) /\ node'[d] = node[d] /\ program' = program
          BY <1>0, <1>1, <1>5, <3>2 DEF RoomInv
        <4> QED
          BY <1>0, <4>1 DEF RoomOf
      <3> QED
        BY <3>1, <3>2
    <2>2. ASSUME program = "memoryfs" PROVE Charged(node', total')
      <3>1. Charged(node, total) /\ total \in Nat
        BY <1>0, <2>2 DEF RoomInv
      <3>2. node \in Seq(NodeRec) /\ e \in 1 .. Len(node) /\ node[e] \in NodeRec
        BY <1>0, TypesAre DEF TablesType
      <3> DEFINE n == total + Charge(x) - Charge(node[e])
      <3>3. n \in Int
        <4>1. \A z \in NodeRec : Charge(z) \in Int
          BY DEF Charge, NodeRec
        <4> QED
          BY <1>2, <3>1, <3>2, <4>1
      <3>4. Charged(node', n) /\ n <= total'
        <4>1. Charged([node EXCEPT ![e] = x], n)
          <5>1. total \in Int /\ x \in NodeRec
            BY <1>2, <3>1
          <5> QED
            BY <3>1, <3>2, <5>1, ChargeSet
        <4> QED
          BY <1>2, <1>3, <2>2, <4>1
      <3> HIDE DEF n
      <3>5. PICK h \in [0 .. Len(node') -> Int] :
              /\ h[0] = 0 /\ h[Len(node')] <= n
              /\ \A i \in 1 .. Len(node') : h[i] = h[i - 1] + Charge(node'[i])
        BY <3>4 DEF Charged
      <3>6. h[Len(node')] <= total'
        <4>1. h[Len(node')] \in Int
          BY <1>5, <3>5, SMTT(30)
        <4> QED
          BY <1>2, <3>3, <3>4, <3>5, <4>1
      <3> QED
        BY <3>5, <3>6 DEF Charged
    <2>3. total' \in Nat /\ program' = program /\ UNCHANGED cell
      BY <1>1, <1>2
    <2>4. program = "memoryfs" => Charged(node, total)'
      BY <2>2 DEF Charged, Charge
    <2> QED
      BY <2>1, <2>3, <2>4 DEF RoomInv
  <1> QED
    BY <1>7, <1>8, <1>9, <1>10, QuietKeeps

\* The buffer that dummyfs_reallocate makes, and what it is counted for.
LEMMA ReallocatedKeeps ==
  ASSUME IInv, NEW e \in Cells, NEW size \in Nat \ {0}, NEW n \in Nat \ {0},
         size <= n, n <= MaxFile, node[e].bare => n >= KB,
         n > node[e].allocated \/ n >= KB,
         Reallocated(e, size, n), Call, program = "memoryfs", fault' = fault,
         UNCHANGED <<program, inode_map, cell, entry_map, numbers, image, thread, ghosts>>
  PROVE  IInv'
  <1>0. TypeInv /\ RoomInv /\ fault = "none" /\ fault' = "none"
    BY DEF IInv, MapsInv, Call
  <1>1. node[e] \in NodeRec /\ \A d \in Cells : node[d] \in NodeRec
    BY <1>0, TypesAre
  <1> DEFINE x == [[[node[e] EXCEPT !.room = n] EXCEPT !.allocated = n] EXCEPT !.size = size]
             o == node[e]
  <1>2. /\ x \in NodeRec /\ x.room = n /\ x.allocated = n /\ x.size = size
        /\ x.bare = o.bare /\ SameNames(o, x) /\ SameLock(o, x) /\ SameId(o, x)
    <2>1. o \in NodeRec /\ n \in Nat /\ size \in Nat
      BY <1>1
    <2> HIDE DEF o
    <2>2. LET y == [[[o EXCEPT !.room = n] EXCEPT !.allocated = n] EXCEPT !.size = size]
          IN  /\ y \in NodeRec /\ y.room = n /\ y.allocated = n /\ y.size = size
              /\ y.bare = o.bare /\ y.nlink = o.nlink
              /\ SameNames(o, y) /\ SameLock(o, y) /\ SameId(o, y)
      BY <2>1, SetRoom, Zenon
    <2> QED
      BY <2>2 DEF o
  <1>3. node' = [node EXCEPT ![e] = x]
    <2>1. e \in DOMAIN node
      BY <1>0, TypesAre
    <2> QED
      BY <2>1 DEF Reallocated
  <1>4. node'[e] = x
    <2>1. e \in DOMAIN node
      BY <1>0, TypesAre
    <2> QED
      BY <1>3, <2>1
  <1> HIDE DEF x
  <1>5. RoomOf(o) /\ total \in Nat /\ Charged(node, total) /\ \A d \in Cells : RoomOf(node[d])
    BY <1>0 DEF RoomInv
  <1>6. o.room \in Nat /\ o.allocated \in Nat /\ o.bare \in BOOLEAN
    BY <1>1 DEF NodeRec
  <1>7. Charge(o) <= total
    <2>1. Len(node) \in Nat /\ e \in 1 .. Len(node) /\ Cells = 1 .. Len(node) /\ total \in Int
      BY <1>0, <1>5, TypesAre DEF TablesType
    <2>2. ASSUME NEW d \in Cells PROVE Charge(node[d]) \in Nat
      <3>1. RoomOf(node[d]) /\ node[d].room \in Nat
        BY <1>1, <1>5 DEF NodeRec
      <3> QED
        BY <3>1 DEF RoomOf, Charge
    <2> QED
      BY <1>5, <2>1, <2>2, ChargeBound
  <1>8. total' = total + n - o.allocated
    BY DEF Reallocated
  <1>9. o.bare /\ o.room > 0 => o.room >= KB /\ o.allocated <= o.room
    BY <1>5 DEF RoomOf
  <1>10. /\ ~ o.bare => o.allocated <= o.room
         /\ o.bare => o.allocated >= KB /\ (o.room = 0 => o.allocated = KB)
    BY <1>0, <1>5 DEF RoomOf
  <1> HIDE DEF o
  <1>11. total' \in Nat
    <2>1. CASE o.bare /\ o.room > 0
      <3>1. o.room - KB <= total
        BY <1>7, <2>1 DEF Charge
      <3> QED
        BY <1>5, <1>6, <1>8, <1>9, <2>1, <3>1 DEF o
    <2>2. CASE o.bare /\ ~ (o.room > 0)
      BY <1>5, <1>6, <1>8, <1>10, <2>2 DEF o
    <2>3. CASE ~ o.bare
      <3>1. o.room <= total
        BY <1>7, <2>3 DEF Charge
      <3> QED
        BY <1>5, <1>6, <1>8, <1>10, <2>3, <3>1
    <2> QED
      BY <2>1, <2>2, <2>3
  <1>12. total + Charge(x) - Charge(o) <= total'
    <2>1. CASE o.bare
      <3>1. Charge(x) = n - KB
        BY <1>2, <2>1 DEF Charge
      <3>2. CASE o.room > 0
        <4>1. Charge(o) = o.room - KB
          BY <2>1, <3>2 DEF Charge
        <4> QED
          BY <1>5, <1>6, <1>8, <1>9, <2>1, <3>1, <3>2, <4>1
      <3>3. CASE ~ (o.room > 0)
        <4>1. Charge(o) = o.room /\ o.room = 0
          BY <1>6, <3>3 DEF Charge
        <4> QED
          BY <1>5, <1>6, <1>8, <1>10, <2>1, <3>1, <4>1
      <3> QED
        BY <3>2, <3>3
    <2>2. CASE ~ o.bare
      <3>1. Charge(x) = n /\ Charge(o) = o.room
        BY <1>2, <2>2 DEF Charge
      <3> QED
        BY <1>5, <1>6, <1>8, <1>10, <2>2, <3>1
    <2> QED
      BY <2>1, <2>2
  <1>13. RoomOf(node[e])'
    BY <1>0, <1>2, <1>4, BoundsAssumption DEF RoomOf, o
  <1>14. Resized(e, x)
    BY <1>0, <1>2, <1>3, <1>11, <1>12, <1>13 DEF Resized, o, SameLock
  <1>15. Causes' /\ program # "pssfs"
    BY <1>0 DEF Causes
  <1> QED
    BY <1>14, <1>15, ResizedKeeps

\* A new size of the contents in the buffer there is, and the process may end.
LEMMA SizeKeeps ==
  ASSUME IInv, NEW e \in Cells, NEW a \in Nat, NEW size \in Nat,
         node[e].kind = "file",
         node' = [node EXCEPT ![e] = [[node[e] EXCEPT !.allocated = a] EXCEPT !.size = size]],
         a <= node[e].allocated, size <= MaxFile,
         fault' = "none" => size <= node[e].room,
         size > 0,
         a = node[e].allocated \/ (program = "memoryfs" /\ a = size /\ size > node[e].size),
         program = "memoryfs" => fault' = IF node[e].room = 0 THEN "segv" ELSE fault,
         program # "memoryfs" => fault' = fault,
         total' = total, Call, program # "pssfs",
         UNCHANGED <<program, inode_map, cell, entry_map, numbers, image, thread, ghosts>>
  PROVE  IInv'
  <1>0. TypeInv /\ RoomInv /\ fault = "none"
    BY DEF IInv, MapsInv, Call
  <1> DEFINE o == node[e]
             x == [[node[e] EXCEPT !.allocated = a] EXCEPT !.size = size]
  <1>1. o \in NodeRec /\ e \in DOMAIN node
    BY <1>0, TypesAre
  <1>2. /\ x \in NodeRec /\ x.allocated = a /\ x.size = size /\ x.room = o.room
        /\ x.bare = o.bare /\ SameNames(o, x) /\ SameLock(o, x) /\ SameId(o, x)
    <2>1. o \in NodeRec /\ a \in Nat /\ size \in Nat
      BY <1>1
    <2> HIDE DEF o
    <2>2. LET y == [[o EXCEPT !.allocated = a] EXCEPT !.size = size]
          IN  /\ y \in NodeRec /\ y.allocated = a /\ y.size = size /\ y.room = o.room
              /\ y.bare = o.bare /\ y.nlink = o.nlink
              /\ SameNames(o, y) /\ SameLock(o, y) /\ SameId(o, y)
      BY <2>1, SetSize, Zenon
    <2> QED
      BY <2>2 DEF o
  <1>3. node' = [node EXCEPT ![e] = x] /\ node'[e] = x
    BY <1>1
  <1> HIDE DEF x
  <1>4. RoomOf(o) /\ total \in Nat
    BY <1>0 DEF RoomInv
  <1>5. /\ o.room \in Nat /\ o.allocated \in Nat /\ o.bare \in BOOLEAN /\ o.size \in Nat
        /\ o.kind = "file" /\ x.kind = "file"
    BY <1>1, <1>2 DEF NodeRec, SameNames
  <1>6. RoomOf(node[e])'
    <2>1. {x.size, x.allocated, x.room} \subseteq 0 .. MaxFile
      BY <1>2, <1>4, <1>5, BoundsAssumption DEF RoomOf
    <2>2. fault' = "none" => x.size <= x.room
      BY <1>2
    <2>3. ~ x.bare => x.allocated <= x.room
      BY <1>2, <1>4, <1>5 DEF RoomOf
    <2>4. /\ x.bare /\ fault' = "none" => x.allocated >= KB /\ (x.room = 0 => x.allocated = KB)
          /\ x.bare /\ x.room > 0 => x.room >= KB /\ x.size > 0 /\ x.allocated <= x.room
      <3>1. /\ o.bare => o.allocated >= KB /\ (o.room = 0 => o.allocated = KB)
            /\ o.bare /\ o.room > 0 => o.room >= KB /\ o.size > 0 /\ o.allocated <= o.room
        BY <1>0, <1>4 DEF RoomOf
      <3>2. CASE a = o.allocated
        BY <1>2, <1>5, <3>1, <3>2
      <3>3. CASE program = "memoryfs" /\ a = size /\ size > o.size
        <4>1. fault' = "none" => o.room > 0
          BY <1>5, <3>3
        <4> QED
          BY <1>2, <1>5, <3>1, <3>3, <4>1
      <3> QED
        BY <3>2, <3>3
    <2>5. program = "memoryfs" /\ x.kind = "file" /\ x.room = 0 => x.bare
      BY <1>2, <1>4, <1>5 DEF RoomOf
    <2> QED
      BY <1>3, <2>1, <2>2, <2>3, <2>4, <2>5 DEF RoomOf
  <1>7. Charge(x) = Charge(o)
    BY <1>2 DEF Charge
  <1>8. Charge(o) \in Int
    BY <1>5 DEF Charge
  <1>9. Resized(e, x)
    <2>1. total + Charge(x) - Charge(o) <= total' /\ total' \in Nat
      BY <1>4, <1>7, <1>8
    <2> QED
      BY <1>0, <1>2, <1>3, <1>6, <2>1 DEF Resized, SameLock
  <1>10. Causes'
    <2>1. fault' = "segv" => program = "memoryfs" /\ o.room = 0 /\ o.bare /\ x.bare
      BY <1>0, <1>2, <1>4, <1>5 DEF RoomOf
    <2>2. fault' \in {"none", "segv"}
      BY <1>0
    <2> QED
      BY <1>3, <2>1, <2>2 DEF Causes
  <1> QED
    BY <1>9, <1>10, ResizedKeeps

\* write and truncate that are refused preserve the invariant, though the node
\* stays locked.
LEMMA DenyKeeps ==
  ASSUME IInv, NEW e \in Cells, Deny(e), Call, program # "pssfs",
         UNCHANGED <<program, inode_map, cell, entry_map, numbers, image, thread, ghosts>>
  PROVE  IInv'
  <1>0. TypeInv /\ RoomInv /\ fault = "none" /\ fault' = "none" /\ total' = total
    BY DEF IInv, MapsInv, Call, Deny
  <1> DEFINE o == node[e]
             x == [[o EXCEPT !.busy = TRUE] EXCEPT !.denied = TRUE]
  <1>1. o \in NodeRec /\ e \in DOMAIN node
    BY <1>0, TypesAre
  <1> HIDE DEF o
  <1>2. /\ x \in NodeRec /\ x.busy /\ x.denied
        /\ SameNames(o, x) /\ SameRoom(o, x) /\ SameId(o, x)
    BY <1>1, SetDenied, Zenon
  <1>3. node' = [node EXCEPT ![e] = x]
    BY <1>1 DEF Deny, o
  <1>4. node'[e] = x
    BY <1>1, <1>3
  <1> HIDE DEF x
  <1>5. RoomOf(o) /\ total \in Nat
    BY <1>0 DEF RoomInv, o
  <1>6. RoomOf(node[e])'
    BY <1>0, <1>2, <1>4, <1>5 DEF RoomOf, SameRoom, SameNames
  <1>7. Charge(x) = Charge(o) /\ Charge(o) \in Int
    BY <1>1, <1>2 DEF Charge, SameRoom, NodeRec
  <1>8. Resized(e, x)
    <2>1. total + Charge(x) - Charge(o) <= total'
      BY <1>0, <1>5, <1>7
    <2> QED
      BY <1>0, <1>2, <1>3, <1>5, <1>6, <2>1 DEF Resized, o
  <1>9. Causes'
    BY <1>0 DEF Causes
  <1> QED
    BY <1>8, <1>9, ResizedKeeps

\* write and truncate preserve the invariant.
LEMMA ResizeKeeps ==
  ASSUME IInv, Resize
  PROVE  IInv'
  <1>1. PICK p \in Paths, to \in Sizes :
          /\ Call /\ IsFile(p)
          /\ \/ WriteMemory(Entry(p), to) \/ TruncateMemory(Entry(p), to)
             \/ WriteDummy(Entry(p), to) \/ TruncateDummy(Entry(p), to)
          /\ UNCHANGED <<program, inode_map, cell, entry_map, numbers, image, thread, ghosts>>
    BY DEF Resize
  <1>0. TypeInv /\ NumberInv /\ RoomInv /\ fault = "none" /\ "number" \notin lost
    BY <1>1 DEF IInv, MapsInv, Call
  <1> DEFINE e == Entry(p)
             o == node[e]
  <1>2. e \in Cells /\ o.kind = "file" /\ o \in NodeRec /\ e \in DOMAIN node
    BY <1>0, <1>1, EntryIs, TypesAre DEF IsFile
  <1>3. to \in Nat \ {0} /\ MaxFile \in Nat /\ MaxFile >= 2
    BY BoundsAssumption
  <1>4. /\ o.room \in Nat /\ o.allocated \in Nat /\ o.size \in Nat /\ o.bare \in BOOLEAN
        /\ o.room <= MaxFile /\ o.size <= o.room
    <2>1. RoomOf(o)
      BY <1>0, <1>2 DEF RoomInv
    <2> QED
      BY <1>0, <1>2, <1>3, <2>1 DEF NodeRec, RoomOf
  <1>5. o.bare => o.allocated >= KB
    BY <1>0, <1>2 DEF RoomInv, RoomOf
  <1> HIDE DEF e
  <1>6. CASE WriteMemory(e, to)
    <2>1. program = "memoryfs" /\ to > o.size
      BY <1>6 DEF WriteMemory
    <2>2. CASE Deny(e)
      BY <1>1, <1>2, <2>1, <2>2, DenyKeeps
    <2>3. CASE to <= MaxFile /\ to > o.allocated /\ Reallocated(e, to, to) /\ UNCHANGED fault
      <3>1. o.bare => to >= KB
        BY <1>3, <1>4, <1>5, <2>3
      <3> QED
        BY <1>1, <1>2, <1>3, <2>1, <2>3, <3>1, ReallocatedKeeps
    <2>4. CASE /\ to <= MaxFile /\ to <= o.allocated
               /\ node' = [node EXCEPT ![e].allocated = to, ![e].size = to]
               /\ fault' = IF o.room = 0 THEN "segv" ELSE fault
               /\ UNCHANGED total
      <3>1. node' = [node EXCEPT ![e] = [[node[e] EXCEPT !.allocated = to] EXCEPT !.size = to]]
        BY <1>2, <2>4
      <3>2. fault' = "none" => to <= o.room
        <4>1. RoomOf(o)
          BY <1>0, <1>2 DEF RoomInv
        <4> QED
          BY <1>0, <1>3, <1>4, <2>4, <4>1 DEF RoomOf
      <3>3. to \in Nat /\ to > 0
        BY <1>3
      <3> QED
        BY <1>1, <1>2, <2>1, <2>4, <3>1, <3>2, <3>3, SizeKeeps
    <2> QED
      BY <1>6, <2>2, <2>3, <2>4 DEF WriteMemory
  <1>7. CASE TruncateMemory(e, to)
    <2> DEFINE n == Larger(to, KB)
    <2>1. program = "memoryfs"
      BY <1>7 DEF TruncateMemory
    <2>2. CASE Deny(e)
      BY <1>1, <1>2, <2>1, <2>2, DenyKeeps
    <2>3. CASE to <= MaxFile /\ Reallocated(e, to, n) /\ UNCHANGED fault
      <3>1. n \in Nat \ {0} /\ n >= KB /\ to <= n /\ n <= MaxFile
        BY <1>3, <2>3 DEF Larger
      <3> HIDE DEF n
      <3> QED
        BY <1>1, <1>2, <1>3, <2>1, <2>3, <3>1, ReallocatedKeeps
    <2> QED
      BY <1>7, <2>2, <2>3 DEF TruncateMemory
  <1>8. ASSUME program = "dummyfs", node' = [node EXCEPT ![e].size = to], to <= o.room,
               UNCHANGED <<total, fault>>
        PROVE  IInv'
    <2>1. node' = [node EXCEPT ![e] = [[node[e] EXCEPT !.allocated = o.allocated] EXCEPT !.size = to]]
      <3>1. [o EXCEPT !.allocated = o.allocated] = o
        BY <1>2 DEF NodeRec
      <3>2. node' = [node EXCEPT ![e] = [node[e] EXCEPT !.size = to]]
        BY <1>8
      <3> QED
        BY <3>1, <3>2
    <2>2. to \in Nat /\ to > 0 /\ to <= MaxFile
      BY <1>3, <1>4, <1>8
    <2> DEFINE a == o.allocated
    <2>3. a \in Nat /\ a = node[e].allocated /\ a <= node[e].allocated /\ node[e].kind = "file" /\ e \in Cells
      BY <1>2, <1>4
    <2>4. (fault' = "none" => to <= node[e].room) /\ fault' = fault /\ total' = total
      BY <1>8
    <2>5. node' = [node EXCEPT ![e] = [[node[e] EXCEPT !.allocated = a] EXCEPT !.size = to]]
      BY <2>1
    <2>6. Call /\ program # "memoryfs" /\ program # "pssfs"
      BY <1>1, <1>8
    <2>7. UNCHANGED <<program, inode_map, cell, entry_map, numbers, image, thread, ghosts>>
      BY <1>1
    <2> HIDE DEF a, o
    <2> QED
      BY <1>8, <2>2, <2>3, <2>4, <2>5, <2>6, <2>7, SizeKeeps
  <1>9. CASE WriteDummy(e, to)
    <2>1. CASE fault' = "overrun" /\ UNCHANGED node
      <3>1. UNCHANGED <<program, tables, numbers, total, image, thread, ghosts>>
        BY <1>1, <1>9, <2>1 DEF WriteDummy, tables
      <3>2. calls' \in 0 .. MaxCalls
        BY <1>0, <1>1, BoundsAssumption DEF Call, CallType
      <3>3. Causes'
        BY <1>1, <1>9, <2>1 DEF Causes, WriteDummy
      <3> QED
        BY <2>1, <3>1, <3>2, <3>3, FaultOnly
    <2>2. CASE ~ (to > o.room) /\ node' = [node EXCEPT ![e].size = to] /\ UNCHANGED fault
      <3>1. to <= o.room
        BY <1>3, <1>4, <2>2
      <3> QED
        BY <1>8, <1>9, <2>2, <3>1 DEF WriteDummy
    <2> QED
      BY <1>9, <2>1, <2>2 DEF WriteDummy
  <1>10. CASE TruncateDummy(e, to)
    <2>1. to <= o.room
      BY <1>3, <1>4, <1>10 DEF TruncateDummy
    <2> QED
      BY <1>8, <1>10, <2>1 DEF TruncateDummy
  <1> QED
    BY <1>1, <1>6, <1>7, <1>9, <1>10 DEF e


-----------------------------------------------------------------------------
(* Rename.  rename_subdirs finds every path below the old one by the names *)
(* of the children, because the containers describe the same tree; so the  *)
(* whole subtree leaves for the new path, name by name.                    *)

\* Where a path is after old was renamed to new; and, with the two exchanged,
\* where it was before.
Now(p, old, new) == IF IsPrefix(old, p) THEN Relocated(p, old, new) ELSE p

\* What was moved can be found back.
LEMMA NowBack ==
  ASSUME NEW S, NEW old \in Seq(S), NEW new \in Seq(S), NEW p \in Seq(S),
         ~ IsPrefix(new, p)
  PROVE  Now(p, old, new) \in Seq(S) /\ Now(Now(p, old, new), new, old) = p
  <1>1. CASE IsPrefix(old, p)
    <2> DEFINE q == Relocated(p, old, new)
    <2>1. q \in Seq(S) /\ IsPrefix(new, q) /\ Relocated(q, new, old) = p
      BY <1>1, RelocatedPath
    <2>2. Now(p, old, new) = q
      BY <1>1 DEF Now
    <2> HIDE DEF q
    <2>3. Now(q, new, old) = p
      BY <2>1 DEF Now
    <2> QED
      BY <2>1, <2>2, <2>3
  <1>2. CASE ~ IsPrefix(old, p)
    BY <1>2, Zenon DEF Now
  <1> QED
    BY <1>1, <1>2

\* Parents of paths other than the moved entry move along.
LEMMA NowFront ==
  ASSUME NEW S, NEW old \in Seq(S), NEW new \in Seq(S), NEW p \in Seq(S),
         p # old, p # <<>>
  PROVE  /\ Now(p, old, new) # <<>>
         /\ Front(Now(p, old, new)) = Now(Front(p), old, new)
         /\ Last(Now(p, old, new)) = Last(p)
  <1>1. IsPrefix(old, p) <=> old = p \/ IsPrefix(old, Front(p))
    BY PrefixFront, Zenon
  <1>2. CASE IsPrefix(old, p)
    <2>1. Now(p, old, new) = Relocated(p, old, new)
      BY <1>2 DEF Now
    <2>2. Now(Front(p), old, new) = Relocated(Front(p), old, new)
      BY <1>1, <1>2 DEF Now
    <2>3. /\ p # <<>> /\ IsPrefix(old, Front(p))
          /\ Relocated(p, old, new) # <<>>
          /\ Front(Relocated(p, old, new)) = Relocated(Front(p), old, new)
          /\ Last(Relocated(p, old, new)) = Last(p)
      BY <1>2, RelocatedFront, Zenon
    <2> QED
      BY <2>1, <2>2, <2>3, Zenon
  <1>3. CASE ~ IsPrefix(old, p)
    <2>1. Now(p, old, new) = p /\ Now(Front(p), old, new) = Front(p)
      BY <1>1, <1>3 DEF Now
    <2> QED
      BY <2>1, Zenon
  <1> QED
    BY <1>2, <1>3

\* Children move along.
LEMMA NowNext ==
  ASSUME NEW S, NEW old \in Seq(S), NEW new \in Seq(S), NEW p \in Seq(S), NEW n \in S,
         Append(p, n) # old
  PROVE  Now(Append(p, n), old, new) = Append(Now(p, old, new), n)
  <1> DEFINE q == Append(p, n)
  <1>1. q \in Seq(S) /\ q # <<>> /\ Front(q) = p
    BY AppendPath, Zenon
  <1>2. IsPrefix(old, q) <=> old = q \/ IsPrefix(old, p)
    BY <1>1, PrefixFront, Zenon
  <1>3. CASE IsPrefix(old, p)
    <2>1. IsPrefix(old, q) /\ Relocated(q, old, new) = Append(Relocated(p, old, new), n)
      BY <1>3, RelocatedNext
    <2> QED
      BY <1>3, <2>1 DEF Now
  <1>4. CASE ~ IsPrefix(old, p)
    BY <1>2, <1>4 DEF Now
  <1> QED
    BY <1>3, <1>4

\* The beginnings of a path.
LEMMA InitialFront ==
  ASSUME NEW S, NEW p \in Seq(S), NEW i \in 1 .. Len(p)
  PROVE  /\ SubSeq(p, 1, i) \in Seq(S) /\ SubSeq(p, 1, i) # <<>>
         /\ Front(SubSeq(p, 1, i)) = SubSeq(p, 1, i - 1)
         /\ Last(SubSeq(p, 1, i)) = p[i]
  <1> DEFINE q == SubSeq(p, 1, i)
             r == SubSeq(p, 1, i - 1)
  <1>1. Len(p) \in Nat /\ i \in 1 .. Len(p)
    OBVIOUS
  <1>2. q \in Seq(S) /\ Len(q) = i /\ \A j \in 1 .. i : q[j] = p[j]
    BY <1>1
  <1>3. r \in Seq(S) /\ Len(r) = i - 1 /\ \A j \in 1 .. i - 1 : r[j] = p[j]
    BY <1>1
  <1> HIDE DEF q, r
  <1>4. q # <<>>
    BY <1>1, <1>2
  <1>5. /\ Front(q) \in Seq(S) /\ Len(Front(q)) = i - 1
        /\ \A j \in 1 .. i - 1 : Front(q)[j] = q[j]
    <2>1. /\ Front(q) \in Seq(S) /\ Len(Front(q)) = Len(q) - 1
          /\ \A j \in 1 .. Len(q) - 1 : Front(q)[j] = q[j]
      BY <1>2, <1>4, FrontLast, Zenon
    <2> QED
      BY <1>2, <2>1
  <1>6. Front(q) = r
    <2>1. \A j \in 1 .. i - 1 : Front(q)[j] = r[j]
      BY <1>1, <1>2, <1>3, <1>5
    <2> QED
      BY <1>3, <1>5, <2>1, SeqEqual
  <1>7. Last(q) = p[i]
    BY <1>1, <1>2 DEF Last
  <1> QED
    BY <1>2, <1>4, <1>6, <1>7 DEF q, r

\* With a path there is everything above it.
LEMMA PathsClosed ==
  ASSUME TypeInv, \A q \in Paths : Above(q), NEW p \in Paths
  PROVE  \A i \in 0 .. Len(p) : SubSeq(p, 1, i) \in Paths
  <1>1. p \in Seq(Name) /\ Len(p) \in Nat /\ SubSeq(p, 1, Len(p)) = p
    <2>1. p \in Seq(Name)
      BY PathIs
    <2> QED
      BY <2>1
  <1> DEFINE l == Len(p)
             S == {j \in 0 .. l : SubSeq(p, 1, l - j) \in Paths}
  <1>2. 0 \in S
    <2>1. l - 0 = l /\ 0 \in 0 .. l
      BY <1>1
    <2> QED
      BY <1>1, <2>1
  <1>3. ASSUME NEW j \in 1 .. l, j - 1 \in S PROVE j \in S
    <2> DEFINE i == l - (j - 1)
               q == SubSeq(p, 1, i)
    <2>1. i \in 1 .. l /\ i - 1 = l - j /\ j \in 0 .. l
      BY <1>1
    <2>2. q \in Paths
      BY <1>3
    <2> HIDE DEF i
    <2>3. q # <<>> /\ Front(q) = SubSeq(p, 1, i - 1)
      BY <1>1, <2>1, InitialFront
    <2>4. Front(q) \in Paths
      BY <2>2, <2>3 DEF Above
    <2> QED
      BY <2>1, <2>3, <2>4
  <1> HIDE DEF S
  <1>4. \A j \in 0 .. l : j \in S
    BY <1>1, <1>2, <1>3, Climb
  <1>5. ASSUME NEW i \in 0 .. l PROVE SubSeq(p, 1, i) \in Paths
    <2>1. l - i \in 0 .. l /\ l - (l - i) = i
      BY <1>1
    <2> QED
      BY <1>4, <2>1 DEF S
  <1> QED
    BY <1>5

\* No path goes on where there is none.
LEMMA NothingBelow ==
  ASSUME TypeInv, \A q \in Paths : Above(q), NEW new \in Seq(Name), new \notin Paths,
         NEW p \in Paths
  PROVE  ~ IsPrefix(new, p)
  <1> SUFFICES ASSUME IsPrefix(new, p) PROVE FALSE
    OBVIOUS
  <1>1. p \in Seq(Name)
    BY PathIs
  <1>2. Len(new) <= Len(p) /\ SubSeq(new, 1, Len(new)) = SubSeq(p, 1, Len(new))
    BY DEF IsPrefix
  <1>3. Len(new) \in 0 .. Len(p) /\ SubSeq(new, 1, Len(new)) = new
    BY <1>1, <1>2
  <1> QED
    BY <1>2, <1>3, PathsClosed

\* rename_subdirs misses no path.
LEMMA LeadsThere ==
  ASSUME TypeInv, NumberInv, "number" \notin lost, \A q \in Paths : Above(q),
         NEW old \in Paths, NEW p \in Paths, IsPrefix(old, p)
  PROVE  Leads(inode_map[old], Rest(p, old))
  <1> DEFINE k == Len(old)
             r == Rest(p, old)
             at == [i \in 0 .. Len(r) |-> inode_map[SubSeq(p, 1, k + i)]]
  <1>1. old \in Seq(Name) /\ p \in Seq(Name)
    BY PathIs
  <1>2. k \in Nat /\ Len(p) \in Nat /\ k <= Len(p) /\ SubSeq(p, 1, k) = old
    <2>1. k \in Nat /\ Len(p) \in Nat /\ SubSeq(old, 1, k) = old
      BY <1>1
    <2> QED
      BY <2>1 DEF IsPrefix
  <1>3. r \in Seq(Name) /\ Len(r) = Len(p) - k /\ \A i \in 1 .. Len(p) - k : r[i] = p[k + i]
    BY <1>1, RestIs
  <1> HIDE DEF r, k
  <1>4. \A i \in 0 .. Len(r) : SubSeq(p, 1, k + i) \in Paths
    <2> TAKE i \in 0 .. Len(r)
    <2>1. k + i \in 0 .. Len(p)
      BY <1>2, <1>3
    <2> QED
      BY <2>1, PathsClosed
  <1>5. at \in [0 .. Len(r) -> Cells]
    BY <1>4, PathIs
  <1>6. at[0] = inode_map[old]
    <2>1. k + 0 = k /\ 0 \in 0 .. Len(r)
      BY <1>2, <1>3
    <2> QED
      BY <1>2, <2>1
  <1>7. ASSUME NEW i \in 1 .. Len(r)
        PROVE  /\ at[i] \in {Child(c) : c \in Range(node[at[i - 1]].children)}
               /\ node[at[i]].name = r[i]
    <2> DEFINE j == k + i
               q == SubSeq(p, 1, j)
               f == SubSeq(p, 1, j - 1)
    <2>1. j \in 1 .. Len(p) /\ i - 1 \in 0 .. Len(r) /\ i \in 0 .. Len(r)
          /\ k + (i - 1) = j - 1
      BY <1>2, <1>3
    <2>3. at[i] = inode_map[q] /\ at[i - 1] = inode_map[f] /\ q \in Paths
      BY <1>4, <2>1
    <2>a. j = k + i
      OBVIOUS
    <2> HIDE DEF j
    <2>2. q # <<>> /\ Front(q) = f /\ Last(q) = p[j]
      BY <1>1, <2>1, InitialFront
    <2> HIDE DEF at, q, f
    <2>4. /\ inode_map[q] \in Range(node[inode_map[f]].children)
          /\ node[inode_map[q]].name = Last(q)
      BY <2>2, <2>3 DEF Above
    <2>5. Child(inode_map[q]) = inode_map[q]
      BY <2>3, PathIs DEF Child, NumberInv
    <2>6. r[i] = p[j]
      BY <1>2, <1>3, <2>a
    <2>7. at[i] \in {Child(c) : c \in Range(node[at[i - 1]].children)}
      BY <2>3, <2>4, <2>5
    <2> QED
      BY <2>2, <2>3, <2>4, <2>6, <2>7
  <1> HIDE DEF at
  <1> QED
    BY <1>5, <1>6, <1>7 DEF Leads, r

AllBelow(map, old) == {p \in DOMAIN map : IsStrictPrefix(old, p)}
\* The map m has the same cells, at the new paths.
Carried(m, map, old, new) ==
  /\ DOMAIN m = {Now(p, old, new) : p \in DOMAIN map}
  /\ \A p \in DOMAIN map : m[Now(p, old, new)] = map[p]
  /\ m = [q \in DOMAIN m |-> m[q]]

\* When every path below the old one is found, the map leads from every path,
\* old or relocated, to the cell it led to.
LEMMA MovedIs ==
  ASSUME NEW S, NEW map, DOMAIN map \subseteq Seq(S), NEW old \in DOMAIN map,
         NEW new \in Seq(S), ~ IsPrefix(old, new), \A p \in DOMAIN map : ~ IsPrefix(new, p)
  PROVE  Carried(Moved(Rebound(map, old, new), AllBelow(map, old), old, new), map, old, new)
  <1> DEFINE P == DOMAIN map
             below == AllBelow(map, old)
             first == Rebound(map, old, new)
             m == Moved(first, below, old, new)
             D == (((P \ {old}) \cup {new}) \ below) \cup {Relocated(q, old, new) : q \in below}
  <1>0. old \in Seq(S) /\ IsPrefix(old, old) /\ Relocated(old, old, new) = new
    BY PrefixOrder, RelocatedSelf
  <1>1. /\ DOMAIN first = (P \ {old}) \cup {new} /\ first[new] = map[old]
        /\ \A p \in P \ {old} : first[p] = map[p]
    <2>1. new \notin P
      BY PrefixOrder
    <2> QED
      BY <2>1 DEF Rebound
  <1> HIDE DEF first, below
  <1>2. /\ DOMAIN m = D
        /\ \A p \in D : m[p] = IF IsPrefix(new, p) /\ Relocated(p, new, old) \in below
                                 THEN first[Relocated(p, new, old)] ELSE first[p]
        /\ m = [q \in DOMAIN m |-> m[q]]
    BY <1>1 DEF Moved
  <1> HIDE DEF m
  <1>3. /\ \A p \in below : p \in P /\ p # old /\ IsPrefix(old, p) /\ p \in Seq(S)
        /\ \A p \in P : p \notin below => p = old \/ ~ IsPrefix(old, p)
        /\ new \notin below
    BY DEF IsStrictPrefix, AllBelow, below
  <1>4. Now(old, old, new) = new
    BY <1>0 DEF Now
  <1>5. \A p \in below : Now(p, old, new) = Relocated(p, old, new)
    BY <1>3 DEF Now
  <1>6. \A p \in P \ below : p # old => Now(p, old, new) = p
    BY <1>3 DEF Now
  <1> DEFINE E == {Now(p, old, new) : p \in P}
  <1>7. ASSUME NEW q \in D PROVE q \in E
    <2>1. CASE q = new
      BY <1>4, <2>1
    <2>2. CASE q # new /\ q \notin {Relocated(p, old, new) : p \in below}
      <3>1. q \in P /\ q # old /\ q \notin below
        BY <2>2
      <3> QED
        BY <1>6, <3>1
    <2>3. CASE q \in {Relocated(p, old, new) : p \in below}
      <3>1. PICK p \in below : q = Relocated(p, old, new)
        BY <2>3
      <3> QED
        BY <1>3, <1>5, <3>1
    <2> QED
      BY <2>1, <2>2, <2>3
  <1>8. ASSUME NEW p \in P PROVE Now(p, old, new) \in D /\ m[Now(p, old, new)] = map[p]
    <2>1. CASE p = old
      <3>1. new \in D
        BY <1>3
      <3>2. Relocated(new, new, old) \notin below
        <4>1. Relocated(new, new, old) = old
          BY <1>0, RelocatedSelf, Zenon
        <4> QED
          BY <1>3, <4>1
      <3> QED
        BY <1>1, <1>2, <1>4, <2>1, <3>1, <3>2
    <2>2. CASE p \in below
      <3> DEFINE q == Relocated(p, old, new)
      <3>1. p \in Seq(S) /\ IsPrefix(old, p) /\ p \in P \ {old}
        BY <1>3, <2>2
      <3>2. q \in D /\ Now(p, old, new) = q
        BY <1>5, <2>2
      <3>3. IsPrefix(new, q) /\ Relocated(q, new, old) = p
        BY <1>0, <3>1, RelocatedPath
      <3> HIDE DEF q, D
      <3> QED
        BY <1>1, <1>2, <2>2, <3>1, <3>2, <3>3
    <2>3. CASE p # old /\ p \notin below
      <3>1. Now(p, old, new) = p /\ p \in D /\ ~ IsPrefix(new, p)
        BY <1>6, <2>3
      <3> HIDE DEF D
      <3> QED
        BY <1>1, <1>2, <2>3, <3>1
    <2> QED
      BY <2>1, <2>2, <2>3
  <1> HIDE DEF D
  <1>9. D = E
    BY <1>7, <1>8
  <1> QED
    BY <1>2, <1>8, <1>9 DEF Carried, m, first, below

\* The nodes after the object o of directory a became `name` in directory b.
Hung(o, a, b, name) ==
  LET removed  == [node EXCEPT ![a].children = RemoveFirst(@, o)]
      appended == [removed EXCEPT ![b].children = Append(@, o)]
  IN  node' = [appended EXCEPT ![o].name = name]

Rehung(o, a, b) ==
  \A d \in {a, b} :
    /\ node'[d].children \in Seq(Cells) /\ IsInjective(node'[d].children)
    /\ Range(node'[d].children)
         = (Range(node[d].children) \ {o}) \cup (IF d = b THEN {o} ELSE {})

\* Taking a node from one list of children and appending it to another touches
\* those two lists and its name.
LEMMA HungIs ==
  ASSUME TypeInv, NEW o \in Cells, NEW a \in Cells, NEW b \in Cells, NEW name \in Name,
         o # a, o # b, Hung(o, a, b, name),
         IsInjective(node[a].children), IsInjective(node[b].children),
         o \in Range(node[b].children) => a = b
  PROVE  /\ node' \in Seq(NodeRec) /\ Len(node') = Len(node)
         /\ node'[o].name = name
         /\ \A d \in Cells : /\ d # o => node'[d].name = node[d].name
                             /\ d # a /\ d # b => node'[d].children = node[d].children
                             /\ node'[d].kind = node[d].kind /\ SameLock(node[d], node'[d])
                             /\ SameRoom(node[d], node'[d]) /\ SameId(node[d], node'[d])
         /\ Rehung(o, a, b)
  <1>0. /\ node \in Seq(NodeRec) /\ Cells = 1 .. Len(node) /\ Len(node) \in Nat
        /\ \A d \in Cells : node[d] \in NodeRec /\ node[d].children \in Seq(Cells)
        /\ Cells \subseteq Nat
    <2>1. Len(cell) \in Nat /\ Cells = 1 .. Len(cell) /\ \A d \in Cells : node[d] \in NodeRec
      BY TypesAre
    <2>2. /\ node \in Seq(NodeRec) /\ Len(node) = Len(cell)
          /\ \A d \in Cells : node[d].children \in Seq(Cells)
      BY DEF TablesType
    <2>3. Cells \subseteq Nat
      BY <2>1
    <2> QED
      BY <2>1, <2>2, <2>3
  <1> DEFINE sa == RemoveFirst(node[a].children, o)
             xa == [node[a] EXCEPT !.children = sa]
             removed == [node EXCEPT ![a] = xa]
             sb == Append(removed[b].children, o)
             xb == [removed[b] EXCEPT !.children = sb]
             appended == [removed EXCEPT ![b] = xb]
             xo == [appended[o] EXCEPT !.name = name]
  <1>1. node' = [appended EXCEPT ![o] = xo]
    BY <1>0 DEF Hung
  <1>2. sa \in Seq(Cells) /\ Range(sa) = Range(node[a].children) \ {o} /\ IsInjective(sa)
    BY <1>0, RemoveFirstIs
  <1>3. /\ xa \in NodeRec /\ xa.children = sa /\ xa.name = node[a].name /\ xa.kind = node[a].kind
        /\ SameLock(node[a], xa) /\ SameRoom(node[a], xa) /\ SameId(node[a], xa)
    <2>1. sa \in Seq(Nat) /\ node[a] \in NodeRec
      BY <1>0, <1>2
    <2> HIDE DEF sa
    <2> QED
      BY <2>1, SetChildren
  <1> HIDE DEF sa, xa
  <1>4. /\ removed \in Seq(NodeRec) /\ Len(removed) = Len(node) /\ removed[a] = xa
        /\ \A d \in Cells : d # a => removed[d] = node[d]
    BY <1>0, <1>3
  <1> HIDE DEF removed
  <1>5. /\ removed[b] \in NodeRec /\ removed[b].children \in Seq(Cells)
        /\ Range(removed[b].children) = Range(node[b].children) \ {o}
        /\ IsInjective(removed[b].children)
        /\ removed[b].name = node[b].name /\ removed[b].kind = node[b].kind
        /\ SameLock(node[b], removed[b]) /\ SameRoom(node[b], removed[b])
        /\ SameId(node[b], removed[b])
    <2>1. CASE a = b
      BY <1>2, <1>3, <1>4, <2>1
    <2>2. CASE a # b
      BY <1>0, <1>4, <2>2 DEF SameLock, SameRoom, SameId
    <2> QED
      BY <2>1, <2>2
  <1>6. /\ sb \in Seq(Cells) /\ IsInjective(sb)
        /\ Range(sb) = (Range(node[b].children) \ {o}) \cup {o}
    <2> DEFINE s == removed[b].children
    <2>1. s \in Seq(Cells) /\ IsInjective(s) /\ Range(s) = Range(node[b].children) \ {o}
      BY <1>5
    <2> HIDE DEF s
    <2>2. Append(s, o) \in Seq(Cells)
      BY <2>1
    <2>3. Range(Append(s, o)) = Range(s) \cup {o} /\ IsInjective(Append(s, o))
      BY <2>1, AppendRange
    <2> QED
      BY <2>1, <2>2, <2>3 DEF s
  <1>7. /\ xb \in NodeRec /\ xb.children = sb /\ xb.name = node[b].name /\ xb.kind = node[b].kind
        /\ SameLock(node[b], xb) /\ SameRoom(node[b], xb) /\ SameId(node[b], xb)
    <2> DEFINE r == removed[b]
    <2>1. sb \in Seq(Nat) /\ r \in NodeRec
      BY <1>0, <1>5, <1>6
    <2> HIDE DEF sb, r
    <2>2. LET y == [r EXCEPT !.children = sb]
          IN  /\ y \in NodeRec /\ y.children = sb /\ y.name = r.name /\ y.kind = r.kind
              /\ SameLock(r, y) /\ SameRoom(r, y) /\ SameId(r, y)
      BY <2>1, SetChildren, Zenon
    <2>3. xb = [r EXCEPT !.children = sb]
      BY DEF r
    <2> HIDE DEF xb
    <2> QED
      BY <1>5, <2>2, <2>3 DEF SameLock, SameRoom, SameId, r
  <1> HIDE DEF sb, xb
  <1>8. /\ appended \in Seq(NodeRec) /\ Len(appended) = Len(node) /\ appended[b] = xb
        /\ \A d \in Cells : d # b => appended[d] = removed[d]
    BY <1>0, <1>4, <1>7
  <1> HIDE DEF appended
  <1>9. appended[o] = node[o]
    BY <1>4, <1>8
  <1>10. /\ xo \in NodeRec /\ xo.name = name /\ xo.kind = node[o].kind
         /\ xo.children = node[o].children
         /\ SameLock(node[o], xo) /\ SameRoom(node[o], xo) /\ SameId(node[o], xo)
    <2> DEFINE r == node[o]
    <2>1. r \in NodeRec /\ name \in Name
      BY <1>0
    <2>2. xo = [r EXCEPT !.name = name]
      BY <1>9
    <2> HIDE DEF r, xo
    <2>3. LET y == [r EXCEPT !.name = name]
          IN  /\ y \in NodeRec /\ y.name = name /\ y.kind = r.kind
              /\ y.children = r.children
              /\ SameLock(r, y) /\ SameRoom(r, y) /\ SameId(r, y)
      BY <2>1, SetName, Zenon
    <2> QED
      BY <2>2, <2>3 DEF r
  <1> HIDE DEF xo
  <1>11. /\ node' \in Seq(NodeRec) /\ Len(node') = Len(node) /\ node'[o] = xo
         /\ \A d \in Cells : d # o => node'[d] = appended[d]
    BY <1>0, <1>1, <1>8, <1>10
  <1>12. ASSUME NEW d \in Cells
         PROVE  /\ d # o => node'[d].name = node[d].name
                /\ d # a /\ d # b => node'[d].children = node[d].children
                /\ node'[d].kind = node[d].kind /\ SameLock(node[d], node'[d])
                /\ SameRoom(node[d], node'[d]) /\ SameId(node[d], node'[d])
    <2>1. CASE d = o
      BY <1>10, <1>11, <2>1
    <2>2. CASE d = b
      BY <1>7, <1>8, <1>11, <2>2
    <2>3. CASE d = a /\ d # b
      BY <1>3, <1>4, <1>8, <1>11, <2>3
    <2>4. CASE d # o /\ d # a /\ d # b
      BY <1>4, <1>8, <1>11, <2>4 DEF SameLock, SameRoom, SameId
    <2> QED
      BY <2>1, <2>2, <2>3, <2>4
  <1>13. node'[b].children = sb
    BY <1>7, <1>8, <1>11
  <1>14. a # b => node'[a].children = sa
    BY <1>3, <1>4, <1>8, <1>11
  <1>15. ASSUME NEW d \in {a, b}
         PROVE  /\ node'[d].children \in Seq(Cells) /\ IsInjective(node'[d].children)
                /\ Range(node'[d].children)
                     = (Range(node[d].children) \ {o}) \cup (IF d = b THEN {o} ELSE {})
    <2>1. CASE d = b
      BY <1>6, <1>13, <2>1
    <2>2. CASE d # b
      BY <1>2, <1>14, <2>2
    <2> QED
      BY <2>1, <2>2
  <1>16. Rehung(o, a, b)
    BY <1>15 DEF Rehung
  <1> QED
    BY <1>10, <1>11, <1>12, <1>16

\* What rename does: object o, child of a, leaves the path old for new, below b.
Renamed(old, new, o, a, b) ==
  /\ old \in Paths \ {Root} /\ new \in NewPaths \ Paths
  /\ Front(old) \in Paths /\ Front(new) \in Paths
  /\ ~ IsPrefix(old, new)
  /\ o = inode_map[old] /\ a = inode_map[Front(old)] /\ b = inode_map[Front(new)]
  /\ node[a].kind = "dir" /\ node[b].kind = "dir" /\ o \in Cells /\ a \in Cells /\ b \in Cells
  /\ o # a /\ o # b
  /\ Hung(o, a, b, Last(new))
  /\ Paths' = {Now(p, old, new) : p \in Paths}
  /\ \A p \in Paths : inode_map'[Now(p, old, new)] = inode_map[p]
  /\ inode_map' = [q \in Paths' |-> inode_map'[q]]

\* What it changes besides: the memory that is used, and in pssfs it is to save
\* the table.
Around(old, new) ==
  /\ Alone(old) /\ Admitted(new) /\ fault' = fault /\ total' \in Nat /\ total <= total'
  /\ UNCHANGED <<program, cell, entry_map, numbers, image, ghosts>>
  /\ \/ program # "pssfs" /\ UNCHANGED thread
     \/ program = "pssfs" /\ \E t \in Threads : Enters(t, "save", new, old)

\* The memory is used up and the process ends.
Cut ==
  /\ fault' = "segv" /\ Call /\ Causes'
  /\ UNCHANGED <<program, tables, numbers, total, image, thread, ghosts>>

\* What rename does, whole: one node hung elsewhere and one subtree of paths
\* carried along, unless the process ends.
LEMMA RenameIs ==
  ASSUME IInv, Rename
  PROVE  \/ Cut
         \/ \E old, new \in Seq(Name), o, a, b \in Cells :
              Renamed(old, new, o, a, b) /\ Around(old, new)
  <1>1. PICK old \in Paths \ {Root}, new \in NewPaths \ Paths :
          /\ program \in {"memoryfs", "pssfs"}
          /\ IsDir(Front(new)) /\ ~ IsPrefix(old, new)
          /\ Alone(old) /\ Admitted(new)
          /\ LET o    == Entry(old)
                 ref  == IF program = "pssfs" THEN inode_map[old] ELSE o
                 keys == KeySize * (1 + Cardinality(Below(Rebound(inode_map, old, new), o, old)))
                 removed  == [node EXCEPT ![Entry(Front(old))].children = RemoveFirst(@, ref)]
                 appended == [removed EXCEPT ![Entry(Front(new))].children = Append(@, ref)]
             IN  \/ /\ NoMemory(keys)
                    /\ fault' = "segv"
                    /\ UNCHANGED <<node, inode_map, total, thread>>
                 \/ /\ ~ NoMemory(keys)
                    /\ node' = [appended EXCEPT ![o].name = Last(new)]
                    /\ inode_map' = RenameSubdirs(Rebound(inode_map, old, new), o, old, new)
                    /\ total' = total + keys
                    /\ \/ program = "memoryfs" /\ UNCHANGED thread
                       \/ program = "pssfs" /\ \E t \in Threads : Enters(t, "save", new, old)
                    /\ UNCHANGED fault
          /\ UNCHANGED <<program, cell, entry_map, numbers, image, ghosts>>
    BY ZenonT(30) DEF Rename
  <1>0. /\ TypeInv /\ NumberInv /\ InjectiveInv /\ TreeInv /\ RoomInv
        /\ fault = "none" /\ "number" \notin lost /\ ~ exchanged
    BY <1>1 DEF IInv, MapsInv, Alone, Call
  <1>2. \A q \in Paths : Above(q) /\ Beneath(q)
    BY <1>0 DEF TreeInv
  <1> DEFINE f == Front(old)
             g == Front(new)
             o == inode_map[old]
             a == inode_map[f]
             b == inode_map[g]
  <1>3. f \in Paths /\ node[a].kind = "dir"
    BY <1>1, <1>2 DEF Above
  <1>4. /\ Entry(old) = o /\ o \in Cells /\ old \in Paths /\ old # Root
        /\ Entry(f) = a /\ a \in Cells
        /\ Entry(g) = b /\ b \in Cells /\ g \in Paths /\ node[b].kind = "dir"
    BY <1>0, <1>1, <1>3, EntryIs DEF IsDir
  <1>5. old \in Seq(Name) /\ new \in Seq(Name) /\ new # <<>> /\ new \notin Paths
        /\ f \in Seq(Name) /\ g \in Seq(Name)
    BY <1>0, <1>1, <1>3, <1>4, PathIs, NewPathIs
  <1>6. o # a
    <2>1. f # old
      <3>1. Len(old) \in Nat /\ Len(f) = Len(old) - 1
        BY <1>4, <1>5, FrontLast
      <3> QED
        BY <3>1
    <2> QED
      BY <1>0, <1>3, <1>4, <2>1 DEF InjectiveInv
  <1>7. o # b
    <2>1. g # old
      <3>1. IsPrefix(old, new) <=> old = new \/ IsPrefix(old, g)
        BY <1>5, PrefixFront, Zenon
      <3>2. IsPrefix(old, old)
        BY <1>5, PrefixOrder, Zenon
      <3> QED
        BY <1>1, <3>1, <3>2
    <2> QED
      BY <1>0, <1>4, <2>1 DEF InjectiveInv
  <1> DEFINE map == Rebound(inode_map, old, new)
             below == {p \in Paths : IsStrictPrefix(old, p)}
  <1>9. Below(map, o, old) = below
    <2>1. DOMAIN map = (Paths \ {old}) \cup {new}
      BY DEF Rebound
    <2>2. ASSUME NEW p \in below PROVE p \in DOMAIN map /\ Leads(o, Rest(p, old))
      <3>1. p \in Paths /\ p # old /\ IsPrefix(old, p)
        BY DEF IsStrictPrefix
      <3>2. Leads(o, Rest(p, old))
        BY <1>0, <1>2, <1>4, <3>1, LeadsThere
      <3> QED
        BY <2>1, <3>1, <3>2
    <2>3. ASSUME NEW p \in DOMAIN map, IsStrictPrefix(old, p) PROVE p \in below
      BY <1>1, <2>1, <2>3 DEF IsStrictPrefix
    <2> HIDE DEF map, below
    <2>4. \A p \in below : IsStrictPrefix(old, p)
      BY DEF below
    <2> QED
      BY <2>2, <2>3, <2>4 DEF Below
  <1> DEFINE keys == KeySize * (1 + Cardinality(Below(Rebound(inode_map, old, new), Entry(old), old)))
             most == KeySize * Cardinality(Paths)
  <1>a. keys \in Nat /\ most \in Nat /\ keys <= most
    <2> DEFINE k == Cardinality(below)
               n == Cardinality(Paths)
    <2>1. IsFiniteSet(Paths) /\ n \in Nat /\ old \in Paths
      BY <1>0, <1>4, FS_CardinalityType DEF TablesType
    <2>2. below \subseteq Paths \ {old}
      BY DEF IsStrictPrefix
    <2>3. IsFiniteSet(Paths \ {old}) /\ Cardinality(Paths \ {old}) = n - 1
      <3>1. Cardinality(Paths \ {old}) = IF old \in Paths THEN n - 1 ELSE n
        BY <2>1, FS_RemoveElement, Zenon
      <3>2. IsFiniteSet(Paths \ {old})
        BY <2>1, FS_RemoveElement, Zenon
      <3> QED
        BY <2>1, <3>1, <3>2
    <2>4. k \in Nat /\ k <= n - 1
      <3>1. IsFiniteSet(below) /\ Cardinality(below) <= Cardinality(Paths \ {old})
        BY <2>2, <2>3, FS_Subset, Zenon
      <3>2. Cardinality(below) \in Nat
        BY <3>1, FS_CardinalityType, Zenon
      <3> QED
        BY <2>3, <3>1, <3>2
    <2>5. keys = KeySize * (1 + k) /\ most = KeySize * n
      BY <1>4, <1>9
    <2> HIDE DEF k, n, keys, most, below, map, o
    <2>6. KeySize \in Nat
      BY BoundsAssumption
    <2>7. \A x, y, z \in Nat : x <= y => z * x <= z * y /\ z * x \in Nat /\ z * y \in Nat
      OBVIOUS
    <2>8. 1 + k \in Nat /\ 1 + k <= n
      BY <2>1, <2>4
    <2> QED
      BY <2>1, <2>5, <2>6, <2>7, <2>8
  <1>b. ASSUME NoMemory(keys), fault' = "segv", UNCHANGED <<node, inode_map, total, thread>>
        PROVE  Cut
    <2>1. NoMemory(most)' /\ most' = KeySize * Cardinality(Paths')
      <3>1. program # "dummyfs" /\ total + keys > Budget /\ total \in Nat /\ Budget \in Nat
        BY <1>0, <1>b, BoundsAssumption DEF NoMemory, RoomInv
      <3>2. total + most > Budget
        <4> HIDE DEF keys, most
        <4> QED
          BY <1>a, <3>1
      <3>3. UNCHANGED <<program, total, inode_map>>
        BY <1>1, <1>b
      <3> QED
        BY <3>1, <3>2, <3>3 DEF NoMemory
    <2>2. Causes'
      BY <1>b, <2>1 DEF Causes
    <2>3. UNCHANGED <<program, tables, numbers, total, image, thread, ghosts>> /\ Call
      BY <1>1, <1>b DEF tables, Alone
    <2> QED
      BY <1>b, <2>2, <2>3 DEF Cut
  <1>c. ASSUME node' = [[[node EXCEPT ![a].children = RemoveFirst(@, o)]
                           EXCEPT ![b].children = Append(@, o)] EXCEPT ![o].name = Last(new)],
               inode_map' = RenameSubdirs(Rebound(inode_map, old, new), o, old, new),
               total' = total + keys, fault' = fault,
               \/ program # "pssfs" /\ UNCHANGED thread
               \/ program = "pssfs" /\ \E t \in Threads : Enters(t, "save", new, old)
        PROVE  Renamed(old, new, o, a, b) /\ Around(old, new)
    <2> HIDE DEF keys
    <2>1. Hung(o, a, b, Last(new))
      BY <1>c DEF Hung
    <2>10. inode_map' = Moved(map, below, old, new)
      BY <1>9, <1>c DEF RenameSubdirs
    <2>11. /\ Paths' = {Now(p, old, new) : p \in Paths}
           /\ \A p \in Paths : inode_map'[Now(p, old, new)] = inode_map[p]
           /\ inode_map' = [q \in Paths' |-> inode_map'[q]]
      <3>1. \A p \in Paths : ~ IsPrefix(new, p)
        BY <1>0, <1>2, <1>5, NothingBelow
      <3>2. Paths \subseteq Seq(Name)
        BY <1>0 DEF TablesType
      <3> HIDE DEF below
      <3>3. below = {p \in Paths : IsStrictPrefix(old, p)}
        BY DEF below
      <3>4. below = AllBelow(inode_map, old)
        BY <3>3, Zenon DEF AllBelow
      <3> DEFINE m == Moved(Rebound(inode_map, old, new), AllBelow(inode_map, old), old, new)
      <3>5. Carried(m, inode_map, old, new)
        BY <1>1, <1>4, <1>5, <3>1, <3>2, MovedIs
      <3>6. inode_map' = m
        BY <2>10, <3>4, Zenon
      <3> HIDE DEF m
      <3> QED
        BY <3>5, <3>6, Zenon DEF Carried
    <2>12. Renamed(old, new, o, a, b)
      <3> HIDE DEF o, a, b, f, g
      <3> QED
        BY <1>1, <1>3, <1>4, <1>6, <1>7, <2>1, <2>11 DEF Renamed, o, a, b, f, g
    <2>13. Around(old, new)
      <3>1. total' \in Nat /\ total <= total'
        BY <1>0, <1>a, <1>c DEF RoomInv
      <3> QED
        BY <1>1, <1>c, <3>1 DEF Around
    <2> QED
      BY <2>12, <2>13
  <1>d. \/ NoMemory(keys) /\ fault' = "segv" /\ UNCHANGED <<node, inode_map, total, thread>>
        \/ /\ node' = [[[node EXCEPT ![a].children = RemoveFirst(@, o)]
                           EXCEPT ![b].children = Append(@, o)] EXCEPT ![o].name = Last(new)]
           /\ inode_map' = RenameSubdirs(Rebound(inode_map, old, new), o, old, new)
           /\ total' = total + keys /\ fault' = fault
           /\ \/ program # "pssfs" /\ UNCHANGED thread
              \/ program = "pssfs" /\ \E t \in Threads : Enters(t, "save", new, old)
    BY <1>1, <1>4
  <1> HIDE DEF o, a, b, keys
  <1> QED
    BY <1>4, <1>5, <1>b, <1>c, <1>d


\* Where everything is after the call.
LEMMA RenamedPaths ==
  ASSUME IInv, NEW old \in Seq(Name), NEW new \in Seq(Name),
         NEW o \in Cells, NEW a \in Cells, NEW b \in Cells, Renamed(old, new, o, a, b),
         TreeInv, "number" \notin lost, ~ exchanged
  PROVE  /\ \A p \in Paths : /\ Now(p, old, new) \in Seq(Name) /\ Now(p, old, new) \in Paths'
                             /\ inode_map'[Now(p, old, new)] = inode_map[p]
                             /\ ~ IsPrefix(old, p) => Now(p, old, new) = p
                             /\ ~ IsPrefix(new, p)
         /\ \A p, q \in Paths : Now(p, old, new) = Now(q, old, new) => p = q
         /\ \A q \in Paths' : \E p \in Paths : q = Now(p, old, new)
         /\ Now(old, old, new) = new /\ Now(Root, old, new) = Root
         /\ IsFiniteSet(Paths') /\ Cardinality(Paths') = Cardinality(Paths)
  <1>0. /\ TypeInv /\ \A p \in Paths : Above(p)
        /\ old \in Paths /\ old # Root /\ new \notin Paths /\ new # <<>>
        /\ Paths \subseteq Seq(Name) /\ IsFiniteSet(Paths)
    BY NewPathIs DEF IInv, MapsInv, TreeInv, Renamed, TablesType
  <1>1. /\ Paths' = {Now(p, old, new) : p \in Paths}
        /\ \A p \in Paths : inode_map'[Now(p, old, new)] = inode_map[p]
    BY DEF Renamed
  <1>2. \A p \in Paths : ~ IsPrefix(new, p)
    BY <1>0, NothingBelow
  <1>3. \A p \in Paths : Now(p, old, new) \in Seq(Name) /\ Now(Now(p, old, new), new, old) = p
    <2> TAKE p \in Paths
    <2>1. p \in Seq(Name) /\ ~ IsPrefix(new, p)
      BY <1>0, <1>2
    <2> QED
      BY <2>1, NowBack
  <1>4. Now(old, old, new) = new
    <2>1. IsPrefix(old, old) /\ Relocated(old, old, new) = new
      BY PrefixOrder, RelocatedSelf
    <2> QED
      BY <2>1 DEF Now
  <1>5. Now(Root, old, new) = Root
    <2>1. ~ IsPrefix(old, <<>>)
      <3>1. Len(old) > 0
        BY <1>0
      <3> QED
        BY <3>1 DEF IsPrefix
    <2> QED
      BY <2>1 DEF Now
  <1>6. \A p \in Paths : ~ IsPrefix(old, p) => Now(p, old, new) = p
    BY DEF Now
  <1>7. \A p, q \in Paths : Now(p, old, new) = Now(q, old, new) => p = q
    BY <1>3, Zenon
  <1>8. IsFiniteSet(Paths') /\ Cardinality(Paths') = Cardinality(Paths)
    <2> DEFINE P == Paths
               Q == Paths'
               g == [p \in P |-> Now(p, old, new)]
    <2>1. g \in Bijection(P, Q)
      <3>1. g \in [P -> Q] /\ (\A p, q \in P : g[p] = g[q] => p = q)
            /\ \A q \in Q : \E p \in P : g[p] = q
        BY <1>1, <1>7
      <3> HIDE DEF g, P, Q
      <3> QED
        BY <3>1, Fun_IsBij
    <2> HIDE DEF g, P, Q
    <2>2. ExistsBijection(P, Q) /\ IsFiniteSet(P)
      BY <1>0, <2>1 DEF ExistsBijection, P
    <2>3. IsFiniteSet(Q) /\ Cardinality(Q) = Cardinality(P)
      BY <2>2, FS_Bijection
    <2> QED
      BY <2>3 DEF P, Q
  <1>9. \A p \in Paths : Now(p, old, new) \in Paths'
    BY <1>1
  <1>10. \A q \in Paths' : \E p \in Paths : q = Now(p, old, new)
    BY <1>1
  <1> QED
    BY <1>1, <1>2, <1>3, <1>4, <1>5, <1>6, <1>7, <1>8, <1>9, <1>10

\* The tree after the call.
LEMMA RenamedTree ==
  ASSUME IInv, NEW old \in Seq(Name), NEW new \in Seq(Name),
         NEW o \in Cells, NEW a \in Cells, NEW b \in Cells, Renamed(old, new, o, a, b),
         TreeInv, "number" \notin lost, ~ exchanged
  PROVE  /\ node' \in Seq(NodeRec) /\ Len(node') = Len(node)
         /\ \A d \in Cells : /\ node'[d].kind = node[d].kind /\ SameLock(node[d], node'[d])
                             /\ SameRoom(node[d], node'[d]) /\ SameId(node[d], node'[d])
                             /\ node'[d].children \in Seq(Cells)
                             /\ node'[d].kind = "file" => node'[d].children = <<>>
         /\ TreeInv'
  <1>0. /\ TypeInv /\ InjectiveInv
        /\ \A p \in Paths : Above(p) /\ Beneath(p)
    BY DEF IInv, MapsInv, TreeInv
  <1>1. /\ old \in Paths /\ old # Root /\ new \notin Paths /\ new # <<>> /\ new \in NewPaths
        /\ Front(old) \in Paths /\ Front(new) \in Paths /\ ~ IsPrefix(old, new)
        /\ o = inode_map[old] /\ a = inode_map[Front(old)] /\ b = inode_map[Front(new)]
        /\ node[a].kind = "dir" /\ node[b].kind = "dir" /\ o # a /\ o # b
        /\ Hung(o, a, b, Last(new))
    BY NewPathIs DEF Renamed
  <1>2. /\ \A p \in Paths : /\ Now(p, old, new) \in Seq(Name) /\ Now(p, old, new) \in Paths'
                            /\ inode_map'[Now(p, old, new)] = inode_map[p]
                            /\ ~ IsPrefix(old, p) => Now(p, old, new) = p
        /\ \A q \in Paths' : \E p \in Paths : q = Now(p, old, new)
        /\ Now(old, old, new) = new /\ Now(Root, old, new) = Root
    <2>1. /\ \A p \in Paths : /\ Now(p, old, new) \in Seq(Name) /\ Now(p, old, new) \in Paths'
                              /\ inode_map'[Now(p, old, new)] = inode_map[p]
                              /\ ~ IsPrefix(old, p) => Now(p, old, new) = p
                              /\ ~ IsPrefix(new, p)
          /\ \A p, q \in Paths : Now(p, old, new) = Now(q, old, new) => p = q
          /\ \A q \in Paths' : \E p \in Paths : q = Now(p, old, new)
          /\ Now(old, old, new) = new /\ Now(Root, old, new) = Root
          /\ IsFiniteSet(Paths') /\ Cardinality(Paths') = Cardinality(Paths)
      BY RenamedPaths
    <2> QED
      BY <2>1, Zenon
  <1>3. \A d \in Cells : /\ node[d] \in NodeRec /\ node[d].children \in Seq(Cells)
                         /\ node[d].name \in Name
                         /\ node[d].kind = "file" => node[d].children = <<>>
    <2>1. \A d \in Cells : node[d] \in NodeRec
      BY <1>0, TypesAre
    <2>2. \A d \in Cells : node[d].children \in Seq(Cells)
                           /\ (node[d].kind = "file" => node[d].children = <<>>)
      BY <1>0 DEF TablesType
    <2> QED
      BY <2>1, <2>2 DEF NodeRec
  <1>4. \A p \in Paths : p \in Seq(Name) /\ inode_map[p] \in Cells
    BY <1>0, PathIs
  \* The object is the child of one directory only.
  <1>5. ASSUME NEW p \in Paths, o \in Range(node[inode_map[p]].children)
        PROVE  inode_map[p] = a
    <2>1. Append(p, node[o].name) \in Paths /\ inode_map[Append(p, node[o].name)] = o
      BY <1>0, <1>5 DEF Beneath
    <2>2. Append(p, node[o].name) = old
      BY <1>0, <1>1, <2>1 DEF InjectiveInv
    <2>3. p \in Seq(Name) /\ node[o].name \in Name
      BY <1>3, <1>4
    <2>4. Front(old) = p
      BY <2>2, <2>3, AppendPath, Zenon
    <2> QED
      BY <1>1, <2>4
  <1>6. /\ node' \in Seq(NodeRec) /\ Len(node') = Len(node)
        /\ node'[o].name = Last(new)
        /\ \A d \in Cells : /\ d # o => node'[d].name = node[d].name
                            /\ d # a /\ d # b => node'[d].children = node[d].children
                            /\ node'[d].kind = node[d].kind /\ SameLock(node[d], node'[d])
                            /\ SameRoom(node[d], node'[d]) /\ SameId(node[d], node'[d])
        /\ \A d \in {a, b} :
             /\ node'[d].children \in Seq(Cells) /\ IsInjective(node'[d].children)
             /\ Range(node'[d].children)
                  = (Range(node[d].children) \ {o}) \cup (IF d = b THEN {o} ELSE {})
    <2>1. IsInjective(node[a].children) /\ IsInjective(node[b].children)
      BY <1>0, <1>1 DEF Beneath
    <2>2. o \in Range(node[b].children) => a = b
      BY <1>1, <1>5
    <2>3. Last(new) \in Name
      BY <1>1, NewPathIs
    <2> DEFINE name == Last(new)
    <2>4. name \in Name /\ Hung(o, a, b, name)
      BY <1>1, <2>3
    <2> HIDE DEF name
    <2>5. node'[o].name = name
      BY <1>0, <1>1, <2>1, <2>2, <2>4, HungIs
    <2>6. node' \in Seq(NodeRec) /\ Len(node') = Len(node)
      BY <1>0, <1>1, <2>1, <2>2, <2>4, HungIs
    <2>7. \A d \in Cells : /\ d # o => node'[d].name = node[d].name
                           /\ d # a /\ d # b => node'[d].children = node[d].children
                           /\ node'[d].kind = node[d].kind /\ SameLock(node[d], node'[d])
                           /\ SameRoom(node[d], node'[d]) /\ SameId(node[d], node'[d])
      BY <1>0, <1>1, <2>1, <2>2, <2>4, HungIs
    <2>8. \A d \in {a, b} :
            /\ node'[d].children \in Seq(Cells) /\ IsInjective(node'[d].children)
            /\ Range(node'[d].children)
                 = (Range(node[d].children) \ {o}) \cup (IF d = b THEN {o} ELSE {})
      <3>1. Rehung(o, a, b)
        BY <1>0, <1>1, <2>1, <2>2, <2>4, HungIs
      <3> QED
        BY <3>1 DEF Rehung
    <2> QED
      BY <2>5, <2>6, <2>7, <2>8 DEF name
  <1>7. \A d \in Cells : node'[d].children \in Seq(Cells)
                         /\ (node'[d].kind = "file" => node'[d].children = <<>>)
    <2> TAKE d \in Cells
    <2>1. CASE d \in {a, b}
      BY <1>1, <1>6, <2>1
    <2>2. CASE d \notin {a, b}
      BY <1>3, <1>6, <2>2
    <2> QED
      BY <2>1, <2>2
  \* The children of what is at a path, other than the object.
  <1>8. ASSUME NEW p \in Paths
        PROVE  LET d == inode_map[p]
               IN  /\ IsInjective(node'[d].children)
                   /\ Range(node'[d].children)
                        = (Range(node[d].children) \ {o}) \cup (IF d = b THEN {o} ELSE {})
    <2> DEFINE d == inode_map[p]
    <2>1. d \in Cells /\ IsInjective(node[d].children)
          /\ (o \in Range(node[d].children) => d = a)
      BY <1>0, <1>4, <1>5 DEF Beneath
    <2> HIDE DEF d
    <2>2. /\ IsInjective(node'[d].children)
          /\ Range(node'[d].children)
               = (Range(node[d].children) \ {o}) \cup (IF d = b THEN {o} ELSE {})
      <3>1. CASE d \in {a, b}
        BY <1>6, <3>1
      <3>2. CASE d \notin {a, b}
        <4>1. node'[d].children = node[d].children /\ o \notin Range(node[d].children)
          BY <1>6, <2>1, <3>2
        <4> QED
          BY <2>1, <3>2, <4>1
      <3> QED
        BY <3>1, <3>2
    <2> QED
      BY <2>2 DEF d
  <1>9. \A p \in Paths : inode_map[p] = o => p = old
    BY <1>0, <1>1 DEF InjectiveInv
  <1>10. Now(Front(new), old, new) = Front(new)
    <2>1. ~ IsPrefix(old, Front(new))
      <3>1. IsPrefix(old, new) <=> old = new \/ IsPrefix(old, Front(new))
        BY <1>1, PrefixFront, Zenon
      <3> QED
        BY <1>1, <3>1
    <2> QED
      BY <1>1, <1>2, <2>1
  <1>11. ASSUME NEW p \in Paths PROVE Above(Now(p, old, new))'
    <2> DEFINE q == Now(p, old, new)
               d == inode_map[p]
    <2>1. q \in Paths' /\ inode_map'[q] = d /\ d \in Cells
      BY <1>2, <1>4
    <2>2. CASE p = Root
      <3>1. q = Root
        BY <1>2, <2>2
      <3>2. node[d].kind = "dir"
        BY <1>0, <2>2 DEF Above
      <3> HIDE DEF q, d
      <3>3. node'[d].kind = "dir"
        BY <1>6, <2>1, <3>2
      <3> QED
        BY <2>1, <3>1, <3>3 DEF Above, q
    <2>3. CASE p = old
      <3> DEFINE g == Front(new)
      <3>1. q = new /\ d = o /\ new # <<>>
        BY <1>1, <1>2, <2>3
      <3>2. g \in Paths' /\ inode_map'[g] = b
        BY <1>1, <1>2, <1>10
      <3>3. node'[b].kind = "dir" /\ o \in Range(node'[b].children) /\ node'[o].name = Last(new)
        BY <1>1, <1>6
      <3> HIDE DEF q, d, g
      <3> QED
        BY <2>1, <3>1, <3>2, <3>3 DEF Above, q, g
    <2>4. CASE p # Root /\ p # old
      <3> DEFINE f == Front(p)
                 e == inode_map[f]
                 g == Now(f, old, new)
      <3>1. /\ f \in Paths /\ node[e].kind = "dir" /\ d \in Range(node[e].children)
            /\ node[d].name = Last(p) /\ e \in Cells
        BY <1>0, <1>4, <2>4 DEF Above
      <3>2. q # <<>> /\ Front(q) = g /\ Last(q) = Last(p)
        BY <1>4, <2>4, NowFront
      <3>3. g \in Paths' /\ inode_map'[g] = e
        BY <1>2, <3>1
      <3>4. d # o
        BY <1>9, <2>4
      <3>5. node'[d].name = Last(p) /\ node'[e].kind = "dir"
        BY <1>6, <2>1, <3>1, <3>4
      <3>6. d \in Range(node'[e].children)
        BY <1>8, <3>1, <3>4
      <3> HIDE DEF q, d, f, e, g
      <3> QED
        BY <2>1, <3>2, <3>3, <3>5, <3>6 DEF Above, q
    <2> QED
      BY <2>2, <2>3, <2>4
  <1>12. ASSUME NEW p \in Paths PROVE Beneath(Now(p, old, new))'
    <2> DEFINE q == Now(p, old, new)
               d == inode_map[p]
    <2>1. q \in Paths' /\ inode_map'[q] = d /\ d \in Cells
      BY <1>2, <1>4
    <2>2. /\ IsInjective(node'[d].children)
          /\ Range(node'[d].children)
               = (Range(node[d].children) \ {o}) \cup (IF d = b THEN {o} ELSE {})
      BY <1>8
    <2>3. ASSUME NEW c \in Range(node'[d].children)
          PROVE  /\ Append(q, node'[c].name) \in Paths'
                 /\ inode_map'[Append(q, node'[c].name)] = c
      <3>1. CASE c = o
        <4>1. d = b
          BY <2>2, <2>3, <3>1
        <4>2. p = Front(new)
          BY <1>0, <1>1, <4>1 DEF InjectiveInv
        <4>3. q = Front(new)
          BY <1>10, <4>2
        <4>4. Append(q, node'[c].name) = new
          BY <1>1, <1>6, <3>1, <4>3, NewPathIs
        <4>5. new \in Paths' /\ inode_map'[new] = o
          BY <1>1, <1>2
        <4> QED
          BY <3>1, <4>4, <4>5
      <3>2. CASE c # o
        <4> DEFINE n == node[c].name
        <4>1. c \in Range(node[d].children) /\ node[d].children \in Seq(Cells)
          BY <1>3, <2>1, <2>2, <2>3, <3>2
        <4>2. c \in Cells
          BY <4>1 DEF Range
        <4>3. Append(p, n) \in Paths /\ inode_map[Append(p, n)] = c
          BY <1>0, <4>1 DEF Beneath
        <4>4. Append(p, n) # old
          BY <1>1, <3>2, <4>3
        <4>5. p \in Seq(Name) /\ n \in Name
          BY <1>3, <1>4, <4>2
        <4>6. node'[c].name = n
          BY <1>6, <3>2, <4>2
        <4> HIDE DEF n
        <4>7. Now(Append(p, n), old, new) = Append(q, n)
          BY <4>4, <4>5, NowNext
        <4> HIDE DEF q
        <4> QED
          BY <1>2, <4>3, <4>6, <4>7
      <3> QED
        BY <3>1, <3>2
    <2> HIDE DEF q, d
    <2> QED
      BY <2>1, <2>2, <2>3 DEF Beneath, q
  <1>13. TreeInv'
    <2> SUFFICES ASSUME NEW q \in Paths' PROVE Above(q)' /\ Beneath(q)'
      BY DEF TreeInv
    <2>1. PICK p \in Paths : q = Now(p, old, new)
      BY <1>2
    <2> QED
      BY <1>11, <1>12, <2>1
  <1> QED
    BY <1>6, <1>7, <1>13


\* rename preserves the invariant.
LEMMA RenameKeeps ==
  ASSUME IInv, Rename
  PROVE  IInv'
  <1>a. CASE Cut
    <2>1. calls' \in 0 .. MaxCalls
      BY <1>a, BoundsAssumption DEF IInv, MapsInv, Cut, Call, CallType
    <2>2. /\ fault' \in {"exit", "overrun", "segv"} /\ Causes'
          /\ UNCHANGED <<program, tables, numbers, total, image, thread, ghosts>>
      BY <1>a DEF Cut
    <2> QED
      BY <2>1, <2>2, FaultOnly
  <1>b. SUFFICES ASSUME NEW old \in Seq(Name), NEW new \in Seq(Name),
                        NEW o \in Cells, NEW a \in Cells, NEW b \in Cells,
                        Renamed(old, new, o, a, b), Around(old, new)
                 PROVE  IInv'
    BY <1>a, RenameIs
  <1>1. Renamed(old, new, o, a, b) /\ Alone(old) /\ Admitted(new)
    BY <1>b DEF Around
  <1>2. /\ UNCHANGED <<program, cell, entry_map, cur_inode, inode_count, meta, image>>
        /\ UNCHANGED <<fault, lost, exchanged>> /\ total' \in Nat /\ total <= total'
    BY <1>b DEF Around, numbers, ghosts
  <1>0. /\ TypeInv /\ OwnerInv /\ InjectiveInv /\ TreeInv /\ ThreadInv /\ Call
        /\ fault = "none" /\ "number" \notin lost /\ ~ exchanged
    BY <1>1 DEF IInv, MapsInv, Alone, Call
  <1>3. /\ \A p \in Paths : /\ Now(p, old, new) \in Seq(Name) /\ Now(p, old, new) \in Paths'
                            /\ inode_map'[Now(p, old, new)] = inode_map[p]
                            /\ ~ IsPrefix(old, p) => Now(p, old, new) = p
                            /\ ~ IsPrefix(new, p)
        /\ \A p, q \in Paths : Now(p, old, new) = Now(q, old, new) => p = q
        /\ \A q \in Paths' : \E p \in Paths : q = Now(p, old, new)
        /\ Now(old, old, new) = new /\ Now(Root, old, new) = Root
        /\ IsFiniteSet(Paths') /\ Cardinality(Paths') = Cardinality(Paths)
    BY <1>0, <1>1, RenamedPaths
  <1>4. /\ node' \in Seq(NodeRec) /\ Len(node') = Len(node)
        /\ \A d \in Cells : /\ node'[d].kind = node[d].kind /\ SameLock(node[d], node'[d])
                            /\ SameRoom(node[d], node'[d]) /\ SameId(node[d], node'[d])
                            /\ node'[d].children \in Seq(Cells)
                            /\ node'[d].kind = "file" => node'[d].children = <<>>
        /\ TreeInv'
    BY <1>0, <1>1, RenamedTree
  <1>5. TablesType'
    <2>1. Paths' \subseteq Seq(Name) /\ Root \in Paths'
      BY <1>0, <1>3 DEF TablesType
    <2>2. \A q \in Paths' : inode_map'[q] \in Cells
      BY <1>0, <1>3, PathIs
    <2>3. inode_map' = [q \in Paths' |-> inode_map'[q]]
      BY <1>1 DEF Renamed
    <2>4. inode_map' \in [Paths' -> Cells]
      BY <2>2, <2>3
    <2>5. \A d \in Cells : node'[d].children \in Seq(Cells)
                           /\ (node'[d].kind = "file" => node'[d].children = <<>>)
      BY <1>4
    <2> QED
      BY <1>0, <1>2, <1>3, <1>4, <2>1, <2>4, <2>5 DEF TablesType
  <1>6. Quiet
    <2>1. ASSUME NEW t \in Threads, pc[t] \in Locking
          PROVE  /\ path[t] \notin Paths' /\ Owner(t) \in Paths'
                 /\ inode_map'[Owner(t)] = inode_map[Owner(t)]
                 /\ node'[inode_map[Owner(t)]].kind = "dir"
      <3>1. /\ path[t] \notin Paths /\ Owner(t) \in Paths
            /\ node[inode_map[Owner(t)]].kind = "dir"
        BY <1>0, <2>1 DEF OwnerInv
      <3>2. /\ ~ IsPrefix(old, Owner(t)) /\ ~ IsPrefix(old, path[t]) /\ ~ IsPrefix(new, path[t])
        BY <1>0, <1>1, <2>1, NotBelow DEF Locking, Alone
      <3>3. Owner(t) \in Paths' /\ inode_map'[Owner(t)] = inode_map[Owner(t)]
        BY <1>3, <3>1, <3>2
      <3>4. node'[inode_map[Owner(t)]].kind = "dir"
        BY <1>0, <1>4, <3>1, PathIs
      <3>5. path[t] \notin Paths'
        <4> SUFFICES ASSUME path[t] \in Paths' PROVE FALSE
          OBVIOUS
        <4>1. PICK p \in Paths : path[t] = Now(p, old, new)
          BY <1>3
        <4>2. CASE IsPrefix(old, p)
          <5>1. p \in Seq(Name)
            BY <1>0, PathIs
          <5>2. IsPrefix(new, Relocated(p, old, new))
            BY <4>2, <5>1, RelocatedPath
          <5> QED
            BY <3>2, <4>1, <4>2, <5>2 DEF Now
        <4>3. CASE ~ IsPrefix(old, p)
          BY <1>3, <3>1, <4>1, <4>3
        <4> QED
          BY <4>2, <4>3
      <3> QED
        BY <3>3, <3>4, <3>5
    <2>2. \A d \in Cells : node'[d].busy => node'[d].denied \/ (node[d].busy /\ ~ node[d].denied)
      BY <1>4 DEF SameLock
    <2>3. CASE program # "pssfs" /\ UNCHANGED thread
      <3>1. /\ ThreadType' /\ UNCHANGED <<kind, counter, read, got, walked>>
            /\ \A u \in Threads : Stays(u) /\ ~ Arrives(u)
        BY <1>0, <2>3, ThreadsStay
      <3> QED
        BY <1>0, <1>2, <1>5, <2>1, <2>2, <2>3, <3>1 DEF Quiet, CallType
    <2>4. ASSUME program = "pssfs", NEW w \in Threads, Enters(w, "save", new, old)
          PROVE  Quiet
      <3>1. /\ ThreadType' /\ UNCHANGED <<kind, counter, read, got, walked>>
            /\ pc[w] = "idle" /\ pc'[w] = "save" /\ path'[w] = new
            /\ \A u \in Threads \ {w} : Stays(u) /\ ~ Arrives(u)
        <4>1. "save" \in {"dec", "save"} /\ ThreadType
          BY <1>0
        <4> QED
          BY <2>4, <4>1, ThreadArrives
      <3>2. new # <<>>
        BY <1>1, NewPathIs DEF Renamed
      <3>3. Arrives(w)
        BY <2>4, <3>1, <3>2 DEF Arrives
      <3>4. /\ \A u \in Threads : Stays(u) \/ Arrives(u)
            /\ \A u, v \in Threads : Arrives(u) /\ Arrives(v) => u = v
        BY <3>1, <3>3
      <3> QED
        BY <1>0, <1>2, <1>5, <2>1, <2>2, <3>1, <3>3, <3>4 DEF Quiet, CallType
    <2> QED
      BY <1>b, <2>3, <2>4 DEF Around
  <1>7. InjectiveInv'
    <2> SUFFICES ASSUME NEW x \in Paths', NEW y \in Paths', inode_map'[x] = inode_map'[y]
                 PROVE  x = y
      BY DEF InjectiveInv
    <2>1. PICK p \in Paths : x = Now(p, old, new)
      BY <1>3
    <2>2. PICK q \in Paths : y = Now(q, old, new)
      BY <1>3
    <2>3. inode_map[p] = inode_map[q]
      BY <1>3, <2>1, <2>2
    <2> QED
      BY <1>0, <2>1, <2>2, <2>3 DEF InjectiveInv
  <1>8. CountKept
    <2>1. CASE UNCHANGED thread
      BY <1>0, <1>3, <2>1, ThreadsStay DEF CountKept
    <2>2. ASSUME NEW w \in Threads, Enters(w, "save", new, old) PROVE CountKept
      <3>1. "save" \in {"dec", "save"} /\ ThreadType
        BY <1>0
      <3>2. Uncounted' = IF "save" = "dec" THEN Uncounted \cup {w} ELSE Uncounted
        BY <2>2, <3>1, ThreadArrives
      <3>3. Uncounted' = Uncounted
        BY <3>2
      <3> QED
        BY <1>3, <3>3 DEF CountKept
    <2> QED
      BY <1>b, <2>1, <2>2 DEF Around
  <1>9. IdInv' /\ RoomInv'
    <2>1. IdInv'
      BY <1>2, <1>4, IdKept DEF IInv
    <2>2. RoomInv'
      BY <1>0, <1>2, <1>4, RoomKept DEF IInv
    <2> QED
      BY <2>1, <2>2
  <1>10. Causes'
    BY <1>0, <1>2 DEF Causes
  <1> QED
    BY <1>4, <1>6, <1>7, <1>8, <1>9, <1>10, QuietKeeps


-----------------------------------------------------------------------------
(* The initial states                                                      *)

NewNodeIs(x, name, k, e) ==
  /\ x \in NodeRec /\ x.name = name /\ x.kind = k /\ x.children = <<>>
  /\ x.id = e /\ x.room = 0 /\ x.size = 0 /\ x.allocated = 0 /\ ~ x.bare /\ ~ x.busy

\* The fields of a node that create or mkdir makes.
LEMMA NewNodeFields ==
  ASSUME NEW name \in Name, NEW k \in {"file", "dir"}, NEW e \in Nat
  PROVE  NewNodeIs(NewNode(name, k, e), name, k, e)
  <1>1. (IF k = "dir" THEN 2 ELSE 1) \in Nat /\ <<>> \in Seq(Nat) /\ 0 \in Nat
    OBVIOUS
  <1> QED
    BY <1>1 DEF NewNodeIs, NewNode, NodeRec

\* What a file system starts with: the root, and in dummyfs two files.
LEMMA FirstIs ==
  ASSUME Init
  PROVE  LET n == Len(FirstFiles)
         IN  /\ n \in Nat /\ (program = "dummyfs" => n = 2) /\ (program # "dummyfs" => n = 0)
             /\ cur_inode = IF program = "dummyfs" THEN n ELSE 1
             /\ \A i \in 1 .. n : FirstFiles[i] \in Name
             /\ Paths = {Root} \cup {<<FirstFiles[i]>> : i \in 1 .. n}
             /\ inode_map = [p \in Paths |-> inode_map[p]] /\ inode_map[Root] = 1
             /\ \A i \in 1 .. n : <<FirstFiles[i]>> # Root /\ inode_map[<<FirstFiles[i]>>] = i + 1
             /\ cell = [e \in 1 .. n + 1 |-> [number |-> e - 1, block |-> 0]]
             /\ entry_map = [e \in 1 .. n + 1 |-> e]
             /\ Len(node) = n + 1 /\ node \in Seq(NodeRec)
             /\ node[1].kind = "dir" /\ node[1].children = [i \in 1 .. n |-> i + 1]
             /\ \A i \in 1 .. n : /\ node[i + 1].kind = "file" /\ node[i + 1].children = <<>>
                                  /\ node[i + 1].name = FirstFiles[i]
             /\ \A e \in 1 .. n + 1 :
                  /\ node[e].id = e
                  /\ node[e].room = (IF e = 1 THEN 0 ELSE MaxFile)
                  /\ node[e].size = 0 /\ node[e].allocated = 0 /\ ~ node[e].bare
                  /\ ~ node[e].busy
  <1> DEFINE F == FirstFiles
             n == Len(F)
  <1>1. /\ n \in Nat /\ (program = "dummyfs" => n = 2) /\ (program # "dummyfs" => n = 0)
        /\ \A i \in 1 .. n : F[i] \in Name
        /\ \A i, j \in 1 .. n : F[i] = F[j] => i = j
    <2>1. CASE program = "dummyfs"
      <3>1. F = << "matrix.out", "hello" >>
        BY <2>1 DEF FirstFiles
      <3> HIDE DEF F
      <3>2. n = 2 /\ F[1] = "matrix.out" /\ F[2] = "hello" /\ 1 .. n = {1, 2}
        BY <3>1
      <3> QED
        BY <2>1, <3>2 DEF Name
    <2>2. CASE program # "dummyfs"
      <3>1. F = <<>>
        BY <2>2 DEF FirstFiles
      <3> HIDE DEF F
      <3>2. n = 0 /\ 1 .. n = {}
        BY <3>1
      <3> QED
        BY <2>2, <3>2
    <2> QED
      BY <2>1, <2>2
  <1>2. /\ cur_inode = IF program = "dummyfs" THEN n ELSE 1
        /\ inode_map = [p \in {Root} \cup {<<F[i]>> : i \in 1 .. n} |->
                          IF p = Root THEN 1 ELSE 1 + CHOOSE i \in 1 .. n : F[i] = p[1]]
        /\ cell = [e \in 1 .. n + 1 |-> [number |-> e - 1, block |-> 0]]
        /\ entry_map = [e \in 1 .. n + 1 |-> e]
        /\ node = [e \in 1 .. n + 1 |->
                     IF e = 1
                       THEN [NewNode("/", "dir", 1) EXCEPT !.children = [i \in 1 .. n |-> i + 1]]
                       ELSE [NewNode(F[e - 1], "file", e) EXCEPT !.room = MaxFile]]
    BY DEF Init
  <1> HIDE DEF F
  <1>3. /\ Paths = {Root} \cup {<<F[i]>> : i \in 1 .. n}
        /\ inode_map = [p \in Paths |-> inode_map[p]] /\ inode_map[Root] = 1
    BY <1>2
  <1>4. ASSUME NEW i \in 1 .. n PROVE <<F[i]>> # Root /\ inode_map[<<F[i]>>] = i + 1
    <2> DEFINE p == <<F[i]>>
               k == CHOOSE j \in 1 .. n : F[j] = p[1]
    <2>1. p # Root /\ p[1] = F[i] /\ p \in {<<F[j]>> : j \in 1 .. n}
      OBVIOUS
    <2>2. k \in 1 .. n /\ F[k] = p[1]
      <3>1. \E j \in 1 .. n : F[j] = p[1]
        BY <2>1
      <3> QED
        BY <3>1, Zenon
    <2>3. k = i
      BY <1>1, <2>1, <2>2
    <2>4. inode_map[p] = 1 + k
      BY <1>2, <2>1
    <2>5. p # Root
      BY <2>1
    <2> HIDE DEF p, k
    <2>6. p # Root /\ inode_map[p] = i + 1
      BY <1>1, <2>3, <2>4, <2>5
    <2> QED
      BY <2>6 DEF p
  <1> DEFINE ch == [i \in 1 .. n |-> i + 1]
             d == [NewNode("/", "dir", 1) EXCEPT !.children = ch]
             f(e) == [NewNode(F[e - 1], "file", e) EXCEPT !.room = MaxFile]
  <1>5. ch \in Seq(Nat)
    BY <1>1
  <1>6. /\ d \in NodeRec /\ d.kind = "dir" /\ d.children = ch /\ d.id = 1
        /\ d.room = 0 /\ d.size = 0 /\ d.allocated = 0 /\ ~ d.bare /\ ~ d.busy
    <2> DEFINE x == NewNode("/", "dir", 1)
    <2>1. "/" \in Name /\ "dir" \in {"file", "dir"} /\ 1 \in Nat
      BY DEF Name
    <2>2. NewNodeIs(x, "/", "dir", 1)
      BY <2>1, NewNodeFields
    <2>3. d = [x EXCEPT !.children = ch]
      OBVIOUS
    <2> HIDE DEF ch, x
    <2>4. LET y == [x EXCEPT !.children = ch]
          IN  /\ y \in NodeRec /\ y.children = ch /\ y.kind = x.kind
              /\ SameLock(x, y) /\ SameRoom(x, y) /\ SameId(x, y)
      BY <1>5, <2>2, SetChildren DEF NewNodeIs
    <2> HIDE DEF d
    <2> QED
      BY <2>2, <2>3, <2>4 DEF NewNodeIs, SameLock, SameRoom, SameId
  <1>7. ASSUME NEW e \in 2 .. n + 1
        PROVE  /\ f(e) \in NodeRec /\ f(e).kind = "file" /\ f(e).children = <<>>
               /\ f(e).name = F[e - 1] /\ f(e).id = e
               /\ f(e).room = MaxFile /\ f(e).size = 0 /\ f(e).allocated = 0
               /\ ~ f(e).bare /\ ~ f(e).busy
    <2> DEFINE m == e - 1
               x == NewNode(F[m], "file", e)
    <2>1. F[m] \in Name /\ "file" \in {"file", "dir"} /\ e \in Nat /\ MaxFile \in Nat
      BY <1>1, BoundsAssumption
    <2> HIDE DEF m
    <2>2. NewNodeIs(x, F[m], "file", e)
      BY <2>1, NewNodeFields
    <2> HIDE DEF x
    <2>3. LET y == [x EXCEPT !.room = MaxFile]
          IN  /\ y \in NodeRec /\ y.room = MaxFile /\ y.size = x.size
              /\ y.allocated = x.allocated /\ y.bare = x.bare
              /\ SameNames(x, y) /\ SameLock(x, y) /\ SameId(x, y)
      BY <2>1, <2>2 DEF NodeRec, NewNodeIs, SameNames, SameLock, SameId
    <2> DEFINE z == f(e)
    <2>4. z = [x EXCEPT !.room = MaxFile]
      BY DEF x, m
    <2> HIDE DEF z
    <2>5. /\ z \in NodeRec /\ z.kind = "file" /\ z.children = <<>>
          /\ z.name = F[m] /\ z.id = e
          /\ z.room = MaxFile /\ z.size = 0 /\ z.allocated = 0 /\ ~ z.bare /\ ~ z.busy
      BY <2>2, <2>3, <2>4 DEF NewNodeIs, SameNames, SameLock, SameId
    <2> HIDE DEF f
    <2> QED
      BY <2>5 DEF z, m
  <1> HIDE DEF d, f, ch
  <1>8. node = [e \in 1 .. n + 1 |-> IF e = 1 THEN d ELSE f(e)]
    BY <1>2 DEF d, f, ch
  <1>9. /\ Len(node) = n + 1 /\ node \in Seq(NodeRec) /\ node[1] = d
        /\ \A e \in 2 .. n + 1 : node[e] = f(e)
    <2>1. \A e \in 1 .. n + 1 : (IF e = 1 THEN d ELSE f(e)) \in NodeRec
      BY <1>1, <1>6, <1>7
    <2>2. n + 1 \in Nat /\ 1 \in 1 .. n + 1
      BY <1>1
    <2>3. node \in [1 .. n + 1 -> NodeRec]
      BY <1>8, <2>1
    <2> QED
      BY <1>8, <2>2, <2>3
  <1>10. node[1].kind = "dir" /\ node[1].children = [i \in 1 .. n |-> i + 1]
    BY <1>6, <1>9 DEF ch
  <1>11. ASSUME NEW i \in 1 .. n
         PROVE  /\ node[i + 1].kind = "file" /\ node[i + 1].children = <<>>
                /\ node[i + 1].name = F[i]
    <2>1. i + 1 \in 2 .. n + 1 /\ (i + 1) - 1 = i
      BY <1>1
    <2> DEFINE e == i + 1
    <2>2. e \in 2 .. n + 1 /\ e - 1 = i
      BY <2>1
    <2> HIDE DEF e
    <2>3. node[e].kind = "file" /\ node[e].children = <<>> /\ node[e].name = F[i]
      BY <1>7, <1>9, <2>2
    <2> QED
      BY <2>3 DEF e
  <1>12. ASSUME NEW e \in 1 .. n + 1
         PROVE  /\ node[e].id = e
                /\ node[e].room = (IF e = 1 THEN 0 ELSE MaxFile)
                /\ node[e].size = 0 /\ node[e].allocated = 0 /\ ~ node[e].bare
                /\ ~ node[e].busy
    <2>1. CASE e = 1
      BY <1>6, <1>9, <2>1
    <2>2. CASE e # 1
      <3>1. e \in 2 .. n + 1
        BY <1>1, <2>2
      <3> QED
        BY <1>7, <1>9, <2>2, <3>1
    <2> QED
      BY <2>1, <2>2
  <1> QED
    BY <1>1, <1>2, <1>3, <1>4, <1>9, <1>10, <1>11, <1>12 DEF F


\* The file systems start with the invariant: a root directory, in which dummyfs
\* has two files.
LEMMA InitHolds ==
  ASSUME Init
  PROVE  IInv
  <1> DEFINE F == FirstFiles
             n == Len(F)
             P(i) == <<F[i]>>
  <1>1. /\ n \in Nat /\ (program = "dummyfs" => n = 2) /\ (program # "dummyfs" => n = 0)
        /\ cur_inode = IF program = "dummyfs" THEN n ELSE 1
        /\ \A i \in 1 .. n : F[i] \in Name
        /\ Paths = {Root} \cup {P(i) : i \in 1 .. n}
        /\ inode_map = [p \in Paths |-> inode_map[p]] /\ inode_map[Root] = 1
        /\ \A i \in 1 .. n : P(i) # Root /\ inode_map[P(i)] = i + 1
        /\ cell = [e \in 1 .. n + 1 |-> [number |-> e - 1, block |-> 0]]
        /\ entry_map = [e \in 1 .. n + 1 |-> e]
        /\ Len(node) = n + 1 /\ node \in Seq(NodeRec)
        /\ node[1].kind = "dir" /\ node[1].children = [i \in 1 .. n |-> i + 1]
        /\ \A i \in 1 .. n : /\ node[i + 1].kind = "file" /\ node[i + 1].children = <<>>
                             /\ node[i + 1].name = F[i]
        /\ \A e \in 1 .. n + 1 :
             /\ node[e].id = e
             /\ node[e].room = (IF e = 1 THEN 0 ELSE MaxFile)
             /\ node[e].size = 0 /\ node[e].allocated = 0 /\ ~ node[e].bare
             /\ ~ node[e].busy
    BY FirstIs
  <1>2. /\ program \in Programs /\ inode_count = 1 /\ meta = {0} /\ total = 0
        /\ image = [table |-> Table, count |-> 1, meta |-> {0}]
        /\ pc = [t \in Threads |-> "idle"]
        /\ path = [t \in Threads |-> Root] /\ origin = [t \in Threads |-> Root]
        /\ kind = [t \in Threads |-> "none"]
        /\ counter = [t \in Threads |-> 1] /\ read = [t \in Threads |-> 0]
        /\ got = [t \in Threads |-> [number |-> 0, block |-> 0]]
        /\ walked = [t \in Threads |-> << >>]
        /\ fault = "none" /\ calls = 0 /\ lost = {} /\ exchanged = FALSE
    BY DEF Init
  <1>3. ASSUME NEW i \in 1 .. n
        PROVE  P(i) \in Seq(Name) /\ Front(P(i)) = Root /\ Last(P(i)) = F[i]
               /\ P(i) = Append(Root, F[i])
    <2>1. F[i] \in Name /\ Root \in Seq(Name) /\ P(i) = Append(Root, F[i])
      BY <1>1
    <2> QED
      BY <2>1, AppendPath, Zenon
  <1> HIDE DEF F, P
  <1>4. Cells = 1 .. n + 1 /\ 1 \in Cells /\ \A i \in 1 .. n : i + 1 \in Cells
    BY <1>1
  <1>5. \A e \in Cells : e = 1 \/ \E i \in 1 .. n : e = i + 1
    <2> TAKE e \in Cells
    <2>1. e = 1 \/ (e - 1 \in 1 .. n /\ e = (e - 1) + 1)
      BY <1>1, <1>4
    <2> QED
      BY <2>1
  <1>b. \A p \in Paths : \/ p = Root /\ inode_map[p] = 1
                         \/ \E i \in 1 .. n : p = P(i) /\ inode_map[p] = i + 1
    <2> TAKE p \in Paths
    <2>1. CASE p = Root
      BY <1>1, <2>1
    <2>2. CASE p # Root
      <3>1. PICK i \in 1 .. n : p = P(i)
        BY <1>1, <2>2
      <3>2. inode_map[P(i)] = i + 1
        BY <1>1
      <3> QED
        BY <3>1, <3>2
    <2> QED
      BY <2>1, <2>2
  <1>6. \A e \in Cells : cell[e].number = e - 1 /\ cell[e].block = 0 /\ entry_map[e] = e
    BY <1>1, <1>4
  <1>7. /\ node[1].children \in Seq(Cells) /\ IsInjective(node[1].children)
        /\ Range(node[1].children) = {i + 1 : i \in 1 .. n}
    <2> DEFINE s == [i \in 1 .. n |-> i + 1]
    <2>1. s \in Seq(Cells) /\ IsInjective(s) /\ Range(s) = {i + 1 : i \in 1 .. n}
      BY <1>1, <1>4 DEF IsInjective, Range
    <2> QED
      BY <1>1, <2>1
  <1>8. TablesType
    <2>1. Paths \subseteq Seq(Name) /\ Root \in Paths
      <3>1. <<>> \in Seq(Name)
        OBVIOUS
      <3>2. \A i \in 1 .. n : P(i) \in Seq(Name)
        BY <1>3
      <3>3. \A p \in Paths : p = Root \/ \E i \in 1 .. n : p = P(i)
        BY <1>b
      <3> QED
        BY <1>1, <3>1, <3>2, <3>3, ZenonT(30)
    <2>2. IsFiniteSet(Paths)
      <3>1. IsFiniteSet({P(i) : i \in 1 .. n})
        <4> DEFINE A == 1 .. n
                   B == {P(i) : i \in A}
                   g == [i \in A |-> P(i)]
        <4>1. IsFiniteSet(A)
          <5>1. 1 \in Int /\ n \in Int
            BY <1>1
          <5> QED
            BY <5>1, FS_Interval
        <4>2. g \in Surjection(A, B)
          BY DEF Surjection
        <4> HIDE DEF A, B, g
        <4>3. IsFiniteSet(B)
          BY <4>1, <4>2, FS_Surjection
        <4> QED
          BY <4>3 DEF A, B
      <3> DEFINE Q == {P(i) : i \in 1 .. n}
      <3>2. IsFiniteSet(Q)
        BY <3>1
      <3> HIDE DEF Q
      <3>3. IsFiniteSet(Q \cup {Root})
        BY <3>2, FS_AddElement
      <3>4. Paths = Q \cup {Root}
        BY <1>1 DEF Q
      <3> QED
        BY <3>3, <3>4
    <2>3. \A p \in Paths : inode_map[p] \in Cells
      BY <1>4, <1>b
    <2>4. inode_map \in [Paths -> Cells]
      BY <1>1, <2>3
    <2>5. cell \in Seq(CellRec)
      <3>1. \A e \in 1 .. n + 1 : [number |-> e - 1, block |-> 0] \in CellRec
        BY <1>1, BoundsAssumption DEF CellRec
      <3>2. cell \in [1 .. n + 1 -> CellRec]
        BY <1>1, <3>1
      <3>3. n + 1 \in Nat
        BY <1>1
      <3> QED
        BY <3>2, <3>3
    <2>6. Len(node) = Len(cell) /\ entry_map \in [Cells -> Cells]
      BY <1>1, <1>4
    <2>7. \A e \in Cells : /\ node[e].children \in Seq(Cells)
                           /\ node[e].kind = "file" => node[e].children = <<>>
      <3> TAKE e \in Cells
      <3>1. CASE e = 1
        BY <1>1, <1>7, <3>1
      <3>2. CASE e # 1
        <4>1. node[e].children = <<>>
          BY <1>1, <1>5, <3>2
        <4>2. <<>> \in Seq(Cells)
          OBVIOUS
        <4> QED
          BY <4>1, <4>2
      <3> QED
        BY <3>1, <3>2
    <2> QED
      BY <1>1, <1>2, <2>1, <2>2, <2>4, <2>5, <2>6, <2>7 DEF TablesType
  <1>9. NumbersType /\ ThreadType /\ CallType
    <2>1. 0 \in 0 .. MetaBlocks - 1 /\ 0 \in 0 .. MaxCalls
      BY BoundsAssumption
    <2>2. NumbersType
      BY <1>1, <1>2, <2>1 DEF NumbersType
    <2>3. [number |-> 0, block |-> 0] \in CellRec
      BY <2>1 DEF CellRec
    <2>4. ThreadType
      BY <1>2, <2>3 DEF ThreadType, Places
    <2>5. CallType
      BY <1>2, <2>1 DEF CallType
    <2> QED
      BY <2>2, <2>4, <2>5
  <1>10. \A t \in Threads : /\ pc[t] = "idle" /\ counter[t] = 1 /\ 1 \in 1 .. Len(Counters)
                            /\ kind[t] = "none"
                            /\ ~ Numbered(t) /\ ~ Blocked(t) /\ ~ Owes(t)
                            /\ \A what : ~ Stores(t, what)
    <2>1. 1 \in 1 .. Len(Counters)
      BY DEF Counters
    <2> QED
      BY <1>2, <2>1 DEF Numbered, Blocked, Owes, Stores
  <1>11. ThreadInv /\ ApartInv /\ OwnerInv /\ LockInv /\ Causes
    <2>1. ThreadInv
      BY <1>10 DEF ThreadInv, Making
    <2>2. ApartInv /\ OwnerInv
      BY <1>10 DEF ApartInv, OwnerInv, Locking
    <2>3. LockInv /\ Causes
      BY <1>1, <1>2, <1>4 DEF LockInv, Causes
    <2> QED
      BY <2>1, <2>2, <2>3
  <1>12. InjectiveInv
    <2> SUFFICES ASSUME NEW p \in Paths, NEW q \in Paths, inode_map[p] = inode_map[q]
                 PROVE  p = q
      BY DEF InjectiveInv
    <2>1. \A i \in 1 .. n : i \in Nat /\ i + 1 # 1
      BY <1>1
    <2> QED
      BY <1>b, <2>1
  <1>13. NumberInv /\ BlockInv
    <2>1. \A e \in Cells : cell[e].number < Given(cur_inode)
      <3> TAKE e \in Cells
      <3>1. cell[e].number = e - 1 /\ e \in 1 .. n + 1
        BY <1>4, <1>6
      <3>2. Given(cur_inode) = n + 1 /\ n \in Nat
        BY <1>1 DEF Given
      <3> QED
        BY <3>1, <3>2
    <2>2. \A d, e \in Cells : cell[d].number = cell[e].number => d = e
      BY <1>1, <1>4, <1>6
    <2>3. NumberInv
      BY <1>6, <1>10, <2>1, <2>2 DEF NumberInv
    <2>4. program = "pssfs" => \A d, e \in Cells : d = e
      BY <1>1, <1>4
    <2> QED
      BY <1>2, <1>6, <1>10, <2>3, <2>4 DEF BlockInv
  <1>14. CountInv /\ MetaInv
    <2>1. Uncounted = {} /\ {t \in Threads : Blocked(t)} = {}
      BY <1>10 DEF Uncounted
    <2>2. Cardinality(Uncounted) = 0 /\ Cardinality({t \in Threads : Blocked(t)}) = 0
      BY <2>1, FS_EmptySet
    <2>3. program = "pssfs" => Paths = {Root}
      BY <1>1
    <2>4. Cardinality({Root}) = 1 /\ Cardinality(meta) = 1
      BY <1>2, FS_Singleton
    <2>5. CountInv
      BY <1>2, <1>10, <2>2, <2>3, <2>4 DEF CountInv
    <2>6. MetaInv
      BY <1>1, <2>2, <2>4 DEF MetaInv
    <2> QED
      BY <2>5, <2>6
  <1>15. TreeInv
    <2> SUFFICES ASSUME NEW p \in Paths PROVE Above(p) /\ Beneath(p)
      BY DEF TreeInv
    <2>1. CASE p = Root
      <3>1. Above(p)
        BY <1>1, <2>1 DEF Above
      <3>2. ASSUME NEW c \in Range(node[1].children)
            PROVE  Append(p, node[c].name) \in Paths /\ inode_map[Append(p, node[c].name)] = c
        <4>1. PICK i \in 1 .. n : c = i + 1
          BY <1>7
        <4>2. node[c].name = F[i] /\ P(i) = Append(p, F[i]) /\ P(i) \in Paths
              /\ inode_map[P(i)] = c
          BY <1>1, <1>3, <2>1, <4>1
        <4> QED
          BY <4>2
      <3>3. Beneath(p)
        BY <1>1, <1>7, <2>1, <3>2 DEF Beneath
      <3> QED
        BY <3>1, <3>3
    <2>2. CASE p # Root
      <3>1. PICK i \in 1 .. n : p = P(i)
        BY <1>1, <2>2
      <3>2. /\ inode_map[p] = i + 1 /\ Front(p) = Root /\ Last(p) = F[i]
            /\ node[i + 1].name = F[i] /\ node[i + 1].children = <<>>
            /\ i + 1 \in Range(node[1].children)
        BY <1>1, <1>3, <1>7, <3>1
      <3>3. Above(p)
        <4>1. Root \in Paths /\ inode_map[Root] = 1 /\ node[1].kind = "dir"
          BY <1>1
        <4> QED
          BY <2>2, <3>2, <4>1 DEF Above
      <3>4. Beneath(p)
        <4>1. \A s : s = <<>> => Range(s) = {} /\ IsInjective(s)
          BY DEF Range, IsInjective
        <4>2. Range(node[inode_map[p]].children) = {} /\ IsInjective(node[inode_map[p]].children)
          BY <3>2, <4>1
        <4> QED
          BY <4>2 DEF Beneath
      <3> QED
        BY <3>3, <3>4
    <2> QED
      BY <2>1, <2>2
  <1>16. IdInv
    BY <1>1, <1>4, <1>6 DEF IdInv
  <1>17. RoomInv
    <2>1. MaxFile \in Nat
      BY BoundsAssumption
    <2>2. ASSUME NEW e \in Cells PROVE RoomOf(node[e])
      <3>1. /\ node[e].room \in Nat /\ node[e].room <= MaxFile
            /\ node[e].size = 0 /\ node[e].allocated = 0 /\ ~ node[e].bare
            /\ program = "memoryfs" => node[e].kind # "file"
        <4>1. /\ node[e].room = (IF e = 1 THEN 0 ELSE MaxFile)
              /\ node[e].size = 0 /\ node[e].allocated = 0 /\ ~ node[e].bare
          BY <1>1, <1>4
        <4>2. program = "memoryfs" => node[e].kind # "file"
          BY <1>1, <1>4
        <4> QED
          BY <2>1, <4>1, <4>2
      <3> QED
        BY <2>1, <3>1 DEF RoomOf
    <2>3. ASSUME program = "memoryfs" PROVE Charged(node, total)
      <3> DEFINE h == [i \in 0 .. 1 |-> 0]
      <3>1. Len(node) = 1 /\ Charge(node[1]) = 0
        BY <1>1, <1>4, <2>3 DEF Charge
      <3>2. h \in [0 .. 1 -> Int] /\ h[0] = 0 /\ h[1] = 0
        OBVIOUS
      <3>3. \A i \in 1 .. 1 : h[i] = h[i - 1] + Charge(node[i])
        BY <3>1, <3>2
      <3>4. 0 .. Len(node) = 0 .. 1 /\ 1 .. Len(node) = 1 .. 1 /\ total = 0
        BY <1>2, <3>1
      <3> HIDE DEF h
      <3>5. h \in [0 .. Len(node) -> Int] /\ h[0] = 0 /\ h[Len(node)] <= total
        BY <3>1, <3>2, <3>4
      <3>6. \A i \in 1 .. Len(node) : h[i] = h[i - 1] + Charge(node[i])
        BY <3>3, <3>4
      <3> QED
        BY <3>5, <3>6 DEF Charged
    <2> QED
      BY <1>2, <2>2, <2>3 DEF RoomInv
  <1>18. ImageInv /\ BitmapInv
    BY <1>2, <1>10 DEF ImageInv, BitmapInv
  <1> QED
    BY <1>8, <1>9, <1>11, <1>12, <1>13, <1>14, <1>15, <1>16, <1>17, <1>18 DEF IInv, MapsInv


-----------------------------------------------------------------------------
(* The invariant holds.                                                    *)

\* A step that changes nothing preserves the invariant.
LEMMA StutterKeeps ==
  ASSUME IInv, UNCHANGED vars
  PROVE  IInv'
  <1>1. UNCHANGED <<program, tables, numbers, total, image, thread, fault, calls, ghosts>>
    BY DEF vars
  <1>2. calls' \in 0 .. MaxCalls /\ Causes
    BY <1>1 DEF IInv, MapsInv, CallType
  <1>3. Causes'
    BY <1>1, <1>2 DEF Causes, NoMemory, tables, thread
  <1> QED
    BY <1>1, <1>2, <1>3, FaultOnly

\* Every step preserves the invariant.
LEMMA NextKeeps == IInv /\ [Next]_vars => IInv'
  <1> SUFFICES ASSUME IInv, [Next]_vars PROVE IInv'
    OBVIOUS
  <1>1. ASSUME NEW t \in Threads, Begin(t) \/ Load(t) \/ Store(t) \/ Add(t) \/ Walk(t) \/ Save(t)
        PROVE  IInv'
    BY <1>1, BeginKeeps, LoadKeeps, StoreKeeps, AddKeeps, WalkKeeps, SaveKeeps
  <1>7. ASSUME NEW t \in Threads, LoadCount(t) \/ StoreCount(t) PROVE IInv'
    BY <1>7, LoadCountKeeps, StoreCountKeeps
  <1>2. CASE Unlink
    BY <1>2, UnlinkKeeps
  <1>3. CASE Rename
    BY <1>3, RenameKeeps
  <1>4. CASE Exchange
    BY <1>4, ExchangeKeeps
  <1>5. CASE Resize
    BY <1>5, ResizeKeeps
  <1>6. CASE UNCHANGED vars
    BY <1>6, StutterKeeps
  <1> QED
    BY <1>1, <1>2, <1>3, <1>4, <1>5, <1>6, <1>7 DEF Next

\* In every reachable state the parts of the invariant hold together: what the
\* containers say of the tree, what inode_add has drawn and not yet entered,
\* what is charged for contents and who holds which lock.
THEOREM Invariance == Spec => []IInv
  <1>1. Init => IInv
    BY InitHolds
  <1> QED
    BY <1>1, NextKeeps, PTL DEF Spec

-----------------------------------------------------------------------------
(* What follows from it                                                    *)

\* The parts about types, threads and memory are the type invariant.
LEMMA TypesFollow == IInv => TypeOK
  <1> SUFFICES ASSUME IInv PROVE TypeOK
    OBVIOUS
  <1>0. TypeInv /\ ThreadInv /\ RoomInv
    BY DEF IInv, MapsInv
  <1>1. /\ program \in Programs /\ cur_inode \in Nat /\ inode_count \in Int
        /\ Len(cell) = Len(node) /\ DOMAIN entry_map = Cells
        /\ meta \subseteq 0 .. MetaBlocks - 1 /\ image.meta \subseteq 0 .. MetaBlocks - 1
    BY <1>0 DEF TablesType, NumbersType
  <1>2. /\ \A e \in Cells : cell[e].number \in Nat /\ cell[e].block \in 0 .. MetaBlocks - 1
        /\ \A p \in Paths : inode_map[p] \in Cells /\ entry_map[inode_map[p]] \in Cells
    BY <1>0, TypesAre, PathIs
  <1>3. /\ \A e \in Cells : \A i \in DOMAIN node[e].children : node[e].children[i] \in Cells
        /\ \A e \in Cells : node[e].kind = "file" => node[e].children = <<>>
    <2>1. \A e \in Cells : node[e].children \in Seq(Cells)
      BY <1>0 DEF TablesType
    <2>2. \A e \in Cells : node[e].kind = "file" => node[e].children = <<>>
      BY <1>0 DEF TablesType
    <2> QED
      BY <2>1, <2>2
  <1>4. /\ \A e \in Cells : {node[e].size, node[e].allocated, node[e].room} \subseteq 0 .. MaxFile
        /\ total \in Nat
    BY <1>0 DEF RoomInv, RoomOf
  <1>5. \A t \in Threads :
          /\ pc[t] \in {"idle", "load", "store", "add", "dec", "sub", "save", "write"}
          /\ {path[t], origin[t]} \subseteq Seq(Names \cup {"/", "matrix.out", "hello"})
          /\ kind[t] \in {"none", "file", "dir"}
          /\ counter[t] \in 1 .. Len(Counters) /\ read[t] \in Int
    BY <1>0 DEF ThreadType, ThreadInv, Places, Name
  <1>6. /\ fault \in {"none", "exit", "overrun", "segv"}
        /\ calls \in 0 .. MaxCalls
        /\ lost \subseteq {"block", "number", "count", "table"} /\ exchanged \in BOOLEAN
    BY <1>0 DEF CallType
  <1> QED
    BY <1>1, <1>2, <1>3, <1>4, <1>5, <1>6 DEF TypeOK

\* Every variable has its type: no path leads to a cell that was not made, no
\* size passes the maximal file size, no meta block lies outside the bitmap.
THEOREM TypeCorrect == Spec => []TypeOK
  BY Invariance, TypesFollow, PTL

\* Every path has its entry above it and its children beneath it, so the
\* containers agree.
LEMMA TreeFollows == IInv => PathsAgree
  <1> SUFFICES ASSUME IInv, ~ exchanged, "number" \notin lost, NEW p \in Paths
               PROVE  /\ p # Root => /\ IsDir(Front(p)) /\ p \in Listed(Front(p))
                                     /\ node[Entry(p)].name = Last(p)
                      /\ Listed(p) \subseteq Paths
                      /\ \A i \in DOMAIN node[Entry(p)].children :
                           Child(node[Entry(p)].children[i])
                             = Entry(Append(p, node[Child(node[Entry(p)].children[i])].name))
                      /\ IsInjective(node[Entry(p)].children)
    BY DEF PathsAgree
  <1>0. /\ TypeInv /\ NumberInv /\ \A q \in Paths : Above(q) /\ Beneath(q)
    BY DEF IInv, MapsInv, TreeInv
  <1>1. \A q \in Paths : Entry(q) = inode_map[q] /\ inode_map[q] \in Cells
    BY <1>0, EntryIs
  <1>2. \A q \in Paths : \A i \in DOMAIN node[inode_map[q]].children :
          LET c == node[inode_map[q]].children[i]
          IN  c \in Cells /\ Child(c) = c /\ c \in Range(node[inode_map[q]].children)
    <2> TAKE q \in Paths
    <2> DEFINE s == node[inode_map[q]].children
    <2>1. s \in Seq(Cells)
      BY <1>0, <1>1 DEF TablesType
    <2>2. \A c \in Cells : Child(c) = c
      BY <1>0 DEF Child, NumberInv
    <2> HIDE DEF s
    <2>3. \A i \in DOMAIN s : s[i] \in Cells /\ Child(s[i]) = s[i] /\ s[i] \in Range(s)
      BY <2>1, <2>2 DEF Range
    <2> QED
      BY <2>3 DEF s
  <1>3. ASSUME p # Root
        PROVE  IsDir(Front(p)) /\ p \in Listed(Front(p)) /\ node[Entry(p)].name = Last(p)
    <2> DEFINE f == Front(p)
               s == node[inode_map[f]].children
    <2>1. /\ f \in Paths /\ node[inode_map[f]].kind = "dir" /\ inode_map[p] \in Range(s)
          /\ node[inode_map[p]].name = Last(p)
      BY <1>0, <1>3 DEF Above
    <2>2. PICK i \in DOMAIN s : s[i] = inode_map[p]
      BY <2>1 DEF Range
    <2>3. p = Append(f, Last(p))
      BY <1>0, <1>3, PathIs, FrontLast
    <2>4. Child(s[i]) = s[i]
      BY <1>2, <2>1
    <2>5. p = Append(f, node[Child(s[i])].name)
      BY <2>1, <2>2, <2>3, <2>4
    <2>6. Entry(f) = inode_map[f] /\ Entry(p) = inode_map[p]
      BY <1>1, <2>1
    <2> HIDE DEF f
    <2>7. p \in Listed(f)
      BY <2>2, <2>5, <2>6 DEF Listed
    <2> QED
      BY <2>1, <2>6, <2>7 DEF IsDir, f
  <1>4. \A i \in DOMAIN node[inode_map[p]].children :
          LET c == node[inode_map[p]].children[i]
          IN  Append(p, node[c].name) \in Paths /\ inode_map[Append(p, node[c].name)] = c
    BY <1>0, <1>2 DEF Beneath
  <1>5. Listed(p) \subseteq Paths
    <2>1. \A i \in DOMAIN node[Entry(p)].children :
            Append(p, node[Child(node[Entry(p)].children[i])].name) \in Paths
      <3> TAKE i \in DOMAIN node[Entry(p)].children
      <3> DEFINE c == node[inode_map[p]].children[i]
      <3>1. Entry(p) = inode_map[p] /\ Child(c) = c /\ Append(p, node[c].name) \in Paths
        BY <1>1, <1>2, <1>4
      <3> QED
        BY <3>1
    <2> QED
      BY <2>1 DEF Listed
  <1>6. ASSUME NEW i \in DOMAIN node[Entry(p)].children
        PROVE  Child(node[Entry(p)].children[i])
                 = Entry(Append(p, node[Child(node[Entry(p)].children[i])].name))
    <2> DEFINE c == node[inode_map[p]].children[i]
               q == Append(p, node[c].name)
    <2>1. Child(c) = c /\ q \in Paths /\ inode_map[q] = c
      BY <1>1, <1>2, <1>4
    <2>2. Entry(q) = c
      BY <1>1, <2>1
    <2> QED
      BY <1>1, <2>1, <2>2
  <1>7. IsInjective(node[Entry(p)].children)
    BY <1>0, <1>1 DEF Beneath
  <1> QED
    BY <1>3, <1>5, <1>6, <1>7

\* inode_map, entry_map and the children of the nodes describe the same tree
\* after every create, mkdir, unlink, rename of any subtree and exchange, until
\* an exchange takes names along or two creates draw the same number.
THEOREM TreesAgree == Spec => []PathsAgree
  BY Invariance, TreeFollows, PTL

\* The parts about numbers, blocks and the count are what CountersAgree says.
LEMMA CountersFollow == IInv => CountersAgree
  <1> SUFFICES ASSUME IInv PROVE CountersAgree
    OBVIOUS
  <1>1. NumberInv /\ BlockInv /\ CountInv
    BY DEF IInv
  <1>2. Uncounted = {t \in Threads : pc[t] \in {"add", "dec", "sub"}}
    BY DEF Uncounted
  <1> QED
    BY <1>1, <1>2 DEF CountersAgree, NumberInv, BlockInv, CountInv

\* No inode number and no meta block is given twice, and inode_count counts the
\* rows of the inode table, unless an update of just that counter was lost
\* between two threads (dummyfs_inode_add, and inode_count-- of dummyfs_unlink).
THEOREM NumbersApart == Spec => []CountersAgree
  BY Invariance, CountersFollow, PTL

\* With no call under way nobody owes the device anything.
LEMMA ImageFollows == IInv => ImageCurrent
  <1> SUFFICES ASSUME IInv, program = "pssfs", fault = "none", \A t \in Threads : pc[t] = "idle",
                      "table" \notin lost
               PROVE  image = [table |-> Table, count |-> inode_count, meta |-> meta]
    BY DEF ImageCurrent
  <1>1. \A t \in Threads : ~ Owes(t) /\ pc[t] # "write"
    BY DEF Owes
  <1> QED
    BY <1>1 DEF IInv, ImageInv

\* When no call is under way the inode table and the meta bitmap on the device
\* are those in memory, unless one thread saved inside another's
\* serialize_inodes (of create, mkdir, unlink or rename).
THEOREM DeviceCurrent == Spec => []ImageCurrent
  BY Invariance, ImageFollows, PTL

\* The owner of a lock works in the directory that it locked.
LEMMA LocksFollow == IInv => BusyHeldOrDenied
  <1> SUFFICES ASSUME IInv, NEW e \in Cells, node[e].busy, ~ node[e].denied
               PROVE  \E t \in Threads :
                        /\ pc[t] \in {"load", "store", "add", "dec", "sub"}
                        /\ e = Entry(Front(path[t]))
    BY DEF BusyHeldOrDenied
  <1>1. PICK t \in Threads : pc[t] \in Locking /\ e = inode_map[Owner(t)]
    BY DEF IInv, LockInv
  <1>2. entry_map[inode_map[Owner(t)]] = inode_map[Owner(t)]
    BY <1>1 DEF IInv, MapsInv, OwnerInv
  <1> QED
    BY <1>1, <1>2 DEF Locking, Entry, Owner

\* A node is locked by the one thread that makes or removes something in it, also while
\* others make, remove and rename elsewhere, or for ever after a write or
\* truncate that returned with an error.
THEOREM LocksHeld == Spec => []BusyHeldOrDenied
  BY Invariance, LocksFollow, PTL

\* The causes are what FaultExplained lists.
LEMMA CausesFollow == IInv => FaultExplained
  BY DEF IInv, Causes, FaultExplained, Making

\* pssfs gives up only when every meta block was given to an object that exists or
\* existed, and an allocation that nobody checks ends a process only when the
\* memory is used up (memoryfs.c:77-91, 119-126, 173).
THEOREM EndsForAReason == Spec => []FaultExplained
  BY Invariance, CausesFollow, PTL

\* All buffers together are the partial sums of the rooms of the nodes.
LEMMA RoomsSummed ==
  ASSUME node \in Seq(NodeRec)
  PROVE  \E h \in [0 .. Len(node) -> Nat] :
           /\ h[0] = 0
           /\ \A i \in 1 .. Len(node) : h[i] = h[i - 1] + node[i].room
           /\ Rooms = h[Len(node)]
  <1> DEFINE n == Len(node)
             D == 1 .. n
             step == [i \in D |-> [a \in Nat |-> a + node[i].room]]
             Eq(g) == [s \in SUBSET D |->
                        IF s = {} THEN 0 ELSE g[s \ {Max(s)}] + node[Max(s)].room]
             iter == CHOOSE g : g = Eq(g)
             h == [i \in 0 .. n |-> iter[1 .. i]]
  <1>1. n \in Nat /\ DOMAIN node = D /\ \A i \in D : node[i].room \in Nat
    <2>1. \A x \in NodeRec : x.room \in Nat
      BY DEF NodeRec
    <2>2. n \in Nat /\ DOMAIN node = D /\ \A i \in D : node[i] \in NodeRec
      OBVIOUS
    <2> QED
      BY <2>1, <2>2
  <1>2. Rooms = iter[D]
    BY <1>1 DEF Rooms, FoldLeft, MapThenFoldSet
  <1>3. step \in [D -> [Nat -> Nat]] /\ 0 \in Nat
    BY <1>1
  <1> HIDE DEF step, n
  <1>4. PICK g \in [SUBSET D -> Nat] : g = FoldStep(D, 0, step, g)
    <2>1. n \in Nat /\ 0 \in Nat /\ step \in [1 .. n -> [Nat -> Nat]]
      BY <1>1, <1>3
    <2>2. \A A : \A base \in A, f \in [1 .. n -> [A -> A]] :
            \E g \in [SUBSET (1 .. n) -> A] : g = FoldStep(1 .. n, base, f, g)
      BY <2>1, FoldExists, Zenon
    <2> QED
      BY <2>1, <2>2, Zenon
  <1>5. g = Eq(g)
    <2>1. ASSUME NEW s \in SUBSET D PROVE FoldStep(D, 0, step, g)[s] = Eq(g)[s]
      <3>1. CASE s = {}
        BY <3>1 DEF FoldStep
      <3>2. CASE s # {}
        <4>1. Max(s) \in D /\ g[s \ {Max(s)}] \in Nat
          BY <1>1, <3>2, MaxOf
        <4>2. step[Max(s)][g[s \ {Max(s)}]] = g[s \ {Max(s)}] + node[Max(s)].room
          BY <4>1 DEF step
        <4> QED
          BY <3>2, <4>2 DEF FoldStep
      <3> QED
        BY <3>1, <3>2
    <2> QED
      BY <1>4, <2>1 DEF FoldStep
  <1>6. iter = Eq(iter)
    BY <1>5, Zenon
  <1> HIDE DEF iter
  <1>7. h[0] = 0
    BY <1>1, <1>6
  <1>8. ASSUME NEW i \in D PROVE h[i] = h[i - 1] + node[i].room
    <2>1. Max(1 .. i) = i /\ (1 .. i) \ {i} = 1 .. i - 1
      BY <1>1, MaxOfInterval
    <2>2. 1 .. i \in SUBSET D /\ 1 .. i # {}
      <3>1. i \in Nat /\ 1 <= i /\ i <= n
        BY <1>1
      <3>2. 1 \in 1 .. i /\ \A x \in 1 .. i : x \in 1 .. n
        BY <1>1, <3>1
      <3> QED
        BY <3>2
    <2>3. iter[1 .. i] = iter[1 .. i - 1] + node[i].room
      BY <1>6, <2>1, <2>2
    <2> QED
      BY <1>1, <2>3
  <1>9. h \in [0 .. n -> Nat]
    <2> DEFINE S == {i \in 0 .. n : h[i] \in Nat}
    <2> HIDE DEF h
    <2>1. 0 \in S
      BY <1>1, <1>7
    <2>2. \A i \in 1 .. n : i - 1 \in S => i \in S
      BY <1>1, <1>8
    <2>3. \A i \in 0 .. n : i \in S
      BY <1>1, <2>1, <2>2, Climb, Zenon
    <2> QED
      BY <2>3 DEF h
  <1>10. Rooms = h[n]
    BY <1>1, <1>2
  <1> QED
    BY <1>7, <1>8, <1>9, <1>10 DEF n

\* The charges sum up to total_bytes at most, and a charge is the buffer but
\* for a first kilobyte.
LEMMA ContentsFollow == IInv => ContentsBacked
  <1> SUFFICES ASSUME IInv PROVE ContentsBacked
    OBVIOUS
  <1>0. TypeInv /\ RoomInv
    BY DEF IInv, MapsInv
  <1>1. fault = "none" => \A e \in Cells : node[e].size <= node[e].room
    BY <1>0 DEF RoomInv, RoomOf
  <1>2. ASSUME program = "memoryfs"
        PROVE  Rooms <= total + KB * Cardinality({e \in Cells : node[e].bare})
    <2> DEFINE n == Len(node)
               bare(i) == {e \in 1 .. i : node[e].bare}
    <2>1. /\ node \in Seq(NodeRec) /\ n \in Nat /\ Cells = 1 .. n /\ total \in Nat
          /\ \A e \in 1 .. n : /\ node[e].room \in Nat /\ node[e].bare \in BOOLEAN
                               /\ node[e].bare /\ node[e].room > 0 => node[e].room >= KB
      <3>1. node \in Seq(NodeRec) /\ n \in Nat /\ Cells = 1 .. n /\ total \in Nat
        BY <1>0, TypesAre DEF TablesType, RoomInv
      <3>2. \A e \in Cells : node[e] \in NodeRec /\ RoomOf(node[e])
        BY <1>0, TypesAre DEF RoomInv
      <3> QED
        BY <3>1, <3>2 DEF NodeRec, RoomOf
    <2>2. PICK h \in [0 .. n -> Nat] :
            /\ h[0] = 0 /\ \A i \in 1 .. n : h[i] = h[i - 1] + node[i].room
            /\ Rooms = h[n]
      BY <2>1, RoomsSummed
    <2>3. PICK c \in [0 .. n -> Int] :
            /\ c[0] = 0 /\ c[n] <= total
            /\ \A i \in 1 .. n : c[i] = c[i - 1] + Charge(node[i])
      BY <1>0, <1>2 DEF RoomInv, Charged
    <2> HIDE DEF n
    <2>4. ASSUME NEW i \in 0 .. n PROVE IsFiniteSet(bare(i)) /\ Cardinality(bare(i)) \in Nat
      <3>1. IsFiniteSet(1 .. i)
        <4>1. 1 \in Int /\ i \in Int
          OBVIOUS
        <4> QED
          BY <4>1, FS_Interval
      <3>2. bare(i) \subseteq 1 .. i
        OBVIOUS
      <3> HIDE DEF bare
      <3> QED
        BY <3>1, <3>2, FS_Subset, FS_CardinalityType
    <2> DEFINE S == {i \in 0 .. n : h[i] <= c[i] + KB * Cardinality(bare(i))}
    <2>5. 0 \in S
      <3>0. 0 \in 0 .. n
        BY <2>1
      <3> HIDE DEF bare
      <3>1. Cardinality(bare(0)) \in Nat
        BY <2>4, <3>0
      <3> QED
        BY <2>2, <2>3, <3>0, <3>1
    <2>6. ASSUME NEW i \in 1 .. n, i - 1 \in S PROVE i \in S
      <3> DEFINE a == Cardinality(bare(i - 1))
                 b == Cardinality(bare(i))
      <3>1. i - 1 \in 0 .. n /\ i \in 0 .. n /\ i \in Nat
        BY <2>1
      <3>2. a \in Nat /\ b \in Nat
        BY <2>4, <3>1
      <3>3. \A e : e \in 1 .. i <=> (e \in 1 .. i - 1 \/ e = i)
        <4>1. i \in Nat /\ i >= 1
          BY <2>1
        <4> QED
          BY <4>1
      <3>4. b = IF node[i].bare THEN a + 1 ELSE a
        <4>1. CASE node[i].bare
          <5>1. bare(i) = bare(i - 1) \cup {i} /\ i \notin bare(i - 1)
            <6>1. i \notin 1 .. i - 1
              BY <3>1
            <6> QED
              BY <3>3, <4>1, <6>1
          <5>2. IsFiniteSet(bare(i - 1))
            BY <2>4, <3>1
          <5> HIDE DEF bare
          <5>3. Cardinality(bare(i - 1) \cup {i})
                  = IF i \in bare(i - 1) THEN Cardinality(bare(i - 1))
                                         ELSE Cardinality(bare(i - 1)) + 1
            BY <5>2, FS_AddElement, Zenon
          <5> QED
            BY <4>1, <5>1, <5>3
        <4>2. CASE ~ node[i].bare
          <5>1. bare(i) = bare(i - 1)
            BY <3>3, <4>2
          <5> QED
            BY <4>2, <5>1
        <4> QED
          BY <4>1, <4>2
      <3>5. /\ h[i] = h[i - 1] + node[i].room /\ c[i] = c[i - 1] + Charge(node[i])
            /\ h[i - 1] <= c[i - 1] + KB * a
            /\ h[i - 1] \in Nat /\ c[i - 1] \in Int
        BY <2>2, <2>3, <2>6, <3>1
      <3>6. /\ node[i].room \in Nat /\ node[i].bare \in BOOLEAN
            /\ node[i].bare /\ node[i].room > 0 => node[i].room >= KB
        BY <2>1
      <3> HIDE DEF a, b
      <3>7. Charge(node[i]) \in Int /\ node[i].room <= Charge(node[i]) + KB * (b - a)
        BY <3>2, <3>4, <3>6 DEF Charge
      <3>8. h[i] <= c[i] + KB * b
        <4> DEFINE r == node[i].room
                   x == Charge(node[i])
                   hi == h[i - 1]
                   ci == c[i - 1]
        <4>1. /\ r \in Nat /\ x \in Int /\ hi \in Nat /\ ci \in Int
              /\ r <= x + 2 * (b - a) /\ hi <= ci + 2 * a
              /\ h[i] = hi + r /\ c[i] = ci + x
          BY <3>5, <3>6, <3>7
        <4> HIDE DEF r, x, hi, ci
        <4>2. hi + r <= (ci + x) + 2 * b
          BY <3>2, <4>1
        <4> QED
          BY <4>1, <4>2
      <3> QED
        BY <3>1, <3>8 DEF b
    <2> HIDE DEF S, bare
    <2>7. \A i \in 0 .. n : i \in S
      BY <2>1, <2>5, <2>6, Climb
    <2>8. n \in 0 .. n
      BY <2>1
    <2>9. h[n] <= c[n] + KB * Cardinality(bare(n))
      BY <2>7, <2>8 DEF S
    <2>10. Cardinality(bare(n)) \in Nat /\ c[n] \in Int /\ h[n] \in Nat
      BY <2>2, <2>3, <2>4, <2>8
    <2>11. Rooms <= total + KB * Cardinality(bare(n))
      BY <2>1, <2>2, <2>3, <2>9, <2>10
    <2>12. bare(n) = {e \in Cells : node[e].bare}
      BY <2>1 DEF bare
    <2> QED
      BY <2>11, <2>12
  <1> QED
    BY <1>1, <1>2 DEF ContentsBacked

\* Contents end within their buffers, and all buffers of memoryfs together are
\* within total_bytes and a first kilobyte for each file that was created
\* without memory, although allocated_size loses track of the buffers.
THEOREM BuffersCounted == Spec => []ContentsBacked
  BY Invariance, ContentsFollow, PTL

-----------------------------------------------------------------------------
(* Refinement.  What NameSpace sees of a node is its link count, its kind  *)
(* and which object it is.  Of a directory the link count is never 0, so   *)
(* the directories that the tree of a name space needs are live.           *)

SameSeen(x, y) == y.nlink = x.nlink /\ y.kind = x.kind /\ y.id = x.id
SeenKept == \A d \in Cells : SameSeen(node[d], node'[d])

LinksInv == \A d \in Cells : node[d].kind = "dir" => node[d].nlink > 0

\* While this holds a path leads to the object that was made for it.
Sound == ~ exchanged /\ "number" \notin lost

\* What the tree shows at a path.
Seen(p) == [id |-> node[inode_map[p]].id, kind |-> node[inode_map[p]].kind]
TreeForm ==
  /\ Live = {p \in Paths : node[inode_map[p]].nlink > 0}
  /\ Tree = [p \in Live |-> Seen(p)] /\ DOMAIN Tree = Live
  /\ \A p \in Live : Tree[p] = Seen(p)

\* The tree of a state, without the map from cells to nodes.
LEMMA TreeIs == IInv /\ Sound => TreeForm
  <1> SUFFICES ASSUME IInv, Sound PROVE TreeForm
    OBVIOUS
  <1>1. \A p \in Paths : Entry(p) = inode_map[p]
    BY EntryIs DEF IInv, MapsInv, Sound
  <1>2. Live = {p \in Paths : node[inode_map[p]].nlink > 0}
    BY <1>1 DEF Live
  <1>3. Live \subseteq Paths
    BY <1>2
  <1>4. Tree = [p \in Live |-> Seen(p)]
    BY <1>1, <1>3 DEF Tree, Seen
  <1> QED
    BY <1>2, <1>4 DEF TreeForm

\* The tree of the next state.
LEMMA TreeIsNext == IInv' /\ Sound' => TreeForm'
  BY TreeIs, PTL

\* Nodes that differ in other fields show the same.
LEMMA SeenIs ==
  ASSUME TypeInv, NEW e \in Cells, NEW x, SameSeen(node[e], x),
         node' = [node EXCEPT ![e] = x]
  PROVE  SeenKept
  <1>1. e \in DOMAIN node /\ DOMAIN node = Cells
    BY TypesAre
  <1> QED
    BY <1>1 DEF SeenKept, SameSeen

\* A step that changes neither paths nor what nodes show leaves the tree alone.
LEMMA TreeStays ==
  ASSUME TypeInv, TreeForm, TreeForm', UNCHANGED inode_map, SeenKept
  PROVE  Tree' = Tree
  <1>1. \A p \in Paths : SameSeen(node[inode_map[p]], node'[inode_map[p]])
    BY PathIs DEF SeenKept
  <1>2. Live' = Live
    BY <1>1 DEF TreeForm, SameSeen
  <1>3. \A p \in Live : Seen(p)' = Seen(p)
    BY <1>1 DEF TreeForm, SameSeen, Seen
  <1> QED
    BY <1>2, <1>3 DEF TreeForm

\* Taking the lock of a directory shows nowhere.
LEMMA BeginSeen ==
  ASSUME IInv, NEW t \in Threads, Begin(t)
  PROVE  SeenKept /\ UNCHANGED <<inode_map, lost, exchanged>>
  <1>0. TypeInv /\ NumberInv /\ "number" \notin lost
    BY DEF IInv, MapsInv, Begin, Call
  <1>1. PICK p \in NewPaths \ Paths :
          /\ IsDir(Front(p))
          /\ node' = [node EXCEPT ![Entry(Front(p))].busy = program # "dummyfs"]
    BY DEF Begin
  <1> DEFINE c == Entry(Front(p))
             b == program # "dummyfs"
             o == node[c]
             x == [o EXCEPT !.busy = b]
  <1>2. c \in Cells /\ o \in NodeRec /\ b \in BOOLEAN
    BY <1>0, <1>1, EntryIs, TypesAre DEF IsDir
  <1>3. node' = [node EXCEPT ![c] = x]
    BY <1>1
  <1> HIDE DEF o, b
  <1>4. x.nlink = o.nlink /\ SameNames(o, x) /\ SameId(o, x)
    BY <1>2, SetBusy, Zenon
  <1>5. SameSeen(o, x)
    BY <1>4 DEF SameSeen, SameNames, SameId
  <1> HIDE DEF x, c
  <1>6. SeenKept
    BY <1>0, <1>2, <1>3, <1>5, SeenIs DEF o
  <1> QED
    BY <1>6 DEF Begin, ghosts

\* write and truncate show nowhere.
LEMMA ResizeSeen ==
  ASSUME IInv, Resize
  PROVE  SeenKept /\ UNCHANGED <<inode_map, lost, exchanged>>
  <1>1. PICK p \in Paths, to \in Sizes :
          /\ Call /\ IsFile(p)
          /\ \/ WriteMemory(Entry(p), to) \/ TruncateMemory(Entry(p), to)
             \/ WriteDummy(Entry(p), to) \/ TruncateDummy(Entry(p), to)
          /\ UNCHANGED <<program, inode_map, cell, entry_map, numbers, image, thread, ghosts>>
    BY DEF Resize
  <1>0. TypeInv /\ NumberInv /\ "number" \notin lost
    BY <1>1 DEF IInv, MapsInv, Call
  <1> DEFINE e == Entry(p)
  <1>2. e \in Cells /\ node[e] \in NodeRec /\ DOMAIN node = Cells
    BY <1>0, <1>1, EntryIs, TypesAre
  <1> HIDE DEF e
  <1>3. ASSUME NEW n, NEW a, NEW size,
               node' = [node EXCEPT ![e].room = n, ![e].allocated = a, ![e].size = size]
        PROVE  SeenKept
    BY <1>2, <1>3 DEF SeenKept, SameSeen, NodeRec
  <1>4. ASSUME NEW a, NEW size, node' = [node EXCEPT ![e].allocated = a, ![e].size = size]
        PROVE  SeenKept
    BY <1>2, <1>4 DEF SeenKept, SameSeen, NodeRec
  <1>5. ASSUME NEW size, node' = [node EXCEPT ![e].size = size]
        PROVE  SeenKept
    BY <1>2, <1>5 DEF SeenKept, SameSeen, NodeRec
  <1>6. ASSUME Deny(e) PROVE SeenKept
    BY <1>2, <1>6 DEF SeenKept, SameSeen, NodeRec, Deny
  <1>7. ASSUME UNCHANGED node PROVE SeenKept
    BY <1>7 DEF SeenKept, SameSeen
  <1>8. ASSUME WriteMemory(e, to) PROVE SeenKept
    <2>1. \/ Deny(e)
          \/ node' = [node EXCEPT ![e].room = to, ![e].allocated = to, ![e].size = to]
          \/ node' = [node EXCEPT ![e].allocated = to, ![e].size = to]
      BY <1>8 DEF WriteMemory, Reallocated
    <2> QED
      BY <1>3, <1>4, <1>6, <2>1, Zenon
  <1>9. ASSUME TruncateMemory(e, to) PROVE SeenKept
    <2> DEFINE n == Larger(to, KB)
    <2>1. \/ Deny(e)
          \/ node' = [node EXCEPT ![e].room = n, ![e].allocated = n, ![e].size = to]
      BY <1>9 DEF TruncateMemory, Reallocated
    <2> HIDE DEF n
    <2> QED
      BY <1>3, <1>6, <2>1, Zenon
  <1>10. ASSUME WriteDummy(e, to) \/ TruncateDummy(e, to) PROVE SeenKept
    <2>1. UNCHANGED node \/ node' = [node EXCEPT ![e].size = to]
      BY <1>10 DEF WriteDummy, TruncateDummy
    <2> QED
      BY <1>5, <1>7, <2>1, Zenon
  <1> QED
    BY <1>1, <1>8, <1>9, <1>10 DEF e, ghosts

\* Counting a removed entry shows nowhere, nor does releasing its directory.
LEMMA CountSeen ==
  ASSUME IInv, NEW t \in Threads, LoadCount(t) \/ StoreCount(t)
  PROVE  SeenKept /\ UNCHANGED <<inode_map, cell>>
  <1>0. TypeInv /\ OwnerInv
    BY DEF IInv, MapsInv
  <1>1. CASE LoadCount(t)
    BY <1>1 DEF LoadCount, tables, SeenKept, SameSeen
  <1>2. CASE StoreCount(t)
    <2> DEFINE c == Entry(Front(path[t]))
    <2>1. c \in Cells
      <3>1. Front(path[t]) \in Paths
        BY <1>0, <1>2 DEF StoreCount, OwnerInv, Locking, Owner
      <3> QED
        BY <1>0, <3>1, PathIs DEF Entry, TablesType
    <2>2. node' = [node EXCEPT ![c].busy = FALSE] /\ UNCHANGED <<inode_map, cell>>
      BY <1>2 DEF StoreCount, Cleared
    <2> HIDE DEF c
    <2>3. node[c] \in NodeRec /\ DOMAIN node = Cells
      BY <1>0, <2>1, TypesAre
    <2> QED
      BY <2>1, <2>2, <2>3 DEF SeenKept, SameSeen, NodeRec
  <1> QED
    BY <1>1, <1>2

\* create and mkdir show one more object and change none.
LEMMA AddSeen ==
  ASSUME IInv, NEW t \in Threads, pc[t] = "add", Entering(t)
  PROVE  LET e == Len(cell) + 1
         IN  /\ \A d \in Cells : SameSeen(node[d], node'[d])
             /\ node'[e].kind = kind[t] /\ node'[e].id = e /\ node'[e].nlink > 0
  <1> DEFINE e == Len(cell) + 1
             c == Entry(Owner(t))
             n == Append(node[c].children, e)
             y == [[node[c] EXCEPT !.children = n] EXCEPT !.busy = FALSE]
             x == [NewNode(Last(path[t]), kind[t], e) EXCEPT
                     !.room = Contents(t).room, !.allocated = Contents(t).allocated,
                     !.bare = Contents(t).bare]
  <1>0. TypeInv /\ Owner(t) \in Paths
    BY DEF IInv, MapsInv, OwnerInv, Locking
  <1>1. /\ c \in Cells /\ node[c] \in NodeRec /\ DOMAIN node = Cells
        /\ Cells = 1 .. Len(node) /\ Len(node) \in Nat /\ e = Len(node) + 1
        /\ node \in Seq(NodeRec)
    BY <1>0, PathIs, TypesAre DEF Entry, TablesType
  <1>2. SameSeen(node[c], y)
    <2> DEFINE o == node[c]
    <2>1. o \in NodeRec
      BY <1>1
    <2> HIDE DEF o, n
    <2>2. SameSeen(o, [[o EXCEPT !.children = n] EXCEPT !.busy = FALSE])
      BY <2>1 DEF SameSeen, NodeRec
    <2> QED
      BY <2>2 DEF o
  <1>3. x.nlink > 0 /\ x.kind = kind[t] /\ x.id = e
    <2> DEFINE l == Last(path[t])
               k == kind[t]
               r == Contents(t).room
               a == Contents(t).allocated
               b == Contents(t).bare
    <2>1. x.nlink = (IF kind[t] = "dir" THEN 2 ELSE 1) /\ x.kind = kind[t] /\ x.id = e
      <3> HIDE DEF l, k, e, r, a, b
      <3>1. LET z == [NewNode(l, k, e) EXCEPT !.room = r, !.allocated = a, !.bare = b]
            IN  /\ z.nlink = (IF k = "dir" THEN 2 ELSE 1) /\ z.kind = k /\ z.id = e
        BY DEF NewNode
      <3> QED
        BY <3>1 DEF l, k, e, r, a, b
    <2> HIDE DEF x
    <2> QED
      BY <2>1
  <1>4. node' = Append([node EXCEPT ![c] = y], x)
    BY <1>1 DEF Entering, Cleared
  <1> HIDE DEF c, y, x
  <1> DEFINE s == [node EXCEPT ![c] = y]
  <1>5. /\ Len(s) = Len(node) /\ DOMAIN s = Cells
        /\ \A d \in Cells : s[d] = IF d = c THEN y ELSE node[d]
    BY <1>1
  <1>6. /\ node'[e] = x /\ \A d \in Cells : node'[d] = s[d]
    <2>1. s \in Seq(NodeRec \cup {y})
      BY <1>1
    <2> HIDE DEF s
    <2> QED
      BY <1>1, <1>4, <1>5, <2>1
  <1> HIDE DEF s, e
  <1> QED
    BY <1>2, <1>3, <1>5, <1>6 DEF SameSeen, e

\* rename moves objects and changes nothing else that shows.
LEMMA RenameSeen ==
  ASSUME TypeInv, NEW o \in Cells, NEW a \in Cells, NEW b \in Cells, NEW name,
         Hung(o, a, b, name)
  PROVE  SeenKept
  <1>1. DOMAIN node = Cells /\ \A d \in Cells : node[d] \in NodeRec
    BY TypesAre
  <1> DEFINE sa == RemoveFirst(node[a].children, o)
             removed == [node EXCEPT ![a].children = sa]
             sb == Append(removed[b].children, o)
             appended == [removed EXCEPT ![b].children = sb]
  <1>2. node' = [appended EXCEPT ![o].name = name]
    BY <1>1 DEF Hung
  <1> HIDE DEF sa
  <1>3. /\ DOMAIN removed = Cells /\ \A d \in Cells : SameSeen(node[d], removed[d])
        /\ \A d \in Cells : DOMAIN removed[d] = DOMAIN node[d]
    BY <1>1 DEF SameSeen, NodeRec
  <1> HIDE DEF removed, sb
  <1>4. /\ DOMAIN appended = Cells /\ \A d \in Cells : SameSeen(removed[d], appended[d])
        /\ \A d \in Cells : DOMAIN appended[d] = DOMAIN removed[d]
    BY <1>1, <1>3 DEF SameSeen, NodeRec
  <1> HIDE DEF appended
  <1>5. \A d \in Cells : SameSeen(appended[d], node'[d])
    BY <1>1, <1>2, <1>3, <1>4 DEF SameSeen, NodeRec
  <1> QED
    BY <1>3, <1>4, <1>5 DEF SeenKept, SameSeen

\* unlink takes one file out of what shows.
LEMMA UnlinkSeen ==
  ASSUME IInv, NEW p \in Paths, Entry(p) \in Cells, UnlinkKept(p) \/ UnlinkErased(p),
         p # Root => Entry(Front(p)) \in Cells, UnlinkErased(p) => p # Root
  PROVE  /\ node'[Entry(p)].nlink = 0
         /\ \A d \in Cells : /\ node'[d].kind = node[d].kind /\ node'[d].id = node[d].id
                             /\ d # Entry(p) => node'[d].nlink = node[d].nlink
  <1> DEFINE e == Entry(p)
             c == Entry(Front(p))
  <1>1. DOMAIN node = Cells /\ \A d \in Cells : node[d] \in NodeRec
    BY TypesAre DEF IInv, MapsInv
  <1> HIDE DEF e, c
  <1>2. CASE node' = [node EXCEPT ![e].nlink = 0]
    BY <1>1, <1>2 DEF NodeRec, e
  <1>3. ASSUME NEW s, c \in Cells,
               node' = [node EXCEPT ![e].nlink = 0, ![c].children = s, ![c].busy = TRUE]
        PROVE  /\ node'[e].nlink = 0
               /\ \A d \in Cells : /\ node'[d].kind = node[d].kind /\ node'[d].id = node[d].id
                                   /\ d # e => node'[d].nlink = node[d].nlink
    BY <1>1, <1>3 DEF NodeRec, e
  <1>4. UnlinkKept(p) => node' = [node EXCEPT ![e].nlink = 0]
    BY DEF UnlinkKept, e
  <1>5. UnlinkErased(p) =>
          \E s : node' = [node EXCEPT ![e].nlink = 0, ![c].children = s, ![c].busy = TRUE]
    BY DEF UnlinkErased, e, c
  <1>6. UnlinkErased(p) => c \in Cells
    BY DEF c
  <1> QED
    BY <1>2, <1>3, <1>4, <1>5, <1>6 DEF e

\* The file that unlink removes, and its directory.
LEMMA UnlinkAt ==
  ASSUME IInv, NEW p \in Paths, IsFile(p), Alone(p), UnlinkKept(p) \/ UnlinkErased(p)
  PROVE  /\ Entry(p) = inode_map[p] /\ inode_map[p] \in Cells /\ node[Entry(p)].kind = "file"
         /\ node'[Entry(p)].nlink = 0
         /\ \A d \in Cells : /\ node'[d].kind = node[d].kind /\ node'[d].id = node[d].id
                             /\ d # Entry(p) => node'[d].nlink = node[d].nlink
         /\ p # Root
  <1>0. /\ TypeInv /\ NumberInv /\ TreeInv /\ "number" \notin lost /\ ~ exchanged
    BY DEF IInv, MapsInv, Alone, Call
  <1>1. Entry(p) = inode_map[p] /\ inode_map[p] \in Cells /\ node[Entry(p)].kind = "file"
    BY <1>0, EntryIs DEF IsFile
  <1>2. Above(p)
    BY <1>0 DEF TreeInv
  <1>3. p # Root /\ Front(p) \in Paths
    BY <1>1, <1>2 DEF Above
  <1>4. Entry(Front(p)) \in Cells
    BY <1>0, <1>3, EntryIs
  <1> QED
    BY <1>1, <1>3, <1>4, UnlinkSeen

\* The objects at p and q change places, both without children.
Swapped(p, q) ==
  /\ p # Root /\ q # Root /\ p # q /\ ~ IsPrefix(p, q) /\ ~ IsPrefix(q, p)
  /\ Sound /\ Cells' = Cells /\ inode_map' = inode_map
  /\ inode_map[p] # inode_map[q]
  /\ node'[inode_map[p]] = node[inode_map[q]] /\ node'[inode_map[q]] = node[inode_map[p]]
  /\ \A d \in Cells : d # inode_map[p] /\ d # inode_map[q] => node'[d] = node[d]
  /\ ~ exchanged' => node[inode_map[p]].children = <<>> /\ node[inode_map[q]].children = <<>>

\* RENAME_EXCHANGE swaps two nodes whole.
LEMMA ExchangeSeen ==
  ASSUME IInv, Exchange
  PROVE  \E p, q \in Paths : Swapped(p, q)
  <1>1. PICK p, q \in Paths \ {Root} :
          /\ ~ IsPrefix(p, q) /\ ~ IsPrefix(q, p) /\ Alone(p)
          /\ node' = [node EXCEPT ![Entry(p)] = node[Entry(q)], ![Entry(q)] = node[Entry(p)]]
          /\ exchanged' = \/ Last(p) # Last(q)
                          \/ node[Entry(p)].children # <<>> \/ node[Entry(q)].children # <<>>
          /\ UNCHANGED <<inode_map, cell>>
    BY DEF Exchange
  <1>0. /\ TypeInv /\ NumberInv /\ InjectiveInv /\ Sound /\ DOMAIN node = Cells
    BY <1>1, TypesAre DEF IInv, MapsInv, Alone, Call, Sound
  <1> DEFINE x == inode_map[p]
             y == inode_map[q]
  <1>2. x \in Cells /\ y \in Cells /\ Entry(p) = x /\ Entry(q) = y
    BY <1>0, EntryIs DEF Sound
  <1>3. p # q /\ x # y
    <2>1. IsPrefix(p, p)
      BY <1>0, PathIs, PrefixOrder
    <2> QED
      BY <1>0, <1>1, <2>1 DEF InjectiveInv
  <1> HIDE DEF x, y
  <1>4. node' = [[node EXCEPT ![x] = node[y]] EXCEPT ![y] = node[x]]
    BY <1>1, <1>2
  <1>5. /\ node'[x] = node[y] /\ node'[y] = node[x]
        /\ \A d \in Cells : d # x /\ d # y => node'[d] = node[d]
    BY <1>0, <1>2, <1>3, <1>4
  <1>6. ~ exchanged' => node[x].children = <<>> /\ node[y].children = <<>>
    BY <1>1, <1>2
  <1> QED
    BY <1>0, <1>1, <1>3, <1>5, <1>6 DEF Swapped, x, y

\* Directories keep a link.
LEMMA LinksKept ==
  ASSUME IInv, LinksInv, UNCHANGED cell, SeenKept
  PROVE  LinksInv'
  BY DEF LinksInv, SeenKept, SameSeen

\* Every step leaves each directory a link: unlink takes one from files only,
\* and an exchange swaps nodes whole.
LEMMA LinksNext == IInv /\ LinksInv /\ [Next]_vars => LinksInv'
  <1> SUFFICES ASSUME IInv, LinksInv, [Next]_vars PROVE LinksInv'
    OBVIOUS
  <1>0. TypeInv /\ NumberInv
    BY DEF IInv, MapsInv
  <1>1. ASSUME UNCHANGED <<cell, node>> PROVE LinksInv'
    BY <1>1 DEF LinksInv
  <1>2. ASSUME NEW t \in Threads, Begin(t) \/ Load(t) \/ Store(t) \/ Walk(t) \/ Save(t)
        PROVE  LinksInv'
    <2>1. CASE Begin(t)
      BY <2>1, BeginSeen, LinksKept DEF Begin
    <2>2. CASE Load(t) \/ Store(t) \/ Walk(t) \/ Save(t)
      BY <1>1, <2>2 DEF Load, Store, Walk, Save, tables
    <2> QED
      BY <1>2, <2>1, <2>2
  <1>3. ASSUME NEW t \in Threads, Add(t) PROVE LinksInv'
    <2>1. pc[t] = "add" /\ (UNCHANGED tables \/ Entering(t))
      BY <1>3 DEF Add, Entering, Owner
    <2>2. CASE UNCHANGED tables
      BY <1>1, <2>2 DEF tables
    <2>3. CASE Entering(t)
      <3> DEFINE e == Len(cell) + 1
      <3>1. /\ \A d \in Cells : SameSeen(node[d], node'[d])
            /\ node'[e].nlink > 0
        BY <2>1, <2>3, AddSeen
      <3>2. Cells' = Cells \cup {e}
        <4>1. Len(cell) \in Nat /\ Cells = 1 .. Len(cell) /\ cell \in Seq(CellRec)
          BY <1>0, TypesAre DEF TablesType
        <4>2. cell' = Append(cell, got[t])
          BY <2>3 DEF Entering
        <4> QED
          BY <4>1, <4>2
      <3> HIDE DEF e
      <3> QED
        BY <3>1, <3>2 DEF LinksInv, SameSeen
    <2> QED
      BY <2>1, <2>2, <2>3
  <1>4. ASSUME Unlink PROVE LinksInv'
    <2>1. PICK p \in Paths : /\ IsFile(p) /\ Alone(p) /\ UNCHANGED cell
                             /\ UnlinkKept(p) \/ UnlinkErased(p)
      BY <1>4 DEF Unlink
    <2>2. /\ node'[Entry(p)].nlink = 0 /\ node[Entry(p)].kind = "file"
          /\ \A d \in Cells : /\ node'[d].kind = node[d].kind
                              /\ d # Entry(p) => node'[d].nlink = node[d].nlink
      BY <2>1, UnlinkAt
    <2> QED
      BY <2>1, <2>2 DEF LinksInv
  <1>5. ASSUME Rename PROVE LinksInv'
    <2>1. CASE Cut
      BY <1>1, <2>1 DEF Cut, tables
    <2>2. ASSUME NEW old \in Seq(Name), NEW new \in Seq(Name), NEW o \in Cells, NEW a \in Cells,
                 NEW b \in Cells, Renamed(old, new, o, a, b)
          PROVE  SeenKept
      BY <1>0, <2>2, RenameSeen DEF Renamed
    <2>3. UNCHANGED cell
      BY <1>5 DEF Rename
    <2> QED
      BY <1>5, <2>1, <2>2, <2>3, RenameIs, LinksKept
  <1>6. ASSUME Exchange PROVE LinksInv'
    <2>1. PICK p, q \in Paths : Swapped(p, q)
      BY <1>6, ExchangeSeen
    <2>2. inode_map[p] \in Cells /\ inode_map[q] \in Cells
      BY <1>0, PathIs
    <2> QED
      BY <2>1, <2>2 DEF LinksInv, Swapped
  <1>7. ASSUME Resize PROVE LinksInv'
    BY <1>7, ResizeSeen, LinksKept DEF Resize
  <1>8. ASSUME NEW t \in Threads, LoadCount(t) \/ StoreCount(t) PROVE LinksInv'
    BY <1>8, CountSeen, LinksKept
  <1> QED
    BY <1>1, <1>2, <1>3, <1>4, <1>5, <1>6, <1>7, <1>8 DEF Next, vars, tables

\* A directory of the tree.
LEMMA DirSeen ==
  ASSUME LinksInv, TreeForm, TypeInv, NEW p \in Paths, node[inode_map[p]].kind = "dir"
  PROVE  AsTree!IsDir(p)
  <1>1. node[inode_map[p]].nlink > 0
    BY PathIs DEF LinksInv
  <1>2. p \in Live
    BY <1>1 DEF TreeForm
  <1>3. p \in DOMAIN Tree /\ Tree[p].kind = "dir"
    BY <1>2 DEF TreeForm, Seen
  <1> QED
    BY <1>3 DEF AsTree!IsDir

\* The words of NameSpace for paths are those of FsNames.
LEMMA SameWords ==
  ASSUME NEW p, NEW q
  PROVE  AsTree!Front(p) = Front(p) /\ (AsTree!IsPrefix(p, q) <=> IsPrefix(p, q))
  BY DEF AsTree!Front, Front, AsTree!IsPrefix, IsPrefix

\* create and mkdir make one object.
LEMMA AddMakes ==
  ASSUME IInv, LinksInv, Sound, TreeForm, TreeForm', TypeInv', NumberInv', "number" \notin lost',
         NEW t \in Threads, pc[t] = "add", Entering(t)
  PROVE  AsTree!Make
  <1> DEFINE e == Len(cell) + 1
  <1>p. PICK p : p = path[t]
    OBVIOUS
  <1>0. /\ TypeInv /\ TreeInv /\ IdInv /\ e \notin Cells /\ DOMAIN node = Cells
        /\ \A d \in Cells : node[d].id \in Cells
    <2>1. TypeInv /\ TreeInv /\ IdInv
      BY DEF IInv, MapsInv
    <2>2. Len(cell) \in Nat /\ Cells = 1 .. Len(cell) /\ DOMAIN node = Cells
      BY <2>1, TypesAre
    <2> QED
      BY <2>1, <2>2 DEF IdInv
  <1>1. /\ p \notin Paths /\ Front(p) \in Paths /\ node[inode_map[Front(p)]].kind = "dir"
        /\ p # Root
    BY <1>p, ThreadPath DEF IInv, MapsInv, OwnerInv, Locking, Owner
  <1>2. /\ \A d \in Cells : SameSeen(node[d], node'[d])
        /\ node'[e].kind = kind[t] /\ node'[e].id = e /\ node'[e].nlink > 0
    BY AddSeen
  <1>3. /\ Paths' = Paths \cup {p} /\ inode_map'[p] = e
        /\ \A q \in Paths : inode_map'[q] = inode_map[q]
    BY <1>p, <1>1 DEF Entering
  <1> HIDE DEF e
  <1>4. \A q \in Paths : inode_map[q] \in Cells
    BY <1>0, PathIs
  <1>5. p \in Live' /\ p \notin Live /\ Seen(p)'.id = e
    BY <1>1, <1>2, <1>3 DEF TreeForm, Seen
  <1>6. Live' = Live \cup {p} /\ \A q \in Live : Seen(q)' = Seen(q)
    BY <1>1, <1>2, <1>3, <1>4, <1>5 DEF TreeForm, SameSeen, Seen
  <1>7. AsTree!IsDir(AsTree!Front(p))
    BY <1>0, <1>1, DirSeen, SameWords
  <1>8. \A q \in DOMAIN Tree : Tree[q].id # Tree'[p].id
    BY <1>0, <1>4, <1>5 DEF TreeForm, Seen
  <1>9. Tree' = [q \in DOMAIN Tree \cup {p} |-> IF q = p THEN Tree'[p] ELSE Tree[q]]
    BY <1>5, <1>6 DEF TreeForm
  <1>10. p \in DOMAIN Tree' \ DOMAIN Tree
    BY <1>5 DEF TreeForm
  <1> QED
    BY <1>1, <1>7, <1>8, <1>9, <1>10 DEF AsTree!Make

\* unlink deletes one file.
LEMMA UnlinkDeletes ==
  ASSUME IInv, LinksInv, Sound, TreeForm, TreeForm', Unlink
  PROVE  AsTree!Delete
  <1>1. PICK p \in Paths :
          /\ IsFile(p) /\ Alone(p) /\ node[Entry(p)].nlink > 0
          /\ UnlinkKept(p) \/ UnlinkErased(p)
    BY DEF Unlink
  <1>0. TypeInv /\ InjectiveInv
    BY DEF IInv, MapsInv
  <1>2. /\ Entry(p) = inode_map[p] /\ inode_map[p] \in Cells /\ node[Entry(p)].kind = "file"
        /\ node'[Entry(p)].nlink = 0
        /\ \A d \in Cells : /\ node'[d].kind = node[d].kind /\ node'[d].id = node[d].id
                            /\ d # Entry(p) => node'[d].nlink = node[d].nlink
    BY <1>1, UnlinkAt
  <1>3. /\ Paths' = Paths \/ Paths' = Paths \ {p}
        /\ \A q \in Paths \ {p} : q \in Paths' /\ inode_map'[q] = inode_map[q]
        /\ p \in Paths' => inode_map'[p] = inode_map[p]
    BY <1>1 DEF UnlinkKept, UnlinkErased
  <1>4. \A q \in Paths \ {p} : inode_map[q] \in Cells /\ inode_map[q] # inode_map[p]
    BY <1>0, PathIs DEF InjectiveInv
  <1>5. p \in Live /\ Seen(p).kind = "file" /\ p \notin Live'
    BY <1>1, <1>2, <1>3 DEF TreeForm, Seen
  <1>6. Live' = Live \ {p} /\ \A q \in Live \ {p} : Seen(q)' = Seen(q)
    BY <1>2, <1>3, <1>4, <1>5 DEF TreeForm, Seen
  <1>7. Tree' = [q \in DOMAIN Tree \ {p} |-> Tree[q]]
    BY <1>6 DEF TreeForm
  <1>8. p \in DOMAIN Tree /\ Tree[p].kind = "file"
    BY <1>5 DEF TreeForm
  <1> QED
    BY <1>7, <1>8 DEF AsTree!Delete

\* Nothing lies below an object without children.
LEMMA NothingInside ==
  ASSUME TypeInv, \A q \in Paths : Above(q), NEW p \in Paths,
         node[inode_map[p]].children = <<>>
  PROVE  \A q \in Paths : IsPrefix(p, q) => q = p
  <1> SUFFICES ASSUME NEW q \in Paths, IsPrefix(p, q), q # p PROVE FALSE
    OBVIOUS
  <1>1. p \in Seq(Name) /\ q \in Seq(Name)
    BY PathIs
  <1>2. /\ Len(p) \in Nat /\ Len(q) \in Nat /\ Len(p) <= Len(q)
        /\ \A i \in 1 .. Len(p) : p[i] = q[i]
    BY <1>1, PrefixMeans
  <1>3. Len(p) # Len(q)
    BY <1>1, <1>2
  <1> DEFINE i == Len(p) + 1
             s == SubSeq(q, 1, i)
  <1>4. i \in 1 .. Len(q) /\ i \in 0 .. Len(q) /\ i - 1 = Len(p)
    BY <1>2, <1>3
  <1> HIDE DEF i
  <1>5. s \in Paths
    BY <1>4, PathsClosed
  <1>6. s # <<>> /\ Front(s) = SubSeq(q, 1, Len(p))
    BY <1>1, <1>4, InitialFront
  <1>7. SubSeq(q, 1, Len(p)) = p
    <2>1. /\ SubSeq(q, 1, Len(p)) \in Seq(Name) /\ Len(SubSeq(q, 1, Len(p))) = Len(p)
          /\ \A k \in 1 .. Len(p) : SubSeq(q, 1, Len(p))[k] = q[k]
      BY <1>1, <1>2
    <2> DEFINE u == SubSeq(q, 1, Len(p))
    <2>2. u \in Seq(Name) /\ Len(u) = Len(p) /\ \A k \in 1 .. Len(p) : u[k] = p[k]
      BY <1>2, <2>1
    <2> HIDE DEF u
    <2>3. u = p
      BY <1>1, <2>2, SeqEqual
    <2> QED
      BY <2>3 DEF u
  <1> HIDE DEF s
  <1>8. inode_map[s] \in Range(node[inode_map[p]].children)
    BY <1>5, <1>6, <1>7 DEF Above
  <1> QED
    BY <1>8 DEF Range

\* A tree in which everything at and below `from` went along to `to`.
LEMMA MoveIs ==
  ASSUME TreeForm, TreeForm', Live \subseteq Seq(Name),
         NEW from \in Seq(Name), NEW to \in Seq(Name),
         from \in Live, from # Root, to \in Live', to \notin Live,
         AsTree!IsDir(Front(to)), ~ IsPrefix(from, to),
         Live' = {Now(p, from, to) : p \in Live},
         \A p \in Live : Tree'[Now(p, from, to)] = Tree[p]
  PROVE  AsTree!Move
  <1>1. from \in DOMAIN Tree \ {Root} /\ to \in DOMAIN Tree' \ DOMAIN Tree
    BY DEF TreeForm
  <1>2. AsTree!IsDir(AsTree!Front(to)) /\ ~ AsTree!IsPrefix(from, to)
    BY SameWords
  <1> DEFINE oldOf(p) == from \o SubSeq(p, Len(to) + 1, Len(p))
             newOf(p) == to \o SubSeq(p, Len(from) + 1, Len(p))
             kept == {p \in DOMAIN Tree : ~ AsTree!IsPrefix(from, p)}
             moved == {newOf(p) : p \in DOMAIN Tree \ kept}
  <1>3. /\ DOMAIN Tree = Live /\ DOMAIN Tree' = Live'
        /\ Tree' = [p \in Live' |-> Tree'[p]]
    BY DEF TreeForm
  <1>4. kept = {p \in Live : ~ IsPrefix(from, p)}
    BY <1>3, SameWords
  <1>5. \A p : newOf(p) = Relocated(p, from, to) /\ oldOf(p) = Relocated(p, to, from)
    BY DEF Relocated, Rest
  <1> HIDE DEF oldOf, newOf, kept
  <1>6. ASSUME NEW p \in Live PROVE Now(p, from, to) = IF p \in kept THEN p ELSE newOf(p)
    BY <1>4, <1>5 DEF Now
  <1>7. Live' = kept \cup moved
    <2>1. \A p \in Live : Now(p, from, to) \in kept \cup moved
      BY <1>3, <1>6
    <2>2. \A p \in kept : p \in Live /\ p = Now(p, from, to)
      BY <1>4, <1>6
    <2>3. ASSUME NEW q \in moved PROVE \E p \in Live : q = Now(p, from, to)
      BY <1>3, <1>6
    <2> HIDE DEF moved
    <2> QED
      BY <2>1, <2>2, <2>3
  <1>8. ASSUME NEW q \in kept \cup moved
        PROVE  Tree'[q] = IF q \in kept THEN Tree[q] ELSE Tree[oldOf(q)]
    <2>1. CASE q \in kept
      <3>1. q \in Live /\ Now(q, from, to) = q
        BY <1>4, <1>6, <2>1
      <3> QED
        BY <2>1, <3>1
    <2>2. CASE q \notin kept
      <3>1. PICK p \in Live : p \notin kept /\ q = newOf(p)
        BY <1>3, <2>2
      <3>2. IsPrefix(from, p) /\ p \in Seq(Name) /\ q = Relocated(p, from, to)
        BY <1>4, <1>5, <3>1
      <3>3. Relocated(q, to, from) = p
        BY <3>2, RelocatedPath
      <3>4. oldOf(q) = p /\ q = Now(p, from, to)
        BY <1>5, <1>6, <3>1, <3>3
      <3> QED
        BY <2>2, <3>1, <3>4
    <2> QED
      BY <2>1, <2>2
  <1>9. Tree' = [q \in kept \cup moved |-> IF q \in kept THEN Tree[q] ELSE Tree[oldOf(q)]]
    <2> HIDE DEF moved
    <2> QED
      BY <1>3, <1>7, <1>8
  <1> QED
    BY <1>1, <1>2, <1>9 DEF AsTree!Move, oldOf, newOf, kept

\* rename moves one subtree, or what only an unlinked file had as its path.
LEMMA RenameMoves ==
  ASSUME IInv, LinksInv, Sound, TreeForm, TreeForm', Rename
  PROVE  AsTree!Move \/ Tree' = Tree
  <1>a. CASE Cut
    <2>1. TypeInv /\ UNCHANGED <<inode_map, node>>
      BY <1>a DEF IInv, MapsInv, Cut, tables
    <2> QED
      BY <2>1, TreeStays DEF SeenKept, SameSeen
  <1>b. SUFFICES ASSUME NEW old \in Seq(Name), NEW new \in Seq(Name),
                        NEW o \in Cells, NEW a \in Cells, NEW b \in Cells,
                        Renamed(old, new, o, a, b)
                 PROVE  AsTree!Move \/ Tree' = Tree
    BY <1>a, RenameIs
  <1>1. Renamed(old, new, o, a, b)
    BY <1>b
  <1>0. TypeInv /\ TreeInv /\ "number" \notin lost /\ ~ exchanged /\ \A q \in Paths : Above(q)
    BY DEF IInv, MapsInv, Sound, TreeInv
  <1>2. SeenKept
    BY <1>0, <1>1, RenameSeen DEF Renamed
  <1>3. /\ old \in Paths /\ old # Root /\ new \notin Paths /\ ~ IsPrefix(old, new)
        /\ o = inode_map[old] /\ Front(new) \in Paths
        /\ node[inode_map[Front(new)]].kind = "dir"
    BY <1>1 DEF Renamed
  <1>4. /\ \A p \in Paths : /\ Now(p, old, new) \in Paths'
                            /\ inode_map'[Now(p, old, new)] = inode_map[p]
                            /\ ~ IsPrefix(old, p) => Now(p, old, new) = p
        /\ \A q \in Paths' : \E p \in Paths : q = Now(p, old, new)
        /\ Now(old, old, new) = new
    BY <1>0, <1>1, RenamedPaths
  <1>5. \A p \in Paths : inode_map[p] \in Cells /\ p \in Seq(Name)
    BY <1>0, PathIs
  <1>6. \A p \in Paths : Now(p, old, new) \in Live' <=> p \in Live
    BY <1>2, <1>4, <1>5 DEF TreeForm, SeenKept, SameSeen
  <1>7. Live' = {Now(p, old, new) : p \in Live}
    <2>1. \A q \in Live' : \E p \in Live : q = Now(p, old, new)
      BY <1>4, <1>6 DEF TreeForm
    <2>2. \A p \in Live : Now(p, old, new) \in Live'
      BY <1>6 DEF TreeForm
    <2> QED
      BY <2>1, <2>2
  <1>8. \A p \in Live : Tree'[Now(p, old, new)] = Tree[p]
    BY <1>2, <1>4, <1>5, <1>6 DEF TreeForm, SeenKept, SameSeen, Seen
  <1>9. CASE old \in Live
    <2>1. new \in Live' /\ new \notin Live /\ Live \subseteq Seq(Name)
      BY <1>3, <1>4, <1>5, <1>6, <1>9 DEF TreeForm
    <2>2. AsTree!IsDir(Front(new))
      BY <1>0, <1>3, DirSeen
    <2> QED
      BY <1>3, <1>7, <1>8, <1>9, <2>1, <2>2, MoveIs
  <1>10. CASE old \notin Live
    <2>1. node[o].kind # "dir" /\ node[o].kind \in {"file", "dir"}
      <3>1. node[o] \in NodeRec
        BY <1>0, TypesAre
      <3> QED
        BY <1>3, <1>10, <3>1 DEF TreeForm, LinksInv, NodeRec
    <2>2. node[inode_map[old]].children = <<>>
      BY <1>0, <1>3, <2>1 DEF TablesType
    <2>3. \A p \in Paths : IsPrefix(old, p) => p = old
      BY <1>0, <1>3, <2>2, NothingInside
    <2>4. Live \subseteq Paths /\ \A p \in Live : Now(p, old, new) = p
      BY <1>4, <1>10, <2>3 DEF TreeForm
    <2>5. Live' = Live /\ \A p \in Live : Tree'[p] = Tree[p]
      BY <1>7, <1>8, <2>4
    <2> QED
      BY <2>5 DEF TreeForm
  <1> QED
    BY <1>9, <1>10

\* What is left of the tree when two objects changed places.
LEMMA SwappedSeen ==
  ASSUME IInv, TreeForm, TreeForm', NEW p \in Paths, NEW q \in Paths, Swapped(p, q)
  PROVE  /\ Live' \subseteq Paths /\ Live \subseteq Paths
         /\ q \in Live' <=> p \in Live
         /\ p \in Live' <=> q \in Live
         /\ \A r \in Paths \ {p, q} : r \in Live' <=> r \in Live
         /\ p \in Live => Tree'[q] = Tree[p]
         /\ q \in Live => Tree'[p] = Tree[q]
         /\ \A r \in Live \ {p, q} : Tree'[r] = Tree[r]
  <1>0. TypeInv /\ InjectiveInv
    BY DEF IInv, MapsInv
  <1>1. /\ inode_map' = inode_map
        /\ node'[inode_map[p]] = node[inode_map[q]] /\ node'[inode_map[q]] = node[inode_map[p]]
        /\ \A d \in Cells : d # inode_map[p] /\ d # inode_map[q] => node'[d] = node[d]
    BY DEF Swapped
  <1>2. \A r \in Paths \ {p, q} : node'[inode_map[r]] = node[inode_map[r]]
    <2>1. \A r \in Paths \ {p, q} : /\ inode_map[r] \in Cells
                                    /\ inode_map[r] # inode_map[p] /\ inode_map[r] # inode_map[q]
      BY <1>0, PathIs DEF InjectiveInv
    <2> QED
      BY <1>1, <2>1
  <1>3. /\ Live' \subseteq Paths /\ Live \subseteq Paths
        /\ q \in Live' <=> p \in Live
        /\ p \in Live' <=> q \in Live
        /\ \A r \in Paths \ {p, q} : r \in Live' <=> r \in Live
    BY <1>1, <1>2 DEF TreeForm
  <1>4. Seen(p)' = Seen(q) /\ Seen(q)' = Seen(p)
    BY <1>1 DEF Seen
  <1>5. \A r \in Paths \ {p, q} : Seen(r)' = Seen(r)
    BY <1>1, <1>2 DEF Seen
  <1>6. /\ p \in Live => Tree'[q] = Tree[p]
        /\ q \in Live => Tree'[p] = Tree[q]
    BY <1>3, <1>4 DEF TreeForm
  <1>7. \A r \in Live \ {p, q} : Tree'[r] = Tree[r]
    BY <1>3, <1>5 DEF TreeForm
  <1> QED
    BY <1>3, <1>6, <1>7

\* An exchange with the path of an unlinked file moves the other object there.
LEMMA HalfExchangeMoves ==
  ASSUME IInv, LinksInv, TreeForm, TreeForm', NEW p \in Paths, NEW q \in Paths, Swapped(p, q),
         ~ exchanged', p \in Live, q \notin Live
  PROVE  AsTree!Move
  <1>0. TypeInv /\ \A r \in Paths : Above(r)
    BY DEF IInv, MapsInv, TreeInv, Swapped, Sound
  <1>1. \A r \in Paths : r \in Seq(Name)
    BY <1>0, PathIs
  <1>2. /\ Live' \subseteq Paths /\ Live \subseteq Paths
        /\ q \in Live' <=> p \in Live
        /\ p \in Live' <=> q \in Live
        /\ \A r \in Paths \ {p, q} : r \in Live' <=> r \in Live
        /\ p \in Live => Tree'[q] = Tree[p]
        /\ \A r \in Live \ {p, q} : Tree'[r] = Tree[r]
    BY SwappedSeen
  <1>3. /\ node[inode_map[p]].children = <<>>
        /\ p # Root /\ q # Root /\ p # q /\ ~ IsPrefix(p, q)
    BY DEF Swapped
  <1>4. \A r \in Paths : IsPrefix(p, r) => r = p
    BY <1>0, <1>3, NothingInside
  <1>5. Now(p, p, q) = q
    <2>1. p \in Seq(Name) /\ q \in Seq(Name)
      BY <1>1
    <2>2. IsPrefix(p, p) /\ Relocated(p, p, q) = q
      BY <2>1, PrefixOrder, RelocatedSelf
    <2> QED
      BY <2>2 DEF Now
  <1>6. \A r \in Paths : r # p => Now(r, p, q) = r
    BY <1>4 DEF Now
  <1>7. Live' = {Now(r, p, q) : r \in Live}
    <2>1. ASSUME NEW r \in Live PROVE Now(r, p, q) \in Live'
      BY <1>2, <1>5, <1>6
    <2>2. ASSUME NEW r \in Live' PROVE \E s \in Live : r = Now(s, p, q)
      BY <1>2, <1>5, <1>6
    <2> QED
      BY <2>1, <2>2
  <1>8. \A r \in Live : Tree'[Now(r, p, q)] = Tree[r]
    BY <1>2, <1>5, <1>6
  <1>9. AsTree!IsDir(Front(q))
    BY <1>0, <1>3, DirSeen DEF Above
  <1>10. Live \subseteq Seq(Name) /\ p \in Seq(Name) /\ q \in Seq(Name) /\ q \in Live'
    BY <1>1, <1>2
  <1> QED
    BY <1>3, <1>7, <1>8, <1>9, <1>10, MoveIs

\* RENAME_EXCHANGE of two objects with equal names and no children.
LEMMA ExchangeMoves ==
  ASSUME IInv, LinksInv, TreeForm, TreeForm', Exchange, ~ exchanged'
  PROVE  AsTree!Exchange \/ AsTree!Move \/ Tree' = Tree
  <1>1. PICK p, q \in Paths : Swapped(p, q)
    BY ExchangeSeen
  <1>2. Swapped(q, p)
    BY <1>1 DEF Swapped
  <1>3. /\ Live' \subseteq Paths /\ Live \subseteq Paths
        /\ q \in Live' <=> p \in Live
        /\ p \in Live' <=> q \in Live
        /\ \A r \in Paths \ {p, q} : r \in Live' <=> r \in Live
        /\ p \in Live => Tree'[q] = Tree[p]
        /\ q \in Live => Tree'[p] = Tree[q]
        /\ \A r \in Live \ {p, q} : Tree'[r] = Tree[r]
    BY <1>1, SwappedSeen
  <1>4. p # q
    BY <1>1 DEF Swapped
  <1>5. CASE p \in Live /\ q \in Live
    <2>1. Live' = Live /\ Tree' = [r \in Live |-> Tree'[r]] /\ DOMAIN Tree = Live
          /\ Tree = [r \in Live |-> Tree[r]]
      BY <1>3, <1>5 DEF TreeForm
    <2>2. Tree' = [Tree EXCEPT ![p] = Tree[q], ![q] = Tree[p]]
      BY <1>3, <1>4, <1>5, <2>1
    <2>3. p \in DOMAIN Tree /\ q \in DOMAIN Tree
      BY <1>5, <2>1
    <2> QED
      BY <2>2, <2>3 DEF AsTree!Exchange
  <1>6. CASE p \in Live /\ q \notin Live
    BY <1>1, <1>6, HalfExchangeMoves
  <1>7. CASE p \notin Live /\ q \in Live
    BY <1>2, <1>7, HalfExchangeMoves
  <1>8. CASE p \notin Live /\ q \notin Live
    <2>1. Live' = Live /\ \A r \in Live : Tree'[r] = Tree[r]
      BY <1>3, <1>8
    <2> QED
      BY <2>1 DEF TreeForm
  <1> QED
    BY <1>5, <1>6, <1>7, <1>8

\* While no number was given twice and no exchange left names and paths
\* different, each step is one of the abstract name space, or shows nothing.
LEMMA NextMoves ==
  ASSUME IInv, LinksInv, IInv', Sound, Sound', [Next]_vars
  PROVE  AsTree!Make \/ AsTree!Delete \/ AsTree!Move \/ AsTree!Exchange \/ Tree' = Tree
  <1>0. TypeInv /\ TypeInv' /\ NumberInv' /\ "number" \notin lost' /\ ~ exchanged'
    BY DEF IInv, MapsInv, Sound
  <1>1. TreeForm /\ TreeForm'
    BY TreeIs, TreeIsNext
  <1>2. ASSUME UNCHANGED <<inode_map, node>> PROVE Tree' = Tree
    BY <1>0, <1>1, <1>2, TreeStays DEF SeenKept, SameSeen
  <1>3. ASSUME NEW t \in Threads, Begin(t) PROVE Tree' = Tree
    BY <1>0, <1>1, <1>3, BeginSeen, TreeStays
  <1>4. ASSUME NEW t \in Threads, Load(t) \/ Store(t) \/ Walk(t) \/ Save(t) PROVE Tree' = Tree
    BY <1>2, <1>4 DEF Load, Store, Walk, Save, tables
  <1>5. ASSUME NEW t \in Threads, Add(t) PROVE AsTree!Make \/ Tree' = Tree
    <2>1. pc[t] = "add" /\ (UNCHANGED tables \/ Entering(t))
      BY <1>5 DEF Add, Entering, Owner
    <2>2. CASE UNCHANGED tables
      BY <1>2, <2>2 DEF tables
    <2>3. CASE Entering(t)
      BY <1>0, <1>1, <2>1, <2>3, AddMakes
    <2> QED
      BY <2>1, <2>2, <2>3
  <1>6. CASE Unlink
    BY <1>1, <1>6, UnlinkDeletes
  <1>7. CASE Rename
    BY <1>1, <1>7, RenameMoves
  <1>8. CASE Exchange
    BY <1>0, <1>1, <1>8, ExchangeMoves
  <1>9. CASE Resize
    BY <1>0, <1>1, <1>9, ResizeSeen, TreeStays
  <1>10. CASE UNCHANGED vars
    BY <1>2, <1>10 DEF vars, tables
  <1>11. ASSUME NEW t \in Threads, LoadCount(t) \/ StoreCount(t) PROVE Tree' = Tree
    BY <1>0, <1>1, <1>11, CountSeen, TreeStays
  <1> QED
    BY <1>3, <1>4, <1>5, <1>6, <1>7, <1>8, <1>9, <1>10, <1>11 DEF Next

\* A file system starts with a root and what lies in it, each directory with a
\* link.
LEMMA InitMoves == Init => LinksInv /\ AsTree!Init
  <1> SUFFICES ASSUME Init PROVE LinksInv /\ AsTree!Init
    OBVIOUS
  <1>0. IInv /\ Sound
    BY InitHolds DEF Init, Sound
  <1>1. LinksInv
    <2> DEFINE n == Len(FirstFiles)
    <2>1. Cells = 1 .. n + 1 /\ n \in Nat
      BY DEF Init, FirstFiles
    <2>2. \A e \in 1 .. n + 1 : node[e].kind = "dir" => e = 1
      <3>1. \A i \in 1 .. n : node[i + 1].kind = "file"
        BY FirstIs
      <3> HIDE DEF n
      <3>2. \A e \in 1 .. n + 1 : e # 1 => e - 1 \in 1 .. n /\ (e - 1) + 1 = e
        BY <2>1
      <3> QED
        BY <3>1, <3>2
    <2>3. node[1].nlink = 2
      BY <2>1 DEF Init, NewNode
    <2> QED
      BY <2>1, <2>2, <2>3 DEF LinksInv
  <1>2. TypeInv /\ \A p \in Paths : Above(p)
    BY <1>0 DEF IInv, MapsInv, TreeInv, Sound
  <1>3. TreeForm
    BY <1>0, TreeIs
  <1>4. AsTree!IsDir(Root)
    BY <1>1, <1>2, <1>3, DirSeen DEF TablesType, Above
  <1>5. \A p \in DOMAIN Tree \ {Root} : AsTree!IsDir(AsTree!Front(p))
    <2> TAKE p \in DOMAIN Tree \ {Root}
    <2>1. p \in Paths /\ p # Root
      BY <1>3 DEF TreeForm
    <2> QED
      BY <1>1, <1>2, <1>3, <2>1, DirSeen, SameWords DEF Above
  <1>6. (~ exchanged /\ "number" \notin lost) = TRUE
    BY <1>0 DEF Sound
  <1> QED
    BY <1>1, <1>4, <1>5, <1>6 DEF AsTree!Init, AsTree!IsDir

\* Each step, or what it shows, is one of the abstract name space; when nothing
\* is promised any more, any step is.
LEMMA NextRefines ==
  IInv /\ LinksInv /\ IInv' /\ [Next]_vars
    => [AsTree!Next]_<<Tree, ~ exchanged /\ "number" \notin lost>>
  <1> SUFFICES ASSUME IInv, LinksInv, IInv', [Next]_vars
               PROVE  [AsTree!Next]_<<Tree, ~ exchanged /\ "number" \notin lost>>
    OBVIOUS
  <1>1. CASE Sound /\ Sound'
    <2>1. AsTree!Make \/ AsTree!Delete \/ AsTree!Move \/ AsTree!Exchange \/ Tree' = Tree
      BY <1>1, NextMoves
    <2> QED
      BY <1>1, <2>1 DEF AsTree!Next, Sound
  <1>2. CASE ~ (Sound /\ Sound')
    BY <1>2 DEF AsTree!Next, Sound
  <1> QED
    BY <1>1, <1>2

\* The three file systems implement the abstract name space: through every
\* interleaving of creates, every call changes the tree that paths lead to by
\* one object or one whole subtree, in one step, as long as nobody drew an inode
\* number twice and no exchange left names and paths different.
THEOREM NameSpaceRefined == Spec => ChangesOneEntry
  <1>1. Init => LinksInv /\ AsTree!Init
    BY InitMoves
  <1>2. IInv /\ LinksInv /\ [Next]_vars => LinksInv'
    BY LinksNext
  <1>3. IInv /\ LinksInv /\ IInv' /\ [Next]_vars
          => [AsTree!Next]_<<Tree, ~ exchanged /\ "number" \notin lost>>
    BY NextRefines
  <1> QED
    BY <1>1, <1>2, <1>3, Invariance, PTL DEF Spec, ChangesOneEntry, AsTree!Spec
=============================================================================
