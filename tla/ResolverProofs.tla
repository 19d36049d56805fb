---------------------------- MODULE ResolverProofs ----------------------------
(***************************************************************************)
(* Proofs about Resolver, for any names, zones, address lists, hop limit   *)
(* and behaviour of the servers: one hop asks for every suffix of the      *)
(* target within the server's zone and for nothing else, its verdicts are  *)
(* about the target, and the servers are tried in the order listed.        *)
(***************************************************************************)
EXTENDS Resolver, SequenceTheorems, TLAPS

----------------------------------------------------------------------------
(* The inductive invariant.                                                *)

(* There is a verdict only at the end, and no walk for the empty name.     *)
Control ==
  /\ phase # "done" => result = None
  /\ phase \notin {"start", "done"} => target # <<>>
  /\ cached => phase \in {"hop", "done"}
  /\ phase = "pop" => hops < MAX_HOPS
  /\ phase = "hop" /\ ~cached => hops > 0

(* During a hop exactly the suffixes of the target longer than the name    *)
(* asked for next have a reply, none of them a delegation or the answer.   *)
WalkInv ==
  phase = "hop" =>
    /\ try_name # <<>> /\ IsSuffix(try_name, target) /\ IsSuffix(zone, try_name)
    /\ IsSuffix(zone, target)
    /\ \A s \in Suffixes(target) : Len(s) > Len(try_name) => s \in DOMAIN seen
    /\ \A s \in DOMAIN seen : seen[s].ns = <<>>
    /\ target \in DOMAIN seen => ~seen[target].a

(* The addresses tried and those still on the stack are the list offered,  *)
(* which holds the bootstrap server until the first connection.            *)
PoolInv ==
  /\ TriedInListedOrder
  /\ phase \in {"outer", "pop"} /\ hops = 0 /\ bootstrap # None => bootstrap \in ToSet(offered)

Verdict == NotFoundIsExhaustive /\ FoundForTarget /\ BootstrapIsLastResort

Inv == TypeOK /\ Control /\ WalkInv /\ PoolInv /\ Verdict

----------------------------------------------------------------------------
(* Facts about names.  Reverse, IsSuffix and Suffixes by position.         *)

(* Reverse, index by index.                                                *)
LEMMA ReverseProperties ==
  ASSUME NEW S, NEW s \in Seq(S)
  PROVE  /\ Reverse(s) \in Seq(S)
         /\ Len(Reverse(s)) = Len(s)
         /\ \A i \in 1..Len(s) : Reverse(s)[i] = s[Len(s) - i + 1]
<1>1. Len(s) \in Nat /\ s \in [1..Len(s) -> S]
  BY LenProperties
<1>2. Reverse(s) \in [1..Len(s) -> S]
  BY <1>1 DEF Reverse
<1>3. Reverse(s) \in Seq(S)
  BY <1>1, <1>2, SeqDef
<1>4. Len(Reverse(s)) = Len(s)
  <2>1. DOMAIN Reverse(s) = 1..Len(s) /\ DOMAIN Reverse(s) = 1..Len(Reverse(s))
        /\ Len(Reverse(s)) \in Nat
    BY <1>2, <1>3, LenProperties
  <2> QED BY <1>1, <2>1
<1>5. \A i \in 1..Len(s) : Reverse(s)[i] = s[Len(s) - i + 1]
  BY <1>1 DEF Reverse
<1> QED BY <1>3, <1>4, <1>5

(* IsSuffix, index by index: the form the proofs use.                      *)
LEMMA SuffixMeaning ==
  ASSUME NEW S, NEW s \in Seq(S), NEW t \in Seq(S)
  PROVE  IsSuffix(s, t) <=> /\ Len(s) <= Len(t)
                            /\ \A i \in 1..Len(s) : s[i] = t[Len(t) - Len(s) + i]
<1> DEFINE rs == Reverse(s)  rt == Reverse(t)
<1>1. /\ Len(s) \in Nat /\ Len(t) \in Nat
      /\ rs \in Seq(S) /\ Len(rs) = Len(s) /\ \A i \in 1..Len(s) : rs[i] = s[Len(s) - i + 1]
      /\ rt \in Seq(S) /\ Len(rt) = Len(t) /\ \A i \in 1..Len(t) : rt[i] = t[Len(t) - i + 1]
  BY ReverseProperties
<1> HIDE DEF rs, rt
<1>2. IsSuffix(s, t) <=> Len(s) <= Len(t) /\ SubSeq(rs, 1, Len(s)) = SubSeq(rt, 1, Len(s))
  BY <1>1 DEF IsSuffix, IsPrefix, rs, rt
<1> SUFFICES ASSUME Len(s) <= Len(t)
             PROVE  SubSeq(rs, 1, Len(s)) = SubSeq(rt, 1, Len(s))
                      <=> \A i \in 1..Len(s) : s[i] = t[Len(t) - Len(s) + i]
  BY <1>2
<1> DEFINE u == SubSeq(rs, 1, Len(s))  v == SubSeq(rt, 1, Len(s))
<1>3. /\ u \in Seq(S) /\ Len(u) = Len(s) /\ \A i \in 1..Len(s) : u[i] = rs[i]
      /\ v \in Seq(S) /\ Len(v) = Len(s) /\ \A i \in 1..Len(s) : v[i] = rt[i]
  <2>1. \A i \in 1..Len(s) : rs[i] \in S /\ rt[i] \in S
    BY <1>1, ElementOfSeq
  <2> QED BY <1>1, <2>1, SubSeqProperties
<1> HIDE DEF u, v
<1>4. u = v <=> \A i \in 1..Len(s) : u[i] = v[i]
  BY <1>3, SeqEqual
<1>5. ASSUME \A i \in 1..Len(s) : u[i] = v[i], NEW i \in 1..Len(s)
      PROVE  s[i] = t[Len(t) - Len(s) + i]
  <2> DEFINE k == Len(s) - i + 1
  <2>1. /\ k \in 1..Len(s) /\ k \in 1..Len(t)
        /\ Len(s) - k + 1 = i /\ Len(t) - k + 1 = Len(t) - Len(s) + i
    BY <1>1
  <2> HIDE DEF k
  <2>2. rs[k] = rt[k]
    BY <1>3, <1>5, <2>1
  <2>3. rs[k] = s[Len(s) - k + 1] /\ rt[k] = t[Len(t) - k + 1]
    BY <1>1, <2>1
  <2> QED BY <2>1, <2>2, <2>3
<1>6. ASSUME \A i \in 1..Len(s) : s[i] = t[Len(t) - Len(s) + i], NEW i \in 1..Len(s)
      PROVE  u[i] = v[i]
  <2>1. Len(s) - i + 1 \in 1..Len(s)
    BY <1>1
  <2>2. u[i] = s[Len(s) - i + 1] /\ v[i] = t[Len(t) - i + 1]
    <3>1. i \in 1..Len(t)
      BY <1>1
    <3> QED BY <1>1, <1>3, <3>1
  <2>3. s[Len(s) - i + 1] = t[Len(t) - Len(s) + (Len(s) - i + 1)]
    BY <1>6, <2>1
  <2> QED BY <1>1, <2>2, <2>3
<1> QED BY <1>4, <1>5, <1>6 DEF u, v

(* A name is a suffix of itself; stripping its first label keeps the zone   *)
(* below it, unless the name is the zone.                                   *)
LEMMA SuffixSelf == ASSUME NEW S, NEW s \in Seq(S) PROVE IsSuffix(s, s)
  BY SuffixMeaning

(* A proper suffix is a suffix of the parent name.                         *)
LEMMA SuffixOfTail ==
  ASSUME NEW S, NEW z \in Seq(S), NEW n \in Seq(S), IsSuffix(z, n), z # n, n # <<>>
  PROVE  IsSuffix(z, Tail(n))
<1>1. /\ Len(z) \in Nat /\ Len(n) \in Nat /\ Len(z) <= Len(n)
      /\ \A i \in 1..Len(z) : z[i] = n[Len(n) - Len(z) + i]
  BY SuffixMeaning
<1>2. /\ Tail(n) \in Seq(S) /\ Len(Tail(n)) = Len(n) - 1
      /\ \A i \in 1..Len(Tail(n)) : Tail(n)[i] = n[i+1]
  BY HeadTailProperties
<1>3. Len(z) # Len(n)
  <2>1. ASSUME Len(z) = Len(n) PROVE FALSE
    <3>1. \A i \in 1..Len(z) : z[i] = n[i]
      BY <1>1, <2>1
    <3> QED BY <2>1, <3>1, SeqEqual
  <2> QED BY <2>1
<1>4. ASSUME NEW i \in 1..Len(z) PROVE z[i] = Tail(n)[Len(Tail(n)) - Len(z) + i]
  <2>1. Len(Tail(n)) - Len(z) + i \in 1..Len(Tail(n))
    BY <1>1, <1>2, <1>3
  <2>2. Tail(n)[Len(Tail(n)) - Len(z) + i] = n[Len(Tail(n)) - Len(z) + i + 1]
    BY <1>2, <2>1
  <2>3. Len(Tail(n)) - Len(z) + i + 1 = Len(n) - Len(z) + i
    BY <1>1, <1>2
  <2> QED BY <1>1, <2>2, <2>3
<1>5. Len(z) <= Len(Tail(n))
  BY <1>1, <1>2, <1>3
<1> QED BY <1>2, <1>4, <1>5, SuffixMeaning

(* The parent of a suffix is a suffix.                                     *)
LEMMA TailIsSuffix ==
  ASSUME NEW S, NEW n \in Seq(S), NEW t \in Seq(S), IsSuffix(n, t), n # <<>>
  PROVE  IsSuffix(Tail(n), t)
<1>1. /\ Len(n) \in Nat /\ Len(t) \in Nat /\ Len(n) <= Len(t)
      /\ \A i \in 1..Len(n) : n[i] = t[Len(t) - Len(n) + i]
  BY SuffixMeaning
<1>2. /\ Tail(n) \in Seq(S) /\ Len(Tail(n)) = Len(n) - 1
      /\ \A i \in 1..Len(Tail(n)) : Tail(n)[i] = n[i+1]
  BY HeadTailProperties
<1>3. ASSUME NEW i \in 1..Len(Tail(n)) PROVE Tail(n)[i] = t[Len(t) - Len(Tail(n)) + i]
  <2>1. i + 1 \in 1..Len(n)
    BY <1>1, <1>2
  <2>2. n[i + 1] = t[Len(t) - Len(n) + (i + 1)]
    BY <1>1, <2>1
  <2>3. Len(t) - Len(n) + (i + 1) = Len(t) - Len(Tail(n)) + i
    BY <1>1, <1>2
  <2> QED BY <1>2, <2>2, <2>3
<1>4. Len(Tail(n)) <= Len(t)
  BY <1>1, <1>2
<1> QED BY <1>2, <1>3, <1>4, SuffixMeaning

(* Suffixes is the set of sequences that IsSuffix accepts.                 *)
LEMMA SuffixesMeaning ==
  ASSUME NEW S, NEW t \in Seq(S), NEW s
  PROVE  s \in Suffixes(t) <=> s \in Seq(S) /\ IsSuffix(s, t)
<1>1. Len(t) \in Nat /\ \A i \in 1..Len(t) : t[i] \in S
  BY LenProperties, ElementOfSeq
<1>2. ASSUME NEW l \in 1..Len(t)
      PROVE  /\ SubSeq(t, l, Len(t)) \in Seq(S) /\ Len(SubSeq(t, l, Len(t))) = Len(t) - l + 1
             /\ \A i \in 1..(Len(t) - l + 1) : SubSeq(t, l, Len(t))[i] = t[l + i - 1]
  <2>1. \A i \in l..Len(t) : t[i] \in S
    BY <1>1
  <2> QED BY <1>1, <2>1, SubSeqProperties
<1>3. ASSUME NEW l \in 1..Len(t) PROVE IsSuffix(SubSeq(t, l, Len(t)), t)
  <2> DEFINE u == SubSeq(t, l, Len(t))
  <2>1. u \in Seq(S) /\ Len(u) = Len(t) - l + 1 /\ \A i \in 1..Len(u) : u[i] = t[l + i - 1]
    BY <1>2
  <2> HIDE DEF u
  <2>2. \A i \in 1..Len(u) : l + i - 1 = Len(t) - Len(u) + i
    BY <1>1, <2>1
  <2>3. Len(u) <= Len(t) /\ \A i \in 1..Len(u) : u[i] = t[Len(t) - Len(u) + i]
    BY <1>1, <2>1, <2>2
  <2>4. IsSuffix(u, t)
    BY <2>1, <2>3, SuffixMeaning
  <2> QED BY <2>4 DEF u
<1>4. IsSuffix(<<>>, t) /\ <<>> \in Seq(S)
  <2>1. <<>> \in Seq(S) /\ Len(<<>>) = 0
    BY EmptySeq
  <2>2. Len(<<>>) <= Len(t) /\ \A i \in 1..Len(<<>>) : <<>>[i] = t[Len(t) - Len(<<>>) + i]
    BY <1>1, <2>1
  <2> QED BY <2>1, <2>2, SuffixMeaning, Zenon
<1>5. ASSUME s \in Seq(S), IsSuffix(s, t), s # <<>> PROVE s \in Suffixes(t)
  <2>1. /\ Len(s) \in Nat /\ Len(s) <= Len(t)
        /\ \A i \in 1..Len(s) : s[i] = t[Len(t) - Len(s) + i]
    BY <1>5, SuffixMeaning
  <2>2. Len(s) > 0
    BY <1>5, <2>1, EmptySeq
  <2> DEFINE l == Len(t) - Len(s) + 1
  <2>3. l \in 1..Len(t)
    BY <1>1, <2>1, <2>2
  <2>4. s = SubSeq(t, l, Len(t))
    <3> DEFINE u == SubSeq(t, l, Len(t))
    <3>1. u \in Seq(S) /\ Len(u) = Len(s) /\ \A i \in 1..Len(s) : u[i] = t[l + i - 1]
      BY <1>1, <1>2, <2>1, <2>3
    <3>2. \A i \in 1..Len(s) : u[i] = s[i]
      BY <1>1, <2>1, <3>1
    <3> HIDE DEF u, l
    <3>3. s = u
      BY <1>5, <3>1, <3>2, SeqEqual
    <3> QED BY <3>3 DEF u, l
  <2> QED BY <2>3, <2>4 DEF Suffixes
<1> QED BY <1>2, <1>3, <1>4, <1>5 DEF Suffixes

(* Two suffixes of a name that are equally long are the same.               *)
LEMMA SuffixByLength ==
  ASSUME NEW S, NEW s \in Seq(S), NEW u \in Seq(S), NEW t \in Seq(S),
         IsSuffix(s, t), IsSuffix(u, t), Len(s) = Len(u)
  PROVE  s = u
<1>1. \A i \in 1..Len(s) : s[i] = u[i]
  <2>1. /\ \A i \in 1..Len(s) : s[i] = t[Len(t) - Len(s) + i]
        /\ \A i \in 1..Len(u) : u[i] = t[Len(t) - Len(u) + i]
    BY SuffixMeaning
  <2> QED BY <2>1
<1> QED BY <1>1, SeqEqual
----------------------------------------------------------------------------
(* Facts about the candidate stack.                                        *)

(* An exhausted stack, reversed, is empty.                                 *)
LEMMA ReverseEmpty == Reverse(<<>>) = <<>>
<1>1. Reverse(<<>>) \in Seq({}) /\ Len(Reverse(<<>>)) = 0
  <2>1. <<>> \in Seq({}) /\ Len(<<>>) = 0
    BY EmptySeq
  <2> QED BY <2>1, ReverseProperties
<1>2. Reverse(<<>>) # <<>> => Len(Reverse(<<>>)) \in Nat \ {0}
  BY <1>1, EmptySeq, Zenon
<1> QED BY <1>1, <1>2

(* The stack is the list reversed, so popping it restores the order.       *)
LEMMA ReverseTwice == ASSUME NEW S, NEW s \in Seq(S) PROVE Reverse(Reverse(s)) = s
<1> DEFINE r == Reverse(s)  rr == Reverse(r)
<1>1. r \in Seq(S) /\ Len(r) = Len(s) /\ \A i \in 1..Len(s) : r[i] = s[Len(s) - i + 1]
  BY ReverseProperties
<1> HIDE DEF r
<1>2. rr \in Seq(S) /\ Len(rr) = Len(s) /\ \A i \in 1..Len(s) : rr[i] = r[Len(s) - i + 1]
  BY <1>1, ReverseProperties
<1> HIDE DEF rr
<1>3. ASSUME NEW i \in 1..Len(s) PROVE rr[i] = s[i]
  <2> DEFINE k == Len(s) - i + 1
  <2>1. k \in 1..Len(s) /\ Len(s) - k + 1 = i
    OBVIOUS
  <2>2. rr[i] = r[k]
    BY <1>2
  <2> HIDE DEF k
  <2> QED BY <1>1, <2>1, <2>2
<1>4. rr = s
  BY <1>2, <1>3, SeqEqual
<1> QED BY <1>4 DEF rr, r

(* Popping moves the top of the stack to the end of what was tried.        *)
LEMMA PopMoves ==
  ASSUME NEW S, NEW p \in Seq(S), NEW c \in Seq(S), c # <<>>
  PROVE  /\ Last(c) \in S /\ Front(c) \in Seq(S) /\ Append(p, Last(c)) \in Seq(S)
         /\ Append(p, Last(c)) \o Reverse(Front(c)) = p \o Reverse(c)
<1>1. Len(c) \in Nat \ {0} /\ Len(p) \in Nat
  BY EmptySeq, LenProperties, Zenon
<1>2. \A i \in 1..Len(c) : c[i] \in S
  BY ElementOfSeq
<1> DEFINE f == Front(c)  e == Last(c)  a == Append(p, e)  rf == Reverse(f)  rc == Reverse(c)
<1>3. e \in S /\ e = c[Len(c)]
  BY <1>1, <1>2 DEF Last
<1>4. f \in Seq(S) /\ Len(f) = Len(c) - 1 /\ \A i \in 1..(Len(c) - 1) : f[i] = c[i]
  <2>1. \A i \in 1..(Len(c) - 1) : c[i] \in S
    BY <1>1, <1>2
  <2>0. Len(c) - 1 \in Nat
    BY <1>1
  <2>2. PICK m \in Nat : m = Len(c) - 1
    BY <2>0, Zenon
  <2>3. SubSeq(c, 1, m) \in Seq(S) /\ Len(SubSeq(c, 1, m)) = m
        /\ \A i \in 1..m : SubSeq(c, 1, m)[i] = c[i]
    BY <1>2, <2>1, <2>2, SubSeqProperties
  <2> QED BY <2>2, <2>3 DEF Front
<1> HIDE DEF f, e
<1>5. /\ a \in Seq(S) /\ Len(a) = Len(p) + 1
      /\ \A i \in 1..Len(p) : a[i] = p[i]
      /\ a[Len(p) + 1] = e
  BY <1>3, AppendProperties
<1>6. /\ rf \in Seq(S) /\ Len(rf) = Len(c) - 1
      /\ \A i \in 1..(Len(c) - 1) : rf[i] = f[(Len(c) - 1) - i + 1]
  BY <1>4, ReverseProperties
<1>7. rc \in Seq(S) /\ Len(rc) = Len(c) /\ \A i \in 1..Len(c) : rc[i] = c[Len(c) - i + 1]
  BY ReverseProperties
<1> HIDE DEF a, rf, rc
<1> DEFINE l == a \o rf  r == p \o rc  n == Len(p) + Len(c)
<1>8. /\ l \in Seq(S) /\ Len(l) = n
      /\ \A i \in 1..n : l[i] = IF i <= Len(p) + 1 THEN a[i] ELSE rf[i - (Len(p) + 1)]
  <2>1. Len(a) + Len(rf) = n
    BY <1>1, <1>5, <1>6
  <2>2. /\ l \in Seq(S) /\ Len(l) = Len(a) + Len(rf)
        /\ \A i \in 1..(Len(a) + Len(rf)) : l[i] = IF i <= Len(a) THEN a[i] ELSE rf[i - Len(a)]
    BY <1>5, <1>6, ConcatProperties, Zenon
  <2> HIDE DEF l, n
  <2> QED BY <1>5, <2>1, <2>2
<1>9. /\ r \in Seq(S) /\ Len(r) = n
      /\ \A i \in 1..n : r[i] = IF i <= Len(p) THEN p[i] ELSE rc[i - Len(p)]
  <2>1. /\ r \in Seq(S) /\ Len(r) = Len(p) + Len(rc)
        /\ \A i \in 1..(Len(p) + Len(rc)) : r[i] = IF i <= Len(p) THEN p[i] ELSE rc[i - Len(p)]
    <3>1. p \in Seq(S) /\ rc \in Seq(S)
      BY <1>7
    <3> QED BY <3>1, ConcatProperties, SMT
  <2> HIDE DEF r
  <2> QED BY <1>7, <2>1
<1>10. ASSUME NEW i \in 1..n PROVE l[i] = r[i]
  <2>1. CASE i <= Len(p)
    <3>1. l[i] = a[i] /\ r[i] = p[i] /\ i \in 1..Len(p)
      BY <1>1, <1>8, <1>9, <2>1
    <3> QED BY <1>5, <3>1
  <2>2. CASE i = Len(p) + 1
    <3>1. l[i] = a[i] /\ r[i] = rc[i - Len(p)] /\ i - Len(p) = 1 /\ 1 \in 1..Len(c)
      BY <1>1, <1>8, <1>9, <2>2
    <3>2. rc[1] = c[Len(c)]
      BY <1>1, <1>7
    <3> QED BY <1>3, <1>5, <2>2, <3>1, <3>2
  <2>3. CASE i > Len(p) + 1
    <3> DEFINE j == i - (Len(p) + 1)  k == (Len(c) - 1) - j + 1
    <3>1. j \in 1..(Len(c) - 1) /\ k \in 1..(Len(c) - 1) /\ j + 1 \in 1..Len(c)
          /\ i - Len(p) = j + 1 /\ Len(c) - (j + 1) + 1 = k
      BY <1>1, <2>3
    <3>2. l[i] = rf[j] /\ r[i] = rc[i - Len(p)]
      BY <1>1, <1>8, <1>9, <2>3
    <3> HIDE DEF j
    <3>3. rf[j] = f[k] /\ rc[j + 1] = c[Len(c) - (j + 1) + 1]
      BY <1>6, <1>7, <3>1
    <3> HIDE DEF k
    <3>4. f[k] = c[k]
      BY <1>4, <3>1
    <3> QED BY <3>1, <3>2, <3>3, <3>4
  <2>4. i \in Int /\ (i <= Len(p) \/ i = Len(p) + 1 \/ i > Len(p) + 1)
    BY <1>1
  <2> QED BY <2>1, <2>2, <2>3, <2>4
<1>11. l = r
  BY <1>8, <1>9, <1>10, SeqEqual
<1> QED BY <1>3, <1>4, <1>5, <1>11 DEF a, e, f, rf, rc

(* A fresh stack: nothing tried, the whole list to come.                   *)
LEMMA FreshPool ==
  ASSUME NEW S, NEW list \in Seq(S)
  PROVE  Reverse(list) \in Seq(S) /\ <<>> \o Reverse(Reverse(list)) = list
  BY ReverseProperties, ReverseTwice, ConcatEmptySeq

(* Once the stack is empty everything offered has been popped.             *)
LEMMA EmptyStack ==
  ASSUME NEW S, NEW p \in Seq(S)
  PROVE  p \o Reverse(<<>>) = p
  BY ReverseEmpty, ConcatEmptySeq

----------------------------------------------------------------------------
(* The names of a walk are sequences of labels.                            *)
LEMMA Names ==
  ASSUME TypeOK
  PROVE  /\ target \in Seq(Labels) /\ zone \in Seq(Labels) /\ try_name \in Seq(Labels)
         /\ IsSuffix(try_name, target)
<1>1. target \in Seq(Labels) /\ zone \in Seq(Labels) /\ try_name \in Suffixes(target)
  BY ResolverAssumption DEF TypeOK
<1> QED BY <1>1, SuffixesMeaning

(* The part of TypeOK about the replies of a hop.                          *)
LEMMA SeenType ==
  ASSUME NEW T, NEW D \in SUBSET Suffixes(T), NEW f \in [D -> Records \cup {Err}]
  PROVE  f \in UNION {[E -> Records \cup {Err}] : E \in SUBSET Suffixes(T)}
  OBVIOUS

(* Replies are recorded for suffixes of the target only.                   *)
LEMMA SeenDomain ==
  ASSUME TypeOK
  PROVE  DOMAIN seen \subseteq Suffixes(target) /\ seen \in [DOMAIN seen -> Records \cup {Err}]
<1>1. PICK D \in SUBSET Suffixes(target) : seen \in [D -> Records \cup {Err}]
  BY DEF TypeOK
<1> QED BY <1>1

(* The invariant holds before run_inner.                                   *)
LEMMA InitInv == Init => Inv
<1> SUFFICES ASSUME Init PROVE Inv
  OBVIOUS
<1>1. TypeOK
  <2>1. <<>> \in Seq(Addrs) /\ <<>> \in Suffixes(target)
    BY EmptySeq DEF Suffixes
  <2>2. seen \in UNION {[D -> Records \cup {Err}] : D \in SUBSET Suffixes(target)}
    <3>1. seen \in [{} -> Records \cup {Err}]
      BY DEF Init, NoReplies
    <3> QED BY <3>1, SeenType
  <2>3. hops \in 0..MAX_HOPS /\ zone \in Zones
    BY ResolverAssumption DEF Init
  <2> QED BY <2>1, <2>2, <2>3 DEF Init, TypeOK
<1>2. result = None /\ None \notin Results /\ phase = "start" /\ ~cached
  BY ResolverAssumption DEF Init
<1>3. Control /\ WalkInv /\ PoolInv /\ Verdict
  BY <1>2 DEF Control, WalkInv, PoolInv, Verdict, TriedInListedOrder, NotFoundIsExhaustive,
              FoundForTarget, BootstrapIsLastResort, Results
<1> QED BY <1>1, <1>3 DEF Inv

(* Without a verdict there is nothing to show of verdicts.                 *)
LEMMA NoVerdict ==
  ASSUME result' = None
  PROVE  Verdict' /\ ~(result' = "Unreachable")
  BY ResolverAssumption DEF Verdict, NotFoundIsExhaustive, FoundForTarget,
                            BootstrapIsLastResort, Results

(* A run that ends for another reason than the one a property is about.    *)
LEMMA OtherEnd ==
  ASSUME Inv, NEW r \in {"Failed", "TooManyHops", "NoServer"}, finish(r),
         UNCHANGED <<target, bootstrap, cached, pool>>,
         TypeOK'
  PROVE  Inv'
<1>1. phase' = "done" /\ result' = r
  BY DEF finish
<1>2. Control' /\ WalkInv' /\ PoolInv' /\ Verdict'
  BY <1>1 DEF Inv, Control, WalkInv, PoolInv, Verdict, TriedInListedOrder, pool,
              NotFoundIsExhaustive, FoundForTarget, BootstrapIsLastResort
<1> QED BY <1>2 DEF Inv

(* run_inner refuses the empty name: no server was asked.                  *)
LEMMA EmptyDomainNameInv == Inv /\ empty_domain_name => Inv'
<1> SUFFICES ASSUME Inv, empty_domain_name PROVE Inv'
  OBVIOUS
<1>1. TypeOK'
  BY DEF Inv, TypeOK, empty_domain_name, finish, Results, pool, walk, Records
<1> QED BY <1>1, OtherEnd DEF empty_domain_name

(* The hop limit ends the run without a verdict on the name.               *)
LEMMA HopLimitInv == Inv /\ hop_limit => Inv'
<1> SUFFICES ASSUME Inv, hop_limit PROVE Inv'
  OBVIOUS
<1>1. TypeOK'
  BY DEF Inv, TypeOK, hop_limit, finish, Results, pool, walk, Records
<1> QED BY <1>1, OtherEnd DEF hop_limit

(* The start of a hop at a server responsible for the target.              *)
LEMMA StartHopWalk ==
  ASSUME TypeOK, target # <<>>, NEW z \in Zones, IsSuffix(z, target), start_hop(z),
         UNCHANGED target
  PROVE  /\ WalkInv' /\ phase' = "hop" /\ zone' \in Zones
         /\ try_name' \in Suffixes(target')
         /\ seen' \in UNION {[D -> Records \cup {Err}] : D \in SUBSET Suffixes(target')}
<1>1. target \in Seq(Labels) /\ IsSuffix(target, target)
  BY Names, SuffixSelf
<1>2. try_name' \in Suffixes(target')
  BY <1>1, SuffixesMeaning DEF start_hop
<1>3. DOMAIN seen' = {} /\ seen' \in [{} -> Records \cup {Err}]
  BY DEF start_hop, NoReplies
<1>4. \A s \in Suffixes(target) : Len(s) <= Len(target)
  <2> SUFFICES ASSUME NEW s \in Suffixes(target) PROVE Len(s) <= Len(target)
    OBVIOUS
  <2>1. s \in Seq(Labels) /\ IsSuffix(s, target)
    BY <1>1, SuffixesMeaning
  <2> QED BY <1>1, <2>1, SuffixMeaning
<1>5. \A s \in Suffixes(target') : Len(s) > Len(try_name') => s \in DOMAIN seen'
  <2>1. \A s \in Suffixes(target) : Len(s) \in Nat /\ Len(target) \in Nat
    BY <1>1, SuffixesMeaning
  <2> QED BY <1>4, <2>1 DEF start_hop
<1>6. WalkInv'
  BY <1>1, <1>3, <1>5 DEF WalkInv, start_hop
<1> QED BY <1>2, <1>3, <1>6, SeenType DEF start_hop

(* A usable cache starts a walk in the root zone.                          *)
LEMMA LoadCacheInv == ASSUME Inv, NEW u \in BOOLEAN, load_cache(u) PROVE Inv'
<1>1. TypeOK /\ result' = None /\ target # <<>> /\ target \in Seq(Labels)
  BY Names DEF Inv, Control, load_cache
<1>2. CASE u
  <2>1. IsSuffix(<<>>, target) /\ <<>> \in Zones
    <3>1. <<>> \in Suffixes(target)
      BY DEF Suffixes
    <3> QED BY <1>1, <3>1, SuffixesMeaning, ResolverAssumption
  <2>2. start_hop(<<>>) /\ cached' = TRUE /\ UNCHANGED <<target, bootstrap, pool, hops, result>>
    BY <1>2 DEF load_cache
  <2>3. /\ WalkInv' /\ phase' = "hop" /\ zone' \in Zones
        /\ try_name' \in Suffixes(target')
        /\ seen' \in UNION {[D -> Records \cup {Err}] : D \in SUBSET Suffixes(target')}
    BY <1>1, <2>1, <2>2, StartHopWalk
  <2>4. TypeOK'
    BY <1>1, <2>2, <2>3 DEF TypeOK, pool
  <2>5. Control' /\ PoolInv' /\ Verdict'
    BY <1>1, <2>2, <2>3, NoVerdict DEF Control, PoolInv, TriedInListedOrder
  <2> QED BY <2>3, <2>4, <2>5 DEF Inv
<1>3. CASE ~u
  <2>1. phase' = "bootstrap" /\ cached' = FALSE
        /\ UNCHANGED <<target, bootstrap, pool, hops, result, walk>>
    BY <1>3 DEF load_cache
  <2>2. TypeOK'
    BY <1>1, <2>1 DEF TypeOK, pool, walk, Records
  <2>3. Control' /\ WalkInv' /\ PoolInv' /\ Verdict'
    BY <1>1, <2>1, NoVerdict DEF Control, WalkInv, PoolInv, TriedInListedOrder
  <2> QED BY <2>2, <2>3 DEF Inv
<1> QED BY <1>2, <1>3

(* The list that resolve_iteratively starts from holds the bootstrap       *)
(* server.                                                                 *)
LEMMA WithBootstrap ==
  ASSUME TypeOK
  PROVE  /\ with_bootstrap(offered) \in Seq(Addrs)
         /\ bootstrap # None => bootstrap \in ToSet(with_bootstrap(offered))
<1>1. CASE bootstrap = None \/ bootstrap \in ToSet(offered)
  BY <1>1 DEF with_bootstrap, TypeOK
<1>2. CASE ~(bootstrap = None \/ bootstrap \in ToSet(offered))
  <2> DEFINE l == Append(offered, bootstrap)
  <2>1. offered \in Seq(Addrs) /\ bootstrap \in Addrs
    BY <1>2 DEF TypeOK
  <2>2. l \in Seq(Addrs) /\ Len(l) = Len(offered) + 1 /\ l[Len(offered) + 1] = bootstrap
    BY <2>1, AppendProperties
  <2>3. with_bootstrap(offered) = l
    BY <1>2 DEF with_bootstrap
  <2> HIDE DEF l
  <2>4. Len(offered) + 1 \in DOMAIN l
    BY <2>1, <2>2, LenProperties
  <2>5. bootstrap \in ToSet(l)
    BY <2>2, <2>4 DEF ToSet
  <2> QED BY <2>2, <2>3, <2>5
<1> QED BY <1>1, <1>2

(* The stack that set_pool leaves spells the list when popped.             *)
LEMMA SetPool ==
  ASSUME NEW list \in Seq(Addrs), set_pool(list)
  PROVE  /\ offered' = list /\ popped' \in Seq(Addrs) /\ candidates' \in Seq(Addrs)
         /\ popped' \o Reverse(candidates') = offered'
  BY FreshPool, EmptySeq DEF set_pool, push_candidates

(* The stack is the list found in the cache with the bootstrap address.    *)
LEMMA BeginResolveInv == Inv /\ begin_resolve => Inv'
<1> SUFFICES ASSUME Inv, begin_resolve PROVE Inv'
  OBVIOUS
<1>1. TypeOK /\ result = None /\ target # <<>>
  BY DEF Inv, Control, begin_resolve
<1>2. CASE with_bootstrap(offered) = <<>>
  <2>1. finish("NoServer") /\ UNCHANGED <<target, bootstrap, cached, pool, hops, walk>>
    BY <1>2 DEF begin_resolve
  <2>2. TypeOK'
    BY <1>1, <2>1 DEF TypeOK, finish, Results, pool, walk, Records
  <2> QED BY <2>1, <2>2, OtherEnd
<1>3. CASE with_bootstrap(offered) # <<>>
  <2>1. /\ set_pool(with_bootstrap(offered)) /\ phase' = "outer"
        /\ UNCHANGED <<result, target, bootstrap, cached, hops, walk>>
    BY <1>3 DEF begin_resolve
  <2>2. /\ offered' = with_bootstrap(offered) /\ offered' \in Seq(Addrs)
        /\ popped' \in Seq(Addrs) /\ candidates' \in Seq(Addrs)
        /\ popped' \o Reverse(candidates') = offered'
    BY <1>1, <2>1, WithBootstrap, SetPool
  <2>3. TypeOK'
    BY <1>1, <2>1, <2>2 DEF TypeOK, walk, Records
  <2>4. PoolInv'
    BY <1>1, <2>1, <2>2, WithBootstrap, NoVerdict DEF PoolInv, TriedInListedOrder
  <2>5. Control' /\ WalkInv' /\ Verdict'
    BY <1>1, <2>1, NoVerdict DEF Inv, Control, WalkInv, begin_resolve
  <2> QED BY <2>3, <2>4, <2>5 DEF Inv
<1> QED BY <1>2, <1>3

(* Below the hop limit, a hop begins.                                      *)
LEMMA NextHopInv == Inv /\ next_hop => Inv'
<1> SUFFICES ASSUME Inv, next_hop PROVE Inv'
  OBVIOUS
<1>1. /\ TypeOK /\ phase = "outer" /\ phase' = "pop" /\ hops < MAX_HOPS
      /\ UNCHANGED <<target, bootstrap, cached, pool, hops, walk, result>>
  BY DEF Inv, next_hop
<1>2. TypeOK' /\ result' = None
  BY <1>1 DEF Inv, Control, TypeOK, pool, walk, Records
<1>3. Control' /\ WalkInv' /\ PoolInv' /\ Verdict'
  BY <1>1, <1>2, NoVerdict DEF Inv, Control, WalkInv, PoolInv, TriedInListedOrder, pool, walk
<1> QED BY <1>2, <1>3 DEF Inv

(* Whether or not the connection succeeds, the popped server is tried.     *)
LEMMA PopStep ==
  ASSUME Inv, phase = "pop", pop
  PROVE  /\ popped' \in Seq(Addrs) /\ candidates' \in Seq(Addrs) /\ offered' = offered
         /\ popped' \o Reverse(candidates') = offered'
<1>1. /\ popped \in Seq(Addrs) /\ candidates \in Seq(Addrs) /\ candidates # <<>>
      /\ popped \o Reverse(candidates) = offered
  BY DEF Inv, TypeOK, Control, PoolInv, TriedInListedOrder, pop
<1>2. /\ Front(candidates) \in Seq(Addrs) /\ Append(popped, Last(candidates)) \in Seq(Addrs)
      /\ Append(popped, Last(candidates)) \o Reverse(Front(candidates)) = offered
  BY <1>1, PopMoves
<1>3. /\ popped' = Append(popped, Last(candidates)) /\ candidates' = Front(candidates)
      /\ offered' = offered
  BY DEF pop
<1> QED BY <1>2, <1>3, Zenon

(* A server that refuses moves from the stack to the popped ones.          *)
LEMMA ConnectFailedInv == Inv /\ connect_failed => Inv'
<1> SUFFICES ASSUME Inv, connect_failed PROVE Inv'
  OBVIOUS
<1>1. /\ TypeOK /\ phase = "pop" /\ pop
      /\ UNCHANGED <<target, bootstrap, phase, cached, hops, walk, result>>
  BY DEF Inv, connect_failed
<1>2. /\ popped' \in Seq(Addrs) /\ candidates' \in Seq(Addrs) /\ offered' = offered
      /\ popped' \o Reverse(candidates') = offered'
  BY <1>1, PopStep
<1>3. TypeOK' /\ result' = None
  BY <1>1, <1>2 DEF Inv, Control, TypeOK, walk, Records
<1>4. Control' /\ WalkInv' /\ PoolInv' /\ Verdict'
  BY <1>1, <1>2, <1>3, NoVerdict DEF Inv, Control, WalkInv, PoolInv, TriedInListedOrder
<1> QED BY <1>3, <1>4 DEF Inv

(* A connection starts the walk at the target, if its zone holds it.       *)
LEMMA ConnectedInv == ASSUME Inv, NEW z \in Zones, connected(z) PROVE Inv'
<1>1. /\ TypeOK /\ phase = "pop" /\ pop /\ ~cached /\ result = None /\ target # <<>>
      /\ hops < MAX_HOPS /\ UNCHANGED <<target, bootstrap, cached>>
  BY DEF Inv, Control, connected
<1>2. hops' = hops + 1 /\ hops' \in 0..MAX_HOPS /\ hops' > 0
  BY <1>1, ResolverAssumption DEF TypeOK, connected
<1>3. /\ popped' \in Seq(Addrs) /\ candidates' \in Seq(Addrs) /\ offered' = offered
      /\ popped' \o Reverse(candidates') = offered'
  BY <1>1, PopStep
<1>4. CASE IsSuffix(z, target)
  <2>1. start_hop(z) /\ UNCHANGED result
    BY <1>4 DEF connected, target_belongs_to_zone
  <2>2. /\ WalkInv' /\ phase' = "hop" /\ zone' \in Zones
        /\ try_name' \in Suffixes(target')
        /\ seen' \in UNION {[D -> Records \cup {Err}] : D \in SUBSET Suffixes(target')}
    BY <1>1, <1>4, <2>1, StartHopWalk
  <2>3. TypeOK'
    BY <1>1, <1>2, <1>3, <2>1, <2>2 DEF TypeOK
  <2>4. Control' /\ PoolInv' /\ Verdict'
    BY <1>1, <1>2, <1>3, <2>1, <2>2, NoVerdict DEF Control, PoolInv, TriedInListedOrder
  <2> QED BY <2>2, <2>3, <2>4 DEF Inv
<1>5. CASE ~IsSuffix(z, target)
  <2>1. phase' = "done" /\ result' = "Failed" /\ UNCHANGED walk
    BY <1>5 DEF connected, target_belongs_to_zone, finish
  <2>2. TypeOK'
    BY <1>1, <1>2, <1>3, <2>1 DEF TypeOK, Results, walk, Records
  <2>3. Control' /\ WalkInv' /\ PoolInv' /\ Verdict'
    BY <1>1, <2>1 DEF Control, WalkInv, PoolInv, Verdict, TriedInListedOrder,
                      NotFoundIsExhaustive, FoundForTarget, BootstrapIsLastResort
  <2> QED BY <2>2, <2>3 DEF Inv
<1> QED BY <1>4, <1>5

(* The stack is empty: all that was offered was tried.                     *)
LEMMA NoneReachableInv == Inv /\ none_reachable => Inv'
<1> SUFFICES ASSUME Inv, none_reachable PROVE Inv'
  OBVIOUS
<1>1. /\ TypeOK /\ phase = "pop" /\ candidates = <<>> /\ ~cached
      /\ phase' = "done" /\ result' = "Unreachable"
      /\ UNCHANGED <<target, bootstrap, cached, pool, hops, walk>>
  BY DEF Inv, Control, none_reachable, finish
<1>2. popped = offered
  <2>1. popped \in Seq(Addrs) /\ popped \o Reverse(<<>>) = offered
    BY <1>1 DEF Inv, TypeOK, PoolInv, TriedInListedOrder
  <2> QED BY <2>1, EmptyStack
<1>3. TypeOK'
  BY <1>1 DEF TypeOK, Results, pool, walk, Records
<1>4. Control' /\ WalkInv'
  BY <1>1 DEF Control, WalkInv
<1>5. PoolInv' /\ Verdict'
  BY <1>1, <1>2 DEF Inv, PoolInv, Verdict, TriedInListedOrder, pool,
                    NotFoundIsExhaustive, FoundForTarget, BootstrapIsLastResort
<1> QED BY <1>3, <1>4, <1>5 DEF Inv

----------------------------------------------------------------------------
(* The replies after one more query.                                       *)
LEMMA ReplySeen ==
  ASSUME Inv, NEW r \in Records \cup {Err}, query_reply(r)
  PROVE  /\ TypeOK /\ phase = "hop" /\ result = None /\ target # <<>>
         /\ UNCHANGED <<target, bootstrap, hops, zone>>
         /\ DOMAIN seen' = DOMAIN seen \cup {try_name} /\ seen'[try_name] = r
         /\ \A n \in DOMAIN seen : n # try_name => seen'[n] = seen[n]
         /\ seen' \in UNION {[D -> Records \cup {Err}] : D \in SUBSET Suffixes(target')}
<1>1. /\ TypeOK /\ phase = "hop" /\ result = None /\ target # <<>>
      /\ UNCHANGED <<target, bootstrap, hops, zone>>
  BY DEF Inv, Control, query_reply
<1> DEFINE D == DOMAIN seen \cup {try_name}
<1>2. seen' = [n \in D |-> IF n = try_name THEN r ELSE seen[n]]
  BY DEF query_reply
<1>3. D \in SUBSET Suffixes(target) /\ \A n \in DOMAIN seen : seen[n] \in Records \cup {Err}
  BY <1>1, SeenDomain DEF TypeOK
<1>4. seen' \in [D -> Records \cup {Err}]
  BY <1>2, <1>3
<1> QED BY <1>1, <1>2, <1>3, <1>4, SeenType

(* A failed query ends the run without a verdict.                          *)
LEMMA QueryErrorInv == Inv /\ query_error => Inv'
<1> SUFFICES ASSUME Inv, query_error PROVE Inv'
  OBVIOUS
<1>1. query_reply(Err) /\ finish("Failed") /\ UNCHANGED <<cached, pool, try_name>>
  BY DEF query_error
<1>2. /\ TypeOK /\ UNCHANGED <<target, bootstrap, hops, zone>>
      /\ seen' \in UNION {[D -> Records \cup {Err}] : D \in SUBSET Suffixes(target')}
  BY <1>1, ReplySeen
<1>3. TypeOK'
  BY <1>1, <1>2 DEF TypeOK, finish, Results, pool
<1> QED BY <1>1, <1>2, <1>3, OtherEnd

(* Addresses end the run only at the target.                               *)
LEMMA AnswerInv == ASSUME Inv, NEW r \in Records, answer(r) PROVE Inv'
<1>1. /\ query_reply(r) /\ try_name = target /\ r.a
      /\ phase' = "done" /\ result' = "Found" /\ UNCHANGED <<cached, pool, try_name>>
  BY DEF answer, finish, is_answer
<1>2. /\ TypeOK /\ phase = "hop" /\ UNCHANGED <<target, bootstrap, hops, zone>>
      /\ DOMAIN seen' = DOMAIN seen \cup {try_name} /\ seen'[try_name] = r
      /\ seen' \in UNION {[D -> Records \cup {Err}] : D \in SUBSET Suffixes(target')}
  BY <1>1, ReplySeen
<1>3. TypeOK'
  BY <1>1, <1>2 DEF TypeOK, Results, pool
<1>4. IsSuffix(zone, target)
  BY <1>2 DEF Inv, WalkInv
<1>5. Control' /\ WalkInv' /\ PoolInv'
  BY <1>1 DEF Control, WalkInv, PoolInv, TriedInListedOrder
<1>6. Verdict'
  BY <1>1, <1>2, <1>4 DEF Verdict, NotFoundIsExhaustive, FoundForTarget, BootstrapIsLastResort,
                          target_belongs_to_zone
<1> QED BY <1>3, <1>5, <1>6 DEF Inv

(* A delegation replaces the stack by the list it names.                   *)
LEMMA DelegationInv == ASSUME Inv, NEW r \in Records, delegation(r) PROVE Inv'
<1>1. /\ query_reply(r) /\ set_pool(r.ns) /\ cached' = FALSE
      /\ phase' = IF cached THEN "bootstrap" ELSE "outer"
      /\ UNCHANGED <<try_name, result>>
  BY DEF delegation
<1>2. /\ TypeOK /\ phase = "hop" /\ result = None /\ target # <<>>
      /\ UNCHANGED <<target, bootstrap, hops, zone>>
      /\ seen' \in UNION {[D -> Records \cup {Err}] : D \in SUBSET Suffixes(target')}
  BY <1>1, ReplySeen
<1>3. r.ns \in Seq(Addrs)
  BY ResolverAssumption DEF Records
<1>4. /\ offered' \in Seq(Addrs) /\ popped' \in Seq(Addrs) /\ candidates' \in Seq(Addrs)
      /\ popped' \o Reverse(candidates') = offered'
  BY <1>1, <1>3, SetPool
<1>5. TypeOK'
  BY <1>1, <1>2, <1>4 DEF TypeOK
<1>6. phase' = "outer" => hops > 0
  BY <1>1, <1>2 DEF Inv, Control
<1>7. Control' /\ WalkInv' /\ Verdict'
  BY <1>1, <1>2, NoVerdict DEF Control, WalkInv
<1>8. PoolInv'
  BY <1>1, <1>2, <1>4, <1>6, NoVerdict DEF PoolInv, TriedInListedOrder, TypeOK
<1> QED BY <1>5, <1>7, <1>8 DEF Inv

(* What a reply without an answer or a delegation adds to the walk.        *)
LEMMA NothingHere ==
  ASSUME Inv, NEW r \in Records, query_reply(r), ~is_answer(r), r.ns = <<>>
  PROVE  /\ \A s \in Suffixes(target) : Len(s) >= Len(try_name) => s \in DOMAIN seen'
         /\ \A s \in DOMAIN seen' : seen'[s].ns = <<>>
         /\ target \in DOMAIN seen' => ~seen'[target].a
<1>1. /\ TypeOK /\ phase = "hop"
      /\ DOMAIN seen' = DOMAIN seen \cup {try_name} /\ seen'[try_name] = r
      /\ \A n \in DOMAIN seen : n # try_name => seen'[n] = seen[n]
  BY ReplySeen
<1>2. /\ \A s \in Suffixes(target) : Len(s) > Len(try_name) => s \in DOMAIN seen
      /\ \A s \in DOMAIN seen : seen[s].ns = <<>>
      /\ target \in DOMAIN seen => ~seen[target].a
  BY <1>1 DEF Inv, WalkInv
<1>3. ASSUME NEW s \in Suffixes(target), Len(s) >= Len(try_name) PROVE s \in DOMAIN seen'
  <2>1. /\ s \in Seq(Labels) /\ IsSuffix(s, target) /\ target \in Seq(Labels)
        /\ try_name \in Seq(Labels) /\ IsSuffix(try_name, target)
    BY <1>1, Names, SuffixesMeaning
  <2>2. CASE Len(s) > Len(try_name)
    BY <1>1, <1>2, <2>2
  <2>3. CASE Len(s) = Len(try_name)
    <3>1. s = try_name
      BY <2>1, <2>3, SuffixByLength
    <3> QED BY <1>1, <3>1
  <2>4. Len(s) \in Nat /\ Len(try_name) \in Nat
    BY <2>1
  <2> QED BY <1>3, <2>2, <2>3, <2>4
<1>4. \A s \in DOMAIN seen' : seen'[s].ns = <<>>
  BY <1>1, <1>2
<1>5. target \in DOMAIN seen' => ~seen'[target].a
  BY <1>1, <1>2 DEF is_answer
<1> QED BY <1>3, <1>4, <1>5

(* An empty reply moves the walk to the parent, inside the zone.           *)
LEMMA WalkOnInv == ASSUME Inv, NEW r \in Records, walk_on(r) PROVE Inv'
<1>1. /\ query_reply(r) /\ ~is_answer(r) /\ r.ns = <<>> /\ ~at_end_of_walk
      /\ try_name' = Tail(try_name) /\ UNCHANGED <<phase, cached, pool, result>>
  BY DEF walk_on, strip_leftmost
<1>2. /\ TypeOK /\ phase = "hop" /\ result = None /\ target # <<>>
      /\ UNCHANGED <<target, bootstrap, hops, zone>>
      /\ seen' \in UNION {[D -> Records \cup {Err}] : D \in SUBSET Suffixes(target')}
  BY <1>1, ReplySeen
<1>3. /\ target \in Seq(Labels) /\ zone \in Seq(Labels) /\ try_name \in Seq(Labels)
      /\ IsSuffix(try_name, target) /\ IsSuffix(zone, try_name) /\ IsSuffix(zone, target)
      /\ try_name # <<>>
  BY <1>2, Names DEF Inv, WalkInv
<1>4. try_name # zone /\ Len(try_name) > 1 /\ Len(try_name) \in Nat
  BY <1>1, <1>3 DEF at_end_of_walk
<1>5. /\ Tail(try_name) \in Seq(Labels) /\ Len(Tail(try_name)) = Len(try_name) - 1
      /\ Tail(try_name) # <<>>
  <2>1. Tail(try_name) \in Seq(Labels) /\ Len(Tail(try_name)) = Len(try_name) - 1
    BY <1>3, HeadTailProperties
  <2>2. Len(Tail(try_name)) # 0
    BY <1>4, <2>1
  <2>3. \A t : t = <<>> => Len(t) = 0
    OBVIOUS
  <2> QED BY <2>1, <2>2, <2>3, Zenon
<1>6. IsSuffix(Tail(try_name), target) /\ IsSuffix(zone, Tail(try_name))
  BY <1>3, <1>4, TailIsSuffix, SuffixOfTail
<1>7. Tail(try_name) \in Suffixes(target)
  BY <1>3, <1>5, <1>6, SuffixesMeaning
<1>8. TypeOK'
  BY <1>1, <1>2, <1>7 DEF TypeOK, pool
<1>9. \A s \in Suffixes(target) : Len(s) > Len(Tail(try_name)) => s \in DOMAIN seen'
  <2>1. \A s \in Suffixes(target) : Len(s) \in Nat
    BY <1>3, SuffixesMeaning
  <2>2. \A s \in Suffixes(target) : Len(s) >= Len(try_name) => s \in DOMAIN seen'
    BY <1>1, NothingHere
  <2> QED BY <1>4, <1>5, <2>1, <2>2
<1>10. WalkInv'
  <2>1. /\ \A s \in DOMAIN seen' : seen'[s].ns = <<>>
        /\ target \in DOMAIN seen' => ~seen'[target].a
    BY <1>1, NothingHere
  <2> QED BY <1>1, <1>2, <1>3, <1>5, <1>6, <1>9, <2>1 DEF WalkInv
<1>11. Control' /\ PoolInv' /\ Verdict'
  BY <1>1, <1>2, NoVerdict DEF Inv, Control, PoolInv, TriedInListedOrder, pool
<1> QED BY <1>8, <1>10, <1>11 DEF Inv

(* At the zone name the walk has asked for every name between.             *)
LEMMA NotFoundInv == ASSUME Inv, NEW r \in Records, not_found(r) PROVE Inv'
<1>1. /\ query_reply(r) /\ ~is_answer(r) /\ r.ns = <<>> /\ at_end_of_walk
      /\ cached' = FALSE /\ UNCHANGED <<pool, try_name>>
  BY DEF not_found
<1>2. /\ TypeOK /\ phase = "hop" /\ result = None /\ target # <<>>
      /\ UNCHANGED <<target, bootstrap, hops, zone>>
      /\ seen' \in UNION {[D -> Records \cup {Err}] : D \in SUBSET Suffixes(target')}
  BY <1>1, ReplySeen
<1>3. CASE cached
  <2>1. phase' = "bootstrap" /\ UNCHANGED result
    BY <1>3 DEF not_found
  <2>2. TypeOK'
    BY <1>1, <1>2, <2>1 DEF TypeOK, pool
  <2>3. Control' /\ WalkInv' /\ PoolInv' /\ Verdict'
    BY <1>1, <1>2, <2>1, NoVerdict DEF Control, WalkInv, PoolInv, TriedInListedOrder
  <2> QED BY <2>2, <2>3 DEF Inv
<1>4. CASE ~cached
  <2>1. phase' = "done" /\ result' = "NotFound"
    BY <1>4 DEF not_found, finish
  <2>2. TypeOK'
    BY <1>1, <1>2, <2>1 DEF TypeOK, pool, Results
  <2>3. /\ target \in Seq(Labels) /\ zone \in Seq(Labels) /\ try_name \in Seq(Labels)
        /\ IsSuffix(try_name, target) /\ IsSuffix(zone, target)
    BY <1>2, Names DEF Inv, WalkInv
  <2>4. /\ \A s \in Suffixes(target) : Len(s) >= Len(try_name) => s \in DOMAIN seen'
        /\ \A s \in DOMAIN seen' : seen'[s].ns = <<>>
        /\ target \in DOMAIN seen' => ~seen'[target].a
    BY <1>1, NothingHere
  <2>5. ASSUME NEW s \in Suffixes(target) \ {<<>>}, IsSuffix(zone, s)
        PROVE  s \in DOMAIN seen' /\ seen'[s].ns = <<>>
    <3>1. s \in Seq(Labels) /\ Len(s) \in Nat \ {0}
      BY <2>3, SuffixesMeaning, EmptySeq
    <3>2. Len(zone) <= Len(s)
      BY <2>3, <2>5, <3>1, SuffixMeaning
    <3>3. Len(s) >= Len(try_name)
      BY <1>1, <2>3, <3>1, <3>2 DEF at_end_of_walk
    <3> QED BY <2>4, <3>3
  <2>6. ~seen'[target].a
    <3>1. target \in Suffixes(target) /\ IsSuffix(zone, target)
      BY <2>3, SuffixSelf, SuffixesMeaning
    <3>2. target \in DOMAIN seen'
      BY <1>2, <2>5, <3>1
    <3> QED BY <2>4, <3>2
  <2>7. NotFoundIsExhaustive'
    BY <1>2, <2>3, <2>5, <2>6 DEF NotFoundIsExhaustive, target_belongs_to_zone
  <2>8. Control' /\ WalkInv' /\ PoolInv' /\ Verdict'
    BY <1>1, <2>1, <2>7 DEF Control, WalkInv, PoolInv, Verdict, TriedInListedOrder,
                            FoundForTarget, BootstrapIsLastResort
  <2> QED BY <2>2, <2>8 DEF Inv
<1> QED BY <1>3, <1>4

----------------------------------------------------------------------------
(* Every step keeps the invariant.                                         *)
LEMMA NextInv == Inv /\ [Next]_vars => Inv'
<1> SUFFICES ASSUME Inv, [Next]_vars PROVE Inv'
  OBVIOUS
<1>1. CASE UNCHANGED vars
  <2>1. UNCHANGED <<target, bootstrap, phase, cached, offered, popped, candidates, hops,
                    zone, try_name, seen, result>>
    BY <1>1 DEF vars, pool, walk
  <2> QED BY <2>1 DEF Inv, TypeOK, Records, Control, WalkInv, PoolInv, Verdict,
                      TriedInListedOrder, NotFoundIsExhaustive, FoundForTarget, BootstrapIsLastResort
<1>2. ASSUME NEW u \in BOOLEAN, load_cache(u) PROVE Inv'
  BY <1>2, LoadCacheInv
<1>3. ASSUME NEW z \in Zones, connected(z) PROVE Inv'
  BY <1>3, ConnectedInv
<1>4. ASSUME NEW r \in Records, answer(r) \/ delegation(r) \/ walk_on(r) \/ not_found(r)
      PROVE  Inv'
  BY <1>4, AnswerInv, DelegationInv, WalkOnInv, NotFoundInv
<1> QED BY <1>1, <1>2, <1>3, <1>4, EmptyDomainNameInv, BeginResolveInv, HopLimitInv, NextHopInv,
           ConnectFailedInv, NoneReachableInv, QueryErrorInv DEF Next

(* The invariant always holds.                                             *)
LEMMA InvAlways == Spec => []Inv
  BY InitInv, NextInv, PTL DEF Spec

(* The state of a run has its type: at most MAX_HOPS hops, and only        *)
(* suffixes of the target are asked for.                                   *)
THEOREM TypeCorrect == Spec => []TypeOK
<1>1. Inv => TypeOK
  BY DEF Inv
<1> QED BY <1>1, InvAlways, PTL

(* one_hop asks for the target and its suffixes down to the apex of the    *)
(* server's zone and for no other name.                                    *)
THEOREM WalkInZone == Spec => []WalkStaysInZone
<1>1. Inv => WalkStaysInZone
  BY DEF Inv, WalkInv, WalkStaysInZone, target_belongs_to_zone
<1> QED BY <1>1, InvAlways, PTL

(* one_hop's NotFound: the last server was responsible for the target, was *)
(* asked for every suffix down to its apex, and neither had an address for *)
(* the target nor delegated any of them.                                   *)
THEOREM NotFoundExhaustive == Spec => []NotFoundIsExhaustive
<1>1. Inv => NotFoundIsExhaustive
  BY DEF Inv, Verdict
<1> QED BY <1>1, InvAlways, PTL

(* The records returned are the target's own, from a server responsible    *)
(* for it, never those of a suffix met on the way.                         *)
THEOREM FoundIsTarget == Spec => []FoundForTarget
<1>1. Inv => FoundForTarget
  BY DEF Inv, Verdict
<1> QED BY <1>1, InvAlways, PTL

(* resolve_iteratively tries the servers in the order they were listed,    *)
(* skips none, and reports "unreachable" only when all were tried.         *)
THEOREM ListedOrder == Spec => []TriedInListedOrder
<1>1. Inv => TriedInListedOrder
  BY DEF Inv, PoolInv
<1> QED BY <1>1, InvAlways, PTL

(* run_inner: before the first hop is given up as unreachable the server   *)
(* named on the command line was tried, whatever a cached zone listed.     *)
THEOREM BootstrapTried == Spec => []BootstrapIsLastResort
<1>1. Inv => BootstrapIsLastResort
  BY DEF Inv, Verdict
<1> QED BY <1>1, InvAlways, PTL

===============================================================================
