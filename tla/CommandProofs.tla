--------------------------- MODULE CommandProofs ---------------------------
(***************************************************************************)
(* For every selection of options and every file system, whatever fails    *)
(* and whenever: what was there is kept unless it was selected and         *)
(* --overwrite is given, what was written stays, the counters and the exit *)
(* code say what happened, and a usage error touches nothing.  Where links *)
(* and folded cases combine the preflight is blind (Unseen), and inputs    *)
(* are claimed only without them.  The invariant has three layers: IInv    *)
(* needs no path, Layer says what the preflight is worth while links and   *)
(* files are replaced, and on it rests that no output is lost to another.  *)
(***************************************************************************)
EXTENDS CommandRun, SequenceTheorems, FiniteSetTheorems, Iteration

(* Without --overwrite nothing that was there is touched, in no phase of   *)
(* the invocation and whatever its outputs are called.                     *)
NothingReplaced ==
    ~config.overwrite =>
      \A l \in DOMAIN before.at : l \in DOMAIN disk.at /\ disk.at[l] = before.at[l]

-----------------------------------------------------------------------------
(* Paths.                                                                  *)

Pre(s, t) == Len(s) <= Len(t) /\ \A i \in 1 .. Len(s) : s[i] = t[i]

One(fs, n) == IF fs.folds THEN Fold[n] ELSE n

(* An ancestor of a path, name by name.                                    *)
LEMMA AncestorFacts ==
    ASSUME NEW p \in Seq(Name), NEW k \in 0 .. Len(p)
    PROVE  /\ SubSeq(p, 1, k) \in Seq(Name) /\ Len(SubSeq(p, 1, k)) = k
           /\ \A i \in 1 .. k : SubSeq(p, 1, k)[i] = p[i]
  <1>1. k \in Nat /\ k <= Len(p) /\ Len(p) \in Nat /\ \A i \in 1 .. k : p[i] \in Name
    OBVIOUS
  <1>2. CASE k = 0
    BY <1>2, SubSeqEmpty
  <1>3. CASE k # 0
    <2>1. /\ SubSeq(p, 1, k) \in Seq(Name)
          /\ Len(SubSeq(p, 1, k)) = IF 1 <= k THEN k - 1 + 1 ELSE 0
          /\ \A i \in 1 .. k - 1 + 1 : SubSeq(p, 1, k)[i] = p[1 + i - 1]
      BY <1>1, SubSeqProperties
    <2> DEFINE a == SubSeq(p, 1, k)
    <2> HIDE DEF a
    <2>2. /\ a \in Seq(Name) /\ Len(a) = IF 1 <= k THEN k - 1 + 1 ELSE 0
          /\ \A i \in 1 .. k - 1 + 1 : a[i] = p[1 + i - 1]
      BY <2>1 DEF a
    <2>3. a \in Seq(Name) /\ Len(a) = k /\ \A i \in 1 .. k : a[i] = p[i]
      BY <1>1, <1>3, <2>2
    <2> QED
      BY <2>3 DEF a
  <1> QED
    BY <1>2, <1>3

(* IsPrefix, name by name.                                                 *)
LEMMA PrefixPointwise ==
    ASSUME NEW s \in Seq(Name), NEW t \in Seq(Name)
    PROVE  IsPrefix(s, t) <=> Pre(s, t)
  <1>1. CASE Len(s) <= Len(t)
    <2> DEFINE a == SubSeq(s, 1, Len(s))
               b == SubSeq(t, 1, Len(s))
    <2>1. Len(s) \in 0 .. Len(s) /\ Len(s) \in 0 .. Len(t)
      BY <1>1
    <2>2. a \in Seq(Name) /\ Len(a) = Len(s) /\ \A i \in 1 .. Len(s) : a[i] = s[i]
      BY <2>1, AncestorFacts
    <2>3. b \in Seq(Name) /\ Len(b) = Len(s) /\ \A i \in 1 .. Len(s) : b[i] = t[i]
      BY <2>1, AncestorFacts
    <2> HIDE DEF a, b
    <2>4. a = b <=> \A i \in 1 .. Len(s) : s[i] = t[i]
      BY <2>2, <2>3, SeqEqual
    <2> QED
      BY <1>1, <2>4 DEF IsPrefix, Pre, a, b
  <1> QED
    BY <1>1 DEF IsPrefix, Pre

(* Prefixes of one path are prefixes of each other.                        *)
LEMMA PreFacts ==
    /\ \A s \in Seq(Name) : Pre(s, s) /\ Pre(<<>>, s)
    /\ \A s, t, u \in Seq(Name) : Pre(s, t) /\ Pre(t, u) => Pre(s, u)
    /\ \A s, t \in Seq(Name) : Pre(s, t) /\ Pre(t, s) => s = t
    /\ \A s, t, u \in Seq(Name) : Pre(s, u) /\ Pre(t, u) => Pre(s, t) \/ Pre(t, s)
    /\ \A s \in Seq(Name), n \in Name : Pre(s, Append(s, n))
    /\ \A s, t \in Seq(Name), n \in Name : Pre(s, Append(t, n)) => Pre(s, t) \/ s = Append(t, n)
    /\ \A s, t \in Seq(Name) : Pre(s, t) => Len(s) \in 0 .. Len(t) /\ s = SubSeq(t, 1, Len(s))
    /\ \A t \in Seq(Name) : \A k \in 0 .. Len(t) : Pre(SubSeq(t, 1, k), t)
  <1>1. \A s \in Seq(Name) : Pre(s, s) /\ Pre(<<>>, s)
    BY DEF Pre
  <1>2. \A s, t, u \in Seq(Name) : Pre(s, t) /\ Pre(t, u) => Pre(s, u)
    BY DEF Pre
  <1>3. \A s, t \in Seq(Name) : Pre(s, t) /\ Pre(t, s) => s = t
    <2> SUFFICES ASSUME NEW s \in Seq(Name), NEW t \in Seq(Name), Pre(s, t), Pre(t, s) PROVE s = t
      OBVIOUS
    <2>1. Len(s) = Len(t) /\ \A i \in 1 .. Len(s) : s[i] = t[i]
      BY DEF Pre
    <2> QED
      BY <2>1, SeqEqual
  <1>4. \A s, t, u \in Seq(Name) : Pre(s, u) /\ Pre(t, u) => Pre(s, t) \/ Pre(t, s)
    BY DEF Pre
  <1>5. \A s \in Seq(Name), n \in Name : Pre(s, Append(s, n))
    BY DEF Pre
  <1>6. \A s, t \in Seq(Name), n \in Name : Pre(s, Append(t, n)) => Pre(s, t) \/ s = Append(t, n)
    <2> SUFFICES ASSUME NEW s \in Seq(Name), NEW t \in Seq(Name), NEW n \in Name, Pre(s, Append(t, n))
                 PROVE  Pre(s, t) \/ s = Append(t, n)
      OBVIOUS
    <2> DEFINE u == Append(t, n)
    <2>1. u \in Seq(Name) /\ Len(u) = Len(t) + 1 /\ \A i \in 1 .. Len(t) : u[i] = t[i]
      OBVIOUS
    <2> HIDE DEF u
    <2>2. Pre(s, u)
      BY DEF u
    <2>3. CASE Len(s) = Len(u)
      BY <2>1, <2>2, <2>3, SeqEqual DEF Pre, u
    <2>4. CASE Len(s) # Len(u)
      BY <2>1, <2>2, <2>4 DEF Pre
    <2> QED
      BY <2>3, <2>4
  <1>7. \A s, t \in Seq(Name) : Pre(s, t) => Len(s) \in 0 .. Len(t) /\ s = SubSeq(t, 1, Len(s))
    <2> SUFFICES ASSUME NEW s \in Seq(Name), NEW t \in Seq(Name), Pre(s, t)
                 PROVE  Len(s) \in 0 .. Len(t) /\ s = SubSeq(t, 1, Len(s))
      OBVIOUS
    <2>1. Len(s) \in 0 .. Len(t)
      BY DEF Pre
    <2> DEFINE a == SubSeq(t, 1, Len(s))
    <2>2. a \in Seq(Name) /\ Len(a) = Len(s) /\ \A i \in 1 .. Len(s) : a[i] = t[i]
      BY <2>1, AncestorFacts
    <2> HIDE DEF a
    <2>3. s = a
      BY <2>2, SeqEqual DEF Pre
    <2> QED
      BY <2>1, <2>3 DEF a
  <1>8. \A t \in Seq(Name) : \A k \in 0 .. Len(t) : Pre(SubSeq(t, 1, k), t)
    <2> SUFFICES ASSUME NEW t \in Seq(Name), NEW k \in 0 .. Len(t) PROVE Pre(SubSeq(t, 1, k), t)
      OBVIOUS
    <2> DEFINE a == SubSeq(t, 1, k)
    <2>1. a \in Seq(Name) /\ Len(a) = k /\ \A i \in 1 .. k : a[i] = t[i]
      BY AncestorFacts
    <2> HIDE DEF a
    <2>2. Pre(a, t)
      BY <2>1 DEF Pre
    <2> QED
      BY <2>2 DEF a
  <1> QED
    BY <1>1, <1>2, <1>3, <1>4, <1>5, <1>6, <1>7, <1>8

(* A path but for its last name, and the last name.                        *)
LEMMA FrontFacts ==
    /\ \A p \in Seq(Name), n \in Name : Front(Append(p, n)) = p /\ Last(Append(p, n)) = n
    /\ \A p \in Seq(Name) : p # <<>> =>
         Front(p) \in Seq(Name) /\ Last(p) \in Name /\ p = Append(Front(p), Last(p))
  <1>1. ASSUME NEW p \in Seq(Name), NEW n \in Name
        PROVE  Front(Append(p, n)) = p /\ Last(Append(p, n)) = n
    <2> DEFINE u == Append(p, n)
               a == SubSeq(u, 1, Len(p))
    <2>1. /\ u \in Seq(Name) /\ Len(u) = Len(p) + 1 /\ u[Len(p) + 1] = n
          /\ \A i \in 1 .. Len(p) : u[i] = p[i]
      OBVIOUS
    <2> HIDE DEF u
    <2>2. Len(p) \in 0 .. Len(u) /\ Len(u) - 1 = Len(p)
      BY <2>1
    <2>3. a \in Seq(Name) /\ Len(a) = Len(p) /\ \A i \in 1 .. Len(p) : a[i] = u[i]
      BY <2>1, <2>2, AncestorFacts
    <2> HIDE DEF a
    <2>4. a = p
      BY <2>1, <2>3, SeqEqual
    <2> QED
      BY <2>1, <2>2, <2>4 DEF Front, Last, u, a
  <1>2. ASSUME NEW p \in Seq(Name), p # <<>>
        PROVE  Front(p) \in Seq(Name) /\ Last(p) \in Name /\ p = Append(Front(p), Last(p))
    <2> DEFINE a == SubSeq(p, 1, Len(p) - 1)
    <2>1. Len(p) - 1 \in 0 .. Len(p) /\ Last(p) = p[Len(p)] /\ Last(p) \in Name
      BY <1>2 DEF Last
    <2>2. a \in Seq(Name) /\ Len(a) = Len(p) - 1 /\ \A i \in 1 .. Len(p) - 1 : a[i] = p[i]
      BY <2>1, AncestorFacts
    <2> HIDE DEF a
    <2>3. /\ Append(a, Last(p)) \in Seq(Name) /\ Len(Append(a, Last(p))) = Len(p)
          /\ \A i \in 1 .. Len(p) : Append(a, Last(p))[i] = p[i]
      BY <2>1, <2>2
    <2>4. p = Append(a, Last(p))
      BY <2>3, SeqEqual
    <2> QED
      BY <2>1, <2>2, <2>4 DEF Front, a
  <1> QED
    BY <1>1, <1>2

(* Induction over paths, name by name.                                     *)
LEMMA PathInduct ==
    ASSUME NEW S, <<>> \in S, \A p \in Seq(Name), n \in Name : p \in S => Append(p, n) \in S
    PROVE  Seq(Name) \subseteq S
  <1> DEFINE R == {k \in Nat : \A p \in Seq(Name) : Len(p) = k => p \in S}
  <1>1. 0 \in R
    OBVIOUS
  <1>2. ASSUME NEW k \in Nat, k \in R PROVE k + 1 \in R
    <2> SUFFICES ASSUME NEW p \in Seq(Name), Len(p) = k + 1 PROVE p \in S
      OBVIOUS
    <2>1. p # <<>>
      OBVIOUS
    <2>2. Front(p) \in Seq(Name) /\ Last(p) \in Name /\ p = Append(Front(p), Last(p))
      BY <2>1, FrontFacts
    <2> DEFINE q == Front(p)
               n == Last(p)
    <2> HIDE DEF q, n
    <2>3. q \in Seq(Name) /\ n \in Name /\ p = Append(q, n)
      BY <2>2 DEF q, n
    <2>4. Len(q) = k
      BY <2>3
    <2>5. q \in S
      BY <1>2, <2>3, <2>4
    <2> QED
      BY <2>3, <2>5
  <1>3. Nat \subseteq R
    <2> HIDE DEF R
    <2> QED
      BY <1>1, <1>2, NatInduct
  <1> QED
    BY <1>3

(* A path in one case.                                                     *)
LEMMA StoredFacts ==
    ASSUME NEW fs
    PROVE  /\ Stored(fs, <<>>) = <<>>
           /\ \A n \in Name : One(fs, n) \in Name
           /\ \A p \in Seq(Name) :
                /\ Stored(fs, p) \in Seq(Name) /\ Len(Stored(fs, p)) = Len(p)
                /\ \A i \in 1 .. Len(p) : Stored(fs, p)[i] = One(fs, p[i])
                /\ Stored(fs, Stored(fs, p)) = Stored(fs, p)
                /\ ~fs.folds => Stored(fs, p) = p
                /\ \A n \in Name : Stored(fs, Append(p, n)) = Append(Stored(fs, p), One(fs, n))
                /\ \A k \in 0 .. Len(p) : Stored(fs, SubSeq(p, 1, k)) = SubSeq(Stored(fs, p), 1, k)
           /\ \A p, q \in Seq(Name) : Pre(p, q) => Pre(Stored(fs, p), Stored(fs, q))
  <1>1. \A n \in Name : One(fs, n) \in Name
    BY LayoutAssumption DEF One
  <1>2. \A n \in Name : One(fs, One(fs, n)) = One(fs, n)
    BY LayoutAssumption DEF One
  <1>3. ASSUME NEW p \in Seq(Name)
        PROVE  /\ Stored(fs, p) \in Seq(Name) /\ Len(Stored(fs, p)) = Len(p)
               /\ \A i \in 1 .. Len(p) : Stored(fs, p)[i] = One(fs, p[i])
    BY LayoutAssumption DEF Stored, One
  <1> HIDE DEF Stored
  <1>4. Stored(fs, <<>>) = <<>>
    <2>1. <<>> \in Seq(Name) /\ Len(<<>>) = 0
      OBVIOUS
    <2>2. Stored(fs, <<>>) \in Seq(Name) /\ Len(Stored(fs, <<>>)) = 0
      BY <1>3, <2>1
    <2> QED
      BY <2>2
  <1>5. ASSUME NEW p \in Seq(Name)
        PROVE  /\ Stored(fs, Stored(fs, p)) = Stored(fs, p)
               /\ ~fs.folds => Stored(fs, p) = p
    <2> DEFINE s == Stored(fs, p)
               t == Stored(fs, s)
    <2>1. s \in Seq(Name) /\ Len(s) = Len(p) /\ \A i \in 1 .. Len(p) : s[i] = One(fs, p[i])
      BY <1>3
    <2> HIDE DEF s
    <2>2. t \in Seq(Name) /\ Len(t) = Len(s) /\ \A i \in 1 .. Len(s) : t[i] = One(fs, s[i])
      BY <1>3, <2>1
    <2> HIDE DEF t
    <2>3. \A i \in 1 .. Len(p) : p[i] \in Name
      OBVIOUS
    <2>4. t = s
      BY <1>2, <2>1, <2>2, <2>3, SeqEqual
    <2>5. ~fs.folds => s = p
      BY <2>1, SeqEqual DEF One
    <2> QED
      BY <2>4, <2>5 DEF s, t
  <1>6. ASSUME NEW p \in Seq(Name), NEW n \in Name
        PROVE  Stored(fs, Append(p, n)) = Append(Stored(fs, p), One(fs, n))
    <2> DEFINE u == Append(p, n)
               s == Stored(fs, u)
               r == Stored(fs, p)
    <2>1. /\ u \in Seq(Name) /\ Len(u) = Len(p) + 1 /\ u[Len(p) + 1] = n
          /\ \A i \in 1 .. Len(p) : u[i] = p[i]
      OBVIOUS
    <2>2. r \in Seq(Name) /\ Len(r) = Len(p) /\ \A i \in 1 .. Len(p) : r[i] = One(fs, p[i])
      BY <1>3
    <2> HIDE DEF u, r
    <2>3. s \in Seq(Name) /\ Len(s) = Len(u) /\ \A i \in 1 .. Len(u) : s[i] = One(fs, u[i])
      BY <1>3, <2>1
    <2> HIDE DEF s
    <2>4. /\ Append(r, One(fs, n)) \in Seq(Name) /\ Len(Append(r, One(fs, n))) = Len(p) + 1
          /\ Append(r, One(fs, n))[Len(p) + 1] = One(fs, n)
          /\ \A i \in 1 .. Len(p) : Append(r, One(fs, n))[i] = r[i]
      BY <1>1, <2>2
    <2> DEFINE w == Append(r, One(fs, n))
    <2> HIDE DEF w
    <2>5. /\ w \in Seq(Name) /\ Len(w) = Len(p) + 1 /\ w[Len(p) + 1] = One(fs, n)
          /\ \A i \in 1 .. Len(p) : w[i] = r[i]
      BY <2>4 DEF w
    <2>6. \A i \in 1 .. Len(p) + 1 : i = Len(p) + 1 \/ i \in 1 .. Len(p)
      OBVIOUS
    <2>7. \A i \in 1 .. Len(s) : s[i] = w[i]
      BY <2>1, <2>2, <2>3, <2>5, <2>6
    <2>8. s = w
      BY <2>1, <2>3, <2>5, <2>7, SeqEqual
    <2> QED
      BY <2>8 DEF s, r, u, w
  <1>7. ASSUME NEW p \in Seq(Name), NEW k \in 0 .. Len(p)
        PROVE  Stored(fs, SubSeq(p, 1, k)) = SubSeq(Stored(fs, p), 1, k)
    <2> DEFINE a == SubSeq(p, 1, k)
               s == Stored(fs, p)
               sa == Stored(fs, a)
               as == SubSeq(s, 1, k)
    <2>1. a \in Seq(Name) /\ Len(a) = k /\ \A i \in 1 .. k : a[i] = p[i]
      BY AncestorFacts
    <2>2. s \in Seq(Name) /\ Len(s) = Len(p) /\ \A i \in 1 .. Len(p) : s[i] = One(fs, p[i])
      BY <1>3
    <2> HIDE DEF a, s
    <2>3. sa \in Seq(Name) /\ Len(sa) = k /\ \A i \in 1 .. k : sa[i] = One(fs, a[i])
      BY <1>3, <2>1
    <2>4. as \in Seq(Name) /\ Len(as) = k /\ \A i \in 1 .. k : as[i] = s[i]
      BY <2>2, AncestorFacts
    <2> HIDE DEF sa, as
    <2>5. \A i \in 1 .. k : i \in 1 .. Len(p)
      OBVIOUS
    <2>6. \A i \in 1 .. Len(sa) : sa[i] = as[i]
      BY <2>1, <2>2, <2>3, <2>4, <2>5
    <2>7. sa = as
      BY <2>3, <2>4, <2>6, SeqEqual
    <2> QED
      BY <2>7 DEF a, s, sa, as
  <1>8. ASSUME NEW p \in Seq(Name), NEW q \in Seq(Name), Pre(p, q)
        PROVE  Pre(Stored(fs, p), Stored(fs, q))
    <2> DEFINE s == Stored(fs, p)
               t == Stored(fs, q)
    <2>1. s \in Seq(Name) /\ Len(s) = Len(p) /\ \A i \in 1 .. Len(p) : s[i] = One(fs, p[i])
      BY <1>3
    <2>2. t \in Seq(Name) /\ Len(t) = Len(q) /\ \A i \in 1 .. Len(q) : t[i] = One(fs, q[i])
      BY <1>3
    <2> HIDE DEF s, t
    <2>3. Pre(s, t)
      BY <1>8, <2>1, <2>2 DEF Pre
    <2> QED
      BY <2>3 DEF s, t
  <1> QED
    BY <1>1, <1>3, <1>4, <1>5, <1>6, <1>7, <1>8

-----------------------------------------------------------------------------
(* Where paths lead.                                                       *)

LinksSound(fs) == \A l \in DOMAIN fs.at : fs.at[l].kind = "link" => fs.at[l].to \in Seq(Name)

(* A link is followed to a path.                                           *)
LEMMA FollowStays ==
    ASSUME NEW fs, LinksSound(fs), NEW q \in Seq(Name), NEW n \in Name
    PROVE  Follow(fs, q, n) \in Seq(Name)
  <1> DEFINE u == Append(q, n)
  <1>1. u \in Seq(Name)
    OBVIOUS
  <1> HIDE DEF u
  <1>2. Follow(fs, q, n) = IF Kind(fs, Stored(fs, u)) = "link" THEN fs.at[Stored(fs, u)].to ELSE u
    BY DEF Follow, u
  <1>3. Kind(fs, Stored(fs, u)) = "link" =>
          Stored(fs, u) \in DOMAIN fs.at /\ fs.at[Stored(fs, u)].kind = "link"
    BY DEF Kind
  <1> QED
    BY <1>1, <1>2, <1>3 DEF LinksSound

Routes(fs, p, at) ==
    /\ at \in [0 .. Len(p) -> Seq(Name)] /\ at[0] = <<>>
    /\ \A k \in 1 .. Len(p) : at[k] = Follow(fs, at[k - 1], p[k])

(* The way of resolveExistingPathPrefix.                                   *)
LEMMA Route ==
    ASSUME NEW fs, LinksSound(fs), NEW p \in Seq(Name)
    PROVE  \E at : Routes(fs, p, at) /\ Resolved(fs, p) = at[Len(p)]
  <1> DEFINE N == Len(p)
             F == [k \in Nat |-> [q \in Seq(Name) |-> IF k + 1 \in 1 .. N THEN Follow(fs, q, p[k + 1]) ELSE q]]
             Solves(h) == h = [k \in 0 .. N |-> IF k = 0 THEN <<>> ELSE Follow(fs, h[k - 1], p[k])]
             X == CHOOSE h : Solves(h)
  <1>1. Resolved(fs, p) = X[N]
    BY DEF Resolved
  <1>2. N \in Nat /\ \A k \in 1 .. N : p[k] \in Name
    OBVIOUS
  <1> HIDE DEF N
  <1>3. \A k \in 1 .. N, q \in Seq(Name) : Follow(fs, q, p[k]) \in Seq(Name)
    BY <1>2, FollowStays
  <1>4. IsStep(Seq(Name), F)
    BY <1>3 DEF IsStep
  <1>5. PICK g : IsIterate(Seq(Name), <<>>, F, g)
    <2>1. <<>> \in Seq(Name)
      OBVIOUS
    <2> HIDE DEF F
    <2> QED
      BY <1>4, <2>1, Iterates
  <1>6. /\ g \in [Nat -> Seq(Name)] /\ g[0] = <<>>
        /\ \A k \in Nat : k + 1 \in 1 .. N => g[k + 1] = Follow(fs, g[k], p[k + 1])
    <2>1. g \in [Nat -> Seq(Name)] /\ g[0] = <<>> /\ \A k \in Nat : g[k + 1] = F[k][g[k]]
      BY <1>5 DEF IsIterate
    <2>2. \A k \in Nat : k + 1 \in 1 .. N => F[k][g[k]] = Follow(fs, g[k], p[k + 1])
      BY <2>1
    <2> QED
      BY <2>1, <2>2
  <1> DEFINE h == [k \in 0 .. N |-> g[k]]
  <1>7. Solves(h)
    <2>1. ASSUME NEW k \in 0 .. N
          PROVE  h[k] = IF k = 0 THEN <<>> ELSE Follow(fs, h[k - 1], p[k])
      <3>1. CASE k = 0
        BY <1>6, <3>1
      <3>2. CASE k # 0
        <4>1. k - 1 \in 0 .. N /\ k - 1 \in Nat /\ (k - 1) + 1 = k /\ k \in 1 .. N
          BY <1>2, <3>2
        <4>2. h[k] = g[k] /\ h[k - 1] = g[k - 1]
          BY <4>1
        <4>3. g[k] = Follow(fs, g[k - 1], p[k])
          BY <1>6, <4>1
        <4> HIDE DEF h
        <4> QED
          BY <3>2, <4>2, <4>3
      <3> QED
        BY <3>1, <3>2
    <2>2. h = [k \in 0 .. N |-> h[k]]
      OBVIOUS
    <2> HIDE DEF h
    <2>3. h = [k \in 0 .. N |-> IF k = 0 THEN <<>> ELSE Follow(fs, h[k - 1], p[k])]
      BY <2>1, <2>2
    <2> QED
      BY <2>3
  <1> HIDE DEF h
  <1>8. Solves(X)
    <2>1. X = CHOOSE x : Solves(x)
      BY DEF X
    <2> HIDE DEF Solves, X
    <2> QED
      BY <1>7, <2>1
  <1> HIDE DEF X
  <1>9. /\ DOMAIN X = 0 .. N /\ X = [k \in 0 .. N |-> X[k]]
        /\ \A k \in 0 .. N : X[k] = IF k = 0 THEN <<>> ELSE Follow(fs, X[k - 1], p[k])
    BY <1>8
  <1>10. \A k \in 1 .. N : X[k] = Follow(fs, X[k - 1], p[k])
    BY <1>2, <1>9
  <1> DEFINE S == {k \in 0 .. N : X[k] \in Seq(Name)}
  <1>11. 0 \in S
    BY <1>2, <1>9
  <1>12. ASSUME NEW k \in 0 .. N - 1, k \in S PROVE k + 1 \in S
    <2>1. k + 1 \in 1 .. N /\ k + 1 \in 0 .. N /\ (k + 1) - 1 = k
      BY <1>2
    <2>2. X[k + 1] = Follow(fs, X[k], p[k + 1])
      BY <1>10, <2>1
    <2> QED
      BY <1>3, <1>12, <2>1, <2>2
  <1>13. 0 .. N \subseteq S
    <2> HIDE DEF S
    <2> QED
      BY <1>2, <1>11, <1>12, BoundedInduct
  <1>14. X \in [0 .. N -> Seq(Name)] /\ X[0] = <<>>
    <2>1. \A k \in 0 .. N : X[k] \in Seq(Name)
      BY <1>13
    <2>2. X = [k \in 0 .. N |-> X[k]]
      BY <1>9
    <2>3. X[0] = <<>>
      BY <1>2, <1>9
    <2> QED
      BY <2>1, <2>2, <2>3
  <1>15. Routes(fs, p, X)
    BY <1>10, <1>14 DEF Routes, N
  <1> QED
    BY <1>1, <1>15 DEF N

(* It follows one name after the other.                                    *)
LEMMA ResolvedFacts ==
    ASSUME NEW fs, LinksSound(fs)
    PROVE  /\ Resolved(fs, <<>>) = <<>>
           /\ \A p \in Seq(Name) :
                /\ Resolved(fs, p) \in Seq(Name)
                /\ \A n \in Name : Resolved(fs, Append(p, n)) = Follow(fs, Resolved(fs, p), n)
  <1>1. Resolved(fs, <<>>) = <<>>
    <2>1. <<>> \in Seq(Name) /\ Len(<<>>) = 0
      OBVIOUS
    <2>2. PICK at : Routes(fs, <<>>, at) /\ Resolved(fs, <<>>) = at[Len(<<>>)]
      BY <2>1, Route
    <2>3. at[0] = <<>>
      BY <2>2 DEF Routes
    <2> QED
      BY <2>1, <2>2, <2>3
  <1>2. ASSUME NEW p \in Seq(Name) PROVE Resolved(fs, p) \in Seq(Name)
    <2>1. Len(p) \in 0 .. Len(p)
      OBVIOUS
    <2> QED
      BY <2>1, Route DEF Routes
  <1>3. ASSUME NEW p \in Seq(Name), NEW n \in Name
        PROVE  Resolved(fs, Append(p, n)) = Follow(fs, Resolved(fs, p), n)
    <2> DEFINE u == Append(p, n)
    <2>1. /\ u \in Seq(Name) /\ Len(u) = Len(p) + 1 /\ u[Len(p) + 1] = n
          /\ \A i \in 1 .. Len(p) : u[i] = p[i]
      OBVIOUS
    <2> HIDE DEF u
    <2>2. PICK at : Routes(fs, p, at) /\ Resolved(fs, p) = at[Len(p)]
      BY Route
    <2>3. PICK bt : Routes(fs, u, bt) /\ Resolved(fs, u) = bt[Len(u)]
      BY <2>1, Route
    <2> DEFINE S == {k \in 0 .. Len(p) : at[k] = bt[k]}
    <2>4. 0 \in S
      BY <2>2, <2>3 DEF Routes
    <2>5. ASSUME NEW k \in 0 .. Len(p) - 1, k \in S PROVE k + 1 \in S
      <3>1. k + 1 \in 1 .. Len(p) /\ k + 1 \in 1 .. Len(u) /\ (k + 1) - 1 = k /\ k + 1 \in 0 .. Len(p)
        BY <2>1
      <3>2. at[k + 1] = Follow(fs, at[k], p[k + 1])
        BY <2>2, <3>1 DEF Routes
      <3>3. bt[k + 1] = Follow(fs, bt[k], u[k + 1])
        BY <2>3, <3>1 DEF Routes
      <3> QED
        BY <2>1, <2>5, <3>1, <3>2, <3>3
    <2>6. 0 .. Len(p) \subseteq S
      <3>1. Len(p) \in Nat
        OBVIOUS
      <3> HIDE DEF S
      <3> QED
        BY <2>4, <2>5, <3>1, BoundedInduct
    <2>7. at[Len(p)] = bt[Len(p)]
      BY <2>6
    <2>8. bt[Len(p) + 1] = Follow(fs, bt[Len(p)], n)
      <3>1. Len(p) + 1 \in 1 .. Len(u) /\ (Len(p) + 1) - 1 = Len(p)
        BY <2>1
      <3> QED
        BY <2>1, <2>3, <3>1 DEF Routes
    <2> QED
      BY <2>1, <2>2, <2>3, <2>7, <2>8 DEF u
  <1> QED
    BY <1>1, <1>2, <1>3

(* Locations are paths too.                                                *)
LEMMA LocatedFacts ==
    ASSUME NEW fs, LinksSound(fs), NEW p \in Seq(Name)
    PROVE  /\ Located(fs, p) \in Seq(Name) /\ Entry(fs, p) \in Seq(Name)
           /\ Stored(fs, Located(fs, p)) = Located(fs, p)
           /\ \A n \in Name : Entry(fs, Append(p, n)) = Append(Located(fs, p), One(fs, n))
  <1>1. Resolved(fs, p) \in Seq(Name)
    BY ResolvedFacts
  <1>2. Located(fs, p) \in Seq(Name) /\ Stored(fs, Located(fs, p)) = Located(fs, p)
    BY <1>1, StoredFacts DEF Located
  <1>3. Entry(fs, p) \in Seq(Name)
    <2>1. CASE p = <<>>
      BY <2>1 DEF Entry
    <2>2. CASE p # <<>>
      <3>1. Front(p) \in Seq(Name) /\ Last(p) \in Name
        BY <2>2, FrontFacts
      <3>2. Append(Resolved(fs, Front(p)), Last(p)) \in Seq(Name)
        BY <3>1, ResolvedFacts
      <3> QED
        BY <2>2, <3>2, StoredFacts DEF Entry
    <2> QED
      BY <2>1, <2>2
  <1>4. ASSUME NEW n \in Name PROVE Entry(fs, Append(p, n)) = Append(Located(fs, p), One(fs, n))
    <2>1. Append(p, n) # <<>>
      OBVIOUS
    <2>2. Entry(fs, Append(p, n)) = Stored(fs, Append(Resolved(fs, p), n))
      BY <2>1, FrontFacts DEF Entry
    <2> QED
      BY <1>1, <2>2, StoredFacts DEF Located
  <1> QED
    BY <1>2, <1>3, <1>4

(* Only links decide where a path leads.                                   *)
SameLinks(fs, gs) ==
    /\ gs.folds = fs.folds
    /\ \A l : /\ Kind(fs, l) = "link" <=> Kind(gs, l) = "link"
              /\ Kind(fs, l) = "link" => gs.at[l].to = fs.at[l].to

(* With the same links every path leads to the same place.                 *)
LEMMA SameLinksLead ==
    ASSUME NEW fs, NEW gs, LinksSound(fs), LinksSound(gs), SameLinks(fs, gs), NEW p \in Seq(Name)
    PROVE  Resolved(gs, p) = Resolved(fs, p) /\ Located(gs, p) = Located(fs, p)
           /\ Entry(gs, p) = Entry(fs, p)
  <1>1. \A q : Stored(gs, q) = Stored(fs, q)
    BY DEF SameLinks, Stored
  <1>2. \A q, n : Follow(gs, q, n) = Follow(fs, q, n)
    BY <1>1 DEF Follow, SameLinks
  <1> DEFINE S == {q \in Seq(Name) : Resolved(gs, q) = Resolved(fs, q)}
  <1>3. <<>> \in S
    BY ResolvedFacts
  <1>4. ASSUME NEW q \in Seq(Name), NEW n \in Name, q \in S PROVE Append(q, n) \in S
    <2>1. Append(q, n) \in Seq(Name)
      OBVIOUS
    <2>2. Resolved(gs, Append(q, n)) = Follow(gs, Resolved(gs, q), n)
      BY ResolvedFacts
    <2>3. Resolved(fs, Append(q, n)) = Follow(fs, Resolved(fs, q), n)
      BY ResolvedFacts
    <2> QED
      BY <1>2, <1>4, <2>1, <2>2, <2>3
  <1>5. Seq(Name) \subseteq S
    <2> HIDE DEF S
    <2> QED
      BY <1>3, <1>4, PathInduct
  <1>6. \A q \in Seq(Name) : Resolved(gs, q) = Resolved(fs, q)
    BY <1>5
  <1>7. Entry(gs, p) = Entry(fs, p)
    <2>1. CASE p = <<>>
      BY <2>1 DEF Entry
    <2>2. CASE p # <<>>
      <3>1. Front(p) \in Seq(Name)
        BY <2>2, FrontFacts
      <3> QED
        BY <1>1, <1>6, <2>2, <3>1 DEF Entry
    <2> QED
      BY <2>1, <2>2
  <1> QED
    BY <1>1, <1>6, <1>7 DEF Located

-----------------------------------------------------------------------------
(* File systems.                                                           *)

(* Links lead to paths.                                                    *)
LEMMA TreeLinks == ASSUME NEW fs, FileSystem(fs) PROVE LinksSound(fs)
  BY DEF FileSystem, LinksSound

(* One more name is a link, or one more name of the location.              *)
LEMMA NextName ==
    ASSUME NEW fs, FileSystem(fs), NEW p \in Seq(Name), NEW n \in Name
    PROVE  LET e == Append(Located(fs, p), One(fs, n))
           IN /\ e \in Seq(Name) /\ e = Entry(fs, Append(p, n))
              /\ Kind(fs, e) # "link" => /\ Resolved(fs, Append(p, n)) = Append(Resolved(fs, p), n)
                                         /\ Located(fs, Append(p, n)) = e
              /\ Kind(fs, e) = "link" => /\ Located(fs, Append(p, n)) = Stored(fs, fs.at[e].to)
                                         /\ e \in DOMAIN fs.at
  <1> DEFINE q == Resolved(fs, p)
             u == Append(q, n)
             e == Append(Located(fs, p), One(fs, n))
  <1>1. LinksSound(fs)
    BY TreeLinks
  <1>2. q \in Seq(Name) /\ Resolved(fs, Append(p, n)) = Follow(fs, q, n)
    BY <1>1, ResolvedFacts
  <1> HIDE DEF q
  <1>3. u \in Seq(Name) /\ Stored(fs, u) = Append(Stored(fs, q), One(fs, n))
    <2>1. u \in Seq(Name)
      BY <1>2
    <2>2. Stored(fs, Append(q, n)) = Append(Stored(fs, q), One(fs, n))
      BY <1>2, StoredFacts
    <2> QED
      BY <2>1, <2>2
  <1>4. Located(fs, p) = Stored(fs, q)
    BY DEF Located, q
  <1>5. Stored(fs, u) = e
    BY <1>3, <1>4
  <1>6. e \in Seq(Name) /\ e = Entry(fs, Append(p, n))
    BY <1>1, <1>3, <1>5, StoredFacts, LocatedFacts
  <1>7. Kind(fs, e) # "link" => Follow(fs, q, n) = u
    BY <1>5 DEF Follow
  <1>8. Kind(fs, e) = "link" => Follow(fs, q, n) = fs.at[e].to /\ e \in DOMAIN fs.at
    BY <1>5 DEF Follow, Kind
  <1> HIDE DEF u, e
  <1>9. Kind(fs, e) # "link" => Located(fs, Append(p, n)) = e
    BY <1>2, <1>5, <1>7 DEF Located
  <1>10. Kind(fs, e) = "link" => Located(fs, Append(p, n)) = Stored(fs, fs.at[e].to)
    BY <1>2, <1>8 DEF Located
  <1>11. Kind(fs, e) # "link" => Resolved(fs, Append(p, n)) = Append(Resolved(fs, p), n)
    BY <1>2, <1>7 DEF u, q
  <1> QED
    BY <1>6, <1>8, <1>9, <1>10, <1>11 DEF e

(* No path leads to a link.                                                *)
LEMMA NoLinkLocated ==
    ASSUME NEW fs, FileSystem(fs)
    PROVE  \A p \in Seq(Name) : Kind(fs, Located(fs, p)) # "link"
  <1> DEFINE S == {p \in Seq(Name) : Kind(fs, Located(fs, p)) # "link"}
  <1>1. <<>> \in S
    <2>1. Located(fs, <<>>) = <<>>
      BY TreeLinks, ResolvedFacts, StoredFacts DEF Located
    <2> QED
      BY <2>1 DEF FileSystem
  <1>2. ASSUME NEW p \in Seq(Name), NEW n \in Name, p \in S PROVE Append(p, n) \in S
    <2> DEFINE e == Append(Located(fs, p), One(fs, n))
    <2>1. Append(p, n) \in Seq(Name)
      OBVIOUS
    <2>2. CASE Kind(fs, e) # "link"
      BY <2>1, <2>2, NextName
    <2>3. CASE Kind(fs, e) = "link"
      <3>1. Located(fs, Append(p, n)) = Stored(fs, fs.at[e].to) /\ e \in DOMAIN fs.at
        BY <2>3, NextName
      <3> HIDE DEF e
      <3>2. fs.at[e].kind = "link"
        BY <2>3, <3>1 DEF Kind
      <3>3. /\ fs.at[e].to \in Seq(Name)
            /\ \A a \in Ancestors(fs.at[e].to) : Kind(fs, Stored(fs, a)) # "link"
        BY <3>1, <3>2 DEF FileSystem
      <3>4. fs.at[e].to \in Ancestors(fs.at[e].to)
        BY <3>3, SubSeqFull DEF Ancestors
      <3> QED
        BY <2>1, <3>1, <3>3, <3>4
    <2> QED
      BY <2>2, <2>3
  <1>3. Seq(Name) \subseteq S
    <2> HIDE DEF S
    <2> QED
      BY <1>1, <1>2, PathInduct
  <1> QED
    BY <1>3

(* Above whatever there is, there are directories.                         *)
LEMMA AboveIsThere ==
    ASSUME NEW fs, FileSystem(fs)
    PROVE  \A l \in DOMAIN fs.at : \A m \in Seq(Name) :
             Pre(m, l) => m \in DOMAIN fs.at /\ (m # l => fs.at[m].kind = "dir")
  <1> DEFINE S == {l \in Seq(Name) : l \in DOMAIN fs.at =>
                     \A m \in Seq(Name) :
                       Pre(m, l) => m \in DOMAIN fs.at /\ (m # l => fs.at[m].kind = "dir")}
  <1>1. <<>> \in S
    <2>1. ASSUME NEW m \in Seq(Name), Pre(m, <<>>) PROVE m = <<>>
      BY <2>1 DEF Pre
    <2> QED
      BY <2>1
  <1>2. ASSUME NEW p \in Seq(Name), NEW n \in Name, p \in S PROVE Append(p, n) \in S
    <2> DEFINE u == Append(p, n)
    <2>1. u \in Seq(Name) /\ u # <<>> /\ Front(u) = p
      BY FrontFacts
    <2> SUFFICES ASSUME u \in DOMAIN fs.at, NEW m \in Seq(Name), Pre(m, u)
                 PROVE  m \in DOMAIN fs.at /\ (m # u => fs.at[m].kind = "dir")
      BY <2>1
    <2>2. Pre(m, p) \/ m = u
      BY PreFacts
    <2> HIDE DEF u
    <2>3. Kind(fs, p) = "dir"
      BY <2>1 DEF FileSystem
    <2>4. p \in DOMAIN fs.at /\ fs.at[p].kind = "dir"
      BY <2>3 DEF Kind
    <2> QED
      BY <1>2, <2>2, <2>4
  <1>3. Seq(Name) \subseteq S
    <2> HIDE DEF S
    <2> QED
      BY <1>1, <1>2, PathInduct
  <1>4. DOMAIN fs.at \subseteq Seq(Name)
    BY DEF FileSystem
  <1> QED
    BY <1>3, <1>4

(* Below what is missing everything is missing, and spelled out.           *)
LEMMA MissingBelow ==
    ASSUME NEW fs, FileSystem(fs)
    PROVE  \A p, a \in Seq(Name) :
             Pre(a, p) /\ ~Exists(fs, a) => ~Exists(fs, p) /\ Pre(Located(fs, a), Located(fs, p))
  <1> DEFINE S == {p \in Seq(Name) : \A a \in Seq(Name) :
                     Pre(a, p) /\ ~Exists(fs, a) => ~Exists(fs, p) /\ Pre(Located(fs, a), Located(fs, p))}
  <1>0. \A p \in Seq(Name) : Located(fs, p) \in Seq(Name)
    BY TreeLinks, LocatedFacts
  <1>1. <<>> \in S
    <2> SUFFICES ASSUME NEW a \in Seq(Name), Pre(a, <<>>), ~Exists(fs, a)
                 PROVE  ~Exists(fs, <<>>) /\ Pre(Located(fs, a), Located(fs, <<>>))
      OBVIOUS
    <2>1. a = <<>>
      BY DEF Pre
    <2> QED
      BY <1>0, <2>1, PreFacts
  <1>2. ASSUME NEW p \in Seq(Name), NEW n \in Name, p \in S PROVE Append(p, n) \in S
    <2> DEFINE u == Append(p, n)
               e == Append(Located(fs, p), One(fs, n))
    <2>1. u \in Seq(Name)
      OBVIOUS
    <2> SUFFICES ASSUME NEW a \in Seq(Name), Pre(a, u), ~Exists(fs, a)
                 PROVE  ~Exists(fs, u) /\ Pre(Located(fs, a), Located(fs, u))
      BY <2>1
    <2>2. Pre(a, p) \/ a = u
      BY PreFacts
    <2>3. CASE a = u
      BY <1>0, <2>1, <2>3, PreFacts
    <2>4. CASE Pre(a, p)
      <3>1. ~Exists(fs, p) /\ Pre(Located(fs, a), Located(fs, p))
        BY <1>2, <2>4
      <3>2. e \in Seq(Name) /\ Pre(Located(fs, p), e) /\ e # Located(fs, p)
        <4>1. Located(fs, p) \in Seq(Name) /\ One(fs, n) \in Name
          BY <1>0, StoredFacts
        <4> QED
          BY <4>1, PreFacts
      <3>3. e \notin DOMAIN fs.at
        BY <1>0, <3>1, <3>2, AboveIsThere DEF Exists
      <3>4. Kind(fs, e) = "none"
        BY <3>3 DEF Kind
      <3>5. Located(fs, u) = e
        BY <3>4, NextName
      <3> HIDE DEF e, u
      <3> QED
        BY <1>0, <2>1, <3>1, <3>2, <3>3, <3>5, PreFacts DEF Exists
    <2> QED
      BY <2>2, <2>3, <2>4
  <1>3. Seq(Name) \subseteq S
    <2> HIDE DEF S
    <2> QED
      BY <1>1, <1>2, PathInduct
  <1> QED
    BY <1>3

(* Ancestors are prefixes.                                                 *)
LEMMA AncestorsPre ==
    ASSUME NEW p \in Seq(Name)
    PROVE  \A a : a \in Ancestors(p) <=> a \in Seq(Name) /\ Pre(a, p)
  <1>1. ASSUME NEW a, a \in Ancestors(p) PROVE a \in Seq(Name) /\ Pre(a, p)
    <2>1. PICK k \in 0 .. Len(p) : a = SubSeq(p, 1, k)
      BY <1>1 DEF Ancestors
    <2> QED
      BY <2>1, AncestorFacts, PreFacts
  <1>2. ASSUME NEW a \in Seq(Name), Pre(a, p) PROVE a \in Ancestors(p)
    BY <1>2, PreFacts DEF Ancestors
  <1> QED
    BY <1>1, <1>2

(* No link is on the way of a path.                                        *)
Plain(fs, p) == \A a \in Ancestors(p) : Kind(fs, Entry(fs, a)) # "link"

(* Such a path leads nowhere else.                                         *)
LEMMA PlainStays ==
    ASSUME NEW fs, FileSystem(fs), NEW p \in Seq(Name), Plain(fs, p)
    PROVE  \A a \in Ancestors(p) : Resolved(fs, a) = a
  <1> DEFINE S == {a \in Seq(Name) : Pre(a, p) => Resolved(fs, a) = a}
  <1>1. <<>> \in S
    BY TreeLinks, ResolvedFacts
  <1>2. ASSUME NEW q \in Seq(Name), NEW n \in Name, q \in S PROVE Append(q, n) \in S
    <2> DEFINE u == Append(q, n)
    <2>1. u \in Seq(Name) /\ Pre(q, u)
      BY PreFacts
    <2> SUFFICES ASSUME Pre(u, p) PROVE Resolved(fs, u) = u
      BY <2>1
    <2>2. Pre(q, p)
      <3> HIDE DEF u
      <3> QED
        BY <2>1, PreFacts
    <2>3. Resolved(fs, q) = q
      BY <1>2, <2>2
    <2>4. Kind(fs, Entry(fs, u)) # "link"
      <3> HIDE DEF u
      <3> QED
        BY <2>1, AncestorsPre DEF Plain
    <2> DEFINE e == Append(Located(fs, q), One(fs, n))
    <2>5. e = Entry(fs, u) /\ (Kind(fs, e) # "link" => Resolved(fs, u) = Append(Resolved(fs, q), n))
      BY NextName
    <2> HIDE DEF e
    <2> QED
      BY <2>3, <2>4, <2>5
  <1>3. Seq(Name) \subseteq S
    <2> HIDE DEF S
    <2> QED
      BY <1>1, <1>2, PathInduct
  <1> QED
    BY <1>3, AncestorsPre

(* Two paths that pathContains sees for what they are.                     *)
Comparable(fs, r, p) ==
    \/ ~fs.folds
    \/ Plain(fs, r) /\ Plain(fs, p)
    \/ Resolved(fs, r) = Located(fs, r) /\ Resolved(fs, p) = Located(fs, p)

(* What is selected is, unless links and spellings combine.                *)
LEMMA SeenComparable ==
    ASSUME ~Unseen, NEW r \in Selected, NEW p \in Selected
    PROVE  Comparable(before, r, p)
  BY DEF Unseen, Comparable, Plain

(* What pathContains may miss then: nothing that is there.                 *)
LEMMA ContainsSeen ==
    ASSUME NEW fs, FileSystem(fs), NEW r \in Seq(Name), NEW p \in Seq(Name), Comparable(fs, r, p),
           Pre(Located(fs, r), Located(fs, p)), Exists(fs, r) \/ Exists(fs, p)
    PROVE  PathContains(fs, FilesystemPath(fs, r), FilesystemPath(fs, p))
  <1>1. Resolved(fs, r) \in Seq(Name) /\ Resolved(fs, p) \in Seq(Name)
    BY TreeLinks, ResolvedFacts
  <1>2. CASE Resolved(fs, r) = Located(fs, r) /\ Resolved(fs, p) = Located(fs, p)
    <2>1. Pre(Resolved(fs, r), Resolved(fs, p))
      BY <1>2
    <2> QED
      BY <1>1, <2>1, PrefixPointwise DEF PathContains, FilesystemPath
  <1>3. CASE ~fs.folds
    BY <1>1, <1>2, <1>3, StoredFacts DEF Located
  <1>4. CASE Plain(fs, r) /\ Plain(fs, p)
    <2>0. /\ \A a \in Ancestors(p) : Resolved(fs, a) = a
          /\ Resolved(fs, r) = r /\ Resolved(fs, p) = p
      <3>1. r \in Ancestors(r) /\ p \in Ancestors(p)
        BY AncestorsPre, PreFacts
      <3> QED
        BY <1>4, <3>1, PlainStays
    <2>1. Located(fs, r) = Stored(fs, r) /\ Located(fs, p) = Stored(fs, p)
      BY <2>0 DEF Located
    <2>2. Exists(fs, r)
      <3>1. Located(fs, r) \in Seq(Name)
        BY TreeLinks, LocatedFacts
      <3> QED
        BY <3>1, AboveIsThere DEF Exists
    <2> DEFINE k == Len(r)
               a == SubSeq(p, 1, k)
    <2> DEFINE s == Stored(fs, r)
               t == Stored(fs, p)
    <2>3. s \in Seq(Name) /\ Len(s) = k /\ t \in Seq(Name) /\ Len(t) = Len(p)
      BY StoredFacts
    <2>4. Pre(s, t)
      BY <2>1
    <2> HIDE DEF s, t
    <2>5. Len(s) \in 0 .. Len(t) /\ s = SubSeq(t, 1, Len(s))
      BY <2>3, <2>4, PreFacts
    <2>6. k \in 0 .. Len(p)
      BY <2>3, <2>5
    <2>7. a \in Seq(Name) /\ a \in Ancestors(p)
      BY <2>6, AncestorFacts DEF Ancestors
    <2>8. Stored(fs, a) = SubSeq(Stored(fs, p), 1, k)
      BY <2>6, StoredFacts
    <2>9. Stored(fs, r) = SubSeq(Stored(fs, p), 1, k)
      BY <2>3, <2>5 DEF s, t
    <2> HIDE DEF a, k
    <2>10. Located(fs, a) = Located(fs, r)
      BY <2>0, <2>1, <2>7, <2>8, <2>9 DEF Located
    <2>11. SameFile(fs, r, a)
      BY <2>2, <2>10 DEF SameFile
    <2> QED
      BY <2>7, <2>11 DEF PathContains, FilesystemPath
  <1> QED
    BY <1>2, <1>3, <1>4 DEF Comparable

-----------------------------------------------------------------------------
(* Where outputs go.                                                       *)

(* One name at the end of a path.                                          *)
LEMMA OneMore ==
    ASSUME NEW p \in Seq(Name), NEW n \in Name
    PROVE  p \o <<n>> = Append(p, n)
  OBVIOUS

(* A path continued.                                                       *)
LEMMA Continued ==
    ASSUME NEW p \in Seq(Name), NEW q \in Seq(Name)
    PROVE  p \o q \in Seq(Name) /\ Pre(p, p \o q) /\ (q # <<>> => p \o q # p)
  <1>1. p \o q \in Seq(Name)
    BY ConcatProperties
  <1>2. Pre(p, p \o q)
    BY ConcatProperties DEF Pre
  <1>3. q # <<>> => p \o q # p
    BY ConcatProperties, ConcatEqualIffEmpty
  <1> QED
    BY <1>1, <1>2, <1>3

Namespace(fs, o, name) == Append(Located(fs, o), One(fs, name))

NoLinksBelow(fs, l) == \A m \in DOMAIN fs.at : Pre(l, m) => fs.at[m].kind # "link"

(* Below a namespace without links every path stays there.                 *)
LEMMA StaysBelow ==
    ASSUME NEW fs, FileSystem(fs), NEW o \in Seq(Name), NEW name \in Name,
           NoLinksBelow(fs, Namespace(fs, o, name))
    PROVE  \A p \in Seq(Name) :
             Pre(Append(o, name), p) => /\ Pre(Namespace(fs, o, name), Located(fs, p))
                                        /\ Pre(Append(Resolved(fs, o), name), Resolved(fs, p))
  <1> DEFINE NS == Namespace(fs, o, name)
             RS == Append(Resolved(fs, o), name)
             S == {p \in Seq(Name) : Pre(Append(o, name), p) =>
                     Pre(NS, Located(fs, p)) /\ Pre(RS, Resolved(fs, p))}
  <1>0. NS \in Seq(Name) /\ Append(o, name) \in Seq(Name) /\ \A p \in Seq(Name) : Located(fs, p) \in Seq(Name)
    BY TreeLinks, LocatedFacts, NextName DEF Namespace
  <1>00. RS \in Seq(Name) /\ \A p \in Seq(Name) : Resolved(fs, p) \in Seq(Name)
    BY TreeLinks, ResolvedFacts
  <1>1. <<>> \in S
    <2>1. ~Pre(Append(o, name), <<>>)
      BY DEF Pre
    <2> QED
      BY <2>1
  <1>2. ASSUME NEW p \in Seq(Name), NEW n \in Name, p \in S PROVE Append(p, n) \in S
    <2> DEFINE e == Append(Located(fs, p), One(fs, n))
    <2>0. Append(p, n) \in Seq(Name)
      OBVIOUS
    <2>1. Append(p, n) \in Seq(Name) /\ e \in Seq(Name)
      BY <2>0, NextName
    <2> SUFFICES ASSUME Pre(Append(o, name), Append(p, n))
                 PROVE  Pre(NS, Located(fs, Append(p, n))) /\ Pre(RS, Resolved(fs, Append(p, n)))
      BY <2>1
    <2>2. Pre(Append(o, name), p) \/ Append(o, name) = Append(p, n)
      BY <1>0, PreFacts
    <2>3. Pre(NS, e)
      <3>1. CASE Pre(Append(o, name), p)
        <4>1. Pre(NS, Located(fs, p))
          BY <1>2, <3>1
        <4>2. Pre(Located(fs, p), e)
          <5>1. Located(fs, p) \in Seq(Name) /\ One(fs, n) \in Name
            BY <1>0, StoredFacts
          <5> QED
            BY <5>1, PreFacts
        <4> HIDE DEF NS, e
        <4> QED
          BY <1>0, <2>1, <4>1, <4>2, PreFacts
      <3>2. CASE Append(o, name) = Append(p, n)
        <4>1. o = p /\ name = n
          <5>1. Front(Append(o, name)) = o /\ Last(Append(o, name)) = name
            BY FrontFacts
          <5>2. Front(Append(p, n)) = p /\ Last(Append(p, n)) = n
            BY FrontFacts
          <5> QED
            BY <3>2, <5>1, <5>2
        <4>2. NS = e
          BY <4>1 DEF Namespace
        <4> HIDE DEF NS, e
        <4> QED
          BY <1>0, <4>2, PreFacts
      <3> QED
        BY <2>2, <3>1, <3>2
    <2>4. Kind(fs, e) # "link"
      <3> HIDE DEF e, NS
      <3> QED
        BY <2>3 DEF NoLinksBelow, Kind, NS
    <2>5. Located(fs, Append(p, n)) = e /\ Resolved(fs, Append(p, n)) = Append(Resolved(fs, p), n)
      BY <2>4, NextName
    <2>6. Pre(RS, Append(Resolved(fs, p), n))
      <3> DEFINE r == Resolved(fs, p)
                 x == Append(r, n)
      <3>1. r \in Seq(Name) /\ x \in Seq(Name) /\ Pre(r, x)
        BY <1>00, PreFacts
      <3>2. CASE Pre(Append(o, name), p)
        <4>1. Pre(RS, r)
          BY <1>2, <3>2
        <4> HIDE DEF RS, r, x
        <4>2. Pre(RS, x)
          BY <1>00, <3>1, <4>1, PreFacts
        <4> QED
          BY <4>2 DEF x, r
      <3>3. CASE Append(o, name) = Append(p, n)
        <4>1. o = p /\ name = n
          <5>1. Front(Append(o, name)) = o /\ Last(Append(o, name)) = name
            BY FrontFacts
          <5>2. Front(Append(p, n)) = p /\ Last(Append(p, n)) = n
            BY FrontFacts
          <5> QED
            BY <3>3, <5>1, <5>2
        <4> HIDE DEF r
        <4> QED
          BY <1>00, <3>1, <4>1, PreFacts DEF r
      <3> QED
        BY <2>2, <3>2, <3>3
    <2> HIDE DEF e
    <2> QED
      BY <2>3, <2>5, <2>6
  <1>3. Seq(Name) \subseteq S
    <2> HIDE DEF S
    <2> QED
      BY <1>1, <1>2, PathInduct
  <1> QED
    BY <1>3

(* So an output below a namespace takes no link's place, and the           *)
(* directories made for it are on the way to the output directory or       *)
(* below it.                                                               *)
LEMMA OutputPlace ==
    ASSUME NEW fs, FileSystem(fs), NEW o \in Seq(Name), NEW name \in Name,
           NoLinksBelow(fs, Namespace(fs, o, name)),
           NEW p \in Seq(Name), Pre(Append(o, name), p), p # Append(o, name)
    PROVE  /\ Pre(Namespace(fs, o, name), Entry(fs, p)) /\ Kind(fs, Entry(fs, p)) # "link"
           /\ Pre(Located(fs, o), Entry(fs, p))
           /\ \A l \in Parents(fs, p) :
                l \in DOMAIN fs.at \/ Pre(l, Located(fs, o)) \/ Pre(Located(fs, o), l)
  <1> DEFINE NS == Namespace(fs, o, name)
             w == Append(o, name)
             O == Located(fs, o)
  <1>0. /\ NS \in Seq(Name) /\ w \in Seq(Name) /\ O \in Seq(Name)
        /\ \A q \in Seq(Name) : Located(fs, q) \in Seq(Name)
    BY TreeLinks, LocatedFacts, NextName DEF Namespace
  <1>1. Pre(O, NS) /\ Pre(o, w)
    BY <1>0, StoredFacts, PreFacts DEF Namespace
  <1>2. p # <<>>
    BY DEF Pre
  <1>3. Front(p) \in Seq(Name) /\ Last(p) \in Name /\ p = Append(Front(p), Last(p))
    BY <1>2, FrontFacts
  <1>4. Pre(w, Front(p))
    <2> DEFINE f == Front(p)
               n == Last(p)
    <2>1. f \in Seq(Name) /\ n \in Name /\ p = Append(f, n)
      BY <1>3
    <2> HIDE DEF f, n
    <2>2. Pre(w, f)
      BY <1>0, <2>1, PreFacts
    <2> QED
      BY <2>2 DEF f
  <1> DEFINE e == Append(Located(fs, Front(p)), One(fs, Last(p)))
  <1>5. e \in Seq(Name) /\ Entry(fs, p) = e
    <2> DEFINE f == Front(p)
               n == Last(p)
    <2>1. f \in Seq(Name) /\ n \in Name /\ p = Append(f, n)
      BY <1>3
    <2> HIDE DEF f, n
    <2>2. Append(Located(fs, f), One(fs, n)) \in Seq(Name) /\ Entry(fs, p) = Append(Located(fs, f), One(fs, n))
      BY <2>1, NextName
    <2> QED
      BY <2>2 DEF f, n
  <1>6. Pre(NS, Located(fs, Front(p)))
    BY <1>3, <1>4, StaysBelow
  <1>7. Pre(Located(fs, Front(p)), e)
    <2> DEFINE m == Located(fs, Front(p))
               x == One(fs, Last(p))
    <2>1. m \in Seq(Name) /\ x \in Name
      BY <1>0, <1>3, StoredFacts
    <2> HIDE DEF m, x
    <2>2. Pre(m, Append(m, x))
      BY <2>1, PreFacts
    <2> QED
      BY <2>2 DEF m, x
  <1> HIDE DEF NS, w, O, e
  <1>8. Pre(NS, e) /\ Pre(O, e)
    <2>1. Located(fs, Front(p)) \in Seq(Name)
      BY <1>0, <1>3
    <2>2. Pre(NS, e)
      BY <1>0, <1>5, <1>6, <1>7, <2>1, PreFacts
    <2> QED
      BY <1>0, <1>1, <1>5, <2>2, PreFacts
  <1>9. Kind(fs, e) # "link"
    BY <1>8 DEF NoLinksBelow, Kind, NS
  <1>10. ASSUME NEW l \in Parents(fs, p)
         PROVE  l \in DOMAIN fs.at \/ Pre(l, O) \/ Pre(O, l)
    <2>1. PICK a \in Ancestors(Front(p)) : l = Located(fs, a)
      BY DEF Parents
    <2>2. a \in Seq(Name) /\ Pre(a, Front(p))
      <3>1. PICK k \in 0 .. Len(Front(p)) : a = SubSeq(Front(p), 1, k)
        BY <2>1 DEF Ancestors
      <3> QED
        BY <1>3, <3>1, AncestorFacts, PreFacts
    <2>3. l \in Seq(Name)
      BY <1>0, <2>1, <2>2
    <2>4. Pre(a, w) \/ Pre(w, a)
      BY <1>0, <1>3, <1>4, <2>2, PreFacts
    <2>5. CASE Pre(a, o)
      BY <2>1, <2>2, <2>5, MissingBelow DEF Exists, O
    <2>6. CASE Pre(w, a)
      <3>1. Pre(NS, l)
        BY <2>1, <2>2, <2>6, StaysBelow DEF NS, w
      <3> QED
        BY <1>0, <1>1, <2>3, <3>1, PreFacts
    <2>7. Pre(a, w) => Pre(a, o) \/ a = w
      BY <2>2, PreFacts DEF w
    <2> QED
      BY <1>0, <2>4, <2>5, <2>6, <2>7, PreFacts
  <1> QED
    BY <1>5, <1>8, <1>9, <1>10 DEF NS, O

-----------------------------------------------------------------------------
(* The inductive invariant, in four parts.                                 *)

Early == {"options", "preflight", "pipeline"}

Types ==
    /\ phase \in Early \cup {"next", "read", "event", "report", "summaries", "ended"}
    /\ exit \in IF phase = "ended" THEN {0, 1, 2} ELSE {None}
    /\ summary \in [Counter -> Nat]
    /\ writing \in Nat
    /\ IsFiniteSet(visited)
    /\ event = [rel |-> event.rel, errors |-> event.errors, warnings |-> event.warnings,
                eventWritten |-> event.eventWritten, reportWritten |-> event.reportWritten]
    /\ event.errors \in BOOLEAN /\ event.warnings \in BOOLEAN
    /\ event.eventWritten \in BOOLEAN /\ event.reportWritten \in BOOLEAN

WellFormed(fs) ==
    /\ fs = [folds |-> fs.folds, at |-> fs.at]
    /\ \A l \in DOMAIN fs.at : fs.at[l].kind # "none"

DiskSound == WellFormed(disk) /\ disk.folds = before.folds /\ NothingReplaced

Untouched == phase \in Early \/ exit = 2 => disk = before /\ printed = {}

(* What is known of the event in hand, by phase.                           *)
InHand ==
    /\ phase \in {"read", "event"} => ~event.eventWritten /\ ~event.reportWritten
    /\ phase = "report" => (event.eventWritten <=> config.mutates) /\ ~event.reportWritten

IInv == Types /\ DiskSound /\ Untouched /\ InHand /\ CountersAgree

-----------------------------------------------------------------------------
(* What may happen to a file system: entries appear, and one is replaced   *)
(* only with --overwrite.                                                  *)
Grows(fs, gs) ==
    /\ WellFormed(gs) /\ gs.folds = fs.folds
    /\ ~config.overwrite =>
         \A l \in DOMAIN fs.at : l \in DOMAIN gs.at /\ gs.at[l] = fs.at[l]

(* Making the directories above a path only adds.                          *)
LEMMA DirectoriesGrow ==
    ASSUME NEW fs, NEW p, WellFormed(fs)
    PROVE  /\ WellFormed(Directories(fs, p)) /\ Directories(fs, p).folds = fs.folds
           /\ DOMAIN fs.at \subseteq DOMAIN Directories(fs, p).at
           /\ \A l \in DOMAIN fs.at : Directories(fs, p).at[l] = fs.at[l]
  <1> DEFINE ds == DOMAIN fs.at \cup Parents(fs, p)
             at == [l \in ds |-> IF l \in DOMAIN fs.at THEN fs.at[l] ELSE Dir]
  <1>1. Directories(fs, p) = [folds |-> fs.folds, at |-> at]
    BY DEF Directories, WellFormed
  <1>2. \A l \in ds : at[l].kind # "none"
    BY DEF WellFormed, Dir
  <1>3. DOMAIN at = ds
    OBVIOUS
  <1>4. \A l \in DOMAIN fs.at : at[l] = fs.at[l]
    OBVIOUS
  <1> HIDE DEF at
  <1> QED
    BY <1>1, <1>2, <1>3, <1>4 DEF WellFormed

(* A write that succeeds: files and directories appear, and MayWrite has   *)
(* looked at the place before a file takes it.                             *)
LEMMA WriteGrows ==
    ASSUME NEW p, NEW file, file.kind = "file", WellFormed(disk), Write(p, file)
    PROVE  Grows(disk, disk')
  <1>1. CASE p = Stdio
    BY <1>1 DEF Write, Grows
  <1>2. CASE p # Stdio
    <2> DEFINE fs == Directories(disk, p)
               e == Entry(disk, p)
               at == [l \in DOMAIN fs.at \cup {e} |-> IF l = e THEN file ELSE fs.at[l]]
    <2>1. MayWrite(config, disk, p) /\ disk' = [fs EXCEPT !.at = at]
      BY <1>2 DEF Write
    <2>2. /\ WellFormed(fs) /\ fs.folds = disk.folds
          /\ DOMAIN disk.at \subseteq DOMAIN fs.at
          /\ \A l \in DOMAIN disk.at : fs.at[l] = disk.at[l]
      BY DirectoriesGrow
    <2> HIDE DEF fs
    <2>3. disk' = [folds |-> disk.folds, at |-> at]
      BY <2>1, <2>2 DEF WellFormed
    <2>4. \A l \in DOMAIN at : at[l].kind # "none"
      BY <2>2 DEF WellFormed
    <2>5. ~config.overwrite => e \notin DOMAIN disk.at
      BY <2>1 DEF MayWrite, Kind, WellFormed
    <2>6. ~config.overwrite => \A l \in DOMAIN disk.at : l \in DOMAIN at /\ at[l] = disk.at[l]
      BY <2>2, <2>5
    <2> HIDE DEF at
    <2> QED
      BY <2>3, <2>4, <2>6 DEF Grows, WellFormed
  <1> QED
    BY <1>1, <1>2

(* A write that fails leaves at most directories.                          *)
LEMMA FailureGrows ==
    ASSUME NEW p, WellFormed(disk), WriteFails(p)
    PROVE  Grows(disk, disk')
  <1>1. CASE UNCHANGED disk
    BY <1>1 DEF Grows
  <1>2. CASE disk' = Directories(disk, p)
    BY <1>2, DirectoriesGrow DEF Grows
  <1> QED
    BY <1>1, <1>2 DEF WriteFails

(* What a write that succeeds does to the file system.                     *)
LEMMA WriteAt ==
    ASSUME NEW p, NEW file, p # Stdio, WellFormed(disk), Write(p, file)
    PROVE  LET e == Entry(disk, p)
           IN /\ WellFormed(disk') <=> file.kind # "none"
              /\ disk'.folds = disk.folds
              /\ DOMAIN disk'.at = DOMAIN disk.at \cup Parents(disk, p) \cup {e}
              /\ disk'.at[e] = file
              /\ \A l \in DOMAIN disk'.at \ {e} : disk'.at[l] = IF l \in DOMAIN disk.at THEN disk.at[l] ELSE Dir
              /\ Kind(disk, e) # "dir" /\ (config.overwrite \/ Kind(disk, e) = "none")
              /\ UNCHANGED printed
  <1> DEFINE fs == Directories(disk, p)
             e == Entry(disk, p)
             ds == DOMAIN disk.at \cup Parents(disk, p)
             at == [l \in ds |-> IF l \in DOMAIN disk.at THEN disk.at[l] ELSE Dir]
             bt == [l \in ds \cup {e} |-> IF l = e THEN file ELSE at[l]]
  <1>1. fs = [folds |-> disk.folds, at |-> at]
    BY DEF Directories, WellFormed
  <1>2. MayWrite(config, disk, p) /\ disk' = [fs EXCEPT !.at = [l \in DOMAIN fs.at \cup {e} |-> IF l = e THEN file ELSE fs.at[l]]]
    BY DEF Write
  <1>3. fs.at = at /\ DOMAIN at = ds
    BY <1>1
  <1>4. disk' = [folds |-> disk.folds, at |-> bt]
    <2>1. [l \in DOMAIN fs.at \cup {e} |-> IF l = e THEN file ELSE fs.at[l]] = bt
      BY <1>3
    <2> HIDE DEF bt
    <2> QED
      BY <1>1, <1>2, <2>1
  <1>5. /\ DOMAIN bt = ds \cup {e} /\ bt[e] = file
        /\ \A l \in DOMAIN bt \ {e} : bt[l] = IF l \in DOMAIN disk.at THEN disk.at[l] ELSE Dir
    OBVIOUS
  <1>6. Kind(disk, e) # "dir" /\ (config.overwrite \/ Kind(disk, e) = "none") /\ UNCHANGED printed
    BY <1>2 DEF MayWrite, Write
  <1> HIDE DEF bt, e
  <1>7. disk'.at = bt /\ disk'.folds = disk.folds
    BY <1>4
  <1>8. WellFormed(disk') <=> file.kind # "none"
    BY <1>4, <1>5, <1>7 DEF WellFormed, Dir
  <1> QED
    BY <1>5, <1>6, <1>7, <1>8 DEF e

(* And one that fails.                                                     *)
LEMMA FailsAt ==
    ASSUME NEW p, WellFormed(disk), WriteFails(p)
    PROVE  /\ WellFormed(disk') /\ disk'.folds = disk.folds
           /\ DOMAIN disk.at \subseteq DOMAIN disk'.at
           /\ p # Stdio => DOMAIN disk'.at \subseteq DOMAIN disk.at \cup Parents(disk, p)
           /\ p = Stdio => UNCHANGED disk
           /\ \A l \in DOMAIN disk'.at : disk'.at[l] = IF l \in DOMAIN disk.at THEN disk.at[l] ELSE Dir
  <1>1. CASE UNCHANGED disk
    BY <1>1
  <1>2. CASE p # Stdio /\ disk' = Directories(disk, p)
    <2>1. /\ WellFormed(disk') /\ disk'.folds = disk.folds
          /\ DOMAIN disk.at \subseteq DOMAIN disk'.at
      BY <1>2, DirectoriesGrow
    <2>2. disk'.at = [l \in DOMAIN disk.at \cup Parents(disk, p) |-> IF l \in DOMAIN disk.at THEN disk.at[l] ELSE Dir]
      BY <1>2 DEF Directories, WellFormed
    <2> QED
      BY <1>2, <2>1, <2>2
  <1> QED
    BY <1>1, <1>2 DEF WriteFails

(* So the disk stays sound when it grows.                                  *)
LEMMA SoundAfter ==
    ASSUME DiskSound, Grows(disk, disk'), UNCHANGED <<config, before>>
    PROVE  DiskSound'
  BY DEF DiskSound, Grows, NothingReplaced, WellFormed

-----------------------------------------------------------------------------
Bit(b) == IF b THEN 1 ELSE 0

(* The counters after one more event, of which these were written, and     *)
(* which failed where, each 0 or 1.                                        *)
Counted(written, reported, eventFailed, reportFailed) ==
    /\ summary' \in [Counter -> Nat]
    /\ summary'["processed"] = summary["processed"] + 1
    /\ summary'["parse"] = summary["parse"]
    /\ summary'["processing"] = summary["processing"]
    /\ summary'["both"] + summary'["errors"] + summary'["warnings"] + summary'["neither"]
       = summary["both"] + summary["errors"] + summary["warnings"] + summary["neither"] + 1
    /\ summary'["eventsWritten"] = summary["eventsWritten"] + written
    /\ summary'["reportsWritten"] = summary["reportsWritten"] + reported
    /\ summary'["eventFailures"] = summary["eventFailures"] + eventFailed
    /\ summary'["reportFailures"] = summary["reportFailures"] + reportFailed

(* updateSummary counts an event once, in one category, with what was      *)
(* written of it and with the failure that ended it.                       *)
LEMMA AccountCounts ==
    ASSUME NEW e, e.errors \in BOOLEAN, e.warnings \in BOOLEAN,
           e.eventWritten \in BOOLEAN, e.reportWritten \in BOOLEAN,
           NEW failure \in {None, "eventFailures", "reportFailures"},
           summary \in [Counter -> Nat], Account(e, failure)
    PROVE  Counted(Bit(e.eventWritten), Bit(e.reportWritten),
                   Bit(failure = "eventFailures"), Bit(failure = "reportFailures"))
  <1> DEFINE counts(k) == \/ k \in {"processed", Category(e)}
                          \/ k = "eventsWritten" /\ e.eventWritten
                          \/ k = "reportsWritten" /\ e.reportWritten
                          \/ k = failure
  <1>1. summary' = [k \in Counter |-> IF counts(k) THEN summary[k] + 1 ELSE summary[k]]
    BY DEF Account
  <1>2. \A k \in Counter : summary[k] \in Nat /\ summary'[k] = IF counts(k) THEN summary[k] + 1 ELSE summary[k]
    BY <1>1
  <1>3. summary' \in [Counter -> Nat]
    BY <1>1, <1>2
  <1>4. Category(e) \in {"both", "errors", "warnings", "neither"}
    BY DEF Category
  <1>5. None \notin Counter
    BY RunAssumption
  <1>6. /\ counts("processed") /\ ~counts("parse") /\ ~counts("processing")
        /\ \A k \in {"both", "errors", "warnings", "neither"} : counts(k) <=> k = Category(e)
        /\ counts("eventsWritten") <=> e.eventWritten
        /\ counts("reportsWritten") <=> e.reportWritten
        /\ \A k \in {"eventFailures", "reportFailures"} : counts(k) <=> k = failure
    BY <1>4, <1>5 DEF Counter
  <1> HIDE DEF counts
  <1>7. /\ summary'["processed"] = summary["processed"] + 1
        /\ summary'["parse"] = summary["parse"]
        /\ summary'["processing"] = summary["processing"]
    BY <1>2, <1>6 DEF Counter
  <1>8. summary'["both"] + summary'["errors"] + summary'["warnings"] + summary'["neither"]
        = summary["both"] + summary["errors"] + summary["warnings"] + summary["neither"] + 1
    BY <1>2, <1>4, <1>6 DEF Counter
  <1>9. /\ summary'["eventsWritten"] = summary["eventsWritten"] + Bit(e.eventWritten)
        /\ summary'["reportsWritten"] = summary["reportsWritten"] + Bit(e.reportWritten)
        /\ summary'["eventFailures"] = summary["eventFailures"] + Bit(failure = "eventFailures")
        /\ summary'["reportFailures"] = summary["reportFailures"] + Bit(failure = "reportFailures")
    BY <1>2, <1>6 DEF Counter, Bit
  <1> QED
    BY <1>3, <1>7, <1>8, <1>9 DEF Counted

-----------------------------------------------------------------------------
(* The invariant holds at the start.                                       *)
LEMMA InitHolds == Init => IInv
  <1> SUFFICES ASSUME Init PROVE IInv
    OBVIOUS
  <1> USE DEF Init
  <1>1. Types
    BY FS_EmptySet DEF Types, Early, NoEvent, Counter
  <1>2. DiskSound /\ Untouched
    BY RunAssumption DEF DiskSound, WellFormed, FileSystem, NothingReplaced, Untouched
  <1>3. InHand
    BY DEF InHand
  <1>4. CountersAgree
    BY FS_EmptySet DEF CountersAgree, Counter
  <1> QED
    BY <1>1, <1>2, <1>3, <1>4 DEF IInv

(* Steps that change neither the counters nor the disk nor what was taken: *)
(* only the phase, the exit code, the number of summaries.                 *)
LEMMA QuietStep ==
    ASSUME IInv, UNCHANGED <<config, before, disk, printed, event, visited, summary>>,
           writing' \in Nat,
           phase' \in Early \cup {"next", "report", "summaries", "ended"},
           exit' \in IF phase' = "ended" THEN {0, 1, 2} ELSE {None},
           phase \notin {"read", "report", "ended"},
           phase = "event" <=> phase' = "report", phase = "event" => ~config.mutates,
           phase' \in Early \/ exit' = 2 => phase \in Early
    PROVE  IInv'
  <1> USE DEF IInv
  <1>1. Types'
    BY DEF Types, Early
  <1>2. DiskSound' /\ Untouched'
    BY DEF DiskSound, WellFormed, NothingReplaced, Untouched
  <1>3. InHand'
    BY DEF InHand, Early
  <1>4. CountersAgree'
    BY DEF CountersAgree, Early, Types, Counter
  <1> QED
    BY <1>1, <1>2, <1>3, <1>4

(* Steps that change only the disk, and perhaps end the invocation.        *)
LEMMA DiskStep ==
    ASSUME IInv, UNCHANGED <<config, before, event, visited, summary>>,
           Grows(disk, disk'), writing' \in Nat, phase = "summaries",
           \/ UNCHANGED <<phase, exit>>
           \/ phase' = "ended" /\ exit' = 1
    PROVE  IInv'
  <1> USE DEF IInv
  <1>1. Types'
    BY DEF Types, Early
  <1>2. DiskSound'
    BY SoundAfter
  <1>3. Untouched' /\ InHand'
    BY RunAssumption DEF Untouched, InHand, Early, Types
  <1>4. CountersAgree'
    BY DEF CountersAgree, Types, Counter
  <1> QED
    BY <1>1, <1>2, <1>3, <1>4

(* The walk comes to the next event, which nothing was counted of.         *)
LEMMA TakeStep == IInv /\ Take => IInv'
  <1> SUFFICES ASSUME IInv, Take PROVE IInv'
    OBVIOUS
  <1> USE DEF IInv, Go
  <1>1. PICK rel \in Rels(config, disk) \ visited :
          event' = [NoEvent EXCEPT !.rel = rel] /\ visited' = visited \cup {rel}
    BY DEF Take
  <1>2. /\ phase = "next" /\ phase' = "read" /\ exit' = exit
        /\ UNCHANGED <<config, before, disk, printed, summary, writing>>
    BY DEF Take
  <1>3. IsFiniteSet(visited') /\ Cardinality(visited') = Cardinality(visited) + 1
    BY <1>1, FS_AddElement DEF Types
  <1>4. Types'
    BY <1>1, <1>2, <1>3 DEF Types, Early, NoEvent
  <1>5. DiskSound' /\ Untouched'
    BY <1>2, RunAssumption DEF DiskSound, WellFormed, NothingReplaced, Untouched, Early, Types
  <1>6. InHand'
    BY <1>1, <1>2 DEF InHand, NoEvent
  <1>7. Cardinality(visited) \in Nat
    BY FS_CardinalityType DEF Types
  <1>8. CountersAgree'
    BY <1>2, <1>3, <1>7 DEF CountersAgree, Types, Counter
  <1> QED
    BY <1>4, <1>5, <1>6, <1>8

(* An event that cannot be read or processed ends the invocation, counted  *)
(* as such and nothing else.                                               *)
LEMMA ReadFailsStep == IInv /\ ReadFails => IInv'
  <1> SUFFICES ASSUME IInv, ReadFails PROVE IInv'
    OBVIOUS
  <1> USE DEF IInv, Exit
  <1>1. PICK k \in {"parse", "processing"} : summary' = [summary EXCEPT ![k] = @ + 1]
    BY DEF ReadFails
  <1>2. /\ phase = "read" /\ phase' = "ended" /\ exit' = 1
        /\ UNCHANGED <<config, before, disk, printed, event, visited, writing>>
    BY DEF ReadFails
  <1>3. /\ summary' \in [Counter -> Nat]
        /\ summary'[k] = summary[k] + 1
        /\ \A c \in Counter \ {k} : summary'[c] = summary[c]
    BY <1>1 DEF Types, Counter
  <1>4. Types'
    BY <1>2, <1>3 DEF Types
  <1>5. DiskSound' /\ Untouched' /\ InHand'
    BY <1>2 DEF DiskSound, WellFormed, NothingReplaced, Untouched, Early, InHand
  <1>6. Cardinality(visited) \in Nat
    BY FS_CardinalityType DEF Types
  <1>7. CountersAgree'
    <2>1. CASE k = "parse"
      BY <1>2, <1>3, <1>6, <2>1 DEF CountersAgree, Types, Counter
    <2>2. CASE k = "processing"
      BY <1>2, <1>3, <1>6, <2>2 DEF CountersAgree, Types, Counter
    <2> QED
      BY <2>1, <2>2
  <1> QED
    BY <1>4, <1>5, <1>7

(* Processing decides the category of the event.                           *)
LEMMA ProcessStep == IInv /\ Process => IInv'
  <1> SUFFICES ASSUME IInv, Process PROVE IInv'
    OBVIOUS
  <1> USE DEF IInv, Go
  <1>1. PICK errors, warnings \in IF config.validates THEN BOOLEAN ELSE {FALSE} :
          event' = [event EXCEPT !.errors = errors, !.warnings = warnings]
    BY DEF Process
  <1>2. /\ phase = "read" /\ phase' = "event" /\ exit' = exit
        /\ UNCHANGED <<config, before, disk, printed, visited, summary, writing>>
    BY DEF Process
  <1>3. errors \in BOOLEAN /\ warnings \in BOOLEAN
    OBVIOUS
  <1>4. event' = [rel |-> event.rel, errors |-> errors, warnings |-> warnings,
                  eventWritten |-> event.eventWritten, reportWritten |-> event.reportWritten]
    BY <1>1 DEF Types
  <1>5. Types'
    BY <1>2, <1>3, <1>4 DEF Types, Early
  <1>6. DiskSound' /\ Untouched' /\ InHand'
    BY <1>2, <1>4, RunAssumption
    DEF DiskSound, WellFormed, NothingReplaced, Untouched, Early, InHand, Types
  <1>7. CountersAgree'
    BY <1>2 DEF CountersAgree
  <1> QED
    BY <1>5, <1>6, <1>7

(* The event is written first; no counter moves before the report.         *)
LEMMA WriteEventStep == IInv /\ WriteEvent => IInv'
  <1> SUFFICES ASSUME IInv, WriteEvent PROVE IInv'
    OBVIOUS
  <1> USE DEF IInv, Go
  <1>1. /\ phase = "event" /\ phase' = "report" /\ exit' = exit /\ config.mutates
        /\ event' = [event EXCEPT !.eventWritten = TRUE]
        /\ UNCHANGED <<config, before, visited, summary, writing>>
    BY DEF WriteEvent
  <1>2. event' = [rel |-> event.rel, errors |-> event.errors, warnings |-> event.warnings,
                  eventWritten |-> TRUE, reportWritten |-> event.reportWritten]
    BY <1>1 DEF Types
  <1>3. Grows(disk, disk')
    BY WriteGrows DEF WriteEvent, DiskSound, EventFile
  <1>4. Types'
    BY <1>1, <1>2 DEF Types
  <1>5. DiskSound'
    BY <1>1, <1>3, SoundAfter
  <1>6. Untouched' /\ InHand'
    BY <1>1, <1>2, RunAssumption DEF Untouched, Early, InHand, Types
  <1>7. CountersAgree'
    BY <1>1 DEF CountersAgree
  <1> QED
    BY <1>4, <1>5, <1>6, <1>7

(* An event whose outputs are accounted for keeps the counters in          *)
(* agreement.                                                              *)
LEMMA AgreeAfter ==
    ASSUME IInv, UNCHANGED <<config, visited>>,
           NEW written \in {0, 1}, NEW reported \in {0, 1},
           NEW eventFailed \in {0, 1}, NEW reportFailed \in {0, 1},
           Counted(written, reported, eventFailed, reportFailed),
           phase \in {"event", "report"}, phase' \in {"next", "ended"},
           phase' = "next" => eventFailed = 0 /\ reportFailed = 0,
           written + eventFailed = Bit(config.mutates),
           reported + eventFailed + reportFailed = 1
    PROVE  summary' \in [Counter -> Nat] /\ CountersAgree'
  <1>1. Cardinality(visited) \in Nat
    BY FS_CardinalityType DEF IInv, Types
  <1>2. /\ summary["processed"] \in Nat /\ summary["parse"] \in Nat /\ summary["processing"] \in Nat
        /\ summary["eventsWritten"] \in Nat /\ summary["eventFailures"] \in Nat
        /\ summary["reportsWritten"] \in Nat /\ summary["reportFailures"] \in Nat
    BY DEF IInv, Types, Counter
  <1>3. /\ summary["processed"] + summary["parse"] + summary["processing"] + 1 = Cardinality(visited)
        /\ summary["both"] + summary["errors"] + summary["warnings"] + summary["neither"]
           = summary["processed"]
        /\ config.mutates => summary["eventsWritten"] + summary["eventFailures"] = summary["processed"]
        /\ ~config.mutates => summary["eventsWritten"] + summary["eventFailures"] = 0
        /\ summary["reportsWritten"] + summary["reportFailures"] + summary["eventFailures"]
           = summary["processed"]
        /\ summary["parse"] + summary["processing"] + summary["eventFailures"]
           + summary["reportFailures"] <= 0
    BY DEF IInv, CountersAgree
  <1>4. summary'["processed"] + summary'["parse"] + summary'["processing"] + 0 = Cardinality(visited)
    <2>1. summary'["processed"] + summary'["parse"] + summary'["processing"] + 0
          = (summary["processed"] + 1) + summary["parse"] + summary["processing"] + 0
      BY DEF Counted
    <2> QED
      BY <1>1, <1>2, <1>3, <2>1
  <1>5. summary'["both"] + summary'["errors"] + summary'["warnings"] + summary'["neither"]
        = summary'["processed"]
    BY <1>1, <1>2, <1>3 DEF Counted
  <1>6. summary'["reportsWritten"] + summary'["reportFailures"] + summary'["eventFailures"]
        = summary'["processed"]
    <2>1. summary'["reportsWritten"] + summary'["reportFailures"] + summary'["eventFailures"]
          = (summary["reportsWritten"] + reported) + (summary["reportFailures"] + reportFailed)
            + (summary["eventFailures"] + eventFailed)
      BY DEF Counted
    <2>2. summary'["processed"] = summary["processed"] + 1
      BY DEF Counted
    <2>3. summary["reportsWritten"] + summary["reportFailures"] + summary["eventFailures"]
          = summary["processed"]
      BY <1>3
    <2>4. CASE reported = 1
      BY <1>2, <2>1, <2>2, <2>3, <2>4
    <2>5. CASE reported = 0
      BY <1>2, <2>1, <2>2, <2>3, <2>5
    <2> QED
      BY <2>4, <2>5
  <1>7. summary'["eventsWritten"] + summary'["eventFailures"]
        = IF config.mutates THEN summary'["processed"] ELSE 0
    <2>1. CASE config.mutates
      BY <1>2, <1>3, <2>1 DEF Counted, Bit
    <2>2. CASE ~config.mutates
      BY <1>2, <1>3, <2>2 DEF Counted, Bit
    <2> QED
      BY <2>1, <2>2
  <1>8. summary'["parse"] + summary'["processing"] + summary'["eventFailures"] + summary'["reportFailures"]
        <= IF phase' = "ended" THEN 1 ELSE 0
    BY <1>2, <1>3 DEF Counted
  <1>9. phase' \notin {"read", "event", "report"}
    OBVIOUS
  <1> QED
    BY <1>4, <1>5, <1>6, <1>7, <1>8, <1>9 DEF CountersAgree, Counted

(* The event is not written: counted as processed and as a failure.        *)
LEMMA EventWriteFailsStep == IInv /\ EventWriteFails => IInv'
  <1> SUFFICES ASSUME IInv, EventWriteFails PROVE IInv'
    OBVIOUS
  <1> USE DEF IInv, Exit
  <1>1. /\ phase = "event" /\ phase' = "ended" /\ exit' = 1 /\ config.mutates
        /\ UNCHANGED <<config, before, event, visited, writing>>
        /\ Account(event, "eventFailures")
    BY DEF EventWriteFails
  <1>2. Grows(disk, disk')
    BY FailureGrows DEF EventWriteFails, DiskSound
  <1>3. Counted(0, 0, 1, 0)
    <2>1. ~event.eventWritten /\ ~event.reportWritten
      BY <1>1 DEF InHand
    <2>2. Bit(event.eventWritten) = 0 /\ Bit(event.reportWritten) = 0
      BY <2>1 DEF Bit
    <2>3. Bit("eventFailures" = "eventFailures") = 1 /\ Bit("eventFailures" = "reportFailures") = 0
      BY DEF Bit
    <2> QED
      BY <1>1, <2>2, <2>3, AccountCounts DEF Types
  <1>4. summary' \in [Counter -> Nat] /\ CountersAgree'
    BY <1>1, <1>3, AgreeAfter DEF Bit
  <1>5. Types'
    BY <1>1, <1>4 DEF Types
  <1>6. DiskSound'
    BY <1>1, <1>2, SoundAfter
  <1>7. Untouched' /\ InHand'
    BY <1>1 DEF Untouched, Early, InHand
  <1> QED
    BY <1>4, <1>5, <1>6, <1>7

(* The report completes the event, which is counted with all it wrote.     *)
LEMMA WriteReportStep == IInv /\ WriteReport => IInv'
  <1> SUFFICES ASSUME IInv, WriteReport PROVE IInv'
    OBVIOUS
  <1> USE DEF IInv, Go
  <1> DEFINE done == [rel |-> event.rel, errors |-> event.errors, warnings |-> event.warnings,
                      eventWritten |-> event.eventWritten, reportWritten |-> TRUE]
  <1>1. /\ phase = "report" /\ phase' = "next" /\ exit' = exit
        /\ UNCHANGED <<config, before, visited, writing>>
        /\ event' = done /\ Account(done, None)
    <2>1. event' = [event EXCEPT !.reportWritten = TRUE] /\ Account(event', None)
      BY DEF WriteReport
    <2>2. event' = done
      BY <2>1 DEF Types
    <2> QED
      BY <2>1, <2>2 DEF WriteReport
  <1>2. Grows(disk, disk')
    BY WriteGrows DEF WriteReport, DiskSound, ReportFile
  <1>3. Counted(Bit(config.mutates), 1, 0, 0)
    <2>1. None # "eventFailures" /\ None # "reportFailures"
      BY RunAssumption DEF Counter
    <2>2. event.eventWritten <=> config.mutates
      BY <1>1 DEF InHand
    <2>3. Bit(done.eventWritten) = Bit(config.mutates) /\ Bit(done.reportWritten) = 1
      BY <2>2 DEF Bit
    <2>4. Bit(None = "eventFailures") = 0 /\ Bit(None = "reportFailures") = 0
      BY <2>1 DEF Bit
    <2>5. /\ done.errors \in BOOLEAN /\ done.warnings \in BOOLEAN
          /\ done.eventWritten \in BOOLEAN /\ done.reportWritten \in BOOLEAN
      BY DEF Types
    <2>6. Account(done, None) /\ summary \in [Counter -> Nat]
      BY <1>1 DEF Types
    <2> HIDE DEF done
    <2>7. Counted(Bit(done.eventWritten), Bit(done.reportWritten),
                  Bit(None = "eventFailures"), Bit(None = "reportFailures"))
      BY <2>5, <2>6, AccountCounts
    <2> QED
      BY <2>3, <2>4, <2>7
  <1>4. summary' \in [Counter -> Nat] /\ CountersAgree'
    BY <1>1, <1>3, AgreeAfter DEF Bit
  <1>5. Types'
    BY <1>1, <1>4 DEF Types
  <1>6. DiskSound'
    BY <1>1, <1>2, SoundAfter
  <1>7. Untouched' /\ InHand'
    BY <1>1, RunAssumption DEF Untouched, Early, InHand, Types
  <1> QED
    BY <1>4, <1>5, <1>6, <1>7

(* The report is not written: the event stays counted as written.          *)
LEMMA ReportWriteFailsStep == IInv /\ ReportWriteFails => IInv'
  <1> SUFFICES ASSUME IInv, ReportWriteFails PROVE IInv'
    OBVIOUS
  <1> USE DEF IInv, Exit
  <1>1. /\ phase = "report" /\ phase' = "ended" /\ exit' = 1
        /\ UNCHANGED <<config, before, event, visited, writing>>
        /\ Account(event, "reportFailures")
    BY DEF ReportWriteFails
  <1>2. Grows(disk, disk')
    <2>1. CASE NamesSameFile
      BY <2>1 DEF ReportWriteFails, DiskSound, Grows
    <2>2. CASE ~NamesSameFile
      BY <2>2, FailureGrows DEF ReportWriteFails, DiskSound
    <2> QED
      BY <2>1, <2>2
  <1>3. Counted(Bit(config.mutates), 0, 0, 1)
    <2>1. (event.eventWritten <=> config.mutates) /\ ~event.reportWritten
      BY <1>1 DEF InHand
    <2>2. Bit(event.eventWritten) = Bit(config.mutates) /\ Bit(event.reportWritten) = 0
      BY <2>1 DEF Bit
    <2>3. Bit("reportFailures" = "eventFailures") = 0 /\ Bit("reportFailures" = "reportFailures") = 1
      BY DEF Bit
    <2> QED
      BY <1>1, <2>2, <2>3, AccountCounts DEF Types
  <1>4. summary' \in [Counter -> Nat] /\ CountersAgree'
    BY <1>1, <1>3, AgreeAfter DEF Bit
  <1>5. Types'
    BY <1>1, <1>4 DEF Types
  <1>6. DiskSound'
    BY <1>1, <1>2, SoundAfter
  <1>7. Untouched' /\ InHand'
    BY <1>1 DEF Untouched, Early, InHand
  <1> QED
    BY <1>4, <1>5, <1>6, <1>7

-----------------------------------------------------------------------------
(* Every step keeps the invariant.                                         *)
LEMMA NextHolds == IInv /\ [Next]_vars => IInv'
  <1> SUFFICES ASSUME IInv, [Next]_vars PROVE IInv'
    OBVIOUS
  <1> USE DEF IInv
  <1>0. exit \in IF phase = "ended" THEN {0, 1, 2} ELSE {None}
    BY DEF Types
  <1>1. CASE Options
    BY <1>0, <1>1, QuietStep DEF Options, Go, Exit, Early, Types
  <1>2. CASE CheckDestinations
    BY <1>0, <1>2, QuietStep DEF CheckDestinations, Go, Exit, Early, Types
  <1>3. CASE NewPipeline
    BY <1>0, <1>3, QuietStep, RunAssumption DEF NewPipeline, Go, Exit, Early, Types
  <1>4. CASE WalkFails
    BY <1>0, <1>4, QuietStep DEF WalkFails, Exit, Early, Types
  <1>5. CASE NoMore
    BY <1>0, <1>5, QuietStep, RunAssumption DEF NoMore, Go, Early, Types
  <1>6. CASE SkipEvent
    BY <1>0, <1>6, QuietStep, RunAssumption DEF SkipEvent, Go, Early, Types
  <1>7. CASE Finish
    BY <1>0, <1>7, QuietStep DEF Finish, Exit, Early, Types
  <1>8. CASE WriteSummary
    <2>1. Grows(disk, disk')
      BY <1>8, WriteGrows DEF WriteSummary, Rendered, SummaryText, SummaryReport, DiskSound
    <2> QED
      BY <1>8, <2>1, DiskStep DEF WriteSummary, Types
  <1>9. CASE SummaryFails
    <2>1. Grows(disk, disk')
      BY <1>9, FailureGrows DEF SummaryFails, DiskSound
    <2> QED
      BY <1>9, <2>1, DiskStep DEF SummaryFails, Exit, Types
  <1>10. CASE UNCHANGED vars
    BY <1>10 DEF vars, Types, DiskSound, WellFormed, NothingReplaced, Untouched, InHand, CountersAgree
  <1> QED
    BY <1>1, <1>2, <1>3, <1>4, <1>5, <1>6, <1>7, <1>8, <1>9, <1>10, TakeStep, ReadFailsStep,
       ProcessStep, WriteEventStep, EventWriteFailsStep, WriteReportStep, ReportWriteFailsStep
    DEF Next

(* The inductive invariant: what was there is kept, nothing is touched     *)
(* before the first event, the counters agree with the event in hand.      *)
THEOREM Invariance == Spec => []IInv
  <1> QED
    BY InitHolds, NextHolds, PTL DEF Spec

(* The variables of an invocation keep their types.                        *)
THEOREM TypeCorrect == Spec => []TypeOK
  <1>1. IInv => TypeOK
    BY DEF IInv, Types, DiskSound, TypeOK, NoEvent, Early
  <1> QED
    BY <1>1, Invariance, PTL

(* Without --overwrite nothing that was there is touched, whatever the     *)
(* outputs are called and whichever step fails (output.go's exclusive      *)
(* installation behind every write, layout.go's preflight or not).         *)
THEOREM NothingReplacedEver == Spec => []NothingReplaced
  <1>1. IInv => NothingReplaced
    BY DEF IInv, DiskSound
  <1> QED
    BY <1>1, Invariance, PTL

(* The counters of the summary agree with each other and with the events   *)
(* taken, and at most one event has failed (updateSummary).                *)
THEOREM CountersAgreeAlways == Spec => []CountersAgree
  <1>1. IInv => CountersAgree
    BY DEF IInv
  <1> QED
    BY <1>1, Invariance, PTL

(* Exit code 2 leaves the disk and standard output untouched.              *)
THEOREM UsageErrorsTouchNothing == Spec => []UsageUntouched
  <1>1. IInv => UsageUntouched
    BY DEF IInv, Untouched, UsageUntouched
  <1> QED
    BY <1>1, Invariance, PTL

-----------------------------------------------------------------------------
(* What was selected.                                                      *)

Sane == config \in Selection /\ FileSystem(before)

Cleared == Accepted(config) /\ Preflight(config, before)

(* Options that are accepted fit each other.                               *)
LEMMA ChoiceFacts ==
    ASSUME Sane, Accepted(config)
    PROVE  /\ config.schema \in Seq(Name)
           /\ Given(config.outputDir) => config.outputDir \in Seq(Name)
           /\ \A o \in {config.event, config.eventOutput, config.reportOutput,
                        config.summaryFile, config.summaryJSON} : o \in Option
           /\ ~Single(config) => /\ config.event = None /\ Given(config.outputDir)
                                 /\ config.dir \in Seq(Name)
           /\ Single(config) => /\ SingleRel(config) \in Seq(Name) \ {<<>>}
                                /\ config.summaryFile = None /\ config.summaryJSON = None
                                /\ config.mutates /\ ~Given(config.eventOutput) => Given(config.outputDir)
                                /\ ~Given(config.reportOutput) => Given(config.outputDir)
  <1>1. /\ config.schema \in Seq(Name) /\ config.event \in Option \ {<<>>}
        /\ \A o \in {config.dir, config.outputDir, config.event, config.eventOutput,
                     config.reportOutput, config.summaryFile, config.summaryJSON} : o \in Option
    BY DEF Sane, Selection
  <1>2. Given(config.outputDir) => config.outputDir \in Seq(Name)
    BY <1>1 DEF Accepted, Given, Option
  <1>3. ~Single(config) => /\ config.event = None /\ Given(config.outputDir)
                           /\ config.dir \in Seq(Name)
    BY <1>1 DEF Accepted, Given, Single, Option
  <1>4. Single(config) => SingleRel(config) \in Seq(Name) \ {<<>>}
    <2>1. CASE config.event = Stdio
      BY <2>1, LayoutAssumption DEF SingleRel
    <2>2. CASE config.event \in Seq(Name) \ {<<>>} /\ config.local = <<>>
      <3>1. Last(config.event) \in Name
        BY <2>2, FrontFacts
      <3> HIDE DEF Last
      <3>2. SingleRel(config) = <<Last(config.event)>>
        BY <2>2, LayoutAssumption DEF SingleRel
      <3> QED
        BY <3>1, <3>2
    <2>3. CASE config.event \in Seq(Name) \ {<<>>} /\ config.local # <<>>
      <3>1. config.local \in Seq(Name)
        BY DEF Sane, Selection
      <3>2. SingleRel(config) = config.local
        BY <2>3, LayoutAssumption DEF SingleRel
      <3> QED
        BY <2>3, <3>1, <3>2
    <2> QED
      BY <1>1, <2>1, <2>2, <2>3 DEF Single, Given, Option
  <1>5. Single(config) => /\ config.summaryFile = None /\ config.summaryJSON = None
                          /\ config.mutates /\ ~Given(config.eventOutput) => Given(config.outputDir)
                          /\ ~Given(config.reportOutput) => Given(config.outputDir)
    BY DEF Accepted, Given
  <1> QED
    BY <1>1, <1>2, <1>3, <1>4, <1>5

(* Outputs below the output directory are below a namespace of it.         *)
LEMMA BelowFacts ==
    ASSUME NEW o \in Seq(Name), NEW rel \in Seq(Name), rel # <<>>
    PROVE  /\ o \o <<"events">> \o rel \in Seq(Name)
           /\ Pre(Append(o, "events"), o \o <<"events">> \o rel)
           /\ o \o <<"events">> \o rel # Append(o, "events")
           /\ o \o <<"reports">> \o Front(rel) \o <<ReportName[Last(rel)]>> \in Seq(Name)
           /\ Pre(Append(o, "reports"), o \o <<"reports">> \o Front(rel) \o <<ReportName[Last(rel)]>>)
           /\ o \o <<"reports">> \o Front(rel) \o <<ReportName[Last(rel)]>> # Append(o, "reports")
  <1> DEFINE e == o \o <<"events">>
             r == o \o <<"reports">>
             f == Front(rel)
             n == ReportName[Last(rel)]
             g == r \o f
             h == g \o <<n>>
  <1>1. "events" \in Name /\ "reports" \in Name
    BY LayoutAssumption
  <1>2. e = Append(o, "events") /\ r = Append(o, "reports")
    BY <1>1, OneMore
  <1>3. e \in Seq(Name) /\ r \in Seq(Name)
    BY <1>1
  <1>4. f \in Seq(Name) /\ n \in Name
    <2>1. Front(rel) \in Seq(Name) /\ Last(rel) \in Name
      BY FrontFacts
    <2> QED
      BY <2>1, LayoutAssumption
  <1> HIDE DEF e, r, f, n
  <1>5. e \o rel \in Seq(Name) /\ Pre(e, e \o rel) /\ e \o rel # e
    BY <1>3, Continued
  <1>6. g \in Seq(Name) /\ Pre(r, g)
    BY <1>3, <1>4, Continued
  <1> HIDE DEF g
  <1>7. h = Append(g, n)
    BY <1>4, <1>6, OneMore
  <1>8. h \in Seq(Name) /\ Len(h) = Len(g) + 1 /\ Pre(g, h)
    <2>1. Append(g, n) \in Seq(Name) /\ Len(Append(g, n)) = Len(g) + 1 /\ Pre(g, Append(g, n))
      BY <1>4, <1>6, PreFacts
    <2> HIDE DEF h
    <2> QED
      BY <1>7, <2>1
  <1> HIDE DEF h
  <1>9. Pre(r, h) /\ h # r
    <2>1. Pre(r, h)
      BY <1>3, <1>6, <1>8, PreFacts
    <2>2. Len(r) <= Len(g)
      BY <1>6 DEF Pre
    <2> QED
      BY <1>3, <1>6, <1>8, <2>1, <2>2
  <1> QED
    BY <1>2, <1>5, <1>8, <1>9 DEF e, r, f, n, g, h

(* What is reserved are paths.                                             *)
LEMMA ReservedFacts ==
    ASSUME Sane, Accepted(config)
    PROVE  /\ DOMAIN Reserved(config) = 1 .. 6
           /\ Reserved(config)[1] = config.schema /\ Reserved(config)[2] = config.event
           /\ Reserved(config)[5] = config.summaryFile /\ Reserved(config)[6] = config.summaryJSON
           /\ Single(config) => 5 \notin Places(config) /\ 6 \notin Places(config)
           /\ ~Single(config) => Places(config) \subseteq {1, 5, 6}
           /\ \A j \in Places(config) : Reserved(config)[j] \in Seq(Name)
  <1> DEFINE e == EventOutputPath(config, SingleRel(config))
             r == ReportOutputPath(config, SingleRel(config))
             x == IF Single(config) /\ config.mutates THEN e ELSE None
             y == IF Single(config) THEN r ELSE None
  <1>1. x \in Seq(Name) \cup {None, Stdio} /\ y \in Seq(Name) \cup {None, Stdio}
        /\ (~Single(config) => x = None /\ y = None)
    <2>1. CASE Single(config)
      <3>1. config.mutates => e \in Seq(Name) \cup {None, Stdio}
        <4>1. CASE Given(config.eventOutput)
          BY <2>1, <4>1, ChoiceFacts DEF EventOutputPath, Option
        <4>2. CASE config.mutates /\ ~Given(config.eventOutput)
          <5>1. e = config.outputDir \o <<"events">> \o SingleRel(config)
            BY <4>2 DEF EventOutputPath
          <5>2. config.outputDir \in Seq(Name) /\ SingleRel(config) \in Seq(Name) /\ SingleRel(config) # <<>>
            BY <2>1, <4>2, ChoiceFacts
          <5> HIDE DEF e
          <5> QED
            BY <5>1, <5>2, BelowFacts
        <4> QED
          BY <4>1, <4>2
      <3>2. r \in Seq(Name) \cup {None, Stdio}
        <4>1. CASE Given(config.reportOutput)
          BY <2>1, <4>1, ChoiceFacts DEF ReportOutputPath, Option
        <4>2. CASE ~Given(config.reportOutput)
          <5>1. r = config.outputDir \o <<"reports">> \o Front(SingleRel(config))
                    \o <<ReportName[Last(SingleRel(config))]>>
            BY <4>2 DEF ReportOutputPath
          <5>2. config.outputDir \in Seq(Name) /\ SingleRel(config) \in Seq(Name) /\ SingleRel(config) # <<>>
            BY <2>1, <4>2, ChoiceFacts
          <5> HIDE DEF r
          <5> QED
            BY <5>1, <5>2, BelowFacts
        <4> QED
          BY <4>1, <4>2
      <3> HIDE DEF e, r
      <3> QED
        BY <2>1, <3>1, <3>2
    <2>2. CASE ~Single(config)
      BY <2>2
    <2> QED
      BY <2>1, <2>2
  <1> HIDE DEF e, r
  <1>2. Reserved(config) = <<config.schema, config.event, x, y, config.summaryFile, config.summaryJSON>>
    BY DEF Reserved, e, r
  <1> HIDE DEF x, y
  <1>3. /\ DOMAIN Reserved(config) = 1 .. 6
        /\ Reserved(config)[1] = config.schema /\ Reserved(config)[2] = config.event
        /\ Reserved(config)[3] = x /\ Reserved(config)[4] = y
        /\ Reserved(config)[5] = config.summaryFile /\ Reserved(config)[6] = config.summaryJSON
    BY <1>2
  <1>4. \A j \in 1 .. 6 : Reserved(config)[j] \in Seq(Name) \cup {None, Stdio}
    <2>1. \A j \in 1 .. 6 : j \in {1, 2, 3, 4, 5, 6}
      OBVIOUS
    <2> QED
      BY <1>1, <1>3, <2>1, ChoiceFacts DEF Option
  <1>5. \A j \in Places(config) : j \in 1 .. 6 /\ Reserved(config)[j] \notin {None, Stdio}
    BY <1>3 DEF Places
  <1>6. Single(config) => 5 \notin Places(config) /\ 6 \notin Places(config)
    BY <1>3, <1>5, ChoiceFacts
  <1>7. ~Single(config) => Places(config) \subseteq {1, 5, 6}
    BY <1>1, <1>3, <1>5, ChoiceFacts
  <1> QED
    BY <1>3, <1>4, <1>5, <1>6, <1>7

(* What an event that is taken may be called.                              *)
Possible == IF Single(config) THEN {SingleRel(config)} ELSE Seq(Name) \ {<<>>}

(* These are relative paths.                                               *)
LEMMA PossiblePaths ==
    ASSUME Sane, Accepted(config), NEW rel \in Possible
    PROVE  rel \in Seq(Name) /\ rel # <<>>
  BY ChoiceFacts DEF Possible

(* What is known of the options and of the file system that was found      *)
(* stays known.                                                            *)
LEMMA UnseenStays ==
    ASSUME UNCHANGED <<config, before>>
    PROVE  /\ Unseen' <=> Unseen
           /\ Possible' = Possible
           /\ Rels(config, before)' = Rels(config, before)
  BY DEF Unseen, Selected, Possible

-----------------------------------------------------------------------------
(* What preflight keeps apart.                                             *)

(* A path leads to its last name, or where the link of that name leads.    *)
LEMMA EntryFacts ==
    ASSUME NEW fs, FileSystem(fs), NEW p \in Seq(Name)
    PROVE  /\ Kind(fs, Entry(fs, p)) # "link" => Located(fs, p) = Entry(fs, p)
           /\ Kind(fs, Entry(fs, p)) = "link" => Located(fs, p) = Stored(fs, fs.at[Entry(fs, p)].to)
  <1>1. CASE p = <<>>
    <2>1. Located(fs, p) = <<>> /\ Entry(fs, p) = <<>>
      BY <1>1, TreeLinks, ResolvedFacts, StoredFacts DEF Located, Entry
    <2>2. Kind(fs, <<>>) = "dir"
      BY DEF FileSystem
    <2> QED
      BY <2>1, <2>2
  <1>2. CASE p # <<>>
    <2> DEFINE f == Front(p)
               n == Last(p)
    <2>1. f \in Seq(Name) /\ n \in Name /\ p = Append(f, n)
      BY <1>2, FrontFacts
    <2> HIDE DEF f, n
    <2> DEFINE e == Append(Located(fs, f), One(fs, n))
    <2>2. /\ e = Entry(fs, p)
          /\ Kind(fs, e) # "link" => Located(fs, p) = e
          /\ Kind(fs, e) = "link" => Located(fs, p) = Stored(fs, fs.at[e].to)
      BY <2>1, NextName
    <2> HIDE DEF e
    <2> QED
      BY <2>2
  <1> QED
    BY <1>1, <1>2

(* The options that are given are selected.                                *)
LEMMA SelectedFacts ==
    ASSUME Sane, Accepted(config)
    PROVE  /\ Sources(config) \subseteq Selected /\ Destinations(config) \subseteq Selected
           /\ ~Single(config) => config.dir \in Selected
           /\ Given(config.outputDir) =>
                config.outputDir \in Selected
                /\ \A name \in {"events", "reports"} : Append(config.outputDir, name) \in Selected
  <1>1. None \notin Seq(Name)
    BY LayoutAssumption
  <1>2. ~Single(config) => config.dir \in Selected
    BY <1>1, ChoiceFacts DEF Selected
  <1> QED
    BY <1>2 DEF Selected, Given

(* Input and output directory are apart, and the input is there.           *)
LEMMA Apart ==
    ASSUME Sane, Cleared, ~Single(config), ~Unseen
    PROVE  LET R == Located(before, config.dir)
               O == Located(before, config.outputDir)
           IN /\ R \in Seq(Name) /\ O \in Seq(Name) /\ R \in DOMAIN before.at
              /\ ~Pre(R, O) /\ ~Pre(O, R)
  <1> DEFINE d == config.dir
             o == config.outputDir
             R == Located(before, d)
             O == Located(before, o)
  <1>1. d \in Seq(Name) /\ o \in Seq(Name) /\ FileSystem(before)
    BY ChoiceFacts DEF Sane, Cleared
  <1>2. /\ Kind(before, Entry(before, d)) = "dir"
        /\ ~PathsOverlap(before, FilesystemPath(before, d), FilesystemPath(before, o))
    BY DEF Cleared, Preflight, ValidateEventsDirectory
  <1>0. Comparable(before, d, o) /\ Comparable(before, o, d)
    BY ChoiceFacts, SelectedFacts, SeenComparable DEF Cleared
  <1> HIDE DEF d, o
  <1>3. R \in DOMAIN before.at
    BY <1>1, <1>2, EntryFacts DEF Kind
  <1>4. Exists(before, d)
    BY <1>3 DEF Exists
  <1>5. R \in Seq(Name) /\ O \in Seq(Name)
    BY <1>1, TreeLinks, LocatedFacts
  <1>6. ~Pre(R, O)
    BY <1>0, <1>1, <1>2, <1>4, ContainsSeen DEF PathsOverlap
  <1>7. ~Pre(O, R)
    BY <1>0, <1>1, <1>2, <1>4, ContainsSeen DEF PathsOverlap
  <1> QED
    BY <1>3, <1>5, <1>6, <1>7 DEF R, O, d, o

(* The summaries written by name, in order: each once, and last of all     *)
(* that is reserved.                                                       *)
LEMMA SummaryOrder ==
    ASSUME Sane, Cleared
    PROVE  LET ds == SummaryDestinations(config)
           IN /\ Len(ds) \in Nat /\ Single(config) => Len(ds) = 0
              /\ \A i \in 1 .. Len(ds) : ds[i] # Stdio =>
                   /\ \E j \in Places(config) \cap {5, 6} : ds[i] = Reserved(config)[j]
                   /\ \A k \in 1 .. Len(ds) : ds[k] = ds[i] => k = i
              /\ \A j \in Places(config) \cap {5, 6} : \E i \in 1 .. Len(ds) : ds[i] = Reserved(config)[j]
  <1> DEFINE a == IF ~Single(config) /\ ~config.quiet /\ Stdio \notin {config.summaryFile, config.summaryJSON}
                  THEN <<Stdio>> ELSE <<>>
             f == config.summaryFile
             g == config.summaryJSON
             b == IF Given(f) THEN <<f>> ELSE <<>>
             d == IF Given(g) THEN <<g>> ELSE <<>>
             ds == a \o b \o d
  <1>1. SummaryDestinations(config) = ds
    BY DEF SummaryDestinations
  <1>2. /\ DOMAIN Reserved(config) = 1 .. 6
        /\ Reserved(config)[5] = f /\ Reserved(config)[6] = g
        /\ \A j \in Places(config) : Reserved(config)[j] \in Seq(Name)
    BY ReservedFacts DEF Cleared
  <1>3. /\ 5 \in Places(config) <=> f \notin {None, Stdio}
        /\ 6 \in Places(config) <=> g \notin {None, Stdio}
    BY <1>2 DEF Places
  <1>4. 5 \in Places(config) /\ 6 \in Places(config) => f # g
    <2> SUFFICES ASSUME 5 \in Places(config), 6 \in Places(config) PROVE f # g
      OBVIOUS
    <2>1. 6 \in Places(config) \ {1, 2} /\ 5 \in Places(config) \cap 1 .. 6 - 1
      OBVIOUS
    <2>2. FilesystemPath(before, Reserved(config)[6]).resolved # FilesystemPath(before, Reserved(config)[5]).resolved
      BY <2>1 DEF Cleared, Preflight, Distinct, SameFilesystemPath
    <2> QED
      BY <1>2, <2>2 DEF FilesystemPath
  <1>5. Single(config) => f = None /\ g = None
    BY ChoiceFacts DEF Cleared
  <1>6. a \in {<<>>, <<Stdio>>} /\ (Single(config) => a = <<>>) /\ (a = <<Stdio>> => f # Stdio /\ g # Stdio)
    OBVIOUS
  <1>7. b = (IF f # None THEN <<f>> ELSE <<>>) /\ d = (IF g # None THEN <<g>> ELSE <<>>)
    BY DEF Given
  <1> HIDE DEF a, b, d, f, g
  <1>8. /\ Len(ds) = Len(a) + Len(b) + Len(d)
        /\ \A i \in 1 .. Len(ds) :
             ds[i] = IF i <= Len(a) THEN a[i]
                     ELSE IF i <= Len(a) + Len(b) THEN b[i - Len(a)]
                     ELSE d[i - Len(a) - Len(b)]
    <2> DEFINE S == {Stdio, f, g}
               ab == a \o b
    <2>1. Stdio \in S /\ f \in S /\ g \in S
      OBVIOUS
    <2> HIDE DEF S
    <2>2. <<>> \in Seq(S) /\ <<Stdio>> \in Seq(S) /\ <<f>> \in Seq(S) /\ <<g>> \in Seq(S)
      BY <2>1
    <2>3. a \in Seq(S) /\ b \in Seq(S) /\ d \in Seq(S)
      <3>1. a \in Seq(S)
        BY <1>6, <2>2
      <3>2. b \in Seq(S)
        BY <1>7, <2>2
      <3>3. d \in Seq(S)
        BY <1>7, <2>2
      <3> QED
        BY <3>1, <3>2, <3>3
    <2>4. /\ ab \in Seq(S) /\ Len(ab) = Len(a) + Len(b)
          /\ \A i \in 1 .. Len(ab) : ab[i] = IF i <= Len(a) THEN a[i] ELSE b[i - Len(a)]
      BY <2>3, ConcatProperties
    <2> HIDE DEF ab
    <2>5. ab \in Seq(S)
      BY <2>4
    <2>6. /\ Len(ab \o d) = Len(ab) + Len(d)
          /\ \A i \in 1 .. Len(ab) + Len(d) :
               (ab \o d)[i] = IF i <= Len(ab) THEN ab[i] ELSE d[i - Len(ab)]
      BY <2>3, <2>5, ConcatProperties
    <2>7. ds = ab \o d
      BY DEF ab
    <2> HIDE DEF ds
    <2> QED
      BY <2>3, <2>4, <2>6, <2>7
  <1>9. /\ Len(a) = IF a = <<Stdio>> THEN 1 ELSE 0
        /\ a = <<Stdio>> => a[1] = Stdio
        /\ Len(b) = IF f # None THEN 1 ELSE 0
        /\ f # None => b[1] = f
        /\ Len(d) = IF g # None THEN 1 ELSE 0
        /\ g # None => d[1] = g
    BY <1>6, <1>7
  <1> HIDE DEF ds
  <1>10. \A i \in 1 .. Len(ds) :
           \/ i = 1 /\ a = <<Stdio>> /\ ds[i] = Stdio
           \/ i = Len(a) + 1 /\ f # None /\ ds[i] = f
           \/ i = Len(a) + Len(b) + 1 /\ g # None /\ ds[i] = g
    BY <1>6, <1>8, <1>9
  <1>11. /\ f # None => Len(a) + 1 \in 1 .. Len(ds) /\ ds[Len(a) + 1] = f
         /\ g # None => Len(a) + Len(b) + 1 \in 1 .. Len(ds) /\ ds[Len(a) + Len(b) + 1] = g
    BY <1>6, <1>8, <1>9
  <1>12. Len(ds) \in Nat /\ (Single(config) => Len(ds) = 0)
    BY <1>5, <1>6, <1>8, <1>9
  <1>13. ASSUME NEW i \in 1 .. Len(ds), ds[i] # Stdio
         PROVE  /\ \E j \in Places(config) \cap {5, 6} : ds[i] = Reserved(config)[j]
                /\ \A k \in 1 .. Len(ds) : ds[k] = ds[i] => k = i
    <2>1. \/ i = Len(a) + 1 /\ f # None /\ ds[i] = f /\ 5 \in Places(config)
          \/ i = Len(a) + Len(b) + 1 /\ g # None /\ ds[i] = g /\ 6 \in Places(config)
      BY <1>3, <1>10, <1>13
    <2>2. \E j \in Places(config) \cap {5, 6} : ds[i] = Reserved(config)[j]
      BY <1>2, <2>1
    <2>3. ASSUME NEW k \in 1 .. Len(ds), ds[k] = ds[i] PROVE k = i
      <3>1. \/ k = Len(a) + 1 /\ f # None /\ ds[k] = f /\ 5 \in Places(config)
            \/ k = Len(a) + Len(b) + 1 /\ g # None /\ ds[k] = g /\ 6 \in Places(config)
        BY <1>3, <1>10, <1>13, <2>3
      <3> QED
        BY <1>4, <2>1, <2>3, <3>1
    <2> QED
      BY <2>2, <2>3
  <1>14. ASSUME NEW j \in Places(config) \cap {5, 6}
         PROVE  \E i \in 1 .. Len(ds) : ds[i] = Reserved(config)[j]
    BY <1>2, <1>3, <1>11
  <1> QED
    BY <1>1, <1>12, <1>13, <1>14

(* A destination that is already there may be replaced, and is no input    *)
(* that the preflight could see.                                           *)
LEMMA DestinationPlace ==
    ASSUME Sane, Cleared, NEW j \in Places(config) \ {1, 2},
           NEW e, e = Entry(before, Reserved(config)[j]), e \in DOMAIN before.at
    PROVE  Written(e) /\ (Read(e) => Unseen)
  <1> DEFINE p == Reserved(config)[j]
  <1>1. p \in Seq(Name) /\ j \in 3 .. 6 /\ FileSystem(before)
    BY ReservedFacts DEF Cleared, Sane, Places
  <1>0. p \in Destinations(config)
    BY DEF Destinations
  <1>2. Written(e)
    BY <1>0 DEF Written
  <1>3. Kind(before, e) # "link" => Located(before, p) = e /\ Exists(before, p)
    BY <1>1, EntryFacts DEF Exists
  <1>4. ASSUME ~Unseen, NEW q \in Sources(config), e = Located(before, q) PROVE FALSE
    <2>1. PICK i \in Places(config) \cap {1, 2} : q = Reserved(config)[i]
      BY DEF Sources
    <2>2. q \in Seq(Name) /\ i \in Places(config) \cap 1 .. j - 1
      BY <1>1, <2>1, ReservedFacts DEF Cleared
    <2>3. ~PathsOverlap(before, FilesystemPath(before, p), FilesystemPath(before, q))
      BY <2>1, <2>2 DEF Cleared, Preflight, Distinct
    <2>4. Kind(before, e) # "link"
      BY <1>1, <1>4, <2>2, NoLinkLocated
    <2>5. Pre(Located(before, p), Located(before, q))
      <3>1. Located(before, q) \in Seq(Name)
        BY <1>1, <2>2, TreeLinks, LocatedFacts
      <3> QED
        BY <1>3, <1>4, <2>4, <3>1, PreFacts
    <2>6. Comparable(before, p, q)
      BY <1>0, <1>4, SelectedFacts, SeenComparable DEF Cleared
    <2> HIDE DEF p
    <2> QED
      BY <1>1, <1>3, <2>2, <2>3, <2>4, <2>5, <2>6, ContainsSeen DEF PathsOverlap
  <1>5. ASSUME ~Unseen, ~Single(config), IsPrefix(Located(before, config.dir), e), Kind(before, e) # "link" PROVE FALSE
    <2>1. config.dir \in Seq(Name) /\ Located(before, config.dir) \in Seq(Name)
      BY <1>1, <1>5, ChoiceFacts, TreeLinks, LocatedFacts DEF Cleared
    <2>2. e \in Seq(Name)
      BY <1>1, TreeLinks, LocatedFacts
    <2>3. Pre(Located(before, config.dir), Located(before, p))
      BY <1>3, <1>5, <2>1, <2>2, PrefixPointwise
    <2>4. PathContains(before, FilesystemPath(before, config.dir), FilesystemPath(before, p))
      <3>1. Comparable(before, config.dir, p)
        BY <1>0, <1>5, SelectedFacts, SeenComparable DEF Cleared
      <3> QED
        BY <1>1, <1>3, <1>5, <2>1, <2>3, <3>1, ContainsSeen
    <2>5. j \in Places(config) \cap {5, 6} /\ p # Stdio
      BY <1>1, <1>5, ReservedFacts DEF Cleared, Places
    <2>6. p \in Range(SummaryDestinations(config)) \ {Stdio}
      BY <2>5, SummaryOrder DEF Range
    <2>7. ~PathsOverlap(before, FilesystemPath(before, config.dir), FilesystemPath(before, p))
      BY <1>5, <2>6 DEF Cleared, Preflight, ValidateSummaryDestinations
    <2> QED
      BY <2>4, <2>7 DEF PathsOverlap
  <1> QED
    BY <1>2, <1>4, <1>5 DEF Read

(* Directories are made at locations.                                      *)
LEMMA ParentPaths ==
    ASSUME NEW fs, LinksSound(fs), NEW p \in Seq(Name), p # <<>>
    PROVE  Parents(fs, p) \subseteq Seq(Name)
  <1>1. Front(p) \in Seq(Name)
    BY FrontFacts
  <1>2. \A a \in Ancestors(Front(p)) : a \in Seq(Name)
    BY <1>1, AncestorFacts DEF Ancestors
  <1> QED
    BY <1>2, LocatedFacts DEF Parents

(* No link is below a namespace that is in use.                            *)
LEMMA NoLinksThere ==
    ASSUME Sane, Cleared, Given(config.outputDir), NEW name \in ActiveNamespaces(config)
    PROVE  /\ NoLinksBelow(before, Namespace(before, config.outputDir, name))
           /\ name \in Name /\ Namespace(before, config.outputDir, name) \in Seq(Name)
           /\ Namespace(before, config.outputDir, name)
              = Stored(before, Append(Located(before, config.outputDir), name))
  <1> DEFINE O == Located(before, config.outputDir)
             NS == Namespace(before, config.outputDir, name)
  <1>1. /\ config.outputDir \in Seq(Name) /\ name \in Name /\ FileSystem(before)
        /\ DOMAIN before.at \subseteq Seq(Name)
    BY ChoiceFacts, LayoutAssumption DEF Cleared, Sane, ActiveNamespaces, FileSystem
  <1>2. O \in Seq(Name) /\ Stored(before, O) = O
    BY <1>1, TreeLinks, LocatedFacts
  <1>3. NS = Append(O, One(before, name)) /\ NS \in Seq(Name)
    BY <1>1, NextName DEF Namespace
  <1>4. NS = Stored(before, Append(O, name))
    <2>1. Stored(before, Append(O, name)) = Append(Stored(before, O), One(before, name))
      BY <1>1, <1>2, StoredFacts
    <2> QED
      BY <1>2, <1>3, <2>1
  <1> HIDE DEF NS
  <1>5. \A l \in DOMAIN before.at : IsPrefix(NS, l) => before.at[l].kind # "link"
    BY <1>4 DEF Cleared, Preflight, ValidateOutputDirectory
  <1>6. NoLinksBelow(before, NS)
    BY <1>1, <1>3, <1>5, PrefixPointwise DEF NoLinksBelow
  <1> QED
    BY <1>1, <1>3, <1>4, <1>6 DEF NS

(* Nor is anything that an event or report of a directory run replaces.    *)
LEMMA NamespacePlace ==
    ASSUME Sane, Cleared, ~Single(config), NEW name \in ActiveNamespaces(config),
           NEW p \in Seq(Name), Pre(Append(config.outputDir, name), p), p # Append(config.outputDir, name)
    PROVE  LET e == Entry(before, p)
               O == Located(before, config.outputDir)
           IN /\ e \in Seq(Name) /\ Written(e) /\ (e \in DOMAIN before.at /\ Read(e) => Unseen)
              /\ Kind(before, e) # "link" /\ Pre(O, e)
              /\ \A l \in Parents(before, p) :
                   l \in Seq(Name) /\ (l \in DOMAIN before.at \/ Pre(l, O) \/ Pre(O, l))
  <1> DEFINE o == config.outputDir
             O == Located(before, o)
             R == Located(before, config.dir)
             NS == Namespace(before, o, name)
             e == Entry(before, p)
             w == Append(o, name)
  <1>1. o \in Seq(Name) /\ name \in {"events", "reports"} /\ name \in Name /\ FileSystem(before)
    BY ChoiceFacts, LayoutAssumption DEF Cleared, Sane, ActiveNamespaces
  <1>2. O \in Seq(Name) /\ R \in Seq(Name)
    BY <1>1, ChoiceFacts, TreeLinks, LocatedFacts DEF Cleared
  <1>3. NS = Stored(before, Append(O, name)) /\ NS \in Seq(Name)
    BY NoLinksThere, ChoiceFacts DEF Cleared
  <1>4. NS \in Seq(Name) /\ w \in Seq(Name) /\ e \in Seq(Name)
    BY <1>1, <1>3, TreeLinks, LocatedFacts
  <1> HIDE DEF NS
  <1>5. NoLinksBelow(before, NS)
    BY NoLinksThere, ChoiceFacts DEF NS, Cleared
  <1>6. /\ Pre(NS, e) /\ Kind(before, e) # "link" /\ Pre(O, e)
        /\ \A l \in Parents(before, p) : l \in DOMAIN before.at \/ Pre(l, O) \/ Pre(O, l)
    BY <1>1, <1>5, OutputPlace DEF NS
  <1>7. Written(e)
    <2>1. IsPrefix(NS, e)
      BY <1>4, <1>6, PrefixPointwise
    <2> QED
      BY <1>1, <1>3, <2>1 DEF Written
  <1>8. ASSUME e \in DOMAIN before.at, ~Unseen PROVE ~Read(e)
    <2>1. ASSUME NEW q \in Sources(config), e = Located(before, q) PROVE FALSE
      <3>1. q = config.schema /\ q \in Seq(Name)
        <4>1. PICK i \in Places(config) \cap {1, 2} : q = Reserved(config)[i]
          BY <2>1 DEF Sources
        <4> QED
          BY <4>1, ReservedFacts DEF Cleared
      <3>2. Kind(before, NS) # "link"
        <4>1. Pre(NS, NS)
          BY <1>4, PreFacts
        <4> QED
          BY <1>5, <4>1 DEF NoLinksBelow, Kind
      <3>3. Resolved(before, w) = Append(Resolved(before, o), name) /\ Located(before, w) = NS
        BY <1>1, <3>2, NextName DEF NS, Namespace
      <3>4. FilesystemPath(before, w) = OutputNamespace(FilesystemPath(before, o), name)
        BY <3>3 DEF FilesystemPath, OutputNamespace
      <3>5. Exists(before, q)
        BY <1>8, <2>1 DEF Exists
      <3>6. PathContains(before, FilesystemPath(before, w), FilesystemPath(before, q))
        <4>1. Comparable(before, w, q)
          BY <1>1, <1>8, <2>1, ChoiceFacts, SelectedFacts, SeenComparable DEF Cleared
        <4> QED
          BY <1>1, <1>4, <1>6, <2>1, <3>1, <3>3, <3>5, <4>1, ContainsSeen
      <3>7. ~PathContains(before, OutputNamespace(FilesystemPath(before, o), name), FilesystemPath(before, q))
        BY <3>1, ChoiceFacts DEF Cleared, Preflight, ValidateSchemaOutputNamespaces
      <3> QED
        BY <3>4, <3>6, <3>7
    <2>2. ~IsPrefix(R, e)
      <3>1. Pre(R, e) => Pre(R, O) \/ Pre(O, R)
        BY <1>2, <1>4, <1>6, PreFacts
      <3> QED
        BY <1>2, <1>4, <1>8, <3>1, Apart, PrefixPointwise
    <2> QED
      BY <2>1, <2>2 DEF Read
  <1>9. Parents(before, p) \subseteq Seq(Name)
    <2>1. p # <<>>
      BY <1>4 DEF Pre
    <2> QED
      BY <1>1, <2>1, TreeLinks, ParentPaths
  <1> QED
    BY <1>4, <1>6, <1>7, <1>8, <1>9

-----------------------------------------------------------------------------
(* The second layer of the invariant: what the options and the preflight   *)
(* allow stays true of the disk.                                           *)

(* An output chosen by name that is still to be written.                   *)
Pending(j) ==
    IF Single(config)
    THEN (j = 3 /\ ~event.eventWritten) \/ (j = 4 /\ ~event.reportWritten)
    ELSE \E i \in writing + 1 .. Len(SummaryDestinations(config)) :
           SummaryDestinations(config)[i] = Reserved(config)[j]

(* No link is made, and one is lost only to an output of its name.         *)
LinksKept ==
    /\ disk.folds = before.folds
    /\ \A l : Kind(disk, l) = "link" => /\ Kind(before, l) = "link"
                                        /\ disk.at[l].to = before.at[l].to
    /\ \A l : Kind(before, l) = "link" /\ Kind(disk, l) # "link" =>
         \E i \in Places(config) \ {1, 2} : l = Entry(before, Reserved(config)[i]) /\ ~Pending(i)

(* Whatever is new before the summaries is on the way to the output        *)
(* directory or below it.                                                  *)
NewPlaces ==
    ~Single(config) /\ phase \notin {"summaries", "ended"} =>
      LET O == Located(before, config.outputDir)
      IN \A l \in DOMAIN disk.at :
           l \in DOMAIN before.at \/ (l \in Seq(Name) /\ (Pre(l, O) \/ Pre(O, l)))

Past == phase \in {"pipeline", "next", "read", "event", "report", "summaries"} \/ exit = 0

(* Nothing goes on that was refused.                                       *)
Checked ==
    /\ phase = "preflight" \/ Past => Accepted(config)
    /\ Past => Preflight(config, before)

(* How far the invocation is, and what the end of it means.                *)
Progress ==
    /\ visited \subseteq Possible /\ (Unseen \/ visited \subseteq Rels(config, before))
    /\ phase \in {"read", "event", "report"} => event.rel \in visited
    /\ visited = {} => ~event.eventWritten /\ ~event.reportWritten
    /\ writing > 0 => phase \in {"summaries", "ended"}
    /\ phase = "summaries" \/ writing > 0 \/ exit = 0 =>
         /\ AllTaken
         /\ summary["processed"] = Cardinality(visited)
         /\ summary["reportsWritten"] = Cardinality(visited)
    /\ exit = 0 => /\ writing = Len(SummaryDestinations(config))
                   /\ config.failOnErrors => summary["errors"] + summary["both"] = 0

Layer == Sane /\ LinksKept /\ NewPlaces /\ PriorKept /\ Checked /\ Progress

-----------------------------------------------------------------------------
(* The links of the disk lead to paths.                                    *)
LEMMA DiskLinks == ASSUME Sane, LinksKept PROVE LinksSound(disk)
  <1> SUFFICES ASSUME NEW l \in DOMAIN disk.at, disk.at[l].kind = "link" PROVE disk.at[l].to \in Seq(Name)
    BY DEF LinksSound
  <1>1. Kind(disk, l) = "link"
    BY DEF Kind
  <1>2. Kind(before, l) = "link" /\ disk.at[l].to = before.at[l].to
    BY <1>1 DEF LinksKept
  <1>3. l \in DOMAIN before.at /\ before.at[l].kind = "link"
    BY <1>2 DEF Kind
  <1>4. before.at[l].to \in Seq(Name)
    BY <1>3 DEF Sane, FileSystem
  <1> QED
    BY <1>2, <1>4

(* Before the summaries of a directory no link is lost.                    *)
LEMMA NoneLost ==
    ASSUME Sane, Cleared, LinksKept, ~Single(config), writing = 0
    PROVE  SameLinks(before, disk)
  <1>1. ASSUME NEW l, Kind(before, l) = "link" PROVE Kind(disk, l) = "link"
    <2> SUFFICES ASSUME Kind(disk, l) # "link" PROVE FALSE
      OBVIOUS
    <2>1. PICK i \in Places(config) \ {1, 2} : ~Pending(i)
      BY <1>1 DEF LinksKept
    <2>2. i \in Places(config) \cap {5, 6}
      BY <2>1, ReservedFacts DEF Cleared
    <2> DEFINE ds == SummaryDestinations(config)
    <2>3. PICK k \in 1 .. Len(ds) : ds[k] = Reserved(config)[i]
      BY <2>2, SummaryOrder
    <2> HIDE DEF ds
    <2>4. Pending(i)
      BY <2>3 DEF Pending, ds
    <2> QED
      BY <2>1, <2>4
  <1> QED
    BY <1>1 DEF SameLinks, LinksKept

(* The way to an output that is still to be written is as it was: a link   *)
(* on it that was lost would lead from one output to the other.            *)
LEMMA SameWay ==
    ASSUME Sane, Cleared, LinksKept, NEW j \in Places(config) \ {1, 2}, Pending(j)
    PROVE  Entry(disk, Reserved(config)[j]) = Entry(before, Reserved(config)[j])
  <1> DEFINE p == Reserved(config)[j]
             S == {a \in Seq(Name) : Pre(a, p) /\ a # p => Resolved(disk, a) = Resolved(before, a)}
  <1>1. p \in Seq(Name) /\ FileSystem(before) /\ LinksSound(before) /\ LinksSound(disk)
    BY ReservedFacts, DiskLinks, TreeLinks DEF Sane, Cleared
  <1>2. \A q : Stored(disk, q) = Stored(before, q)
    BY DEF LinksKept, Stored
  <1>3. \A i \in Places(config) \ {1, 2} : i # j =>
          LET w == Reserved(config)[i]
          IN /\ w \in Seq(Name) /\ Resolvable(before, w)
             /\ ~PathsOverlap(before, FilesystemPath(before, p), FilesystemPath(before, w))
    <2> SUFFICES ASSUME NEW i \in Places(config) \ {1, 2}, i # j
                 PROVE  /\ Reserved(config)[i] \in Seq(Name) /\ Resolvable(before, Reserved(config)[i])
                        /\ ~PathsOverlap(before, FilesystemPath(before, p), FilesystemPath(before, Reserved(config)[i]))
      OBVIOUS
    <2> DEFINE w == Reserved(config)[i]
    <2>1. w \in Seq(Name) /\ i \in 1 .. 6 /\ j \in 1 .. 6
      BY ReservedFacts DEF Cleared, Places
    <2>2. Given(w) /\ w \in Destinations(config)
      BY DEF Places, Destinations, Given
    <2>3. Resolvable(before, w)
      BY <2>2 DEF Cleared, Preflight
    <2>4. CASE i < j
      <3>1. i \in Places(config) \cap 1 .. j - 1
        BY <2>1, <2>4
      <3>2. ~PathsOverlap(before, FilesystemPath(before, p), FilesystemPath(before, w))
        BY <3>1 DEF Cleared, Preflight, Distinct
      <3> QED
        BY <2>1, <2>3, <3>2
    <2>5. CASE j < i
      <3>1. j \in Places(config) \cap 1 .. i - 1
        BY <2>1, <2>5
      <3>2. ~PathsOverlap(before, FilesystemPath(before, w), FilesystemPath(before, p))
        BY <3>1 DEF Cleared, Preflight, Distinct
      <3> QED
        BY <2>1, <2>3, <3>2 DEF PathsOverlap
    <2> QED
      BY <2>1, <2>4, <2>5
  <1> HIDE DEF p
  <1>4. <<>> \in S
    BY <1>1, ResolvedFacts
  <1>5. ASSUME NEW q \in Seq(Name), NEW n \in Name, q \in S PROVE Append(q, n) \in S
    <2> DEFINE a == Append(q, n)
               r == Resolved(before, q)
               u == Stored(before, Append(r, n))
    <2>1. a \in Seq(Name) /\ Pre(q, a) /\ Len(a) = Len(q) + 1 /\ r \in Seq(Name)
      BY <1>1, PreFacts, ResolvedFacts
    <2> SUFFICES ASSUME Pre(a, p), a # p PROVE Resolved(disk, a) = Resolved(before, a)
      BY <2>1
    <2>2. Pre(q, p) /\ q # p
      <3> HIDE DEF a
      <3>1. Pre(q, p)
        BY <1>1, <2>1, PreFacts
      <3>2. q = p => Len(a) <= Len(q)
        BY DEF Pre
      <3> QED
        BY <2>1, <3>1, <3>2
    <2>3. Resolved(disk, q) = r
      BY <1>5, <2>2
    <2>4. Resolved(disk, a) = Follow(disk, r, n) /\ Resolved(before, a) = Follow(before, r, n)
      BY <1>1, <2>3, ResolvedFacts
    <2>5. u = Entry(before, a)
      <3>1. a # <<>> /\ Front(a) = q /\ Last(a) = n
        BY FrontFacts
      <3> QED
        BY <3>1 DEF Entry
    <2> HIDE DEF a, r
    <2>6. CASE Kind(before, u) # "link"
      <3>1. Kind(disk, u) # "link"
        BY <2>6 DEF LinksKept
      <3> QED
        BY <1>2, <2>4, <2>6, <3>1 DEF Follow
    <2>7. CASE Kind(before, u) = "link" /\ Kind(disk, u) = "link"
      <3>1. disk.at[u].to = before.at[u].to
        BY <2>7 DEF LinksKept
      <3> QED
        BY <1>2, <2>4, <2>7, <3>1 DEF Follow
    <2>8. CASE Kind(before, u) = "link" /\ Kind(disk, u) # "link"
      <3> HIDE DEF u
      <3>1. PICK i \in Places(config) \ {1, 2} : u = Entry(before, Reserved(config)[i]) /\ ~Pending(i)
        BY <2>8 DEF LinksKept
      <3> DEFINE w == Reserved(config)[i]
      <3>2. /\ w \in Seq(Name) /\ Resolvable(before, w)
            /\ ~PathsOverlap(before, FilesystemPath(before, p), FilesystemPath(before, w))
        BY <1>3, <3>1
      <3> HIDE DEF w
      <3>3. u = Entry(before, w)
        BY <3>1 DEF w
      <3>4. /\ Located(before, w) = Stored(before, before.at[u].to)
            /\ Located(before, a) = Stored(before, before.at[u].to)
        BY <1>1, <2>1, <2>5, <2>8, <3>2, <3>3, EntryFacts
      <3>5. Exists(before, w)
        <4>1. w \in Ancestors(w)
          BY <3>2, SubSeqFull DEF Ancestors
        <4> QED
          BY <2>8, <3>2, <3>3, <4>1 DEF Resolvable
      <3>6. a \in Ancestors(p)
        BY <1>1, <2>1, PreFacts DEF Ancestors
      <3>7. PathContains(before, FilesystemPath(before, w), FilesystemPath(before, p))
        BY <3>4, <3>5, <3>6 DEF PathContains, FilesystemPath, SameFile
      <3> QED
        BY <3>2, <3>7 DEF PathsOverlap
    <2> QED
      BY <2>6, <2>7, <2>8
  <1>6. Seq(Name) \subseteq S
    <2> HIDE DEF S
    <2> QED
      BY <1>4, <1>5, PathInduct
  <1>7. Entry(disk, p) = Entry(before, p)
    <2>1. CASE p = <<>>
      BY <2>1 DEF Entry
    <2>2. CASE p # <<>>
      <3> DEFINE f == Front(p)
                 n == Last(p)
      <3>1. f \in Seq(Name) /\ n \in Name /\ p = Append(f, n)
        BY <1>1, <2>2, FrontFacts
      <3>2. Pre(f, p) /\ f # p
        <4> HIDE DEF f, n
        <4>1. Pre(f, Append(f, n)) /\ Len(Append(f, n)) = Len(f) + 1
          BY <3>1, PreFacts
        <4> QED
          BY <3>1, <4>1
      <3>3. Resolved(disk, f) = Resolved(before, f)
        BY <1>6, <3>1, <3>2
      <3> QED
        BY <1>2, <2>2, <3>3 DEF Entry
    <2> QED
      BY <2>1, <2>2
  <1> QED
    BY <1>7 DEF p

-----------------------------------------------------------------------------
(* Links are lost where something takes their place.                       *)
LEMMA LinksAfter ==
    ASSUME LinksKept, UNCHANGED <<config, before>>, disk'.folds = disk.folds, NEW e,
           \A l : Kind(disk, l)' = "link" => Kind(disk, l) = "link" /\ disk'.at[l].to = disk.at[l].to,
           \A l : Kind(disk, l) = "link" /\ l # e => Kind(disk, l)' = "link",
           \A i \in Places(config) \ {1, 2} : Pending(i)' => Pending(i),
           Kind(before, e) = "link" =>
             \E i \in Places(config) \ {1, 2} : e = Entry(before, Reserved(config)[i]) /\ ~Pending(i)'
    PROVE  LinksKept'
  <1>1. disk'.folds = before'.folds
    BY DEF LinksKept
  <1>2. \A l : Kind(disk, l)' = "link" => Kind(before, l)' = "link" /\ disk'.at[l].to = before'.at[l].to
    BY DEF LinksKept, Kind
  <1>3. ASSUME NEW l, Kind(before, l)' = "link", Kind(disk, l)' # "link"
        PROVE  \E i \in Places(config) \ {1, 2} : l = Entry(before, Reserved(config)[i]) /\ ~Pending(i)'
    <2>1. Kind(before, l) = "link"
      BY <1>3 DEF Kind
    <2>2. CASE Kind(disk, l) = "link"
      BY <1>3, <2>1, <2>2
    <2>3. CASE Kind(disk, l) # "link"
      BY <2>1, <2>3 DEF LinksKept
    <2> QED
      BY <2>2, <2>3
  <1>4. \A i, l : l = Entry(before, Reserved(config)[i]) => l = Entry(before', Reserved(config')[i])
    OBVIOUS
  <1>5. Places(config') = Places(config)
    OBVIOUS
  <1> QED
    BY <1>1, <1>2, <1>3, <1>4, <1>5 DEF LinksKept

(* A write takes the place of one entry.                                   *)
LEMMA WriteKeeps ==
    ASSUME LinksKept, PriorKept, WellFormed(disk), UNCHANGED <<config, before>>,
           NEW p, NEW file, p # Stdio, file.kind = "file", Write(p, file),
           NEW e, e = Entry(disk, p),
           e \in DOMAIN before.at => Written(e) /\ (Read(e) => Unseen),
           \A i \in Places(config) \ {1, 2} : Pending(i)' => Pending(i),
           Kind(before, e) = "link" =>
             \E i \in Places(config) \ {1, 2} : e = Entry(before, Reserved(config)[i]) /\ ~Pending(i)'
    PROVE  LinksKept' /\ PriorKept'
  <1>1. /\ disk'.folds = disk.folds
        /\ DOMAIN disk'.at = DOMAIN disk.at \cup Parents(disk, p) \cup {e}
        /\ disk'.at[e] = file
        /\ \A l \in DOMAIN disk'.at \ {e} : disk'.at[l] = IF l \in DOMAIN disk.at THEN disk.at[l] ELSE Dir
        /\ Kind(disk, e) # "dir" /\ (config.overwrite \/ Kind(disk, e) = "none")
    BY WriteAt
  <1>2. \A l : Kind(disk, l)' = "link" => Kind(disk, l) = "link" /\ disk'.at[l].to = disk.at[l].to
    BY <1>1 DEF Kind, Dir
  <1>3. \A l : Kind(disk, l) = "link" /\ l # e => Kind(disk, l)' = "link"
    BY <1>1 DEF Kind
  <1>4. LinksKept'
    BY <1>1, <1>2, <1>3, LinksAfter
  <1>5. ASSUME NEW l \in DOMAIN before.at
        PROVE  /\ l \in DOMAIN disk'.at
               /\ disk'.at[l] # before.at[l] =>
                    /\ config.overwrite /\ before.at[l].kind # "dir" /\ Written(l)
                    /\ Read(l) => Unseen
    <2>1. /\ l \in DOMAIN disk.at
          /\ disk.at[l] # before.at[l] =>
               /\ config.overwrite /\ before.at[l].kind # "dir" /\ Written(l)
               /\ Read(l) => Unseen
      BY DEF PriorKept
    <2>2. CASE l # e
      BY <1>1, <2>1, <2>2
    <2>3. CASE l = e
      <3>1. Kind(disk, e) # "none" /\ disk.at[e].kind # "dir"
        BY <1>1, <2>1, <2>3 DEF Kind, WellFormed
      <3> QED
        BY <1>1, <2>1, <2>3, <3>1
    <2> QED
      BY <2>2, <2>3
  <1>6. (Unseen' <=> Unseen) /\ \A l : (Written(l)' <=> Written(l)) /\ (Read(l)' <=> Read(l))
    BY UnseenStays DEF Written, Read
  <1>7. PriorKept'
    BY <1>5, <1>6 DEF PriorKept
  <1> QED
    BY <1>4, <1>7

(* A write that fails takes no place.                                      *)
LEMMA FailureKeeps ==
    ASSUME Sane, LinksKept, PriorKept, WellFormed(disk), UNCHANGED <<config, before>>,
           NEW p, WriteFails(p) \/ UNCHANGED disk,
           \A i \in Places(config) \ {1, 2} : Pending(i)' => Pending(i)
    PROVE  LinksKept' /\ PriorKept'
  <1>1. /\ disk'.folds = disk.folds /\ DOMAIN disk.at \subseteq DOMAIN disk'.at
        /\ \A l \in DOMAIN disk'.at : disk'.at[l] = IF l \in DOMAIN disk.at THEN disk.at[l] ELSE Dir
    BY FailsAt
  <1>2. \A l : Kind(disk, l)' = "link" => Kind(disk, l) = "link" /\ disk'.at[l].to = disk.at[l].to
    BY <1>1 DEF Kind, Dir
  <1>3. \A l : Kind(disk, l) = "link" => Kind(disk, l)' = "link"
    BY <1>1 DEF Kind
  <1>4. Kind(before, <<>>) # "link"
    BY DEF Sane, FileSystem
  <1>5. LinksKept'
    BY <1>1, <1>2, <1>3, <1>4, LinksAfter
  <1>6. (Unseen' <=> Unseen) /\ \A l : (Written(l)' <=> Written(l)) /\ (Read(l)' <=> Read(l))
    BY UnseenStays DEF Written, Read
  <1>7. PriorKept'
    BY <1>1, <1>6 DEF PriorKept
  <1> QED
    BY <1>5, <1>7

-----------------------------------------------------------------------------
(* The files that are read are paths below the input directory.            *)
LEMMA RelPaths ==
    ASSUME Sane, Accepted(config), NEW fs, NEW rel \in Rels(config, fs),
           ~Single(config) => LinksSound(fs) /\ DOMAIN fs.at \subseteq Seq(Name)
    PROVE  rel \in Possible
  <1>1. CASE Single(config)
    BY <1>1 DEF Rels, Possible
  <1>2. CASE ~Single(config)
    <2> DEFINE root == Located(fs, config.dir)
    <2>1. root \in Seq(Name)
      BY <1>2, ChoiceFacts, LocatedFacts
    <2>2. PICK l \in DOMAIN fs.at : IsStrictPrefix(root, l) /\ rel = SubSeq(l, Len(root) + 1, Len(l))
      BY <1>2 DEF Rels, InputFiles
    <2>3. l \in Seq(Name)
      BY <1>2
    <2> HIDE DEF root
    <2>4. Pre(root, l) /\ root # l
      BY <2>1, <2>2, <2>3, PrefixPointwise DEF IsStrictPrefix
    <2>5. Len(root) < Len(l) /\ Len(root) \in Nat /\ Len(l) \in Nat
      <3>1. Len(root) # Len(l)
        BY <2>1, <2>3, <2>4, SeqEqual DEF Pre
      <3> QED
        BY <2>1, <2>3, <2>4, <3>1 DEF Pre
    <2>6. \A i \in Len(root) + 1 .. Len(l) : l[i] \in Name
      BY <2>3, <2>5
    <2>7. rel \in Seq(Name) /\ Len(rel) = Len(l) - (Len(root) + 1) + 1
      BY <2>2, <2>5, <2>6, SubSeqProperties
    <2> QED
      BY <1>2, <2>5, <2>7 DEF Possible
  <1> QED
    BY <1>1, <1>2

(* So are those that were there.                                           *)
LEMMA RelPossible ==
    ASSUME Sane, Accepted(config)
    PROVE  Rels(config, before) \subseteq Possible
  BY RelPaths, TreeLinks DEF Sane, FileSystem

(* The outputs of an event are reserved by name, or below a namespace.     *)
LEMMA OutputPaths ==
    ASSUME Sane, Accepted(config), NEW rel \in Possible
    PROVE  /\ Single(config) => /\ config.mutates => EventOutputPath(config, rel) = Reserved(config)[3]
                                /\ ReportOutputPath(config, rel) = Reserved(config)[4]
                                /\ config.mutates => EventOutputPath(config, rel) # None
                                /\ ReportOutputPath(config, rel) # None
           /\ ~Single(config) =>
                LET e == EventOutputPath(config, rel)
                    r == ReportOutputPath(config, rel)
                IN /\ e \in Seq(Name) /\ Pre(Append(config.outputDir, "events"), e)
                   /\ e # Append(config.outputDir, "events") /\ e # Stdio
                   /\ r \in Seq(Name) /\ Pre(Append(config.outputDir, "reports"), r)
                   /\ r # Append(config.outputDir, "reports") /\ r # Stdio
  <1>1. ASSUME Single(config)
        PROVE  /\ config.mutates => EventOutputPath(config, rel) = Reserved(config)[3]
               /\ ReportOutputPath(config, rel) = Reserved(config)[4]
               /\ config.mutates => EventOutputPath(config, rel) # None
               /\ ReportOutputPath(config, rel) # None
    <2>1. rel = SingleRel(config) /\ rel \in Seq(Name) /\ rel # <<>>
      BY <1>1, PossiblePaths DEF Possible
    <2>2. /\ config.mutates => Reserved(config)[3] = EventOutputPath(config, SingleRel(config))
          /\ Reserved(config)[4] = ReportOutputPath(config, SingleRel(config))
      BY <1>1 DEF Reserved
    <2>3. config.mutates => EventOutputPath(config, rel) # None
      <3>1. CASE Given(config.eventOutput)
        BY <1>1, <3>1 DEF EventOutputPath, Given
      <3>2. CASE config.mutates /\ ~Given(config.eventOutput)
        <4>1. config.outputDir \in Seq(Name)
          BY <1>1, <3>2, ChoiceFacts
        <4>2. EventOutputPath(config, rel) \in Seq(Name)
          BY <2>1, <3>2, <4>1, BelowFacts DEF EventOutputPath
        <4> QED
          BY <4>2, LayoutAssumption
      <3> QED
        BY <3>1, <3>2
    <2>4. ReportOutputPath(config, rel) # None
      <3>1. CASE Given(config.reportOutput)
        BY <1>1, <3>1 DEF ReportOutputPath, Given
      <3>2. CASE ~Given(config.reportOutput)
        <4>1. config.outputDir \in Seq(Name)
          BY <1>1, <3>2, ChoiceFacts
        <4>2. ReportOutputPath(config, rel) \in Seq(Name)
          BY <2>1, <3>2, <4>1, BelowFacts DEF ReportOutputPath
        <4> QED
          BY <4>2, LayoutAssumption
      <3> QED
        BY <3>1, <3>2
    <2> QED
      BY <2>1, <2>2, <2>3, <2>4
  <1>2. ASSUME ~Single(config)
        PROVE  LET e == EventOutputPath(config, rel)
                   r == ReportOutputPath(config, rel)
               IN /\ e \in Seq(Name) /\ Pre(Append(config.outputDir, "events"), e)
                  /\ e # Append(config.outputDir, "events") /\ e # Stdio
                  /\ r \in Seq(Name) /\ Pre(Append(config.outputDir, "reports"), r)
                  /\ r # Append(config.outputDir, "reports") /\ r # Stdio
    <2> DEFINE o == config.outputDir
               e == o \o <<"events">> \o rel
               r == o \o <<"reports">> \o Front(rel) \o <<ReportName[Last(rel)]>>
    <2>1. EventOutputPath(config, rel) = e /\ ReportOutputPath(config, rel) = r
      BY <1>2 DEF EventOutputPath, ReportOutputPath
    <2>2. o \in Seq(Name) /\ rel \in Seq(Name) /\ rel # <<>>
      BY <1>2, ChoiceFacts, PossiblePaths
    <2> HIDE DEF o
    <2>3. /\ e \in Seq(Name) /\ Pre(Append(o, "events"), e) /\ e # Append(o, "events")
          /\ r \in Seq(Name) /\ Pre(Append(o, "reports"), r) /\ r # Append(o, "reports")
      BY <2>2, BelowFacts
    <2> HIDE DEF e, r
    <2> QED
      BY <2>1, <2>3, LayoutAssumption DEF o
  <1> QED
    BY <1>1, <1>2

(* Until the summaries the walk finds the files that were there.           *)
LEMMA RelsKept ==
    ASSUME Layer, ~Unseen, phase = "next", writing = 0
    PROVE  Rels(config, disk) = Rels(config, before)
  <1>1. CASE Single(config)
    BY <1>1 DEF Rels
  <1>2. CASE ~Single(config)
    <2> DEFINE R == Located(before, config.dir)
               O == Located(before, config.outputDir)
    <2>1. Sane /\ Cleared /\ LinksKept /\ PriorKept /\ FileSystem(before)
      BY DEF Layer, Checked, Past, Cleared, Sane
    <2>2. R \in Seq(Name) /\ O \in Seq(Name) /\ ~Pre(R, O) /\ ~Pre(O, R)
      BY <1>2, <2>1, Apart
    <2>3. SameLinks(before, disk)
      BY <1>2, <2>1, NoneLost
    <2>4. Located(disk, config.dir) = R
      <3>1. config.dir \in Seq(Name) /\ LinksSound(before) /\ LinksSound(disk)
        BY <1>2, <2>1, ChoiceFacts, TreeLinks, DiskLinks DEF Cleared
      <3> QED
        BY <2>3, <3>1, SameLinksLead
    <2> DEFINE found(fs, m) == m \in DOMAIN fs.at /\ IsStrictPrefix(R, m) /\ Kind(fs, m) = "file" /\ Last(m) \in Json
    <2>5. ASSUME NEW m, m \in DOMAIN before.at, IsPrefix(R, m)
          PROVE  m \in DOMAIN disk.at /\ Kind(disk, m) = Kind(before, m)
      <3>1. m \in DOMAIN disk.at
        BY <2>1, <2>5 DEF PriorKept
      <3>2. CASE disk.at[m] = before.at[m]
        BY <2>5, <3>1, <3>2 DEF Kind
      <3>3. CASE disk.at[m] # before.at[m]
        <4>1. ~Read(m)
          BY <2>1, <2>5, <3>3 DEF PriorKept
        <4>2. Kind(before, m) = "link"
          BY <1>2, <2>5, <4>1 DEF Read
        <4>3. Kind(disk, m) = "link"
          BY <2>3, <4>2 DEF SameLinks
        <4> QED
          BY <3>1, <4>2, <4>3
      <3> QED
        BY <3>2, <3>3
    <2>6. ASSUME NEW m, m \in DOMAIN disk.at, IsPrefix(R, m), m \in Seq(Name)
          PROVE  m \in DOMAIN before.at
      <3>1. m \in DOMAIN before.at \/ Pre(m, O) \/ Pre(O, m)
        BY <1>2, <2>6 DEF Layer, NewPlaces
      <3>2. Pre(R, m)
        BY <2>2, <2>6, PrefixPointwise
      <3>3. ~Pre(m, O)
        BY <2>2, <2>6, <3>2, PreFacts
      <3>4. ~Pre(O, m)
        BY <2>2, <2>6, <3>2, PreFacts
      <3> QED
        BY <3>1, <3>3, <3>4
    <2>7. DOMAIN before.at \subseteq Seq(Name) /\ DOMAIN disk.at \subseteq Seq(Name)
      <3>1. DOMAIN before.at \subseteq Seq(Name)
        BY <2>1 DEF FileSystem
      <3>2. DOMAIN disk.at \subseteq Seq(Name)
        BY <1>2, <3>1 DEF Layer, NewPlaces
      <3> QED
        BY <3>1, <3>2
    <2>8. \A m : found(disk, m) <=> found(before, m)
      BY <2>5, <2>6, <2>7 DEF IsStrictPrefix
    <2>9. InputFiles(config, disk) = InputFiles(config, before)
      <3>1. InputFiles(config, disk) = {SubSeq(l, Len(R) + 1, Len(l)) : l \in {m \in DOMAIN disk.at : found(disk, m)}}
        BY <2>4 DEF InputFiles
      <3>2. InputFiles(config, before) = {SubSeq(l, Len(R) + 1, Len(l)) : l \in {m \in DOMAIN before.at : found(before, m)}}
        BY DEF InputFiles
      <3>3. {m \in DOMAIN disk.at : found(disk, m)} = {m \in DOMAIN before.at : found(before, m)}
        BY <2>8
      <3> HIDE DEF found, R
      <3> QED
        BY <3>1, <3>2, <3>3
    <2> QED
      BY <1>2, <2>9 DEF Rels
  <1> QED
    BY <1>1, <1>2

-----------------------------------------------------------------------------
(* The second layer holds at the start.                                    *)
LEMMA LayerInit == Init => Layer
  <1> SUFFICES ASSUME Init PROVE Layer
    OBVIOUS
  <1> USE DEF Init
  <1>1. Sane
    BY RunAssumption DEF Sane
  <1>2. LinksKept /\ NewPlaces /\ PriorKept
    BY DEF LinksKept, NewPlaces, PriorKept
  <1>3. Checked /\ Progress
    BY RunAssumption DEF Checked, Progress, Past, NoEvent
  <1> QED
    BY <1>1, <1>2, <1>3 DEF Layer

(* Steps that take no place on the disk.                                   *)
LEMMA LayerStays ==
    ASSUME IInv, Layer, UNCHANGED <<config, before>>,
           NEW p, WriteFails(p) \/ UNCHANGED disk,
           phase' \in {"summaries", "ended"} \/ (UNCHANGED disk /\ phase \notin {"summaries", "ended"}),
           \A i : Pending(i)' => Pending(i),
           Checked', Progress'
    PROVE  Layer'
  <1>1. Sane'
    BY DEF Layer, Sane
  <1>2. LinksKept' /\ PriorKept'
    BY FailureKeeps DEF Layer, IInv, DiskSound
  <1>3. NewPlaces'
    BY DEF Layer, NewPlaces
  <1> QED
    BY <1>1, <1>2, <1>3 DEF Layer

(* An output of an event takes a place that preflight has looked at.       *)
LEMMA OutputLayer ==
    ASSUME IInv, Layer, UNCHANGED <<config, before, writing>>, writing = 0,
           phase \in {"event", "report"}, Checked', Progress',
           NEW p, NEW file, file.kind = "file", Write(p, file),
           \A i : Pending(i)' => Pending(i),
           Single(config) => /\ p # None
                             /\ \E j \in {3, 4} : p = Reserved(config)[j] /\ Pending(j) /\ ~Pending(j)',
           ~Single(config) => /\ p \in Seq(Name) /\ p # Stdio
                              /\ \E name \in ActiveNamespaces(config) :
                                   /\ Pre(Append(config.outputDir, name), p)
                                   /\ p # Append(config.outputDir, name)
    PROVE  Layer'
  <1>1. Sane /\ Cleared /\ LinksKept /\ PriorKept /\ WellFormed(disk)
    BY DEF Layer, Checked, Past, Cleared, IInv, DiskSound
  <1>2. Sane'
    BY <1>1 DEF Sane
  <1>3. CASE p = Stdio
    <2>1. UNCHANGED disk
      BY <1>3 DEF Write
    <2> QED
      BY <2>1, LayerStays
  <1>4. CASE p # Stdio /\ Single(config)
    <2>1. PICK j \in {3, 4} : p = Reserved(config)[j] /\ Pending(j) /\ ~Pending(j)'
      BY <1>4
    <2>2. j \in Places(config) \ {1, 2}
      BY <1>1, <1>4, <2>1, ReservedFacts DEF Places, Cleared
    <2> DEFINE e == Entry(disk, p)
    <2>3. e = Entry(before, p)
      BY <1>1, <2>1, <2>2, SameWay
    <2>4. e \in DOMAIN before.at => Written(e) /\ (Read(e) => Unseen)
      BY <1>1, <2>1, <2>2, <2>3, DestinationPlace
    <2>5. \E i \in Places(config) \ {1, 2} : e = Entry(before, Reserved(config)[i]) /\ ~Pending(i)'
      BY <2>1, <2>2, <2>3
    <2>6. e = Entry(disk, p)
      OBVIOUS
    <2> HIDE DEF e
    <2>7. LinksKept' /\ PriorKept'
      BY <1>1, <1>4, <2>4, <2>5, <2>6, WriteKeeps
    <2>8. NewPlaces'
      BY <1>4 DEF NewPlaces
    <2> QED
      BY <1>2, <2>7, <2>8 DEF Layer
  <1>5. CASE ~Single(config)
    <2>1. PICK name \in ActiveNamespaces(config) :
            Pre(Append(config.outputDir, name), p) /\ p # Append(config.outputDir, name)
      BY <1>5
    <2>2. SameLinks(before, disk) /\ LinksSound(before) /\ LinksSound(disk) /\ p \in Seq(Name) /\ p # Stdio
      BY <1>1, <1>5, NoneLost, DiskLinks, TreeLinks DEF Sane
    <2> DEFINE e == Entry(disk, p)
               O == Located(before, config.outputDir)
    <2>3. e = Entry(before, p)
      BY <2>2, SameLinksLead
    <2>4. Parents(disk, p) = Parents(before, p)
      <3>1. p # <<>>
        BY <2>1, <2>2, LayoutAssumption, <1>1, <1>5, ChoiceFacts DEF Pre, ActiveNamespaces, Cleared
      <3>2. \A a \in Ancestors(Front(p)) : a \in Seq(Name)
        BY <2>2, <3>1, FrontFacts, AncestorFacts DEF Ancestors
      <3>3. \A a \in Ancestors(Front(p)) : Located(disk, a) = Located(before, a)
        BY <2>2, <3>2, SameLinksLead
      <3> QED
        BY <3>3 DEF Parents
    <2>5. /\ e \in Seq(Name) /\ Written(e) /\ (e \in DOMAIN before.at /\ Read(e) => Unseen)
          /\ Kind(before, e) # "link" /\ Pre(O, e)
          /\ \A l \in Parents(disk, p) :
               l \in Seq(Name) /\ (l \in DOMAIN before.at \/ Pre(l, O) \/ Pre(O, l))
      BY <1>1, <1>5, <2>1, <2>2, <2>3, <2>4, NamespacePlace
    <2>6. e = Entry(disk, p)
      OBVIOUS
    <2> HIDE DEF e
    <2>7. LinksKept' /\ PriorKept'
      BY <1>1, <2>2, <2>5, <2>6, WriteKeeps
    <2>8. DOMAIN disk'.at = DOMAIN disk.at \cup Parents(disk, p) \cup {e}
      BY <1>1, <2>2, <2>6, WriteAt
    <2>9. \A l \in DOMAIN disk.at : l \in DOMAIN before.at \/ (l \in Seq(Name) /\ (Pre(l, O) \/ Pre(O, l)))
      BY <1>5 DEF Layer, NewPlaces
    <2>10. NewPlaces'
      BY <2>5, <2>8, <2>9 DEF NewPlaces
    <2> QED
      BY <1>2, <2>7, <2>10 DEF Layer
  <1> QED
    BY <1>3, <1>4, <1>5

(* Between events every event taken is counted and reported.               *)
LEMMA Tally ==
    ASSUME IInv, phase = "next"
    PROVE  /\ summary["processed"] = Cardinality(visited)
           /\ summary["reportsWritten"] = Cardinality(visited)
  <1> DEFINE a == summary["parse"]
             b == summary["processing"]
             c == summary["eventFailures"]
             d == summary["reportFailures"]
             p == summary["processed"]
             r == summary["reportsWritten"]
             n == Cardinality(visited)
  <1>1. a \in Nat /\ b \in Nat /\ c \in Nat /\ d \in Nat /\ p \in Nat /\ r \in Nat
    BY DEF IInv, Types, Counter
  <1>2. p + a + b + 0 = n /\ r + d + c = p /\ a + b + c + d <= 0
    BY DEF IInv, CountersAgree
  <1> HIDE DEF a, b, c, d, p, r, n
  <1>3. a = 0 /\ b = 0 /\ c = 0 /\ d = 0
    BY <1>1, <1>2
  <1>4. p = n /\ r = n
    BY <1>1, <1>2, <1>3
  <1> QED
    BY <1>4 DEF p, r, n

-----------------------------------------------------------------------------
(* What every step knows of the state it starts from.                      *)
LEMMA LayerFacts ==
    ASSUME IInv, Layer, phase # "ended"
    PROVE  /\ exit # 0 /\ exit = None
           /\ phase # "summaries" => writing = 0
           /\ phase = "preflight" \/ Past => Accepted(config)
           /\ Past => Preflight(config, before)
           /\ phase \in {"pipeline", "next", "read", "event", "report", "summaries"} => Past
           /\ visited \subseteq Possible /\ (Unseen \/ visited \subseteq Rels(config, before))
           /\ visited = {} => ~event.eventWritten /\ ~event.reportWritten
  BY RunAssumption DEF IInv, Types, Layer, Checked, Progress, Past

(* Before the first event.                                                 *)
LEMMA EarlyLayer == IInv /\ Layer /\ (Options \/ CheckDestinations \/ NewPipeline) => Layer'
  <1> SUFFICES ASSUME IInv, Layer, Options \/ CheckDestinations \/ NewPipeline PROVE Layer'
    OBVIOUS
  <1>1. /\ UNCHANGED <<config, before, disk, printed, event, visited, summary, writing>>
        /\ phase \in Early /\ phase' \in {"preflight", "pipeline", "next", "ended"} /\ exit' # 0
        /\ phase' = "ended" \/ exit' = exit
    BY RunAssumption, LayerFacts DEF Options, CheckDestinations, NewPipeline, Go, Exit, Early
  <1>2. exit' # 0 /\ writing = 0 /\ disk = before
    BY <1>1, LayerFacts DEF Early, IInv, Untouched
  <1>3. Checked'
    <2>1. CASE Options
      BY <1>1, <1>2, <2>1 DEF Options, Go, Exit, Checked, Past
    <2>2. CASE CheckDestinations
      <3>1. Accepted(config) /\ phase' \in {"pipeline", "ended"}
            /\ (phase' = "pipeline" => Preflight(config, before))
        BY <1>2, <2>2, LayerFacts DEF CheckDestinations, Go, Exit
      <3> QED
        BY <1>1, <1>2, <3>1 DEF Checked, Past
    <2>3. CASE NewPipeline
      <3>1. Accepted(config) /\ Preflight(config, before)
        BY <2>3, LayerFacts DEF NewPipeline
      <3> QED
        BY <1>1, <3>1 DEF Checked
    <2> QED
      BY <2>1, <2>2, <2>3
  <1>4. Progress'
    BY <1>1, <1>2, UnseenStays DEF Progress, Layer, Early, AllTaken
  <1>5. \A i : Pending(i)' => Pending(i)
    BY <1>1 DEF Pending
  <1> QED
    BY <1>1, <1>3, <1>4, <1>5, LayerStays DEF Early

(* The walk takes a file that was there.                                   *)
LEMMA TakeLayer == IInv /\ Layer /\ Take => Layer'
  <1> SUFFICES ASSUME IInv, Layer, Take PROVE Layer'
    OBVIOUS
  <1>1. /\ phase = "next" /\ phase' = "read" /\ exit' = exit
        /\ UNCHANGED <<config, before, disk, printed, summary, writing>>
    BY DEF Take, Go
  <1>2. writing = 0 /\ exit # 0 /\ Accepted(config) /\ Preflight(config, before)
    BY <1>1, LayerFacts
  <1>3. PICK rel \in Rels(config, disk) \ visited :
          event' = [NoEvent EXCEPT !.rel = rel] /\ visited' = visited \cup {rel}
    BY DEF Take
  <1>4. /\ event'.rel = rel /\ ~event'.eventWritten /\ ~event'.reportWritten
        /\ rel \in Possible /\ (Unseen \/ rel \in Rels(config, before))
    <2>1. event'.rel = rel /\ ~event'.eventWritten /\ ~event'.reportWritten
      BY <1>3 DEF NoEvent
    <2>2. LinksSound(disk)
      BY DiskLinks DEF Layer
    <2>3. ~Single(config) => DOMAIN disk.at \subseteq Seq(Name)
      BY <1>1 DEF Layer, NewPlaces, Sane, FileSystem
    <2>4. rel \in Possible
      BY <1>2, <1>3, <2>2, <2>3, RelPaths DEF Layer
    <2>5. Unseen \/ rel \in Rels(config, before)
      BY <1>1, <1>2, <1>3, RelsKept
    <2> QED
      BY <2>1, <2>4, <2>5
  <1>5. Checked'
    BY <1>1, <1>2 DEF Checked
  <1>6. Progress'
    <2>1. visited' \subseteq Possible' /\ (Unseen' \/ visited' \subseteq Rels(config', before'))
      BY <1>1, <1>3, <1>4, LayerFacts, UnseenStays
    <2> QED
      BY <1>1, <1>2, <1>3, <1>4, <2>1 DEF Progress, Layer
  <1>7. \A i : Pending(i)' => Pending(i)
    <2>1. CASE Single(config)
      <3>1. visited = {}
        BY <1>3, <1>4, <2>1, LayerFacts, <1>1 DEF Possible
      <3>2. ~event.eventWritten /\ ~event.reportWritten
        BY <1>1, <3>1, LayerFacts
      <3> QED
        BY <1>1, <2>1, <3>2 DEF Pending
    <2>2. CASE ~Single(config)
      BY <1>1, <2>2 DEF Pending
    <2> QED
      BY <2>1, <2>2
  <1> QED
    BY <1>1, <1>5, <1>6, <1>7, LayerStays

(* Steps within an event that write nothing, and ends that are failures.   *)
LEMMA MiddleLayer ==
    IInv /\ Layer /\ (ReadFails \/ Process \/ SkipEvent \/ WalkFails) => Layer'
  <1> SUFFICES ASSUME IInv, Layer, ReadFails \/ Process \/ SkipEvent \/ WalkFails PROVE Layer'
    OBVIOUS
  <1>1. /\ phase \in {"next", "read", "event"} /\ UNCHANGED <<config, before, disk, visited, writing>>
        /\ \/ phase' = "ended" /\ exit' = 1
           \/ phase' \in {"event", "report"} /\ phase \in {"read", "event"} /\ exit' = exit
    BY DEF ReadFails, Process, SkipEvent, WalkFails, Go, Exit
  <1>2. writing = 0 /\ exit' # 0 /\ Accepted(config) /\ Preflight(config, before)
    BY <1>1, LayerFacts
  <1>3. /\ event'.rel = event.rel /\ (event'.eventWritten <=> event.eventWritten)
        /\ (event'.reportWritten <=> event.reportWritten)
    BY DEF ReadFails, Process, SkipEvent, WalkFails, IInv, Types
  <1>4. Checked'
    BY <1>1, <1>2 DEF Checked
  <1>5. Progress'
    BY <1>1, <1>2, <1>3, UnseenStays DEF Progress, Layer
  <1>6. \A i : Pending(i)' => Pending(i)
    BY <1>1, <1>3 DEF Pending
  <1> QED
    BY <1>1, <1>4, <1>5, <1>6, LayerStays

(* No file is left: all that were there have been taken.                   *)
LEMMA NoMoreLayer == IInv /\ Layer /\ NoMore => Layer'
  <1> SUFFICES ASSUME IInv, Layer, NoMore PROVE Layer'
    OBVIOUS
  <1>1. /\ phase = "next" /\ phase' = "summaries" /\ exit' = exit
        /\ UNCHANGED <<config, before, disk, event, visited, summary, writing>>
    BY DEF NoMore, Go
  <1>2. writing = 0 /\ exit' # 0 /\ Accepted(config) /\ Preflight(config, before)
    BY <1>1, LayerFacts
  <1>3. Unseen \/ visited = Rels(config, before)
    <2>1. Unseen \/ Rels(config, before) \subseteq visited
      BY <1>1, <1>2, RelsKept DEF NoMore
    <2> QED
      BY <1>1, <2>1, LayerFacts
  <1>4. Checked'
    BY <1>1, <1>2 DEF Checked
  <1>5. Progress'
    BY <1>1, <1>2, <1>3, Tally, UnseenStays DEF Progress, Layer, AllTaken
  <1>6. \A i : Pending(i)' => Pending(i)
    BY <1>1 DEF Pending
  <1> QED
    BY <1>1, <1>4, <1>5, <1>6, LayerStays

(* The event is written where it was to be.                                *)
LEMMA WriteEventLayer == IInv /\ Layer /\ WriteEvent => Layer'
  <1> SUFFICES ASSUME IInv, Layer, WriteEvent PROVE Layer'
    OBVIOUS
  <1>1. /\ phase = "event" /\ phase' = "report" /\ exit' = exit /\ config.mutates
        /\ event' = [event EXCEPT !.eventWritten = TRUE]
        /\ UNCHANGED <<config, before, visited, summary, writing>>
        /\ Write(EventPath, EventFile(event.rel))
    BY DEF WriteEvent, Go
  <1>2. writing = 0 /\ exit' # 0 /\ Accepted(config) /\ Preflight(config, before)
    BY <1>1, LayerFacts
  <1>3. /\ event'.rel = event.rel /\ event'.eventWritten
        /\ (event'.reportWritten <=> event.reportWritten) /\ ~event.eventWritten
    BY <1>1 DEF IInv, Types, InHand
  <1>4. event.rel \in visited /\ event.rel \in Possible
    BY <1>1 DEF Layer, Progress
  <1>5. Checked'
    BY <1>1, <1>2 DEF Checked
  <1>6. Progress'
    BY <1>1, <1>2, <1>3, <1>4, UnseenStays DEF Progress, Layer
  <1>7. \A i : Pending(i)' => Pending(i)
    BY <1>1, <1>3 DEF Pending
  <1> DEFINE p == EventPath
             file == EventFile(event.rel)
  <1>8. Single(config) => /\ p # None
                          /\ p = Reserved(config)[3] /\ Pending(3) /\ ~Pending(3)'
    <2>1. Single(config) => p = Reserved(config)[3] /\ p # None
      BY <1>1, <1>2, <1>4, OutputPaths DEF EventPath, Layer
    <2>2. Single(config) => Pending(3) /\ ~Pending(3)'
      BY <1>1, <1>3 DEF Pending
    <2> QED
      BY <2>1, <2>2
  <1>9. ~Single(config) => /\ p \in Seq(Name) /\ p # Stdio
                           /\ "events" \in ActiveNamespaces(config)
                           /\ Pre(Append(config.outputDir, "events"), p)
                           /\ p # Append(config.outputDir, "events")
    <2>1. "events" \in ActiveNamespaces(config)
      BY <1>1 DEF ActiveNamespaces
    <2> QED
      BY <1>2, <1>4, <2>1, OutputPaths DEF EventPath, Layer
  <1>10. file.kind = "file" /\ Write(p, file)
    BY <1>1 DEF EventFile
  <1> HIDE DEF p, file
  <1> QED
    BY <1>1, <1>2, <1>5, <1>6, <1>7, <1>8, <1>9, <1>10, OutputLayer

(* So is the report.                                                       *)
LEMMA WriteReportLayer == IInv /\ Layer /\ WriteReport => Layer'
  <1> SUFFICES ASSUME IInv, Layer, WriteReport PROVE Layer'
    OBVIOUS
  <1>1. /\ phase = "report" /\ phase' = "next" /\ exit' = exit
        /\ event' = [event EXCEPT !.reportWritten = TRUE]
        /\ UNCHANGED <<config, before, visited, writing>>
        /\ Write(ReportPath, ReportFile(event.rel))
    BY DEF WriteReport, Go
  <1>2. writing = 0 /\ exit' # 0 /\ Accepted(config) /\ Preflight(config, before)
    BY <1>1, LayerFacts
  <1>3. /\ event'.rel = event.rel /\ event'.reportWritten
        /\ (event'.eventWritten <=> event.eventWritten) /\ ~event.reportWritten
    BY <1>1 DEF IInv, Types, InHand
  <1>4. event.rel \in visited /\ event.rel \in Possible
    BY <1>1 DEF Layer, Progress
  <1>5. Checked'
    BY <1>1, <1>2 DEF Checked
  <1>6. Progress'
    BY <1>1, <1>2, <1>3, <1>4, UnseenStays DEF Progress, Layer
  <1>7. \A i : Pending(i)' => Pending(i)
    BY <1>1, <1>3 DEF Pending
  <1> DEFINE p == ReportPath
             file == ReportFile(event.rel)
  <1>8. Single(config) => /\ p # None
                          /\ p = Reserved(config)[4] /\ Pending(4) /\ ~Pending(4)'
    <2>1. Single(config) => p = Reserved(config)[4] /\ p # None
      BY <1>1, <1>2, <1>4, OutputPaths DEF ReportPath, Layer
    <2>2. Single(config) => Pending(4) /\ ~Pending(4)'
      BY <1>1, <1>3 DEF Pending
    <2> QED
      BY <2>1, <2>2
  <1>9. ~Single(config) => /\ p \in Seq(Name) /\ p # Stdio
                           /\ "reports" \in ActiveNamespaces(config)
                           /\ Pre(Append(config.outputDir, "reports"), p)
                           /\ p # Append(config.outputDir, "reports")
    <2>1. "reports" \in ActiveNamespaces(config)
      BY <1>2 DEF ActiveNamespaces, GeneratesReport, Accepted
    <2> QED
      BY <1>2, <1>4, <2>1, OutputPaths DEF ReportPath, Layer
  <1>10. file.kind = "file" /\ Write(p, file)
    BY <1>1 DEF ReportFile
  <1> HIDE DEF p, file
  <1> QED
    BY <1>1, <1>2, <1>5, <1>6, <1>7, <1>8, <1>9, <1>10, OutputLayer

(* An output that fails ends the invocation.                               *)
LEMMA FailureLayer ==
    IInv /\ Layer /\ (EventWriteFails \/ ReportWriteFails \/ SummaryFails) => Layer'
  <1> SUFFICES ASSUME IInv, Layer, EventWriteFails \/ ReportWriteFails \/ SummaryFails PROVE Layer'
    OBVIOUS
  <1>1. /\ phase \in {"event", "report", "summaries"} /\ phase' = "ended" /\ exit' = 1
        /\ UNCHANGED <<config, before, event, visited, writing>>
        /\ phase = "summaries" => UNCHANGED summary
        /\ \E p : WriteFails(p) \/ UNCHANGED disk
    BY DEF EventWriteFails, ReportWriteFails, SummaryFails, Exit
  <1>2. exit' # 0 /\ Accepted(config) /\ Preflight(config, before)
        /\ (phase # "summaries" => writing = 0)
    BY <1>1, LayerFacts
  <1>3. Checked'
    BY <1>1, <1>2 DEF Checked
  <1>4. Progress'
    BY <1>1, <1>2, UnseenStays DEF Progress, Layer, AllTaken
  <1>5. \A i : Pending(i)' => Pending(i)
    BY <1>1 DEF Pending
  <1>6. PICK p : WriteFails(p) \/ UNCHANGED disk
    BY <1>1
  <1> QED
    BY <1>1, <1>3, <1>4, <1>5, <1>6, LayerStays

(* A summary is written where it was to be, once.                          *)
LEMMA SummaryLayer == IInv /\ Layer /\ WriteSummary => Layer'
  <1> SUFFICES ASSUME IInv, Layer, WriteSummary PROVE Layer'
    OBVIOUS
  <1> DEFINE ds == SummaryDestinations(config)
             p == NextSummary
             file == Rendered(NextSummary, summary)
  <1>1. /\ phase = "summaries" /\ writing < Len(ds) /\ writing' = writing + 1
        /\ UNCHANGED <<config, before, phase, event, visited, summary, exit>>
        /\ Write(p, file) /\ writing \in Nat
    BY DEF WriteSummary, IInv, Types
  <1>2. exit' # 0 /\ Sane /\ Cleared /\ LinksKept /\ PriorKept /\ WellFormed(disk)
    BY <1>1, LayerFacts DEF Layer, IInv, DiskSound, Cleared
  <1>3. Checked'
    BY <1>1, <1>2 DEF Checked, Cleared
  <1>4. Progress'
    BY <1>1, <1>2, UnseenStays DEF Progress, Layer, AllTaken
  <1>5. \A i : Pending(i)' => Pending(i)
    BY <1>1 DEF Pending
  <1>6. Sane' /\ NewPlaces'
    BY <1>1, <1>2 DEF Sane, NewPlaces
  <1>7. CASE p = Stdio
    <2>1. UNCHANGED disk
      BY <1>1, <1>7 DEF Write
    <2> QED
      BY <1>1, <1>3, <1>4, <1>5, <2>1, LayerStays
  <1>8. CASE p # Stdio
    <2>1. writing + 1 \in 1 .. Len(ds) /\ p = ds[writing + 1] /\ Len(ds) \in Nat
      BY <1>1, <1>2, SummaryOrder DEF NextSummary
    <2>2. /\ \E j \in Places(config) \cap {5, 6} : ds[writing + 1] = Reserved(config)[j]
          /\ \A k \in 1 .. Len(ds) : ds[k] = ds[writing + 1] => k = writing + 1
      BY <1>2, <1>8, <2>1, SummaryOrder
    <2>3. PICK j \in Places(config) \cap {5, 6} : p = Reserved(config)[j]
      BY <2>1, <2>2
    <2>4. ~Single(config)
      BY <1>2, <2>1, SummaryOrder
    <2>5. Pending(j) /\ ~Pending(j)'
      <3>1. writing + 1 \in writing + 1 .. Len(ds) /\ ds[writing + 1] = Reserved(config)[j]
        BY <1>1, <2>1, <2>3
      <3>2. \A k \in writing' + 1 .. Len(ds) : ds[k] # Reserved(config)[j]
        BY <1>1, <2>1, <2>2, <2>3
      <3> HIDE DEF ds
      <3> QED
        BY <1>1, <2>4, <3>1, <3>2 DEF Pending, ds
    <2> DEFINE e == Entry(disk, p)
    <2>6. e = Entry(before, p)
      BY <1>2, <2>3, <2>5, SameWay
    <2>7. e \in DOMAIN before.at => Written(e) /\ (Read(e) => Unseen)
      BY <1>2, <2>3, <2>6, DestinationPlace
    <2>8. \E i \in Places(config) \ {1, 2} : e = Entry(before, Reserved(config)[i]) /\ ~Pending(i)'
      BY <2>3, <2>5, <2>6
    <2>9. e = Entry(disk, p) /\ file.kind = "file"
      BY DEF Rendered, SummaryText, SummaryReport
    <2> HIDE DEF e, p, file
    <2>10. LinksKept' /\ PriorKept'
      BY <1>1, <1>2, <1>5, <1>8, <2>7, <2>8, <2>9, WriteKeeps
    <2> QED
      BY <1>3, <1>4, <1>6, <2>10 DEF Layer
  <1> QED
    BY <1>7, <1>8

(* The end.                                                                *)
LEMMA FinishLayer == IInv /\ Layer /\ Finish => Layer'
  <1> SUFFICES ASSUME IInv, Layer, Finish PROVE Layer'
    OBVIOUS
  <1>1. /\ phase = "summaries" /\ phase' = "ended" /\ writing = Len(SummaryDestinations(config))
        /\ UNCHANGED <<config, before, disk, event, visited, summary, writing>>
        /\ exit' = IF config.failOnErrors /\ summary["errors"] + summary["both"] > 0 THEN 1 ELSE 0
    BY DEF Finish, Exit
  <1>2. Accepted(config) /\ Preflight(config, before)
    BY <1>1, LayerFacts
  <1>3. summary["errors"] \in Nat /\ summary["both"] \in Nat
    BY DEF IInv, Types, Counter
  <1>4. exit' = 0 => (config.failOnErrors => summary["errors"] + summary["both"] = 0)
    BY <1>1, <1>3
  <1>5. Checked'
    BY <1>1, <1>2 DEF Checked
  <1>6. Progress'
    BY <1>1, <1>4, UnseenStays DEF Progress, Layer, AllTaken
  <1>7. \A i : Pending(i)' => Pending(i)
    BY <1>1 DEF Pending
  <1> QED
    BY <1>1, <1>5, <1>6, <1>7, LayerStays

(* Every step keeps the second layer.                                      *)
LEMMA LayerNext == IInv /\ Layer /\ [Next]_vars => Layer'
  <1> SUFFICES ASSUME IInv, Layer, UNCHANGED vars PROVE Layer'
    BY EarlyLayer, TakeLayer, MiddleLayer, NoMoreLayer, WriteEventLayer, WriteReportLayer,
       FailureLayer, SummaryLayer, FinishLayer DEF Next
  <1>1. UNCHANGED <<config, before, disk, phase, event, visited, summary, writing, exit>>
    BY DEF vars
  <1>2. Checked' /\ Progress'
    BY <1>1, UnseenStays DEF Layer, Checked, Past, Progress, AllTaken
  <1>3. \A i : Pending(i)' => Pending(i)
    BY <1>1 DEF Pending
  <1> QED
    BY <1>1, <1>2, <1>3, LayerStays

-----------------------------------------------------------------------------
(* Outputs are apart from each other.                                      *)

(* Nothing is below both namespaces.                                       *)
LEMMA NamespacesApart ==
    ASSUME NEW o \in Seq(Name), NEW p \in Seq(Name), NEW q \in Seq(Name), NEW m \in Name, NEW n \in Name,
           Pre(Append(o, m), p), Pre(Append(o, n), q), p = q
    PROVE  m = n
  <1> DEFINE k == Len(o) + 1
             s == Append(o, m)
             t == Append(o, n)
  <1>1. Len(s) = k /\ s[k] = m /\ Len(t) = k /\ t[k] = n /\ k \in 1 .. k
    OBVIOUS
  <1> HIDE DEF s, t, k
  <1>2. Pre(s, p) /\ Pre(t, q)
    BY DEF s, t
  <1>3. p[k] = m /\ q[k] = n
    BY <1>1, <1>2 DEF Pre
  <1> QED
    BY <1>3

(* The outputs of a directory run are named apart.                         *)
LEMMA NamedApart ==
    ASSUME Sane, Accepted(config), ~Single(config),
           NEW rel \in Rels(config, before), NEW other \in Rels(config, before)
    PROVE  /\ EventOutputPath(config, rel) = EventOutputPath(config, other) => rel = other
           /\ ReportOutputPath(config, rel) = ReportOutputPath(config, other) => rel = other
           /\ EventOutputPath(config, rel) # ReportOutputPath(config, other)
  <1> DEFINE o == config.outputDir
             oe == o \o <<"events">>
             or == o \o <<"reports">>
  <1>1. /\ o \in Seq(Name) /\ rel \in Seq(Name) /\ rel # <<>> /\ other \in Seq(Name) /\ other # <<>>
        /\ "events" \in Name /\ "reports" \in Name
    BY ChoiceFacts, RelPossible, PossiblePaths, LayoutAssumption
  <1>2. oe \in Seq(Name) /\ or \in Seq(Name)
    BY <1>1, OneMore
  <1>3. /\ Front(rel) \in Seq(Name) /\ Last(rel) \in Name /\ rel = Append(Front(rel), Last(rel))
        /\ Front(other) \in Seq(Name) /\ Last(other) \in Name /\ other = Append(Front(other), Last(other))
    BY <1>1, FrontFacts
  <1>4. Last(rel) \in Json /\ Last(other) \in Json
    <2>1. ASSUME NEW r \in Rels(config, before) PROVE Last(r) \in Json
      <3> DEFINE root == Located(before, config.dir)
      <3>1. root \in Seq(Name)
        BY ChoiceFacts, TreeLinks, LocatedFacts DEF Sane
      <3>2. PICK l \in DOMAIN before.at : /\ IsStrictPrefix(root, l) /\ Last(l) \in Json
                                          /\ r = SubSeq(l, Len(root) + 1, Len(l))
        BY DEF Rels, InputFiles
      <3>3. l \in Seq(Name) /\ r \in Seq(Name) /\ r # <<>>
        BY RelPossible, PossiblePaths DEF Sane, FileSystem
      <3> HIDE DEF root
      <3>4. Len(root) <= Len(l)
        BY <3>1, <3>2, <3>3, PrefixPointwise DEF IsStrictPrefix, Pre
      <3> DEFINE i == Len(root) + 1
                 k == Len(l)
      <3>5. i \in Nat /\ k \in Nat /\ i >= 1 /\ i <= k + 1 /\ \A x \in i .. k : l[x] \in Name
        BY <3>1, <3>3, <3>4
      <3>6. r = SubSeq(l, i, k)
        BY <3>2
      <3> HIDE DEF i, k
      <3>7. /\ Len(r) = IF i <= k THEN k - i + 1 ELSE 0
            /\ \A x \in 1 .. k - i + 1 : r[x] = l[i + x - 1]
        BY <3>5, <3>6, SubSeqProperties
      <3>8. Len(r) \in Nat /\ Len(r) # 0
        BY <3>3
      <3>9. i <= k
        BY <3>5, <3>7, <3>8
      <3>10. Len(r) = k - i + 1 /\ Len(r) \in 1 .. k - i + 1 /\ i + Len(r) - 1 = k
        BY <3>5, <3>7, <3>9
      <3>11. r[Len(r)] = l[k]
        BY <3>7, <3>10
      <3> QED
        BY <3>2, <3>11 DEF Last, k
    <2> QED
      BY <2>1
  <1>5. /\ EventOutputPath(config, rel) = oe \o rel
        /\ EventOutputPath(config, other) = oe \o other
        /\ ReportOutputPath(config, rel) = or \o Front(rel) \o <<ReportName[Last(rel)]>>
        /\ ReportOutputPath(config, other) = or \o Front(other) \o <<ReportName[Last(other)]>>
    BY DEF EventOutputPath, ReportOutputPath
  <1>6. EventOutputPath(config, rel) # ReportOutputPath(config, other)
    <2>1. /\ EventOutputPath(config, rel) \in Seq(Name)
          /\ ReportOutputPath(config, other) \in Seq(Name)
          /\ Pre(Append(o, "events"), EventOutputPath(config, rel))
          /\ Pre(Append(o, "reports"), ReportOutputPath(config, other))
      BY RelPossible, OutputPaths
    <2> HIDE DEF o
    <2> QED
      BY <1>1, <2>1, NamespacesApart
  <1> HIDE DEF oe, or
  <1>7. EventOutputPath(config, rel) = EventOutputPath(config, other) => rel = other
    <2> SUFFICES ASSUME oe \o rel = oe \o other PROVE rel = other
      BY <1>5
    <2> QED
      BY <1>1, <1>2, ConcatSimplifications
  <1>8. ReportOutputPath(config, rel) = ReportOutputPath(config, other) => rel = other
    <2> DEFINE f == Front(rel)
               g == Front(other)
               m == ReportName[Last(rel)]
               n == ReportName[Last(other)]
               x == or \o f
               y == or \o g
    <2>1. f \in Seq(Name) /\ g \in Seq(Name) /\ m \in Name /\ n \in Name
      BY <1>3, LayoutAssumption
    <2>2. m = n => Last(rel) = Last(other)
      BY <1>4, LayoutAssumption
    <2> HIDE DEF f, g, m, n
    <2> SUFFICES ASSUME x \o <<m>> = y \o <<n>> PROVE rel = other
      BY <1>5 DEF f, g, m, n
    <2>3. x \in Seq(Name) /\ y \in Seq(Name)
      BY <1>2, <2>1, Continued
    <2> HIDE DEF x, y
    <2>4. Append(x, m) = Append(y, n)
      BY <2>1, <2>3, OneMore
    <2>5. x = y /\ m = n
      <3>1. Front(Append(x, m)) = x /\ Last(Append(x, m)) = m
        BY <2>1, <2>3, FrontFacts
      <3>2. Front(Append(y, n)) = y /\ Last(Append(y, n)) = n
        BY <2>1, <2>3, FrontFacts
      <3> QED
        BY <2>4, <3>1, <3>2
    <2>6. f = g
      <3>1. or \o f = or \o g
        BY <2>5 DEF x, y
      <3> QED
        BY <1>2, <2>1, <3>1, ConcatSimplifications
    <2> QED
      BY <1>3, <2>2, <2>5, <2>6 DEF f, g
  <1> QED
    BY <1>6, <1>7, <1>8

(* A summary is none of the outputs of an event.                           *)
LEMMA SummariesApart ==
    ASSUME Sane, Cleared, ~Single(config), NEW rel \in Rels(config, before),
           NEW i \in 1 .. Len(SummaryDestinations(config)), SummaryDestinations(config)[i] # Stdio
    PROVE  /\ config.mutates => SummaryDestinations(config)[i] # EventOutputPath(config, rel)
           /\ SummaryDestinations(config)[i] # ReportOutputPath(config, rel)
  <1> DEFINE s == SummaryDestinations(config)[i]
             o == config.outputDir
  <1>1. o \in Seq(Name) /\ FileSystem(before) /\ Given(o)
    BY ChoiceFacts DEF Sane, Cleared
  <1>2. s \in Range(SummaryDestinations(config)) \ {Stdio}
    <2>1. i \in DOMAIN SummaryDestinations(config)
      BY DEF SummaryDestinations
    <2> QED
      BY <2>1 DEF Range
  <1>3. \A name \in {"events", "reports"} :
          ~IsPrefix(Append(Resolved(before, o), name), Resolved(before, s))
    BY <1>2 DEF Cleared, Preflight, ValidateSummaryDestinations, PathsOverlap, PathContains,
                OutputNamespace, FilesystemPath
  <1> HIDE DEF s, o
  <1>4. ASSUME NEW name \in ActiveNamespaces(config), NEW p \in Seq(Name), Pre(Append(o, name), p), s = p
        PROVE  FALSE
    <2>1. /\ name \in {"events", "reports"} /\ name \in Name
          /\ NoLinksBelow(before, Namespace(before, o, name))
      BY <1>1, NoLinksThere DEF o, ActiveNamespaces
    <2>2. /\ Resolved(before, o) \in Seq(Name) /\ Resolved(before, p) \in Seq(Name)
          /\ Append(Resolved(before, o), name) \in Seq(Name)
      <3>1. Resolved(before, o) \in Seq(Name) /\ Resolved(before, p) \in Seq(Name)
        BY <1>1, TreeLinks, ResolvedFacts
      <3> QED
        BY <2>1, <3>1
    <2>3. Pre(Append(Resolved(before, o), name), Resolved(before, p))
      BY <1>1, <1>4, <2>1, StaysBelow
    <2> QED
      BY <1>3, <1>4, <2>1, <2>2, <2>3, PrefixPointwise
  <1>5. /\ config.mutates => "events" \in ActiveNamespaces(config)
        /\ "reports" \in ActiveNamespaces(config)
    BY DEF ActiveNamespaces, GeneratesReport, Cleared, Accepted
  <1>6. /\ EventOutputPath(config, rel) \in Seq(Name) /\ Pre(Append(o, "events"), EventOutputPath(config, rel))
        /\ ReportOutputPath(config, rel) \in Seq(Name) /\ Pre(Append(o, "reports"), ReportOutputPath(config, rel))
    BY RelPossible, OutputPaths DEF o, Cleared
  <1>7. config.mutates => s # EventOutputPath(config, rel)
    BY <1>4, <1>5, <1>6
  <1>8. s # ReportOutputPath(config, rel)
    BY <1>4, <1>5, <1>6
  <1> QED
    BY <1>7, <1>8 DEF s

(* The event and the report of a single event: if preflight could not see  *)
(* that they are one file, the comparison before the report does.          *)
LEMMA SingleApart ==
    ASSUME Layer, phase = "report", Single(config), config.mutates, ~NamesSameFile,
           EventPath # Stdio, ReportPath # Stdio,
           Entry(before, EventPath) \in DOMAIN disk.at
    PROVE  Entry(before, EventPath) # Entry(before, ReportPath)
  <1> DEFINE p == EventPath
             q == ReportPath
             u == Entry(before, p)
  <1> SUFFICES ASSUME u = Entry(before, q) PROVE FALSE
    OBVIOUS
  <1>1. Sane /\ Cleared /\ LinksKept /\ FileSystem(before) /\ event.rel \in Possible
    BY DEF Layer, Checked, Past, Cleared, Sane, Progress
  <1>2. /\ p = Reserved(config)[3] /\ q = Reserved(config)[4] /\ p # None /\ q # None
        /\ 3 \in Places(config) /\ 4 \in Places(config) /\ p \in Seq(Name) /\ q \in Seq(Name)
    <2>1. p = Reserved(config)[3] /\ q = Reserved(config)[4] /\ p # None /\ q # None
      BY <1>1, OutputPaths DEF EventPath, ReportPath, Cleared
    <2>2. 3 \in Places(config) /\ 4 \in Places(config)
      BY <1>1, <2>1, ReservedFacts DEF Cleared, Places
    <2> QED
      BY <1>1, <2>1, <2>2, ReservedFacts DEF Cleared
  <1>3. /\ ~SameFilesystemPath(before, FilesystemPath(before, q), FilesystemPath(before, p))
        /\ Resolvable(before, p)
    <2>1. 4 \in Places(config) \ {1, 2} /\ 3 \in Places(config) \cap 1 .. 4 - 1 /\ 3 \in Places(config) \ {1, 2}
      BY <1>2
    <2>2. p \in Destinations(config)
      BY <1>2, <2>1 DEF Destinations
    <2> QED
      BY <1>1, <1>2, <2>1, <2>2 DEF Cleared, Preflight, Distinct, Given
  <1> HIDE DEF u
  <1>4. u = Entry(before, p) /\ u = Entry(before, q) /\ u \in DOMAIN disk.at
    BY DEF u
  <1> HIDE DEF p, q
  <1>5. Located(before, p) = Located(before, q)
    BY <1>1, <1>2, <1>4, EntryFacts
  <1>6. ~Exists(before, p) /\ Resolved(before, p) # Resolved(before, q)
    BY <1>3, <1>5 DEF SameFilesystemPath, SameFile, FilesystemPath, Exists
  <1>7. Kind(before, u) # "link" /\ Located(before, p) = u
    <2>1. p \in Ancestors(p)
      BY <1>2, SubSeqFull DEF Ancestors
    <2> QED
      BY <1>1, <1>2, <1>3, <1>4, <1>6, <2>1, EntryFacts DEF Resolvable
  <1>8. CASE ~before.folds
    <2>1. Resolved(before, p) \in Seq(Name) /\ Resolved(before, q) \in Seq(Name)
      BY <1>1, <1>2, ResolvedFacts, TreeLinks
    <2>2. Located(before, p) = Resolved(before, p) /\ Located(before, q) = Resolved(before, q)
      BY <1>8, <2>1, StoredFacts DEF Located
    <2> QED
      BY <1>5, <1>6, <2>2
  <1>9. CASE before.folds /\ Given(config.eventOutput)
    <2>1. Given(config.reportOutput) /\ p = config.eventOutput /\ q = config.reportOutput
      BY <1>1, <1>9 DEF Cleared, Accepted, EventPath, ReportPath, EventOutputPath, ReportOutputPath, p, q, Given
    <2>2. SameLinks(before, disk)
      <3>1. Places(config) \ {1, 2} \subseteq {3, 4}
        BY <1>1, ReservedFacts DEF Cleared, Places
      <3>2. ASSUME NEW l, Kind(before, l) = "link", Kind(disk, l) # "link" PROVE FALSE
        <4>1. PICK i \in Places(config) \ {1, 2} : l = Entry(before, Reserved(config)[i])
          BY <1>1, <3>2 DEF LinksKept
        <4>2. l = u
          BY <1>2, <1>4, <3>1, <4>1 DEF p, q
        <4> QED
          BY <1>7, <3>2, <4>2
      <3> QED
        BY <1>1, <3>2 DEF SameLinks, LinksKept
    <2>3. Located(disk, p) = u /\ Located(disk, q) = u
      BY <1>1, <1>2, <1>5, <1>7, <2>2, SameLinksLead, TreeLinks, DiskLinks
    <2>4. SameFile(disk, p, q)
      BY <1>4, <2>3 DEF SameFile, Exists
    <2>5. NamesSameFile
      BY <1>2, <2>1, <2>4 DEF NamesSameFile, SameFilesystemPath, FilesystemPath, p, q
    <2> QED
      BY <2>5
  <1>10. CASE before.folds /\ ~Given(config.eventOutput)
    <2> DEFINE o == config.outputDir
               rel == event.rel
    <2>1. Given(config.outputDir) /\ ~Given(config.reportOutput) /\ o \in Seq(Name)
      BY <1>1, <1>10, ChoiceFacts DEF Cleared, Accepted, Given
    <2>2. rel \in Seq(Name) /\ rel # <<>>
      BY <1>1, PossiblePaths DEF Cleared
    <2>3. /\ p = o \o <<"events">> \o rel
          /\ q = o \o <<"reports">> \o Front(rel) \o <<ReportName[Last(rel)]>>
      BY <1>10, <2>1 DEF p, q, EventPath, ReportPath, EventOutputPath, ReportOutputPath
    <2>4. "events" \in ActiveNamespaces(config) /\ "reports" \in ActiveNamespaces(config)
      BY DEF ActiveNamespaces, GeneratesReport
    <2>5. \A name \in {"events", "reports"} : name \in Name /\ NoLinksBelow(before, Namespace(before, o, name))
      BY <1>1, <2>1, <2>4, NoLinksThere
    <2> HIDE DEF o, rel
    <2>6. Pre(Append(o, "events"), p) /\ Pre(Append(o, "reports"), q)
      BY <2>1, <2>2, <2>3, BelowFacts
    <2>7. /\ Pre(Namespace(before, o, "events"), Located(before, p))
          /\ Pre(Namespace(before, o, "reports"), Located(before, q))
      BY <1>1, <1>2, <2>1, <2>5, <2>6, StaysBelow
    <2> DEFINE O == Located(before, o)
               P == Located(before, p)
               Q == Located(before, q)
    <2>8. O \in Seq(Name) /\ P \in Seq(Name) /\ Q \in Seq(Name) /\ P = Q
      BY <1>1, <1>2, <1>5, <2>1, TreeLinks, LocatedFacts
    <2>9. Pre(Append(O, Fold["events"]), P) /\ Pre(Append(O, Fold["reports"]), Q)
      BY <1>10, <2>7 DEF Namespace, One
    <2>10. Fold["events"] \in Name /\ Fold["reports"] \in Name /\ Fold["events"] # Fold["reports"]
      BY LayoutAssumption
    <2> HIDE DEF O, P, Q
    <2> QED
      BY <2>8, <2>9, <2>10, NamespacesApart
  <1> QED
    BY <1>8, <1>9, <1>10

-----------------------------------------------------------------------------
(* The third layer: what was written is still there.                       *)

Guarded == Single(config) \/ ~config.overwrite \/ (~Clash /\ ~Unseen)

OwesEvent(rel) == rel \in visited /\ config.mutates /\ (rel = event.rel => event.eventWritten)

OwesReport(rel) == rel \in visited /\ (rel = event.rel => event.reportWritten)

(* Between events nothing is in hand.                                      *)
Settled ==
    /\ phase \in Early => visited = {}
    /\ phase = "next" /\ visited # {} =>
         event.reportWritten /\ (config.mutates => event.eventWritten)

(* Where the path led is what was written to it.                           *)
There(fs, out, p, file) ==
    IF p = Stdio THEN file \in out
    ELSE Entry(before, p) \in DOMAIN fs.at /\ fs.at[Entry(before, p)] = file

(* What a path holds is lost only to a replacement at its place.           *)
LEMMA HoldingStays ==
    ASSUME WellFormed(disk), NEW p, NEW file, Write(p, file), NEW q, NEW f, Holding(q, f),
           config.overwrite /\ p # Stdio /\ q # Stdio => Entry(disk, p) # Entry(before, q)
    PROVE  There(disk', printed', q, f)
  <1>1. CASE q = Stdio
    BY <1>1 DEF Holding, Write, There
  <1>2. CASE q # Stdio /\ p = Stdio
    BY <1>2 DEF Holding, Write, There
  <1>3. CASE q # Stdio /\ p # Stdio
    <2> DEFINE e == Entry(disk, p)
               x == Entry(before, q)
    <2>1. /\ DOMAIN disk'.at = DOMAIN disk.at \cup Parents(disk, p) \cup {e}
          /\ \A l \in DOMAIN disk'.at \ {e} : disk'.at[l] = IF l \in DOMAIN disk.at THEN disk.at[l] ELSE Dir
          /\ config.overwrite \/ Kind(disk, e) = "none"
      BY <1>3, WriteAt
    <2>2. x \in DOMAIN disk.at /\ disk.at[x] = f
      BY <1>3 DEF Holding
    <2>3. x # e
      <3>1. CASE config.overwrite
        BY <1>3, <3>1
      <3>2. CASE ~config.overwrite
        BY <2>1, <2>2, <3>2 DEF Kind, WellFormed
      <3> QED
        BY <3>1, <3>2
    <2> HIDE DEF e, x
    <2>4. x \in DOMAIN disk'.at /\ disk'.at[x] = f
      BY <2>1, <2>2, <2>3
    <2> QED
      BY <1>3, <2>4 DEF There, x
  <1> QED
    BY <1>1, <1>2, <1>3

(* What is written is there.                                               *)
LEMMA HoldingWritten ==
    ASSUME WellFormed(disk), NEW p, NEW file, Write(p, file),
           p # Stdio => Entry(disk, p) = Entry(before, p)
    PROVE  There(disk', printed', p, file)
  <1>1. CASE p = Stdio
    BY <1>1 DEF Write, There
  <1>2. CASE p # Stdio
    <2> DEFINE e == Entry(disk, p)
    <2>1. e \in DOMAIN disk'.at /\ disk'.at[e] = file
      BY <1>2, WriteAt
    <2> HIDE DEF e
    <2>2. e = Entry(before, p)
      BY <1>2 DEF e
    <2> QED
      BY <1>2, <2>1, <2>2 DEF There
  <1> QED
    BY <1>1, <1>2

(* A write that fails loses nothing.                                       *)
LEMMA HoldingFails ==
    ASSUME WellFormed(disk), NEW p, WriteFails(p), NEW q, NEW f, Holding(q, f)
    PROVE  There(disk', printed', q, f)
  <1>1. UNCHANGED printed
    BY DEF WriteFails
  <1>2. /\ DOMAIN disk.at \subseteq DOMAIN disk'.at
        /\ \A l \in DOMAIN disk'.at : disk'.at[l] = IF l \in DOMAIN disk.at THEN disk.at[l] ELSE Dir
    BY FailsAt
  <1> DEFINE x == Entry(before, q)
  <1>3. q # Stdio => x \in DOMAIN disk.at /\ disk.at[x] = f
    BY DEF Holding
  <1>4. q = Stdio => f \in printed
    BY DEF Holding
  <1> HIDE DEF x
  <1>5. q # Stdio => x \in DOMAIN disk'.at /\ disk'.at[x] = f
    BY <1>2, <1>3
  <1> QED
    BY <1>1, <1>4, <1>5 DEF There, x

(* What is to be shown of a step.                                          *)
LEMMA ThereAfter ==
    ASSUME UNCHANGED <<config, before>>,
           \A rel \in visited' :
             config.mutates /\ (rel = event'.rel => event'.eventWritten) =>
               There(disk', printed', EventOutputPath(config, rel), EventFile(rel)),
           \A rel \in visited' :
             (rel = event'.rel => event'.reportWritten) =>
               There(disk', printed', ReportOutputPath(config, rel), ReportFile(rel)),
           \A i \in 1 .. writing' :
             There(disk', printed', SummaryDestinations(config)[i],
                   Rendered(SummaryDestinations(config)[i], summary'))
    PROVE  OutputsThere'
  BY DEF OutputsThere, Holding, There, Rendered

(* An output of an event is written where its path led.                    *)
LEMMA OutputEntry ==
    ASSUME IInv, Layer, NEW p, p # Stdio,
           \/ phase = "event" /\ config.mutates /\ p = EventPath
           \/ phase = "report" /\ p = ReportPath
    PROVE  Entry(disk, p) = Entry(before, p)
  <1>1. /\ Sane /\ Cleared /\ LinksKept /\ FileSystem(before)
        /\ event.rel \in Possible /\ writing = 0
    BY LayerFacts DEF Layer, Checked, Past, Cleared, Sane, Progress
  <1>2. CASE Single(config)
    <2>1. PICK j \in {3, 4} : p = Reserved(config)[j] /\ Pending(j) /\ p # None
      <3>1. CASE phase = "event"
        <4>1. p = Reserved(config)[3] /\ p # None
          BY <1>1, <1>2, <3>1, OutputPaths DEF EventPath, Cleared
        <4>2. Pending(3)
          BY <1>2, <3>1 DEF Pending, IInv, InHand
        <4> QED
          BY <4>1, <4>2
      <3>2. CASE phase = "report"
        <4>1. p = Reserved(config)[4] /\ p # None
          BY <1>1, <1>2, <3>2, OutputPaths DEF ReportPath, Cleared
        <4>2. Pending(4)
          BY <1>2, <3>2 DEF Pending, IInv, InHand
        <4> QED
          BY <4>1, <4>2
      <3> QED
        BY <3>1, <3>2
    <2>2. j \in Places(config) \ {1, 2}
      BY <1>1, <2>1, ReservedFacts DEF Places, Cleared
    <2> QED
      BY <1>1, <2>1, <2>2, SameWay
  <1>3. CASE ~Single(config)
    <2>1. p \in Seq(Name)
      BY <1>1, <1>3, OutputPaths DEF EventPath, ReportPath, Cleared
    <2>2. SameLinks(before, disk) /\ LinksSound(before) /\ LinksSound(disk)
      BY <1>1, <1>3, NoneLost, TreeLinks, DiskLinks
    <2> QED
      BY <2>1, <2>2, SameLinksLead
  <1> QED
    BY <1>2, <1>3

(* Where the preflight saw the names, or they do not clash, the outputs of *)
(* a directory run lead to places of their own.                            *)
LEMMA PlacesApart ==
    ASSUME Sane, Cleared, Guarded, config.overwrite, ~Single(config),
           NEW p \in Planned \ {Stdio}, NEW q \in Planned \ {Stdio}, p # q
    PROVE  Entry(before, p) # Entry(before, q)
  BY DEF Guarded, Clash

(* The outputs of two events, and the two of one event.                    *)
LEMMA EventsApart ==
    ASSUME Sane, Cleared, Guarded, config.overwrite, ~Single(config),
           NEW rel \in Rels(config, before), NEW other \in Rels(config, before)
    PROVE  /\ rel # other =>
                /\ Entry(before, EventOutputPath(config, rel)) # Entry(before, EventOutputPath(config, other))
                /\ Entry(before, ReportOutputPath(config, rel)) # Entry(before, ReportOutputPath(config, other))
           /\ Entry(before, EventOutputPath(config, rel)) # Entry(before, ReportOutputPath(config, other))
  <1>1. \A r \in Rels(config, before) :
          EventOutputPath(config, r) # Stdio /\ ReportOutputPath(config, r) # Stdio
    BY RelPossible, OutputPaths DEF Cleared
  <1>2. \A r \in Rels(config, before) :
          /\ EventOutputPath(config, r) \in Planned \ {Stdio}
          /\ ReportOutputPath(config, r) \in Planned \ {Stdio}
    BY <1>1 DEF Planned
  <1>3. /\ EventOutputPath(config, rel) = EventOutputPath(config, other) => rel = other
        /\ ReportOutputPath(config, rel) = ReportOutputPath(config, other) => rel = other
        /\ EventOutputPath(config, rel) # ReportOutputPath(config, other)
    BY NamedApart DEF Cleared
  <1> QED
    BY <1>2, <1>3, PlacesApart

(* A summary leads to none of these places, nor to the other summary's.    *)
LEMMA SummaryPlaces ==
    ASSUME Sane, Cleared, Guarded, config.overwrite, ~Single(config),
           NEW i \in 1 .. Len(SummaryDestinations(config)), SummaryDestinations(config)[i] # Stdio
    PROVE  LET e == Entry(before, SummaryDestinations(config)[i])
           IN /\ \A rel \in Rels(config, before) :
                   /\ config.mutates => e # Entry(before, EventOutputPath(config, rel))
                   /\ e # Entry(before, ReportOutputPath(config, rel))
              /\ \A k \in 1 .. Len(SummaryDestinations(config)) :
                   k # i /\ SummaryDestinations(config)[k] # Stdio =>
                     e # Entry(before, SummaryDestinations(config)[k])
  <1> DEFINE ds == SummaryDestinations(config)
  <1>1. \A k \in 1 .. Len(ds) : ds[k] # Stdio => ds[k] \in Planned \ {Stdio}
    <2>1. \A k \in 1 .. Len(ds) : k \in DOMAIN ds
      BY DEF SummaryDestinations
    <2>2. \A k \in 1 .. Len(ds) : ds[k] \in Range(ds)
      BY <2>1 DEF Range
    <2> QED
      BY <2>2 DEF Planned
  <1>2. ASSUME NEW rel \in Rels(config, before)
        PROVE  /\ config.mutates => Entry(before, ds[i]) # Entry(before, EventOutputPath(config, rel))
               /\ Entry(before, ds[i]) # Entry(before, ReportOutputPath(config, rel))
    <2>1. EventOutputPath(config, rel) # Stdio /\ ReportOutputPath(config, rel) # Stdio
      BY RelPossible, OutputPaths DEF Cleared
    <2>2. /\ EventOutputPath(config, rel) \in Planned \ {Stdio}
          /\ ReportOutputPath(config, rel) \in Planned \ {Stdio}
      BY <2>1 DEF Planned
    <2>3. /\ config.mutates => ds[i] # EventOutputPath(config, rel)
          /\ ds[i] # ReportOutputPath(config, rel)
      BY SummariesApart
    <2> QED
      BY <1>1, <2>2, <2>3, PlacesApart
  <1>3. ASSUME NEW k \in 1 .. Len(ds), k # i, ds[k] # Stdio
        PROVE  Entry(before, ds[i]) # Entry(before, ds[k])
    <2>1. ds[k] # ds[i]
      BY <1>3, SummaryOrder
    <2> QED
      BY <1>1, <1>3, <2>1, PlacesApart
  <1> QED
    BY <1>2, <1>3

-----------------------------------------------------------------------------
(* Every step keeps what was written.                                      *)

(* Steps that write nothing, or fail to.                                   *)
LEMMA KeptStays ==
    ASSUME IInv, OutputsThere, UNCHANGED <<config, before, visited, writing>>,
           event'.rel = event.rel, event'.eventWritten = event.eventWritten,
           event'.reportWritten = event.reportWritten,
           writing = 0 \/ UNCHANGED summary,
           NEW p, WriteFails(p) \/ UNCHANGED <<disk, printed>>
    PROVE  OutputsThere'
  <1>1. ASSUME NEW q, NEW f, Holding(q, f) PROVE There(disk', printed', q, f)
    <2>1. CASE WriteFails(p)
      BY <1>1, <2>1, HoldingFails DEF IInv, DiskSound
    <2>2. CASE UNCHANGED <<disk, printed>>
      BY <1>1, <2>2 DEF Holding, There
    <2> QED
      BY <2>1, <2>2
  <1>2. \A rel \in visited' : config.mutates /\ (rel = event'.rel => event'.eventWritten) =>
          There(disk', printed', EventOutputPath(config, rel), EventFile(rel))
    BY <1>1 DEF OutputsThere
  <1>3. \A rel \in visited' : (rel = event'.rel => event'.reportWritten) =>
          There(disk', printed', ReportOutputPath(config, rel), ReportFile(rel))
    BY <1>1 DEF OutputsThere
  <1>4. ASSUME NEW i \in 1 .. writing'
        PROVE  There(disk', printed', SummaryDestinations(config)[i],
                     Rendered(SummaryDestinations(config)[i], summary'))
    <2>1. i \in 1 .. writing /\ UNCHANGED summary
      BY <1>4 DEF IInv, Types
    <2>2. Holding(SummaryDestinations(config)[i], Rendered(SummaryDestinations(config)[i], summary))
      BY <2>1 DEF OutputsThere
    <2> QED
      BY <1>1, <2>1, <2>2
  <1> QED
    BY <1>2, <1>3, <1>4, ThereAfter

(* Of the event that is taken nothing is reported yet.                     *)
LEMMA TakeKept == ASSUME IInv, Layer, Settled, OutputsThere, Take PROVE OutputsThere'
  <1>1. /\ UNCHANGED <<config, before, disk, printed, writing, summary>> /\ phase = "next" /\ writing = 0
        /\ ~event'.eventWritten /\ ~event'.reportWritten
        /\ visited' = visited \cup {event'.rel}
    BY LayerFacts DEF Take, NoEvent
  <1>2. ASSUME NEW rel \in visited', rel # event'.rel
        PROVE  /\ config.mutates => Holding(EventOutputPath(config, rel), EventFile(rel))
               /\ Holding(ReportOutputPath(config, rel), ReportFile(rel))
    <2>1. rel \in visited /\ visited # {}
      BY <1>1, <1>2
    <2>2. event.reportWritten /\ (config.mutates => event.eventWritten)
      BY <1>1, <2>1 DEF Settled
    <2> QED
      BY <2>1, <2>2 DEF OutputsThere
  <1>3. \A q, f : Holding(q, f) => There(disk', printed', q, f)
    BY <1>1 DEF Holding, There
  <1> QED
    BY <1>1, <1>2, <1>3, ThereAfter

(* An event is written over no other output.                               *)
LEMMA WriteEventKept == ASSUME IInv, Layer, Guarded, OutputsThere, WriteEvent PROVE OutputsThere'
  <1> DEFINE p == EventPath
  <1>0. config.overwrite /\ ~Single(config) => visited \subseteq Rels(config, before)
    BY DEF Guarded, Layer, Progress
  <1>1. /\ Sane /\ Cleared /\ event.rel \in visited /\ visited \subseteq Possible
        /\ writing = 0 /\ WellFormed(disk) /\ phase = "event" /\ config.mutates /\ ~event.reportWritten
    BY LayerFacts DEF Layer, Checked, Past, Cleared, Progress, IInv, InHand, DiskSound, WriteEvent
  <1>2. /\ UNCHANGED <<config, before, visited, writing, summary>> /\ Write(p, EventFile(event.rel))
        /\ event'.rel = event.rel /\ ~event'.reportWritten
    BY <1>1 DEF WriteEvent, IInv, Types
  <1>3. p # Stdio => Entry(disk, p) = Entry(before, p)
    BY <1>1, OutputEntry
  <1> HIDE DEF p
  <1>4. There(disk', printed', p, EventFile(event.rel))
    BY <1>1, <1>2, <1>3, HoldingWritten
  <1>5. ASSUME NEW rel \in visited, rel # event.rel
        PROVE  /\ There(disk', printed', EventOutputPath(config, rel), EventFile(rel))
               /\ There(disk', printed', ReportOutputPath(config, rel), ReportFile(rel))
    <2> DEFINE q == EventOutputPath(config, rel)
               r == ReportOutputPath(config, rel)
    <2>1. ~Single(config)
      BY <1>1, <1>5 DEF Possible
    <2>2. Holding(q, EventFile(rel)) /\ Holding(r, ReportFile(rel))
      BY <1>1, <1>5 DEF OutputsThere
    <2>3. config.overwrite => Entry(before, p) # Entry(before, q) /\ Entry(before, p) # Entry(before, r)
      BY <1>0, <1>1, <1>5, <2>1, EventsApart DEF p, EventPath
    <2> HIDE DEF q, r
    <2> QED
      BY <1>1, <1>2, <1>3, <2>2, <2>3, HoldingStays DEF q, r
  <1>6. p = EventOutputPath(config, event.rel)
    BY DEF p, EventPath
  <1>7. \A i \in 1 .. writing' : FALSE
    BY <1>1, <1>2
  <1> QED
    BY <1>2, <1>4, <1>5, <1>6, <1>7, ThereAfter

(* Nor is a report, not even over its own event.                           *)
LEMMA WriteReportKept == ASSUME IInv, Layer, Guarded, OutputsThere, WriteReport PROVE OutputsThere'
  <1> DEFINE p == ReportPath
  <1>0. config.overwrite /\ ~Single(config) => visited \subseteq Rels(config, before)
    BY DEF Guarded, Layer, Progress
  <1>1. /\ Sane /\ Cleared /\ event.rel \in visited /\ visited \subseteq Possible
        /\ writing = 0 /\ WellFormed(disk) /\ phase = "report" /\ ~NamesSameFile
        /\ (event.eventWritten <=> config.mutates)
    BY LayerFacts DEF Layer, Checked, Past, Cleared, Progress, IInv, InHand, DiskSound, WriteReport
  <1>2. /\ UNCHANGED <<config, before, visited, writing>> /\ Write(p, ReportFile(event.rel))
        /\ event'.rel = event.rel /\ event'.eventWritten = event.eventWritten
    BY <1>1 DEF WriteReport, IInv, Types
  <1>3. p # Stdio => Entry(disk, p) = Entry(before, p)
    BY <1>1, OutputEntry
  <1>4. ASSUME config.mutates, event.rel \in visited
        PROVE  There(disk', printed', EventPath, EventFile(event.rel))
    <2>1. Holding(EventPath, EventFile(event.rel))
      BY <1>1, <1>4 DEF OutputsThere, EventPath
    <2>2. config.overwrite /\ p # Stdio /\ EventPath # Stdio => Entry(disk, p) # Entry(before, EventPath)
      <3> SUFFICES ASSUME config.overwrite, p # Stdio, EventPath # Stdio
                   PROVE  Entry(before, EventPath) # Entry(before, p)
        BY <1>3
      <3>1. CASE Single(config)
        <4>1. Entry(before, EventPath) \in DOMAIN disk.at
          BY <2>1 DEF Holding
        <4> QED
          BY <1>1, <1>4, <3>1, <4>1, SingleApart
      <3>2. CASE ~Single(config)
        BY <1>0, <1>1, <3>2, EventsApart DEF EventPath, ReportPath
      <3> QED
        BY <3>1, <3>2
    <2> HIDE DEF p
    <2> QED
      BY <1>1, <1>2, <2>1, <2>2, HoldingStays
  <1> HIDE DEF p
  <1>5. There(disk', printed', p, ReportFile(event.rel))
    BY <1>1, <1>2, <1>3, HoldingWritten
  <1>6. ASSUME NEW rel \in visited, rel # event.rel
        PROVE  /\ config.mutates => There(disk', printed', EventOutputPath(config, rel), EventFile(rel))
               /\ There(disk', printed', ReportOutputPath(config, rel), ReportFile(rel))
    <2> DEFINE q == EventOutputPath(config, rel)
               r == ReportOutputPath(config, rel)
    <2>1. ~Single(config)
      BY <1>1, <1>6 DEF Possible
    <2>2. (config.mutates => Holding(q, EventFile(rel))) /\ Holding(r, ReportFile(rel))
      BY <1>6 DEF OutputsThere
    <2>3. config.overwrite => Entry(before, p) # Entry(before, q) /\ Entry(before, p) # Entry(before, r)
      BY <1>0, <1>1, <1>6, <2>1, EventsApart DEF p, ReportPath
    <2> HIDE DEF q, r
    <2> QED
      BY <1>1, <1>2, <1>3, <2>2, <2>3, HoldingStays DEF q, r
  <1>7. p = ReportOutputPath(config, event.rel) /\ EventPath = EventOutputPath(config, event.rel)
    BY DEF p, ReportPath, EventPath
  <1>8. \A i \in 1 .. writing' : FALSE
    BY <1>1, <1>2
  <1> QED
    BY <1>2, <1>4, <1>5, <1>6, <1>7, <1>8, ThereAfter

(* Nor a summary.                                                          *)
LEMMA WriteSummaryKept == ASSUME IInv, Layer, Guarded, OutputsThere, WriteSummary PROVE OutputsThere'
  <1> DEFINE ds == SummaryDestinations(config)
             k == writing + 1
             p == ds[k]
  <1>1. /\ Sane /\ Cleared /\ LinksKept /\ WellFormed(disk)
        /\ writing \in Nat /\ Len(ds) \in Nat
    BY SummaryOrder DEF Layer, Checked, Past, Cleared, Progress, IInv, Types, DiskSound, WriteSummary
  <1>2. /\ UNCHANGED <<config, before, visited, event, summary>> /\ writing' = k
        /\ Write(p, Rendered(p, summary)) /\ k \in 1 .. Len(ds)
    BY <1>1 DEF WriteSummary, NextSummary
  <1>3. ~Single(config) /\ (config.overwrite => visited \subseteq Rels(config, before))
    BY <1>1, <1>2, SummaryOrder DEF Guarded, Layer, Progress
  <1>4. p # Stdio => Entry(disk, p) = Entry(before, p)
    <2> SUFFICES ASSUME p # Stdio PROVE Entry(disk, p) = Entry(before, p)
      OBVIOUS
    <2>1. PICK j \in Places(config) \cap {5, 6} : p = Reserved(config)[j]
      BY <1>1, <1>2, SummaryOrder
    <2>2. j \in Places(config) \ {1, 2}
      BY <2>1
    <2>3. Pending(j)
      BY <1>1, <1>2, <1>3, <2>1 DEF Pending
    <2> QED
      BY <1>1, <2>1, <2>2, <2>3, SameWay
  <1>5. There(disk', printed', p, Rendered(p, summary))
    BY <1>1, <1>2, <1>4, HoldingWritten
  <1>6. ASSUME config.overwrite, p # Stdio
        PROVE  /\ \A rel \in Rels(config, before) :
                    /\ config.mutates => Entry(before, p) # Entry(before, EventOutputPath(config, rel))
                    /\ Entry(before, p) # Entry(before, ReportOutputPath(config, rel))
               /\ \A i \in 1 .. Len(ds) : i # k /\ ds[i] # Stdio => Entry(before, p) # Entry(before, ds[i])
    BY <1>1, <1>2, <1>3, <1>6, SummaryPlaces
  <1> HIDE DEF p
  <1>7. ASSUME NEW rel \in visited, config.mutates, rel = event.rel => event.eventWritten
        PROVE  There(disk', printed', EventOutputPath(config, rel), EventFile(rel))
    <2> DEFINE q == EventOutputPath(config, rel)
    <2>1. Holding(q, EventFile(rel))
      BY <1>7 DEF OutputsThere
    <2>2. config.overwrite /\ p # Stdio => Entry(before, p) # Entry(before, q)
      BY <1>3, <1>6, <1>7
    <2> HIDE DEF q
    <2> QED
      BY <1>1, <1>2, <1>4, <2>1, <2>2, HoldingStays DEF q
  <1>8. ASSUME NEW rel \in visited, rel = event.rel => event.reportWritten
        PROVE  There(disk', printed', ReportOutputPath(config, rel), ReportFile(rel))
    <2> DEFINE q == ReportOutputPath(config, rel)
    <2>1. Holding(q, ReportFile(rel))
      BY <1>8 DEF OutputsThere
    <2>2. config.overwrite /\ p # Stdio => Entry(before, p) # Entry(before, q)
      BY <1>3, <1>6, <1>8
    <2> HIDE DEF q
    <2> QED
      BY <1>1, <1>2, <1>4, <2>1, <2>2, HoldingStays DEF q
  <1>9. ASSUME NEW i \in 1 .. k
        PROVE  There(disk', printed', ds[i], Rendered(ds[i], summary))
    <2>1. CASE i = k
      BY <1>5, <2>1 DEF p
    <2>2. CASE i # k
      <3> DEFINE q == ds[i]
      <3>1. i \in 1 .. writing /\ i \in 1 .. Len(ds)
        BY <1>1, <1>2, <1>9, <2>2
      <3>2. Holding(q, Rendered(q, summary))
        BY <3>1 DEF OutputsThere
      <3>3. config.overwrite /\ p # Stdio /\ q # Stdio => Entry(before, p) # Entry(before, q)
        BY <1>6, <2>2, <3>1
      <3> HIDE DEF q
      <3> QED
        BY <1>1, <1>2, <1>4, <3>2, <3>3, HoldingStays DEF q
    <2> QED
      BY <2>1, <2>2
  <1> QED
    BY <1>2, <1>7, <1>8, <1>9, ThereAfter

(* At the start nothing has been written.                                  *)
LEMMA KeptInit == Init => Settled /\ OutputsThere
  BY DEF Init, Settled, OutputsThere

(* Nothing is in hand between events.                                      *)
LEMMA SettledNext == IInv /\ Layer /\ Settled /\ [Next]_vars => Settled'
  <1> SUFFICES ASSUME IInv, Layer, Settled, [Next]_vars PROVE Settled'
    OBVIOUS
  <1> USE DEF Settled, Early
  <1>1. CASE Options \/ CheckDestinations \/ NewPipeline
    BY <1>1 DEF Options, CheckDestinations, NewPipeline, Go, Exit
  <1>2. CASE Take \/ WalkFails \/ NoMore \/ ReadFails \/ Process
    BY <1>2 DEF Take, WalkFails, NoMore, ReadFails, Process, Go, Exit
  <1>3. CASE WriteEvent \/ SkipEvent \/ EventWriteFails
    BY <1>3 DEF WriteEvent, SkipEvent, EventWriteFails, Go, Exit
  <1>4. CASE WriteReport
    BY <1>4 DEF WriteReport, Go, IInv, Types, InHand
  <1>5. CASE ReportWriteFails \/ WriteSummary \/ SummaryFails \/ Finish
    BY <1>5 DEF ReportWriteFails, WriteSummary, SummaryFails, Finish, Exit
  <1>6. CASE UNCHANGED vars
    BY <1>6 DEF vars
  <1> QED
    BY <1>1, <1>2, <1>3, <1>4, <1>5, <1>6 DEF Next

(* So every step keeps what was written.                                   *)
LEMMA KeptNext == IInv /\ Layer /\ Settled /\ Guarded /\ OutputsThere /\ [Next]_vars => OutputsThere'
  <1> SUFFICES ASSUME IInv, Layer, Settled, Guarded, OutputsThere, [Next]_vars PROVE OutputsThere'
    OBVIOUS
  <1>1. CASE Options \/ CheckDestinations \/ NewPipeline \/ WalkFails \/ NoMore \/ SkipEvent \/ Finish
    BY <1>1, KeptStays DEF Options, CheckDestinations, NewPipeline, WalkFails, NoMore, SkipEvent, Finish
  <1>2. CASE UNCHANGED vars
    BY <1>2, KeptStays DEF vars
  <1>3. CASE Take
    BY <1>3, TakeKept
  <1>4. CASE ReadFails
    <2>1. writing = 0
      BY <1>4, LayerFacts DEF ReadFails
    <2> QED
      BY <1>4, <2>1, KeptStays DEF ReadFails
  <1>5. CASE Process
    <2>1. writing = 0
      BY <1>5, LayerFacts DEF Process
    <2>2. event'.rel = event.rel /\ event'.eventWritten = event.eventWritten
          /\ event'.reportWritten = event.reportWritten
      BY <1>5 DEF Process, IInv, Types
    <2> QED
      BY <1>5, <2>1, <2>2, KeptStays DEF Process
  <1>6. CASE WriteEvent
    BY <1>6, WriteEventKept
  <1>7. CASE EventWriteFails
    <2>1. writing = 0
      BY <1>7, LayerFacts DEF EventWriteFails
    <2> QED
      BY <1>7, <2>1, KeptStays DEF EventWriteFails
  <1>8. CASE WriteReport
    BY <1>8, WriteReportKept
  <1>9. CASE ReportWriteFails
    <2>1. writing = 0
      BY <1>9, LayerFacts DEF ReportWriteFails
    <2> QED
      BY <1>9, <2>1, KeptStays DEF ReportWriteFails
  <1>10. CASE WriteSummary
    BY <1>10, WriteSummaryKept
  <1>11. CASE SummaryFails
    BY <1>11, KeptStays DEF SummaryFails
  <1> QED
    BY <1>1, <1>2, <1>3, <1>4, <1>5, <1>6, <1>7, <1>8, <1>9, <1>10, <1>11 DEF Next

-----------------------------------------------------------------------------
(* The first two layers together.                                          *)
THEOREM Layered == Spec => [](IInv /\ Layer)
  <1> QED
    BY InitHolds, LayerInit, NextHolds, LayerNext, PTL DEF Spec

(* What was there is kept: it is replaced only with --overwrite and only   *)
(* where an output was selected, and input events and the schema not even  *)
(* then, through whatever links or whatever spellings; only where both     *)
(* combine on a file system that folds cases is this not claimed           *)
(* (layout.go's preflight, output.go behind every write).                  *)
THEOREM PriorIsKept == Spec => []PriorKept
  <1>1. Layer => PriorKept
    BY DEF Layer
  <1> QED
    BY <1>1, Layered, PTL

(* The counters agree, and a summary exists only of a run that processed   *)
(* and wrote every event (processEvents, updateSummary, writeSummaries).   *)
THEOREM SummaryIsTrue == Spec => []SummaryTrue
  <1>1. IInv /\ Layer => SummaryTrue
    BY DEF IInv, Layer, Progress, SummaryTrue
  <1> QED
    BY <1>1, Layered, PTL

(* Exit code 0 promises every output and, with --fail-on-errors, no        *)
(* validation error; exit code 2 that nothing was touched                  *)
(* (runProcessCommand).                                                    *)
THEOREM ExitIsTruthful == Spec => []ExitTruthful
  <1>1. IInv /\ Layer => ExitTruthful
    <2> SUFFICES ASSUME IInv, Layer PROVE ExitTruthful
      OBVIOUS
    <2>1. UsageUntouched
      BY DEF IInv, Untouched, UsageUntouched
    <2> SUFFICES ASSUME exit = 0
                 PROVE  /\ AllTaken /\ Accepted(config) /\ Preflight(config, before)
                        /\ summary["reportsWritten"] = Cardinality(visited)
                        /\ writing = Len(SummaryDestinations(config))
                        /\ config.failOnErrors => Cardinality(visited) = summary["warnings"] + summary["neither"]
      BY <2>1 DEF ExitTruthful
    <2>2. /\ AllTaken /\ writing = Len(SummaryDestinations(config))
          /\ summary["processed"] = Cardinality(visited)
          /\ summary["reportsWritten"] = Cardinality(visited)
          /\ config.failOnErrors => summary["errors"] + summary["both"] = 0
      BY DEF Layer, Progress
    <2>3. Accepted(config) /\ Preflight(config, before)
      BY DEF Layer, Checked, Past
    <2>4. /\ summary["both"] \in Nat /\ summary["errors"] \in Nat /\ summary["warnings"] \in Nat
          /\ summary["neither"] \in Nat
          /\ summary["both"] + summary["errors"] + summary["warnings"] + summary["neither"]
             = summary["processed"]
      BY DEF IInv, Types, Counter, CountersAgree
    <2>5. config.failOnErrors => Cardinality(visited) = summary["warnings"] + summary["neither"]
      BY <2>2, <2>4
    <2> QED
      BY <2>2, <2>3, <2>5
  <1> QED
    BY <1>1, Layered, PTL

(* A written event is never lost to its report nor any output to another:  *)
(* not for one event, whatever the aliases, and not in a directory, unless *)
(* --overwrite meets a clash or an overlap that the preflight could not    *)
(* see (resolveDistinctDestination, namesSameFile).                        *)
THEOREM OutputsAreKept == Spec => []OutputsKept
  <1> DEFINE Kept == IInv /\ Layer /\ Settled /\ OutputsKept
  <1>1. OutputsKept <=> (Guarded => OutputsThere)
    BY DEF OutputsKept, Guarded
  <1>2. Init => Kept
    BY <1>1, InitHolds, LayerInit, KeptInit
  <1>3. Kept /\ [Next]_vars => Kept'
    <2> SUFFICES ASSUME Kept, [Next]_vars PROVE Kept'
      OBVIOUS
    <2>1. UNCHANGED <<config, before>>
      BY DEF Next, vars, Options, CheckDestinations, NewPipeline, Take, WalkFails, NoMore, ReadFails,
             Process, WriteEvent, SkipEvent, EventWriteFails, WriteReport, ReportWriteFails,
             WriteSummary, SummaryFails, Finish
    <2>2. Guarded' => Guarded
      BY <2>1, UnseenStays DEF Guarded, Clash, Planned
    <2>3. Guarded' => OutputsThere'
      BY <1>1, <2>2, KeptNext
    <2>4. OutputsKept'
      BY <2>3 DEF OutputsKept, Guarded
    <2> QED
      BY <2>4, NextHolds, LayerNext, SettledNext
  <1>4. Kept => OutputsKept
    OBVIOUS
  <1> HIDE DEF Kept
  <1> QED
    BY <1>2, <1>3, <1>4, PTL DEF Spec
=============================================================================
