-------------------------- MODULE CacheLookupProofs --------------------------
(* What the lookups of the cache find, and what they do not find when they *)
(* find nothing; and what an insertion keeps.                              *)
EXTENDS CacheLookup, DataLemmas

(* The first tier finds an entry for the same question, or there is none.  *)
LEMMA ExactFinds ==
  ASSUME NEW S, NEW es \in Seq(S), NEW q
  PROVE  /\ ExactIndex(es, q) # 0 =>
               /\ ExactIndex(es, q) \in DOMAIN es
               /\ Norm[es[ExactIndex(es, q)].query] = Norm[q]
         /\ ExactIndex(es, q) = 0 =>
               \A i \in DOMAIN es : Norm[es[i].query] # Norm[q]
<1> DEFINE I == {i \in 1 .. Len(es) : Norm[es[i].query] = Norm[q]}
<1>0. Len(es) \in Nat /\ DOMAIN es = 1 .. Len(es)
  BY LenProperties
<1>1. ExactIndex(es, q) = IF I # {} THEN Min(I) ELSE 0
  BY DEF ExactIndex, SelectInSeq
<1>2. I \subseteq Nat /\ 0 \notin I
  BY <1>0
<1>3. CASE I # {}
  <2>1. Min(I) \in I
    <3> HIDE DEF I
    <3> QED BY <1>2, <1>3, MinOfNaturals
  <2> QED BY <1>0, <1>1, <1>2, <1>3, <2>1
<1>4. CASE I = {}
  BY <1>0, <1>1, <1>4
<1> QED BY <1>3, <1>4

(* The second tier finds an entry that reaches the threshold, or there is  *)
(* none: looking only for the most similar entry misses nothing.           *)
LEMMA SimilarFinds ==
  ASSUME NEW S, NEW es \in Seq(S), NEW e \in Embeddings,
         \A i \in DOMAIN es : es[i].embedding \in Embeddings
  PROVE  /\ SimilarIndex(es, e) # 0 =>
               /\ SimilarIndex(es, e) \in DOMAIN es
               /\ Similar(es[SimilarIndex(es, e)].embedding, e)
         /\ SimilarIndex(es, e) = 0 =>
               \A i \in DOMAIN es : ~ Similar(es[i].embedding, e)
<1> DEFINE sim == [i \in DOMAIN es |-> Dot[<<es[i].embedding, e>>]]
           rivals == {i \in DOMAIN es : Dim[es[i].embedding] = Dim[e]}
           best == {i \in DOMAIN es :
                      /\ Similar(es[i].embedding, e)
                      /\ \A j \in DOMAIN es :
                            Dim[es[j].embedding] = Dim[e] => sim[j] <= sim[i]}
<1>0. Len(es) \in Nat /\ DOMAIN es = 1 .. Len(es)
  BY LenProperties
<1>1. SimilarIndex(es, e) = IF best = {} THEN 0 ELSE Min(best)
  BY DEF SimilarIndex
<1>2. best \subseteq DOMAIN es /\ best \subseteq Nat /\ 0 \notin best
  BY <1>0
<1>3. \A i \in DOMAIN es : sim[i] \in Int
  BY LookupAssumption
<1>4. \A i \in best : Similar(es[i].embedding, e)
  BY DEF Similar
<1>5. CASE best # {}
  <2>1. Min(best) \in best
    <3> HIDE DEF best
    <3> QED BY <1>2, <1>5, MinOfNaturals
  <2> HIDE DEF best
  <2> QED BY <1>1, <1>2, <1>4, <1>5, <2>1
<1>6. CASE best = {}
  <2>1. ASSUME NEW i \in DOMAIN es, Similar(es[i].embedding, e)
        PROVE  FALSE
    <3>1. i \in rivals
      BY <2>1 DEF Similar
    <3>2. PICK k \in rivals : \A j \in rivals : sim[j] <= sim[k]
      <4>1. rivals \subseteq 1 .. Len(es)
        BY <1>0
      <4>2. \A j \in rivals : sim[j] \in Int
        BY <1>3
      <4> HIDE DEF rivals, sim
      <4> QED BY <1>0, <3>1, <4>1, <4>2, MaximumExists
    <3>3. /\ sim[k] >= sim[i]
          /\ sim[i] >= Threshold
          /\ sim[i] > LowestSimilarity
      BY <2>1, <3>1, <3>2 DEF Similar
    <3>4. k \in DOMAIN es /\ Threshold \in Int /\ LowestSimilarity \in Int
      BY LookupAssumption DEF LowestSimilarity
    <3>5. sim[k] >= Threshold /\ sim[k] > LowestSimilarity
      <4> HIDE DEF sim
      <4> QED BY <1>3, <3>3, <3>4
    <3>6. k \in best
      BY <3>2, <3>5 DEF Similar
    <3> QED BY <1>6, <3>6
  <2> QED BY <1>1, <1>6, <2>1
<1> QED BY <1>5, <1>6

(* The entries new are some of es, in their order, followed by x. *)
Follows(new, es, x) ==
    /\ Len(new) \in Nat \ {0}
    /\ new[Len(new)] = x
    /\ \A j \in 1 .. Len(new) - 1 : \E l \in DOMAIN es : new[j] = es[l]
    /\ \A i, j \in 1 .. Len(new) - 1 :
          i < j => \E k, l \in DOMAIN es :
                      k < l /\ new[i] = es[k] /\ new[j] = es[l]

(* An insertion puts its entry last and keeps the others in their order.   *)
LEMMA InsertKeeps ==
  ASSUME NEW S, NEW es \in Seq(S), NEW x \in S, NEW new \in AfterInsert(es, x)
  PROVE  new \in Seq(S) /\ Follows(new, es, x)
<1>0. Len(es) \in Nat /\ DOMAIN es = 1 .. Len(es)
  BY LenProperties
<1>1. CASE IsFull(es)
  <2>1. PICK n \in 1 .. Len(es) : new = Append(RemoveAt(es, n), x)
    BY <1>0, <1>1 DEF AfterInsert
  <2> DEFINE kept == RemoveAt(es, n)
             was(j) == IF j < n THEN j ELSE j + 1
  <2>2. /\ kept \in Seq(S)
        /\ Len(kept) = Len(es) - 1
        /\ \A j \in 1 .. Len(es) - 1 :
              kept[j] = IF j < n THEN es[j] ELSE es[j + 1]
    BY RemoveAtProperties
  <2>3. new = Append(kept, x)
    BY <2>1
  <2> HIDE DEF kept
  <2>4. /\ new \in Seq(S)
        /\ Len(new) = Len(kept) + 1
        /\ \A j \in 1 .. Len(kept) : new[j] = kept[j]
        /\ new[Len(kept) + 1] = x
    BY <2>2, <2>3, AppendProperties
  <2>5. Len(new) = Len(es)
    BY <1>0, <2>2, <2>4
  <2>6. \A j \in 1 .. Len(new) - 1 : was(j) \in DOMAIN es /\ new[j] = es[was(j)]
    BY <1>0, <2>2, <2>4, <2>5
  <2>7. \A i, j \in 1 .. Len(new) - 1 : i < j => was(i) < was(j)
    BY <1>0, <2>5
  <2> HIDE DEF was
  <2>8. Len(new) \in Nat \ {0} /\ new[Len(new)] = x
    BY <1>0, <2>1, <2>2, <2>4, <2>5
  <2> QED BY <2>4, <2>6, <2>7, <2>8 DEF Follows
<1>2. CASE ~ IsFull(es)
  <2>1. new = Append(es, x)
    BY <1>2 DEF AfterInsert
  <2>2. /\ new \in Seq(S)
        /\ Len(new) = Len(es) + 1
        /\ \A j \in 1 .. Len(es) : new[j] = es[j]
        /\ new[Len(es) + 1] = x
    BY <2>1, AppendProperties
  <2>3. \A j \in 1 .. Len(new) - 1 : j \in DOMAIN es /\ new[j] = es[j]
    BY <1>0, <2>2
  <2> QED BY <1>0, <2>2, <2>3 DEF Follows
<1> QED BY <1>1, <1>2

-----------------------------------------------------------------------------
(* The entries as the contract of the cache sees them, for entries S that  *)
(* have further fields.                                                    *)
Bare(S) == {Content(x) : x \in S}

(* Sequences with the same indices have the same length.                   *)
LEMMA SameInterval ==
  ASSUME NEW m \in Nat, NEW n \in Nat, 1 .. m = 1 .. n
  PROVE  m = n
<1>1. CASE m < n
  <2>1. n \in 1 .. n /\ n \notin 1 .. m
    BY <1>1
  <2> QED BY <2>1
<1>2. CASE n < m
  <2>1. m \in 1 .. m /\ m \notin 1 .. n
    BY <1>2
  <2> QED BY <2>1
<1> QED BY <1>1, <1>2

(* Contents keeps the length and the order of the entries.                 *)
LEMMA ContentsProperties ==
  ASSUME NEW S, NEW es \in Seq(S)
  PROVE  /\ Contents(es) \in Seq(Bare(S))
         /\ Len(Contents(es)) = Len(es)
         /\ \A i \in 1 .. Len(es) : Contents(es)[i] = Content(es[i])
<1>1. /\ Len(es) \in Nat
      /\ DOMAIN es = 1 .. Len(es)
      /\ \A i \in 1 .. Len(es) : es[i] \in S
  BY LenProperties, ElementOfSeq
<1>2. Contents(es) \in [1 .. Len(es) -> Bare(S)]
  BY <1>1 DEF Contents, Content, Bare
<1>3. Contents(es) \in Seq(Bare(S))
  BY <1>1, <1>2, SeqDef
<1>4. Len(Contents(es)) = Len(es)
  <2>1. /\ Len(Contents(es)) \in Nat
        /\ DOMAIN Contents(es) = 1 .. Len(Contents(es))
    BY <1>3, LenProperties
  <2>2. DOMAIN Contents(es) = 1 .. Len(es)
    BY <1>2
  <2> QED BY <1>1, <2>1, <2>2, SameInterval
<1> QED BY <1>1, <1>3, <1>4 DEF Contents

(* The entries removed, added or stamped, seen through Contents.           *)
LEMMA ContentsOfRemoveAt ==
  ASSUME NEW S, NEW es \in Seq(S), NEW i \in 1 .. Len(es)
  PROVE  Contents(RemoveAt(es, i)) = RemoveAt(Contents(es), i)
<1>0. Len(es) \in Nat
  BY LenProperties
<1>1. /\ RemoveAt(es, i) \in Seq(S)
      /\ Len(RemoveAt(es, i)) = Len(es) - 1
      /\ \A j \in 1 .. Len(es) - 1 :
            RemoveAt(es, i)[j] = IF j < i THEN es[j] ELSE es[j + 1]
  BY RemoveAtProperties
<1>2. /\ Contents(es) \in Seq(Bare(S))
      /\ Len(Contents(es)) = Len(es)
      /\ \A j \in 1 .. Len(es) : Contents(es)[j] = Content(es[j])
  BY ContentsProperties
<1>3. /\ RemoveAt(Contents(es), i) \in Seq(Bare(S))
      /\ Len(RemoveAt(Contents(es), i)) = Len(es) - 1
      /\ \A j \in 1 .. Len(es) - 1 :
            RemoveAt(Contents(es), i)[j] = IF j < i THEN Contents(es)[j]
                                           ELSE Contents(es)[j + 1]
  BY <1>2, RemoveAtProperties
<1>4. /\ Contents(RemoveAt(es, i)) \in Seq(Bare(S))
      /\ Len(Contents(RemoveAt(es, i))) = Len(es) - 1
      /\ \A j \in 1 .. Len(es) - 1 :
            Contents(RemoveAt(es, i))[j] = Content(RemoveAt(es, i)[j])
  BY <1>1, ContentsProperties
<1>5. ASSUME NEW j \in 1 .. Len(es) - 1
      PROVE  Contents(RemoveAt(es, i))[j] = RemoveAt(Contents(es), i)[j]
  <2>1. j \in 1 .. Len(es) /\ j + 1 \in 1 .. Len(es)
    BY <1>0
  <2> QED BY <2>1, <1>1, <1>2, <1>3, <1>4
<1> QED BY <1>3, <1>4, <1>5, SeqEqual

LEMMA ContentsOfAppend ==
  ASSUME NEW S, NEW es \in Seq(S), NEW x \in S
  PROVE  Contents(Append(es, x)) = Append(Contents(es), Content(x))
<1>0. Len(es) \in Nat /\ Content(x) \in Bare(S)
  BY LenProperties DEF Content, Bare
<1>1. /\ Append(es, x) \in Seq(S)
      /\ Len(Append(es, x)) = Len(es) + 1
      /\ \A j \in 1 .. Len(es) : Append(es, x)[j] = es[j]
      /\ Append(es, x)[Len(es) + 1] = x
  BY AppendProperties
<1>2. /\ Contents(es) \in Seq(Bare(S))
      /\ Len(Contents(es)) = Len(es)
      /\ \A j \in 1 .. Len(es) : Contents(es)[j] = Content(es[j])
  BY ContentsProperties
<1>3. /\ Append(Contents(es), Content(x)) \in Seq(Bare(S))
      /\ Len(Append(Contents(es), Content(x))) = Len(es) + 1
      /\ \A j \in 1 .. Len(es) :
            Append(Contents(es), Content(x))[j] = Contents(es)[j]
      /\ Append(Contents(es), Content(x))[Len(es) + 1] = Content(x)
  BY <1>0, <1>2, AppendProperties
<1>4. /\ Contents(Append(es, x)) \in Seq(Bare(S))
      /\ Len(Contents(Append(es, x))) = Len(es) + 1
      /\ \A j \in 1 .. Len(es) + 1 :
            Contents(Append(es, x))[j] = Content(Append(es, x)[j])
  BY <1>1, ContentsProperties
<1>5. ASSUME NEW j \in 1 .. Len(es) + 1
      PROVE  Contents(Append(es, x))[j] = Append(Contents(es), Content(x))[j]
  <2>1. j \in 1 .. Len(es) \/ j = Len(es) + 1
    BY <1>0
  <2> QED BY <2>1, <1>1, <1>2, <1>3, <1>4
<1> QED BY <1>3, <1>4, <1>5, SeqEqual

(* Which entry a lookup finds depends on the contents only, never on the   *)
(* stamps: lookups of the detailed cache and of the contract agree.        *)
LEMMA FindInContents ==
  ASSUME NEW S, NEW es \in Seq(S), NEW want
  PROVE  /\ ExactIndex(Contents(es), want) = ExactIndex(es, want)
         /\ SimilarIndex(Contents(es), want) = SimilarIndex(es, want)
<1>1. /\ DOMAIN es = 1 .. Len(es)
      /\ DOMAIN Contents(es) = 1 .. Len(es)
      /\ Len(Contents(es)) = Len(es)
  BY ContentsProperties, LenProperties
<1>2. \A i \in 1 .. Len(es) :
        /\ Contents(es)[i].query = es[i].query
        /\ Contents(es)[i].embedding = es[i].embedding
  <2>1. \A i \in 1 .. Len(es) : Contents(es)[i] = Content(es[i])
    BY ContentsProperties
  <2>2. \A x : Content(x).query = x.query /\ Content(x).embedding = x.embedding
    BY DEF Content
  <2> QED BY <2>1, <2>2
<1>3. ExactIndex(Contents(es), want) = ExactIndex(es, want)
  <2>1. {i \in 1 .. Len(es) : Norm[Contents(es)[i].query] = Norm[want]}
          = {i \in 1 .. Len(es) : Norm[es[i].query] = Norm[want]}
    BY <1>2
  <2> QED BY <2>1, <1>1 DEF ExactIndex, SelectInSeq
<1>4. SimilarIndex(Contents(es), want) = SimilarIndex(es, want)
  <2> DEFINE best(fs) ==
               {i \in DOMAIN fs :
                  /\ Similar(fs[i].embedding, want)
                  /\ \A j \in DOMAIN fs :
                        Dim[fs[j].embedding] = Dim[want] =>
                          Dot[<<fs[j].embedding, want>>]
                            <= Dot[<<fs[i].embedding, want>>]}
  <2>3. best(Contents(es)) = best(es)
    BY <1>1, <1>2
  <2>4. \A fs : SimilarIndex(fs, want)
                  = IF best(fs) = {} THEN 0 ELSE Min(best(fs))
    BY DEF SimilarIndex
  <2> HIDE DEF best
  <2> QED BY <2>3, <2>4
<1> QED BY <1>3, <1>4

(* An insertion, seen through Contents, is one the contract allows.        *)
LEMMA ContentsAfterInsert ==
  ASSUME NEW S, NEW es \in Seq(S), NEW x \in S, NEW new \in AfterInsert(es, x)
  PROVE  Contents(new) \in AfterInsert(Contents(es), Content(x))
<1>0. /\ Len(es) \in Nat
      /\ DOMAIN es = 1 .. Len(es)
      /\ Len(Contents(es)) = Len(es)
      /\ Contents(es) \in Seq(Bare(S))
      /\ DOMAIN Contents(es) = 1 .. Len(es)
  BY LenProperties, ContentsProperties
<1>1. IsFull(Contents(es)) <=> IsFull(es)
  <2>1. (es # << >> <=> Len(es) # 0) /\ (Contents(es) # << >> <=> Len(es) # 0)
    BY <1>0, EmptySeq
  <2> QED BY <1>0, <2>1 DEF IsFull
<1>2. CASE IsFull(es)
  <2>1. PICK i \in 1 .. Len(es) : new = Append(RemoveAt(es, i), x)
    BY <1>0, <1>2 DEF AfterInsert
  <2> DEFINE kept == RemoveAt(es, i)
  <2>2. kept \in Seq(S) /\ Contents(kept) = RemoveAt(Contents(es), i)
    BY RemoveAtProperties, ContentsOfRemoveAt
  <2> HIDE DEF kept
  <2>3. Contents(Append(kept, x)) = Append(RemoveAt(Contents(es), i), Content(x))
    BY <2>2, ContentsOfAppend
  <2> QED BY <1>0, <1>1, <1>2, <2>1, <2>3 DEF AfterInsert, kept
<1>3. CASE ~ IsFull(es)
  <2>1. new = Append(es, x)
    BY <1>3 DEF AfterInsert
  <2> QED BY <1>1, <1>3, <2>1, ContentsOfAppend DEF AfterInsert
<1> QED BY <1>2, <1>3
=============================================================================
