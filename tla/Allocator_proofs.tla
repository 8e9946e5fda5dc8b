--------------------------- MODULE Allocator_proofs ---------------------------
(***************************************************************************)
(* The heap of the allocator, for every size of the heap, every layout of  *)
(* the bins and every sequence of calls: TagsAgree, BinsAgree,             *)
(* BlocksIntact and BestFit.                                               *)
(*                                                                         *)
(* The operations on the heap are first shown, one by one, to keep the     *)
(* memory tiled with chunks and its boundary tags right, whatever chunk    *)
(* they are applied to; the steps of malloc and free then follow from      *)
(* what they do to the lists.                                              *)
(***************************************************************************)
EXTENDS Allocator, SeqLemmas, FiniteSetTheorems

-------------------------------------------------------------------------------
Heads == [size : Int, prev_inuse : BOOLEAN, prev_size : Int]

Next1(h, a) == a + h[a].size

(***************************************************************************)
(* The chunks of heap h, at the addresses of D and the last of them at t,  *)
(* tile the memory from mem_heap to c.                                     *)
(***************************************************************************)
Tiled(D, h, t, c) ==
  /\ D \subseteq Nat /\ h \in [D -> Heads]
  /\ t \in D /\ Next1(h, t) = c
  /\ HeapStart \in D
  /\ \A a \in D : HeapStart <= a /\ a <= t /\ h[a].size >= MinSize
  /\ \A a \in D \ {t} : Next1(h, a) \in D /\ \A b \in D : b <= a \/ b >= Next1(h, a)
  /\ \A a \in D \ {HeapStart} : \E b \in D : Next1(h, b) = a

(***************************************************************************)
(* Every head tells whether the chunk before is free, and its size if it   *)
(* is; two free chunks are never neighbours, and no foot is left in a      *)
(* chunk in use.                                                           *)
(***************************************************************************)
Tagged(D, h, t) ==
  /\ h[t].prev_inuse /\ h[HeapStart].prev_inuse
  /\ \A a \in D \ {t} :
       IF h[Next1(h, a)].prev_inuse THEN h[Next1(h, a)].prev_size = 0
       ELSE h[Next1(h, a)].prev_size = h[a].size /\ h[a].prev_inuse

FreeIn(D, h, t) == {a \in D \ {t} : ~h[Next1(h, a)].prev_inuse}

(* The chunks follow one another, and the memory ends after them all. *)
LEMMA TiledFacts ==
  ASSUME NEW D, NEW h, NEW t, NEW c, Tiled(D, h, t, c)
  PROVE  /\ t \in Nat /\ c \in Nat /\ c \notin D
         /\ \A a \in D : a \in Nat /\ a >= HeapStart /\ a <= t /\ a < c
         /\ \A a \in D : h[a].size \in Int /\ h[a].size >= MinSize
         /\ \A a \in D : Next1(h, a) \in Nat /\ Next1(h, a) > a
         /\ \A a \in D : Next1(h, a) \in D \cup {c} /\ (Next1(h, a) = c => a = t)
         /\ \A a, b \in D : b <= a \/ b >= Next1(h, a)
<1>1. /\ D \subseteq Nat /\ t \in D /\ Next1(h, t) = c
      /\ \A a \in D : HeapStart <= a /\ a <= t /\ h[a].size >= MinSize
      /\ \A a \in D \ {t} : Next1(h, a) \in D /\ \A b \in D : b <= a \/ b >= Next1(h, a)
  BY DEF Tiled
<1>2. \A a \in D : h[a].size \in Int
  BY DEF Tiled, Heads
<1>3. \A a \in D : a \in Nat /\ Next1(h, a) \in Nat /\ Next1(h, a) > a
  BY <1>1, <1>2 DEF Next1, MinSize
<1>4. c \in Nat /\ c > t /\ t \in Nat
  BY <1>1, <1>3
<1>5. \A a, b \in D : b <= a \/ b >= Next1(h, a)
  BY <1>1, <1>3
<1>6. \A a \in D : Next1(h, a) \in D \cup {c} /\ (Next1(h, a) = c => a = t)
  BY <1>1, <1>3, <1>4
<1> QED BY <1>1, <1>2, <1>3, <1>4, <1>5, <1>6

(* No two chunks have the same next chunk. *)
LEMMA NextInjective ==
  ASSUME NEW D, NEW h, NEW t, NEW c, Tiled(D, h, t, c),
         NEW a \in D, NEW b \in D, Next1(h, a) = Next1(h, b)
  PROVE  a = b
BY TiledFacts

(* What set_inuse_bit_at_offset and set_foot do. *)
LEMMA FreeBeforeIs ==
  ASSUME NEW D, NEW h \in [D -> Heads], NEW a \in D, NEW s \in Int,
         NEW g, g = FreeBefore(h, a, s)
  PROVE  /\ g \in [D -> Heads]
         /\ \A b \in D : g[b].size = h[b].size
         /\ ~g[a].prev_inuse /\ g[a].prev_size = s
         /\ \A b \in D \ {a} : g[b] = h[b]
BY DEF FreeBefore, Heads

LEMMA InUseBeforeIs ==
  ASSUME NEW D, NEW h \in [D -> Heads], NEW a \in D, NEW g, g = InUseBefore(h, a)
  PROVE  /\ g \in [D -> Heads]
         /\ \A b \in D : g[b].size = h[b].size
         /\ g[a].prev_inuse /\ g[a].prev_size = 0
         /\ \A b \in D \ {a} : g[b] = h[b]
BY DEF InUseBefore, Heads

(* Chunks in a row become one: the heads between are forgotten. *)
JoinedInto(D, h, a, e, s, E, g) ==
  /\ E = D \ (a + 1 .. e - 1)
  /\ g = WithHead(WithoutHeads(h, a + 1 .. e - 1), a, s)

LEMMA JoinHeads ==
  ASSUME NEW D, NEW h \in [D -> Heads], NEW a \in Nat, a \in D, NEW s \in Int,
         NEW e, NEW E, NEW g, JoinedInto(D, h, a, e, s, E, g)
  PROVE  /\ g \in [E -> Heads]
         /\ g[a].size = s /\ g[a].prev_inuse /\ g[a].prev_size = h[a].prev_size
         /\ \A b \in E \ {a} : g[b] = h[b]
<1>1. a \in E /\ E \subseteq D /\ \A b \in D : h[b] \in Heads
  BY DEF JoinedInto
<1>2. PICK v : v = [size |-> s, prev_inuse |-> TRUE, prev_size |-> h[a].prev_size]
  OBVIOUS
<1>3. g = [b \in E |-> IF b # a THEN h[b] ELSE v]
  BY <1>1, <1>2 DEF JoinedInto, WithHead, WithoutHeads
<1>4. v \in Heads
  BY <1>1, <1>2 DEF Heads
<1>5. g \in [E -> Heads]
  BY <1>1, <1>3, <1>4
<1>6. g[a] = v /\ \A b \in E \ {a} : g[b] = h[b]
  BY <1>1, <1>3
<1>7. v.size = s /\ v.prev_inuse /\ v.prev_size = h[a].prev_size
  BY <1>2
<1> QED BY <1>5, <1>6, <1>7

LEMMA JoinTiled ==
  ASSUME NEW D, NEW h, NEW t, NEW c, Tiled(D, h, t, c), NEW a \in Nat, a \in D,
         NEW e \in Nat, e \in D \cup {c}, e > a,
         NEW s \in Int, s = e - a, NEW E, E = D \ (a + 1 .. e - 1),
         NEW g, g = WithHead(WithoutHeads(h, a + 1 .. e - 1), a, s),
         NEW u, e = c => u = a, e # c => u = t
  PROVE  Tiled(E, g, u, c)
<1>1. /\ g \in [E -> Heads]
      /\ g[a].size = s
      /\ \A b \in E \ {a} : g[b] = h[b]
  <2>1. h \in [D -> Heads] /\ JoinedInto(D, h, a, e, s, E, g)
    BY DEF Tiled, JoinedInto
  <2> QED BY <2>1, JoinHeads
<1>2. /\ t \in Nat /\ c \in Nat /\ c \notin D
      /\ \A b \in D : b \in Nat /\ b >= HeapStart /\ b <= t /\ b < c
      /\ \A b \in D : h[b].size \in Int /\ h[b].size >= MinSize
      /\ \A b \in D : Next1(h, b) \in Nat /\ Next1(h, b) > b
      /\ \A b \in D : Next1(h, b) \in D \cup {c} /\ (Next1(h, b) = c => b = t)
      /\ \A b, d \in D : d <= b \/ d >= Next1(h, b)
  BY TiledFacts
<1>3. /\ t \in D /\ Next1(h, t) = c /\ HeapStart \in D
      /\ \A b \in D \ {HeapStart} : \E d \in D : Next1(h, d) = b
  BY DEF Tiled
<1>4. a \in Nat /\ e \in Nat /\ a \in E /\ Next1(g, a) = e
  BY <1>1, <1>2 DEF Next1
<1>5. \A b \in E \ {a} : Next1(g, b) = Next1(h, b) /\ b \in D
  BY <1>1 DEF Next1
<1>6. \A b \in E : b <= a \/ b >= e
  BY <1>1, <1>2, <1>4
<1>7. e >= Next1(h, a)
  BY <1>2, <1>4
<1>8. ASSUME NEW b \in E \ {a}
      PROVE  Next1(h, b) \in E \cup {c} /\ (Next1(h, b) <= a \/ Next1(h, b) > e)
  <2>1. b \in D /\ (b < a \/ b >= e)
    BY <1>2, <1>4, <1>5, <1>6
  <2>2. CASE b < a
    BY <1>1, <1>2, <1>4, <2>1, <2>2
  <2>3. CASE b >= e
    BY <1>1, <1>2, <1>4, <2>1, <2>3
  <2> QED BY <2>1, <2>2, <2>3
<1>9. u \in E /\ Next1(g, u) = c /\ \A b \in E : b <= u
  <2>1. CASE e = c
    BY <1>1, <1>2, <1>4, <1>6, <2>1
  <2>2. CASE e # c
    <3>1. e \in D /\ t >= e
      BY <1>2, <2>2
    <3>2. t \in E \ {a}
      BY <1>1, <1>2, <1>3, <1>4, <3>1
    <3> QED BY <1>1, <1>2, <1>3, <1>5, <2>2, <3>2
  <2> QED BY <2>1, <2>2
<1>10. \A b \in E : HeapStart <= b /\ g[b].size >= MinSize
  <2>1. g[a].size >= MinSize
    BY <1>1, <1>2, <1>4, <1>7 DEF Next1, MinSize
  <2> QED BY <1>1, <1>2, <1>4, <2>1
<1>11. HeapStart \in E
  BY <1>1, <1>2, <1>3, <1>4
<1>12. ASSUME NEW b \in E \ {u}
       PROVE  Next1(g, b) \in E /\ \A d \in E : d <= b \/ d >= Next1(g, b)
  <2>1. CASE b = a
    <3>1. e # c
      BY <2>1
    <3> QED BY <1>1, <1>2, <1>4, <1>6, <2>1, <3>1
  <2>2. CASE b # a
    <3>1. Next1(g, b) = Next1(h, b) /\ b \in D /\ Next1(h, b) \in E \cup {c}
      BY <1>5, <1>8, <2>2
    <3>2. Next1(h, b) # c
      <4>1. CASE e = c
        BY <1>2, <1>4, <1>6, <1>8, <2>2, <4>1, <3>1
      <4>2. CASE e # c
        BY <1>2, <3>1, <4>2
      <4> QED BY <4>1, <4>2
    <3> QED BY <1>1, <1>2, <3>1, <3>2
  <2> QED BY <2>1, <2>2
<1>13. ASSUME NEW b \in E \ {HeapStart}
       PROVE  \E d \in E : Next1(g, d) = b
  <2>1. b \in D /\ b \in Nat
    BY <1>1, <1>2
  <2>2. PICK d \in D : Next1(h, d) = b
    BY <1>3, <2>1
  <2>3. CASE d \in E \ {a}
    BY <1>5, <2>2, <2>3
  <2>4. CASE d \notin E \ {a}
    <3>1. d >= a /\ d < e
      BY <1>1, <1>2, <1>4, <2>2, <2>4
    <3>2. b > a /\ b >= e
      BY <1>2, <1>4, <1>6, <2>1, <2>2, <3>1
    <3>3. e <= d \/ e >= b
      BY <1>2, <2>1, <2>2
    <3>4. b = e
      BY <1>2, <1>4, <2>1, <3>1, <3>2, <3>3
    <3> QED BY <1>4, <3>4
  <2> QED BY <2>3, <2>4
<1>14. E \subseteq Nat
  BY <1>1, <1>2
<1> QED BY <1>1, <1>9, <1>10, <1>11, <1>12, <1>13, <1>14 DEF Tiled

(* One chunk becomes two. *)
LEMMA CutHeads ==
  ASSUME NEW D, NEW h, NEW t, NEW c, Tiled(D, h, t, c), NEW a \in Nat, a \in D,
         NEW n \in Nat, n >= MinSize, NEW s \in Int, s = h[a].size - n, s >= MinSize,
         NEW r \in Nat, r = a + n, NEW E, E = D \cup {r},
         NEW g, g = WithHead(WithHead(h, a, n), r, s)
  PROVE  /\ r \notin D /\ r > a /\ r < Next1(h, a)
         /\ g \in [E -> Heads]
         /\ g[a].size = n /\ g[a].prev_inuse /\ g[a].prev_size = h[a].prev_size
         /\ g[r].size = s /\ g[r].prev_inuse /\ g[r].prev_size = 0
         /\ \A b \in D \ {a} : g[b] = h[b]
<1>1. r > a /\ r < Next1(h, a) /\ r \notin D
  BY TiledFacts DEF Next1, MinSize
<1>2. h \in [D -> Heads] /\ \A b \in D : h[b] \in Heads
  BY DEF Tiled
<1>3. PICK v : v = [size |-> n, prev_inuse |-> TRUE, prev_size |-> h[a].prev_size]
  OBVIOUS
<1>4. PICK w : w = [size |-> s, prev_inuse |-> TRUE, prev_size |-> 0]
  OBVIOUS
<1>5. g = [b \in E |-> IF b = r THEN w ELSE IF b = a THEN v ELSE h[b]]
  BY <1>1, <1>2, <1>3, <1>4 DEF WithHead
<1>6. v \in Heads /\ w \in Heads
  BY <1>2, <1>3, <1>4 DEF Heads
<1>7. g \in [E -> Heads]
  BY <1>1, <1>2, <1>5, <1>6
<1>8. g[a] = v /\ g[r] = w /\ \A b \in D \ {a} : g[b] = h[b]
  BY <1>1, <1>5
<1>9. /\ v.size = n /\ v.prev_inuse /\ v.prev_size = h[a].prev_size
      /\ w.size = s /\ w.prev_inuse /\ w.prev_size = 0
  BY <1>3, <1>4
<1> QED BY <1>1, <1>7, <1>8, <1>9

LEMMA CutTiled ==
  ASSUME NEW D, NEW h, NEW t, NEW c, Tiled(D, h, t, c), NEW a \in Nat, a \in D,
         NEW n \in Nat, n >= MinSize, NEW s \in Int, s = h[a].size - n, s >= MinSize,
         NEW r \in Nat, r = a + n, NEW E, E = D \cup {r},
         NEW g, g = WithHead(WithHead(h, a, n), r, s),
         NEW u, u = IF a = t THEN r ELSE t
  PROVE  Tiled(E, g, u, c)
<1>1. /\ r \notin D /\ r > a /\ r < Next1(h, a)
      /\ g \in [E -> Heads]
      /\ g[a].size = n /\ g[r].size = s
      /\ \A b \in D \ {a} : g[b] = h[b]
  BY CutHeads
<1>2. /\ t \in Nat /\ c \in Nat /\ c \notin D
      /\ \A b \in D : b \in Nat /\ b >= HeapStart /\ b <= t /\ b < c
      /\ \A b \in D : h[b].size \in Int /\ h[b].size >= MinSize
      /\ \A b \in D : Next1(h, b) \in Nat /\ Next1(h, b) > b
      /\ \A b \in D : Next1(h, b) \in D \cup {c} /\ (Next1(h, b) = c => b = t)
      /\ \A b, d \in D : d <= b \/ d >= Next1(h, b)
  BY TiledFacts
<1>3. /\ t \in D /\ Next1(h, t) = c /\ HeapStart \in D
      /\ \A b \in D \ {HeapStart} : \E d \in D : Next1(h, d) = b
  BY DEF Tiled
<1>4. /\ a \in Nat /\ r \in Nat /\ Next1(g, a) = r
      /\ Next1(g, r) = Next1(h, a)
  BY <1>1, <1>2 DEF Next1
<1>5. \A b \in D \ {a} : Next1(g, b) = Next1(h, b)
  BY <1>1 DEF Next1
<1>6. u \in E /\ Next1(g, u) = c /\ \A b \in E : b <= u
  <2>1. CASE a = t
    BY <1>1, <1>2, <1>3, <1>4, <2>1
  <2>2. CASE a # t
    <3>1. Next1(h, a) <= t
      BY <1>2, <1>3, <2>2
    <3> QED BY <1>1, <1>2, <1>3, <1>4, <1>5, <2>2, <3>1
  <2> QED BY <2>1, <2>2
<1>7. \A b \in E : HeapStart <= b /\ g[b].size >= MinSize
  <2>1. HeapStart <= r /\ s >= MinSize
    BY <1>2, <1>4, AllocatorConstants DEF MinSize
  <2> QED BY <1>1, <1>2, <2>1
<1>8. ASSUME NEW b \in E \ {u}
      PROVE  Next1(g, b) \in E /\ \A d \in E : d <= b \/ d >= Next1(g, b)
  <2>1. CASE b = a
    BY <1>1, <1>2, <1>4, <2>1
  <2>2. CASE b = r
    <3>1. a # t
      BY <2>2
    <3> QED BY <1>1, <1>2, <1>3, <1>4, <2>2, <3>1
  <2>3. CASE b \in D \ {a}
    <3>1. b # t
      BY <1>1, <1>2, <1>4, <1>5, <1>6, <1>3, <2>3
    <3>2. Next1(g, b) = Next1(h, b) /\ Next1(h, b) \in D
      BY <1>2, <1>5, <2>3, <3>1
    <3>3. r <= b \/ r >= Next1(h, b)
      BY <1>1, <1>2, <1>4, <2>3, <3>2
    <3> QED BY <1>1, <1>2, <3>2, <3>3, <2>3
  <2> QED BY <1>1, <2>1, <2>2, <2>3
<1>9. ASSUME NEW b \in E \ {HeapStart}
      PROVE  \E d \in E : Next1(g, d) = b
  <2>1. CASE b = r
    BY <1>1, <1>4, <2>1
  <2>2. CASE b \in D
    <3>1. PICK d \in D : Next1(h, d) = b
      BY <1>3, <2>2
    <3> QED BY <1>1, <1>4, <1>5, <3>1
  <2> QED BY <1>1, <2>1, <2>2
<1>10. E \subseteq Nat /\ HeapStart \in E
  BY <1>1, <1>2, <1>3, <1>4
<1> QED BY <1>1, <1>6, <1>7, <1>8, <1>9, <1>10 DEF Tiled

(* Only the flags and the sizes before the chunks change. *)
LEMMA SameSizesTiled ==
  ASSUME NEW D, NEW h, NEW t, NEW c, Tiled(D, h, t, c), NEW g \in [D -> Heads],
         \A b \in D : g[b].size = h[b].size
  PROVE  Tiled(D, g, t, c) /\ \A b \in D : Next1(g, b) = Next1(h, b)
<1>1. \A b \in D : Next1(g, b) = Next1(h, b)
  BY DEF Next1
<1>2. t \in D
  BY DEF Tiled
<1> QED BY <1>1, <1>2 DEF Tiled

LEMMA FreeInMember ==
  ASSUME NEW D, NEW h, NEW t, NEW a
  PROVE  a \in FreeIn(D, h, t) <=> a \in D /\ a # t /\ ~h[Next1(h, a)].prev_inuse
BY DEF FreeIn

(* The neighbours of a free chunk are in use. *)
LEMMA FreeFacts ==
  ASSUME NEW D, NEW h, NEW t, NEW c, Tiled(D, h, t, c), Tagged(D, h, t),
         NEW a, a \in FreeIn(D, h, t)
  PROVE  /\ a \in D /\ a # t /\ a \in Nat
         /\ Next1(h, a) \in D /\ Next1(h, a) # t /\ Next1(h, a) # a
         /\ Next1(h, a) \notin FreeIn(D, h, t)
         /\ ~h[Next1(h, a)].prev_inuse
         /\ h[Next1(h, a)].prev_size = h[a].size /\ h[a].prev_inuse
<1>1. a \in D /\ a # t /\ ~h[Next1(h, a)].prev_inuse
  BY FreeInMember
<1>2. Next1(h, a) \in D /\ a \in Nat /\ Next1(h, a) # a
  BY <1>1, TiledFacts
<1>3. h[Next1(h, a)].prev_size = h[a].size /\ h[a].prev_inuse
  BY <1>1 DEF Tagged
<1>4. Next1(h, a) # t
  BY <1>1 DEF Tagged
<1>5. Next1(h, a) \notin FreeIn(D, h, t)
  <2>1. PICK e : e = Next1(h, a)
    OBVIOUS
  <2>2. ASSUME e \in FreeIn(D, h, t)
        PROVE  FALSE
    <3>1. e \in D \ {t} /\ ~h[Next1(h, e)].prev_inuse
      BY <2>2, FreeInMember
    <3>2. h[e].prev_inuse
      BY <3>1 DEF Tagged
    <3> QED BY <1>1, <2>1, <3>2
  <2> QED BY <2>1, <2>2
<1> QED BY <1>1, <1>2, <1>3, <1>4, <1>5

(* The chunk before a free one is the one its head says. *)
LEMMA BackFacts ==
  ASSUME NEW D, NEW h, NEW t, NEW c, Tiled(D, h, t, c), Tagged(D, h, t),
         NEW a \in D, ~h[a].prev_inuse
  PROVE  /\ a - h[a].prev_size \in FreeIn(D, h, t)
         /\ Next1(h, a - h[a].prev_size) = a
<1>1. a # HeapStart
  BY DEF Tagged
<1>2. PICK b \in D : Next1(h, b) = a
  BY <1>1 DEF Tiled
<1>3. b # t
  <2>1. Next1(h, t) = c /\ c \notin D
    BY TiledFacts DEF Tiled
  <2> QED BY <1>2, <2>1
<1>4. b \in FreeIn(D, h, t)
  BY <1>2, <1>3, FreeInMember
<1>5. h[a].prev_size = h[b].size
  BY <1>2, <1>4, FreeFacts
<1>6. b \in Nat /\ h[b].size \in Int
  BY TiledFacts
<1>7. b = a - h[a].prev_size
  BY <1>2, <1>5, <1>6 DEF Next1
<1> QED BY <1>2, <1>4, <1>7

(***************************************************************************)
(* The seven things that malloc and free do to the heap: a free chunk is   *)
(* taken whole, or cut; the top is cut, extended, or obtained; chunks are  *)
(* joined into a free one, or into the top.                                *)
(***************************************************************************)
LEMMA TakeWhole ==
  ASSUME NEW D, NEW h, NEW t, NEW c, Tiled(D, h, t, c), Tagged(D, h, t),
         NEW a, a \in FreeIn(D, h, t), NEW e, e = Next1(h, a),
         NEW g, g = InUseBefore(h, e)
  PROVE  /\ Tiled(D, g, t, c) /\ Tagged(D, g, t)
         /\ FreeIn(D, g, t) = FreeIn(D, h, t) \ {a}
         /\ \A b \in D : g[b].size = h[b].size
<1>1. /\ a \in D /\ a # t /\ a \in Nat
      /\ e \in D /\ e # t /\ e \notin FreeIn(D, h, t) /\ h[a].prev_inuse
  BY FreeFacts
<1>2. /\ g \in [D -> Heads]
      /\ \A b \in D : g[b].size = h[b].size
      /\ g[e].prev_inuse /\ g[e].prev_size = 0
      /\ \A b \in D \ {e} : g[b] = h[b]
  <2>1. h \in [D -> Heads]
    BY DEF Tiled
  <2>2. g \in [D -> Heads] /\ g[e].prev_inuse /\ g[e].prev_size = 0
    BY <1>1, <2>1, InUseBeforeIs
  <2>3. (\A b \in D : g[b].size = h[b].size) /\ \A b \in D \ {e} : g[b] = h[b]
    BY <1>1, <2>1, InUseBeforeIs
  <2> QED BY <2>2, <2>3
<1>3. Tiled(D, g, t, c) /\ \A b \in D : Next1(g, b) = Next1(h, b)
  BY <1>2, SameSizesTiled
<1>4. \A b \in D \ {a} : Next1(h, b) # e
  BY <1>1, NextInjective
<1>5. \A b \in D \ {a, t} : Next1(h, b) \in D /\ g[Next1(g, b)] = h[Next1(h, b)]
  BY <1>2, <1>3, <1>4, TiledFacts
<1>6. FreeIn(D, g, t) = FreeIn(D, h, t) \ {a}
  <2>1. a \notin FreeIn(D, g, t)
    BY <1>1, <1>2, <1>3, FreeInMember
  <2>2. \A b \in D \ {a, t} : b \in FreeIn(D, g, t) <=> b \in FreeIn(D, h, t)
    BY <1>5, FreeInMember
  <2>3. FreeIn(D, g, t) \subseteq D \ {t} /\ FreeIn(D, h, t) \subseteq D \ {t}
    BY FreeInMember
  <2> QED BY <2>1, <2>2, <2>3
<1>7. Tagged(D, g, t)
  <2>1. g[t].prev_inuse
    BY <1>1, <1>2, <1>3 DEF Tagged, Tiled
  <2>2. g[HeapStart].prev_inuse
    BY <1>2 DEF Tagged, Tiled
  <2>3. ASSUME NEW b \in D \ {t}
        PROVE  IF g[Next1(g, b)].prev_inuse THEN g[Next1(g, b)].prev_size = 0
               ELSE g[Next1(g, b)].prev_size = g[b].size /\ g[b].prev_inuse
    <3>1. CASE b = a
      BY <1>1, <1>2, <1>3, <3>1
    <3>2. CASE b # a
      <4>1. IF h[Next1(h, b)].prev_inuse THEN h[Next1(h, b)].prev_size = 0
            ELSE h[Next1(h, b)].prev_size = h[b].size /\ h[b].prev_inuse
        BY DEF Tagged
      <4>2. h[b].prev_inuse => g[b].prev_inuse
        BY <1>2
      <4> QED BY <1>2, <1>5, <3>2, <4>1, <4>2
    <3> QED BY <3>1, <3>2
  <2> QED BY <2>1, <2>2, <2>3 DEF Tagged
<1> QED BY <1>2, <1>3, <1>6, <1>7

LEMMA TakePart ==
  ASSUME NEW D, NEW h, NEW t, NEW c, Tiled(D, h, t, c), Tagged(D, h, t),
         NEW a, a \in FreeIn(D, h, t), NEW e, e = Next1(h, a),
         NEW n \in Nat, n >= MinSize, NEW s \in Int, s = h[a].size - n, s >= MinSize,
         NEW r \in Nat, r = a + n, NEW E, E = D \cup {r},
         NEW k, k = WithHead(WithHead(h, a, n), r, s), NEW g, g = FreeBefore(k, e, s)
  PROVE  /\ Tiled(E, g, t, c) /\ Tagged(E, g, t)
         /\ FreeIn(E, g, t) = (FreeIn(D, h, t) \ {a}) \cup {r}
         /\ r \notin D /\ g[r].size = s /\ g[a].size = n
         /\ \A b \in D \ {a} : g[b].size = h[b].size
<1>1. /\ a \in D /\ a # t /\ a \in Nat
      /\ e \in D /\ e # t /\ e # a /\ e \notin FreeIn(D, h, t) /\ h[a].prev_inuse
  BY FreeFacts
<1>2. /\ r \notin D /\ r > a /\ r < Next1(h, a)
      /\ k \in [E -> Heads]
      /\ k[a].size = n /\ k[a].prev_inuse /\ k[a].prev_size = h[a].prev_size
      /\ k[r].size = s /\ k[r].prev_inuse /\ k[r].prev_size = 0
      /\ \A b \in D \ {a} : k[b] = h[b]
  BY <1>1, CutHeads
<1>3. Tiled(E, k, t, c)
  BY <1>1, CutTiled
<1>4. /\ g \in [E -> Heads]
      /\ \A b \in E : g[b].size = k[b].size
      /\ ~g[e].prev_inuse /\ g[e].prev_size = s
      /\ \A b \in E \ {e} : g[b] = k[b]
  BY <1>1, <1>2, FreeBeforeIs
<1>5. Tiled(E, g, t, c) /\ \A b \in E : Next1(g, b) = Next1(k, b)
  BY <1>3, <1>4, SameSizesTiled
<1>6. Next1(g, a) = r /\ Next1(g, r) = e
  <2>1. h[a].size \in Int /\ a \in E /\ r \in E
    BY <1>1, TiledFacts
  <2> QED BY <1>1, <1>2, <1>5, <2>1 DEF Next1
<1>7. \A b \in D \ {a} : Next1(g, b) = Next1(h, b)
  BY <1>2, <1>5 DEF Next1
<1>8. \A b \in D \ {a} : Next1(h, b) # e
  BY <1>1, NextInjective
<1>9. \A b \in D \ {a, t} : Next1(h, b) \in D
  BY TiledFacts
<1>10. \A b \in D \ {e} : /\ g[b].prev_inuse <=> h[b].prev_inuse
                          /\ g[b].prev_size = h[b].prev_size
  <2>1. (g[a].prev_inuse <=> h[a].prev_inuse) /\ g[a].prev_size = h[a].prev_size
    BY <1>1, <1>2, <1>4
  <2>2. \A b \in D \ {e, a} : g[b] = h[b]
    BY <1>1, <1>2, <1>4
  <2> QED BY <2>1, <2>2
<1>11. FreeIn(E, g, t) = (FreeIn(D, h, t) \ {a}) \cup {r}
  <2>1. a \notin FreeIn(E, g, t)
    BY <1>1, <1>2, <1>4, <1>6, FreeInMember
  <2>2. r \in FreeIn(E, g, t)
    BY <1>2, <1>3, <1>4, <1>6, FreeInMember, TiledFacts DEF Tiled
  <2>3. \A b \in D \ {a, t} : b \in FreeIn(E, g, t) <=> b \in FreeIn(D, h, t)
    BY <1>7, <1>8, <1>9, <1>10, FreeInMember
  <2>4. \A b : /\ b \in FreeIn(E, g, t) => b \in E /\ b # t
               /\ b \in FreeIn(D, h, t) => b \in D /\ b # t
    BY FreeInMember
  <2>5. \A b : b \in E <=> b \in D \/ b = r
    OBVIOUS
  <2>6. ASSUME NEW b
        PROVE  b \in FreeIn(E, g, t) <=> (b \in FreeIn(D, h, t) /\ b # a) \/ b = r
    <3>1. CASE b = r
      BY <2>2, <3>1, Zenon
    <3>2. CASE b = a
      BY <2>1, <1>1, <1>2, <3>2
    <3>3. CASE b # a /\ b # r
      <4>1. CASE b \in D /\ b # t
        <5>1. b \in D \ {a, t}
          BY <3>3, <4>1
        <5> QED BY <2>3, <3>3, <5>1
      <4>2. CASE ~(b \in D /\ b # t)
        <5>1. b \notin FreeIn(D, h, t)
          BY <2>4, <4>2
        <5>2. b \notin E \/ b = t
          BY <3>3, <4>2
        <5>3. b \notin FreeIn(E, g, t)
          BY <2>4, <5>2
        <5> QED BY <3>3, <5>1, <5>3
      <4> QED BY <4>1, <4>2
    <3> QED BY <3>1, <3>2, <3>3
  <2> QED BY <2>6
<1>12. Tagged(E, g, t)
  <2>1. t \in D /\ HeapStart \in D /\ h[t].prev_inuse /\ h[HeapStart].prev_inuse
    BY DEF Tiled, Tagged
  <2>2. HeapStart # e
    BY <1>1, FreeFacts, <2>1
  <2>3. g[t].prev_inuse /\ g[HeapStart].prev_inuse
    BY <1>1, <1>10, <2>1, <2>2
  <2>4. ASSUME NEW b \in E \ {t}
        PROVE  IF g[Next1(g, b)].prev_inuse THEN g[Next1(g, b)].prev_size = 0
               ELSE g[Next1(g, b)].prev_size = g[b].size /\ g[b].prev_inuse
    <3>1. CASE b = a
      BY <1>1, <1>2, <1>4, <1>6, <3>1
    <3>2. CASE b = r
      BY <1>1, <1>2, <1>4, <1>6, <3>2
    <3>3. CASE b \in D \ {a, t}
      <4>1. IF h[Next1(h, b)].prev_inuse THEN h[Next1(h, b)].prev_size = 0
            ELSE h[Next1(h, b)].prev_size = h[b].size /\ h[b].prev_inuse
        BY <3>3 DEF Tagged
      <4>2. /\ g[Next1(g, b)].prev_inuse <=> h[Next1(h, b)].prev_inuse
            /\ g[Next1(g, b)].prev_size = h[Next1(h, b)].prev_size
        BY <1>7, <1>8, <1>9, <1>10, <3>3
      <4>3. g[b].size = h[b].size
        BY <1>2, <1>4, <3>3
      <4>4. ~h[Next1(h, b)].prev_inuse => b # e
        BY <1>1, <3>3, FreeInMember
      <4> QED BY <1>10, <3>3, <4>1, <4>2, <4>3, <4>4
    <3> QED BY <3>1, <3>2, <3>3
  <2> QED BY <2>3, <2>4 DEF Tagged
<1>13. \A b \in D \ {a} : g[b].size = h[b].size
  BY <1>2, <1>4
<1>14. g[a].size = n /\ g[r].size = s
  BY <1>1, <1>2, <1>4
<1> QED BY <1>2, <1>5, <1>11, <1>12, <1>13, <1>14

LEMMA CutTop ==
  ASSUME NEW D, NEW h, NEW t \in Nat, NEW c, Tiled(D, h, t, c), Tagged(D, h, t),
         NEW n \in Nat, n >= MinSize, NEW s \in Int, s = h[t].size - n, s >= MinSize,
         NEW r \in Nat, r = t + n, NEW E, E = D \cup {r},
         NEW g, g = WithHead(WithHead(h, t, n), r, s)
  PROVE  /\ Tiled(E, g, r, c) /\ Tagged(E, g, r)
         /\ FreeIn(E, g, r) = FreeIn(D, h, t)
         /\ t \notin FreeIn(D, h, t) /\ r \notin D /\ g[t].size = n
         /\ \A b \in D \ {t} : g[b].size = h[b].size
<1>1. t \in D /\ HeapStart \in D /\ h[t].prev_inuse /\ h[HeapStart].prev_inuse
  BY DEF Tiled, Tagged
<1>2. /\ r \notin D /\ r > t
      /\ g \in [E -> Heads]
      /\ g[t].size = n /\ g[t].prev_inuse /\ g[t].prev_size = h[t].prev_size
      /\ g[r].size = s /\ g[r].prev_inuse /\ g[r].prev_size = 0
      /\ \A b \in D \ {t} : g[b] = h[b]
  <2>1. r \notin D /\ r > t
    BY <1>1, CutHeads
  <2>2. g \in [E -> Heads]
    BY <1>1, CutHeads
  <2>3. g[t].size = n /\ g[t].prev_inuse /\ g[t].prev_size = h[t].prev_size
    BY <1>1, CutHeads
  <2>4. g[r].size = s /\ g[r].prev_inuse /\ g[r].prev_size = 0
    BY <1>1, CutHeads
  <2>5. \A b \in D \ {t} : g[b] = h[b]
    BY <1>1, CutHeads
  <2> QED BY <2>1, <2>2, <2>3, <2>4, <2>5
<1>3. Tiled(E, g, r, c)
  BY <1>1, CutTiled
<1>4. Next1(g, t) = r
  BY <1>2 DEF Next1
<1>5. \A b \in D \ {t} : Next1(g, b) = Next1(h, b) /\ Next1(h, b) \in D
  BY <1>2, TiledFacts DEF Next1
<1>6. \A b \in D : (g[b].prev_inuse <=> h[b].prev_inuse) /\ g[b].prev_size = h[b].prev_size
  BY <1>1, <1>2
<1>7. FreeIn(E, g, r) = FreeIn(D, h, t)
  <2>1. t \notin FreeIn(E, g, r) /\ r \notin FreeIn(E, g, r) /\ t \notin FreeIn(D, h, t)
    BY <1>2, <1>4, FreeInMember
  <2>2. \A b \in D \ {t} : b \in FreeIn(E, g, r) <=> b \in FreeIn(D, h, t)
    BY <1>2, <1>5, <1>6, FreeInMember
  <2>3. \A b : (b \in FreeIn(E, g, r) => b \in E) /\ (b \in FreeIn(D, h, t) => b \in D)
    BY FreeInMember
  <2>4. ASSUME NEW b
        PROVE  b \in FreeIn(E, g, r) <=> b \in FreeIn(D, h, t)
    <3>1. CASE b \in D /\ b # t
      <4>1. b \in D \ {t}
        BY <3>1
      <4> QED BY <2>2, <4>1
    <3>2. CASE b = t \/ b = r
      <4>1. r \notin FreeIn(D, h, t)
        BY <1>2, <2>3
      <4> QED BY <2>1, <3>2, <4>1
    <3>3. CASE b \notin D /\ b # r
      <4>1. b \notin E
        BY <3>3
      <4> QED BY <2>3, <3>3, <4>1
    <3> QED BY <3>1, <3>2, <3>3
  <2> QED BY <2>4
<1>8. Tagged(E, g, r)
  <2>1. g[r].prev_inuse /\ g[HeapStart].prev_inuse
    BY <1>1, <1>2, <1>6
  <2>2. ASSUME NEW b \in E \ {r}
        PROVE  IF g[Next1(g, b)].prev_inuse THEN g[Next1(g, b)].prev_size = 0
               ELSE g[Next1(g, b)].prev_size = g[b].size /\ g[b].prev_inuse
    <3>1. CASE b = t
      BY <1>2, <1>4, <3>1
    <3>2. CASE b # t
      <4>1. b \in D \ {t}
        BY <3>2
      <4>2. IF h[Next1(h, b)].prev_inuse THEN h[Next1(h, b)].prev_size = 0
            ELSE h[Next1(h, b)].prev_size = h[b].size /\ h[b].prev_inuse
        BY <4>1 DEF Tagged
      <4> QED BY <1>2, <1>5, <1>6, <4>1, <4>2
    <3> QED BY <3>1, <3>2
  <2> QED BY <2>1, <2>2 DEF Tagged
<1>9. t \notin FreeIn(D, h, t)
  BY FreeInMember
<1> QED BY <1>2, <1>3, <1>7, <1>8, <1>9

LEMMA GrowTop ==
  ASSUME NEW D, NEW h, NEW t, NEW c, Tiled(D, h, t, c), Tagged(D, h, t),
         NEW n \in Nat, NEW s \in Int, s = h[t].size + n,
         NEW d \in Nat, d = c + n, NEW g, g = WithHead(h, t, s)
  PROVE  /\ Tiled(D, g, t, d) /\ Tagged(D, g, t)
         /\ FreeIn(D, g, t) = FreeIn(D, h, t)
         /\ \A b \in D \ {t} : g[b].size = h[b].size
<1>1. t \in D /\ HeapStart \in D /\ h \in [D -> Heads] /\ \A b \in D : h[b] \in Heads
  BY DEF Tiled
<1>2. PICK v : v = [size |-> s, prev_inuse |-> TRUE, prev_size |-> h[t].prev_size]
  OBVIOUS
<1>3. g = [b \in D |-> IF b # t THEN h[b] ELSE v]
  BY <1>1, <1>2 DEF WithHead
<1>4. v \in Heads
  BY <1>1, <1>2 DEF Heads
<1>5. g \in [D -> Heads] /\ g[t] = v /\ \A b \in D \ {t} : g[b] = h[b]
  BY <1>1, <1>3, <1>4
<1>6. v.size = s /\ v.prev_inuse /\ v.prev_size = h[t].prev_size
  BY <1>2
<1>7. h[t].prev_inuse
  BY DEF Tagged
<1>8. \A b \in D : (g[b].prev_inuse <=> h[b].prev_inuse) /\ g[b].prev_size = h[b].prev_size
  BY <1>1, <1>5, <1>6, <1>7
<1>9. \A b \in D \ {t} : Next1(g, b) = Next1(h, b) /\ Next1(h, b) \in D
  BY <1>5, TiledFacts DEF Next1
<1>10. Next1(g, t) = d /\ g[t].size >= MinSize
  <2>1. h[t].size \in Int /\ h[t].size >= MinSize /\ c = t + h[t].size /\ t \in Nat
    <3>1. h[t].size \in Int /\ h[t].size >= MinSize /\ t \in Nat
      BY <1>1, TiledFacts
    <3>2. c = t + h[t].size
      BY DEF Tiled, Next1
    <3> QED BY <3>1, <3>2
  <2> QED BY <1>5, <1>6, <2>1 DEF Next1, MinSize
<1>11. Tiled(D, g, t, d)
  <2>1. \A a \in D : HeapStart <= a /\ a <= t /\ g[a].size >= MinSize
    BY <1>5, <1>10 DEF Tiled
  <2>2. \A a \in D \ {t} : Next1(g, a) \in D /\ \A b \in D : b <= a \/ b >= Next1(g, a)
    BY <1>9 DEF Tiled
  <2>3. \A a \in D \ {HeapStart} : \E b \in D : Next1(g, b) = a
    <3>1. ASSUME NEW a \in D \ {HeapStart}
          PROVE  \E b \in D : Next1(g, b) = a
      <4>1. PICK b \in D : Next1(h, b) = a
        BY DEF Tiled
      <4>2. b # t
        <5>1. Next1(h, t) = c /\ c \notin D
          BY TiledFacts DEF Tiled
        <5> QED BY <4>1, <5>1
      <4> QED BY <1>9, <4>1, <4>2
    <3> QED BY <3>1
  <2> QED BY <1>1, <1>5, <1>10, <2>1, <2>2, <2>3 DEF Tiled
<1>12. FreeIn(D, g, t) = FreeIn(D, h, t)
  <2>1. \A b \in D \ {t} : b \in FreeIn(D, g, t) <=> b \in FreeIn(D, h, t)
    BY <1>8, <1>9, FreeInMember
  <2>2. \A b : (b \in FreeIn(D, g, t) \/ b \in FreeIn(D, h, t)) => b \in D \ {t}
    BY FreeInMember
  <2> QED BY <2>1, <2>2
<1>13. Tagged(D, g, t)
  <2>1. g[t].prev_inuse /\ g[HeapStart].prev_inuse
    BY <1>1, <1>8 DEF Tagged
  <2>2. ASSUME NEW b \in D \ {t}
        PROVE  IF g[Next1(g, b)].prev_inuse THEN g[Next1(g, b)].prev_size = 0
               ELSE g[Next1(g, b)].prev_size = g[b].size /\ g[b].prev_inuse
    <3>1. IF h[Next1(h, b)].prev_inuse THEN h[Next1(h, b)].prev_size = 0
          ELSE h[Next1(h, b)].prev_size = h[b].size /\ h[b].prev_inuse
      BY DEF Tagged
    <3> QED BY <1>5, <1>8, <1>9, <3>1
  <2> QED BY <2>1, <2>2 DEF Tagged
<1>14. \A b \in D \ {t} : g[b].size = h[b].size
  BY <1>5
<1> QED BY <1>11, <1>12, <1>13, <1>14

LEMMA FirstTop ==
  ASSUME NEW s \in Int, s >= MinSize, NEW h, DOMAIN h = {},
         NEW a, a = HeapStart, NEW g, g = WithHead(h, a, s), NEW d, d = a + s
  PROVE  Tiled({a}, g, a, d) /\ Tagged({a}, g, a) /\ FreeIn({a}, g, a) = {}
<1>1. PICK v : v = [size |-> s, prev_inuse |-> TRUE, prev_size |-> 0]
  OBVIOUS
<1>2. g = [b \in {a} |-> v]
  BY <1>1 DEF WithHead
<1>3. v \in Heads /\ v.size = s /\ v.prev_inuse
  BY <1>1 DEF Heads
<1>4. g \in [{a} -> Heads] /\ g[a] = v
  BY <1>2, <1>3
<1>5. a \in Nat
  BY AllocatorConstants
<1>6. Tiled({a}, g, a, d)
  BY <1>3, <1>4, <1>5 DEF Tiled, Next1
<1>7. Tagged({a}, g, a)
  BY <1>3, <1>4 DEF Tagged
<1> QED BY <1>6, <1>7, FreeInMember

(* What joining the chunks from a to e does to the heap h at the addresses D. *)
IntoFree(D, h, t, c, a, e, s, E, g) ==
  /\ Tiled(E, g, t, c) /\ Tagged(E, g, t)
  /\ FreeIn(E, g, t) = (FreeIn(D, h, t) \ (a .. e - 1)) \cup {a}
  /\ a \in E /\ g[a].size = s /\ \A b \in E \ {a} : g[b].size = h[b].size

IntoTop(D, h, t, c, a, e, s, E, g) ==
  /\ Tiled(E, g, a, c) /\ Tagged(E, g, a)
  /\ FreeIn(E, g, a) = FreeIn(D, h, t) \ (a .. e - 1)
  /\ a \in E /\ \A b \in E \ {a} : g[b].size = h[b].size

LEMMA JoinFree ==
  ASSUME NEW D, NEW h, NEW t, NEW c, Tiled(D, h, t, c), Tagged(D, h, t),
         NEW a \in Nat, a \in D, h[a].prev_inuse,
         NEW e \in Nat, e \in D, e # t, e \notin FreeIn(D, h, t), e > a,
         NEW s \in Int, s = e - a, NEW E, E = D \ (a + 1 .. e - 1),
         NEW k, k = WithHead(WithoutHeads(h, a + 1 .. e - 1), a, s),
         NEW g, g = FreeBefore(k, e, s)
  PROVE  IntoFree(D, h, t, c, a, e, s, E, g)
<1>1. e \in D \cup {c} /\ e # c
  BY TiledFacts
<1>2. k \in [E -> Heads]
  <2>1. h \in [D -> Heads] /\ JoinedInto(D, h, a, e, s, E, k)
    BY DEF Tiled, JoinedInto
  <2> QED BY <2>1, JoinHeads
<1>3. /\ k[a].size = s /\ k[a].prev_inuse /\ k[a].prev_size = h[a].prev_size
      /\ \A b \in E \ {a} : k[b] = h[b]
  <2>1. h \in [D -> Heads] /\ JoinedInto(D, h, a, e, s, E, k)
    BY DEF Tiled, JoinedInto
  <2> QED BY <2>1, JoinHeads
<1>4. Tiled(E, k, t, c)
  BY <1>1, JoinTiled
<1>5. /\ c \notin D /\ t \in D /\ HeapStart \in D /\ t \in Nat /\ e \in D \cup {c}
      /\ \A b \in D : b \in Nat /\ b <= t /\ b >= HeapStart
  <2>1. t \in D /\ HeapStart \in D
    BY DEF Tiled
  <2> QED BY <2>1, TiledFacts
<1>6. a \in E /\ e \in E /\ t \in E /\ HeapStart \in E /\ a # t
  BY <1>5
<1>7. \A b \in E : b \in D /\ (b <= a \/ b >= e)
  <2>1. ASSUME NEW b \in E
        PROVE  b \in D /\ (b <= a \/ b >= e)
    <3>1. b \in D /\ b \notin a + 1 .. e - 1
      OBVIOUS
    <3>2. b \in Nat
      BY <1>5, <3>1
    <3> QED BY <3>1, <3>2
  <2> QED BY <2>1
<1>8. PICK v : v = [size |-> k[e].size, prev_inuse |-> FALSE, prev_size |-> s]
  OBVIOUS
<1>9. g = [k EXCEPT ![e] = v]
  BY <1>8 DEF FreeBefore
<1>10. v \in Heads
  BY <1>2, <1>6, <1>8 DEF Heads
<1>11. g[e] = v /\ v.size = k[e].size /\ ~v.prev_inuse /\ v.prev_size = s
  BY <1>2, <1>6, <1>8, <1>9
<1>12. g \in [E -> Heads] /\ \A b \in E : g[b].size = k[b].size
  BY <1>2, <1>9, <1>10, <1>11
<1>13. ~g[e].prev_inuse /\ g[e].prev_size = s
  BY <1>11
<1>14. \A b \in E \ {e} : g[b] = k[b]
  BY <1>2, <1>9
<1>15. Tiled(E, g, t, c) /\ \A b \in E : Next1(g, b) = Next1(k, b)
  <2>1. \A b \in E : Next1(g, b) = Next1(k, b)
    BY <1>12 DEF Next1
  <2>2. Tiled(E, g, t, c)
    <3>1. /\ E \subseteq Nat /\ t \in E /\ Next1(k, t) = c /\ HeapStart \in E
          /\ \A b \in E : HeapStart <= b /\ b <= t /\ k[b].size >= MinSize
      BY <1>4 DEF Tiled
    <3>2. /\ \A b \in E \ {t} : Next1(k, b) \in E /\ \A d \in E : d <= b \/ d >= Next1(k, b)
          /\ \A b \in E \ {HeapStart} : \E d \in E : Next1(k, d) = b
      BY <1>4 DEF Tiled
    <3>3. Next1(g, t) = c /\ \A b \in E : g[b].size >= MinSize
      BY <1>12, <2>1, <3>1
    <3>4. \A b \in E \ {t} : Next1(g, b) \in E /\ \A d \in E : d <= b \/ d >= Next1(g, b)
      BY <2>1, <3>2
    <3>5. \A b \in E \ {HeapStart} : \E d \in E : Next1(g, d) = b
      BY <2>1, <3>2
    <3> QED BY <1>12, <3>1, <3>3, <3>4, <3>5 DEF Tiled
  <2> QED BY <2>1, <2>2
<1>16. g[a].size = s /\ \A b \in E \ {a} : g[b].size = h[b].size
  BY <1>3, <1>6, <1>12
<1>17. Next1(g, a) = e
  BY <1>16 DEF Next1
<1>18. \A b \in E \ {e} : (g[b].prev_inuse <=> h[b].prev_inuse) /\ g[b].prev_size = h[b].prev_size
  <2>1. (g[a].prev_inuse <=> h[a].prev_inuse) /\ g[a].prev_size = h[a].prev_size
    BY <1>3, <1>6, <1>14
  <2>2. \A b \in E \ {e, a} : g[b] = h[b]
    BY <1>3, <1>14
  <2> QED BY <2>1, <2>2
<1>19. \A b \in E \ {a} : Next1(g, b) = Next1(h, b)
  BY <1>16 DEF Next1
<1>20. \A b \in E \ {a, t} : Next1(h, b) \in E \ {e}
  <2>1. ASSUME NEW b \in E \ {a, t}
        PROVE  Next1(h, b) \in E \ {e}
    <3>1. Next1(g, b) \in E
      BY <1>15 DEF Tiled
    <3>2. Next1(g, b) # e
      BY <1>6, <1>15, <1>17, NextInjective
    <3> QED BY <1>19, <3>1, <3>2
  <2> QED BY <2>1
<1>21. ASSUME NEW b \in E \ {a, t}
       PROVE  /\ g[Next1(g, b)].prev_inuse <=> h[Next1(h, b)].prev_inuse
              /\ g[Next1(g, b)].prev_size = h[Next1(h, b)].prev_size
  <2>1. PICK n : n = Next1(h, b)
    OBVIOUS
  <2>2. n \in E \ {e} /\ Next1(g, b) = n
    BY <1>19, <1>20, <2>1
  <2>3. (g[n].prev_inuse <=> h[n].prev_inuse) /\ g[n].prev_size = h[n].prev_size
    BY <1>18, <2>2
  <2> QED BY <2>1, <2>2, <2>3
<1>22. FreeIn(E, g, t) = (FreeIn(D, h, t) \ (a .. e - 1)) \cup {a}
  <2>1. a \in FreeIn(E, g, t)
    BY <1>6, <1>13, <1>17, FreeInMember
  <2>2. \A b \in E \ {a, t} : b \in FreeIn(E, g, t) <=> b \in FreeIn(D, h, t)
    <3>1. ASSUME NEW b \in E \ {a, t}
          PROVE  b \in FreeIn(E, g, t) <=> b \in FreeIn(D, h, t)
      <4>1. g[Next1(g, b)].prev_inuse <=> h[Next1(h, b)].prev_inuse
        BY <1>21
      <4>2. b \in E /\ b # t /\ b \in D
        BY <1>7
      <4> QED BY <4>1, <4>2, FreeInMember
    <3> QED BY <3>1
  <2>3. \A b : (b \in FreeIn(E, g, t) => b \in E /\ b # t) /\ (b \in FreeIn(D, h, t) => b \in D /\ b # t)
    BY FreeInMember
  <2>4. ASSUME NEW b
        PROVE  b \in FreeIn(E, g, t) <=> (b \in FreeIn(D, h, t) /\ b \notin a .. e - 1) \/ b = a
    <3>1. CASE b = a
      BY <2>1, <3>1
    <3>2. CASE b \in E /\ b # a /\ b # t
      <4>1. b \in E \ {a, t} /\ b \notin a .. e - 1
        BY <1>5, <1>7, <3>2
      <4> QED BY <2>2, <3>2, <4>1
    <3>3. CASE b \notin E /\ b # a
      <4>1. b \notin FreeIn(E, g, t)
        BY <2>3, <3>3
      <4>2. b \in FreeIn(D, h, t) => b \in a .. e - 1
        BY <2>3, <3>3
      <4> QED BY <3>3, <4>1, <4>2
    <3>4. CASE b = t /\ b # a
      BY <2>3, <3>4
    <3> QED BY <3>1, <3>2, <3>3, <3>4
  <2> QED BY <2>4
<1>23. Tagged(E, g, t)
  <2>1. h[t].prev_inuse /\ h[HeapStart].prev_inuse
    BY DEF Tagged
  <2>2. HeapStart # e
    BY <1>5, AllocatorConstants
  <2>3. g[t].prev_inuse /\ g[HeapStart].prev_inuse
    BY <1>6, <1>18, <2>1, <2>2
  <2>4. ASSUME NEW b \in E \ {t}
        PROVE  IF g[Next1(g, b)].prev_inuse THEN g[Next1(g, b)].prev_size = 0
               ELSE g[Next1(g, b)].prev_size = g[b].size /\ g[b].prev_inuse
    <3>1. CASE b = a
      <4>1. g[a].prev_inuse
        BY <1>6, <1>18
      <4> QED BY <1>13, <1>16, <1>17, <3>1, <4>1
    <3>2. CASE b # a
      <4>1. b \in D \ {t} /\ b \in E \ {a} /\ b \in E \ {a, t}
        BY <1>7, <3>2
      <4>2. IF h[Next1(h, b)].prev_inuse THEN h[Next1(h, b)].prev_size = 0
            ELSE h[Next1(h, b)].prev_size = h[b].size /\ h[b].prev_inuse
        BY <4>1 DEF Tagged
      <4>3. /\ g[Next1(g, b)].prev_inuse <=> h[Next1(h, b)].prev_inuse
            /\ g[Next1(g, b)].prev_size = h[Next1(h, b)].prev_size
        BY <1>21, <4>1
      <4>4. g[b].size = h[b].size
        BY <1>16, <4>1
      <4>5. ~h[Next1(h, b)].prev_inuse => b # e
        BY <4>1, FreeInMember
      <4>6. b # e => (g[b].prev_inuse <=> h[b].prev_inuse)
        BY <1>18
      <4> QED BY <4>2, <4>3, <4>4, <4>5, <4>6
    <3> QED BY <3>1, <3>2
  <2> QED BY <2>3, <2>4 DEF Tagged
<1> QED BY <1>6, <1>15, <1>16, <1>22, <1>23 DEF IntoFree

LEMMA JoinTop ==
  ASSUME NEW D, NEW h, NEW t, NEW c, Tiled(D, h, t, c), Tagged(D, h, t),
         NEW a \in Nat, a \in D, h[a].prev_inuse,
         NEW e \in Nat, e = c, e > a,
         NEW s \in Int, s = e - a, NEW E, E = D \ (a + 1 .. e - 1),
         NEW g, g = WithHead(WithoutHeads(h, a + 1 .. e - 1), a, s)
  PROVE  IntoTop(D, h, t, c, a, e, s, E, g)
<1>1. /\ t \in D /\ HeapStart \in D /\ t \in Nat
      /\ \A b \in D : b \in Nat /\ b <= t /\ b >= HeapStart /\ b < c
  <2>1. t \in D /\ HeapStart \in D
    BY DEF Tiled
  <2> QED BY <2>1, TiledFacts
<1>2. e \in D \cup {c}
  OBVIOUS
<1>3. a \in E /\ HeapStart \in E
  BY <1>1
<1>4. \A b \in E : b \in D /\ b <= a
  BY <1>1
<1>5. h \in [D -> Heads] /\ JoinedInto(D, h, a, e, s, E, g)
  BY DEF Tiled, JoinedInto
<1>6. g[a].size = s /\ g[a].prev_inuse /\ g[a].prev_size = h[a].prev_size
  BY <1>5, JoinHeads
<1>7. \A b \in E \ {a} : g[b] = h[b]
  BY <1>5, JoinHeads
<1>8. Tiled(E, g, a, c)
  BY <1>2, JoinTiled
<1>9. \A b \in E : (g[b].prev_inuse <=> h[b].prev_inuse) /\ g[b].prev_size = h[b].prev_size
  BY <1>3, <1>6, <1>7
<1>10. \A b \in E \ {a} : Next1(g, b) = Next1(h, b) /\ b # t
  <2>1. \A b \in E \ {a} : Next1(g, b) = Next1(h, b)
    BY <1>7 DEF Next1
  <2>2. \A b \in E \ {a} : b # t
    BY <1>1, <1>4
  <2> QED BY <2>1, <2>2
<1>11. \A b \in E \ {a} : Next1(h, b) \in E
  <2>1. \A b \in E \ {a} : Next1(g, b) \in E
    BY <1>8 DEF Tiled
  <2> QED BY <1>10, <2>1
<1>12. ASSUME NEW b \in E \ {a}
       PROVE  /\ g[Next1(g, b)].prev_inuse <=> h[Next1(h, b)].prev_inuse
              /\ g[Next1(g, b)].prev_size = h[Next1(h, b)].prev_size
  <2>1. PICK n : n = Next1(h, b)
    OBVIOUS
  <2>2. n \in E /\ Next1(g, b) = n
    BY <1>10, <1>11, <2>1
  <2>3. (g[n].prev_inuse <=> h[n].prev_inuse) /\ g[n].prev_size = h[n].prev_size
    BY <1>9, <2>2
  <2> QED BY <2>1, <2>2, <2>3
<1>13. FreeIn(E, g, a) = FreeIn(D, h, t) \ (a .. e - 1)
  <2>1. \A b \in E \ {a} : b \in FreeIn(E, g, a) <=> b \in FreeIn(D, h, t)
    <3>1. ASSUME NEW b \in E \ {a}
          PROVE  b \in FreeIn(E, g, a) <=> b \in FreeIn(D, h, t)
      <4>1. g[Next1(g, b)].prev_inuse <=> h[Next1(h, b)].prev_inuse
        BY <1>12
      <4>2. b \in E /\ b # a /\ b \in D /\ b # t
        BY <1>4, <1>10
      <4> QED BY <4>1, <4>2, FreeInMember
    <3> QED BY <3>1
  <2>2. \A b : (b \in FreeIn(E, g, a) => b \in E /\ b # a) /\ (b \in FreeIn(D, h, t) => b \in D)
    BY FreeInMember
  <2>3. ASSUME NEW b
        PROVE  b \in FreeIn(E, g, a) <=> b \in FreeIn(D, h, t) /\ b \notin a .. e - 1
    <3>1. CASE b \in E \ {a}
      <4>1. b \notin a .. e - 1
        BY <1>1, <1>4, <3>1
      <4> QED BY <2>1, <3>1, <4>1
    <3>2. CASE b \notin E \ {a}
      <4>1. b \notin FreeIn(E, g, a)
        BY <2>2, <3>2
      <4>2. b \in D => b \in a .. e - 1
        BY <1>1, <3>2
      <4> QED BY <2>2, <4>1, <4>2
    <3> QED BY <3>1, <3>2
  <2> QED BY <2>3
<1>14. Tagged(E, g, a)
  <2>1. g[a].prev_inuse /\ g[HeapStart].prev_inuse
    BY <1>3, <1>6, <1>9 DEF Tagged
  <2>2. ASSUME NEW b \in E \ {a}
        PROVE  IF g[Next1(g, b)].prev_inuse THEN g[Next1(g, b)].prev_size = 0
               ELSE g[Next1(g, b)].prev_size = g[b].size /\ g[b].prev_inuse
    <3>1. b \in D \ {t} /\ b \in E
      BY <1>4, <1>10
    <3>2. IF h[Next1(h, b)].prev_inuse THEN h[Next1(h, b)].prev_size = 0
          ELSE h[Next1(h, b)].prev_size = h[b].size /\ h[b].prev_inuse
      BY <3>1 DEF Tagged
    <3>3. /\ g[Next1(g, b)].prev_inuse <=> h[Next1(h, b)].prev_inuse
          /\ g[Next1(g, b)].prev_size = h[Next1(h, b)].prev_size
      BY <1>12
    <3>4. g[b].size = h[b].size
      BY <1>7
    <3> QED BY <1>9, <3>1, <3>2, <3>3, <3>4
  <2> QED BY <2>1, <2>2 DEF Tagged
<1>15. \A b \in E \ {a} : g[b].size = h[b].size
  BY <1>7
<1> QED BY <1>3, <1>8, <1>13, <1>14, <1>15 DEF IntoTop

-------------------------------------------------------------------------------
(***************************************************************************)
(* The numbers: sizes of chunks, and the bins of sizes.                    *)
(***************************************************************************)
LEMMA LargeBins ==
  ASSUME NEW n \in Nat
  PROVE  /\ Cardinality({s \in LargeSizes : s <= n}) \in Nat
         /\ Cardinality(LargeSizes) \in Nat
         /\ Cardinality({s \in LargeSizes : s <= n}) <= Cardinality(LargeSizes)
<1>1. IsFiniteSet(LargeSizes)
  BY AllocatorConstants
<1>2. {s \in LargeSizes : s <= n} \in SUBSET LargeSizes
  OBVIOUS
<1>3. /\ IsFiniteSet({s \in LargeSizes : s <= n})
      /\ Cardinality({s \in LargeSizes : s <= n}) <= Cardinality(LargeSizes)
  BY <1>1, <1>2, FS_Subset
<1> QED BY <1>1, <1>3, FS_CardinalityType

LEMMA LargeBinsGrow ==
  ASSUME NEW m \in Nat, NEW n \in Nat, m <= n
  PROVE  Cardinality({s \in LargeSizes : s <= m}) <= Cardinality({s \in LargeSizes : s <= n})
<1>1. IsFiniteSet(LargeSizes) /\ \A s \in LargeSizes : s \in Nat
  BY AllocatorConstants
<1>2. {s \in LargeSizes : s <= n} \in SUBSET LargeSizes
  OBVIOUS
<1>3. IsFiniteSet({s \in LargeSizes : s <= n})
  BY <1>1, <1>2, FS_Subset
<1>4. {s \in LargeSizes : s <= m} \in SUBSET {s \in LargeSizes : s <= n}
  BY <1>1
<1> QED BY <1>3, <1>4, FS_Subset

LEMMA ConstantFacts ==
  /\ HeapStart \in Nat /\ HeapEnd \in Nat /\ PageSize \in Nat /\ PageSize > 0
  /\ MinLarge \in Nat /\ MinLarge >= MinSize /\ MaxFast \in Nat /\ MaxFast < MinLarge
BY AllocatorConstants DEF MinSize

(* Larger chunks are in the same bin or in a later one. *)
LEMMA BinIndexFacts ==
  ASSUME NEW n \in Nat, n >= MinSize
  PROVE  /\ BinIndex(n) \in Bins /\ BinIndex(n) \in Nat
         /\ n < MinLarge => BinIndex(n) = n
         /\ n >= MinLarge => BinIndex(n) >= MinLarge
<1>1. PICK k : k = Cardinality({s \in LargeSizes : s <= n})
  OBVIOUS
<1>2. PICK l : l = Cardinality(LargeSizes)
  OBVIOUS
<1>3. k \in Nat /\ l \in Nat /\ k <= l
  BY <1>1, <1>2, LargeBins
<1>4. BinIndex(n) = IF n < MinLarge THEN n ELSE MinLarge + k
  BY <1>1 DEF BinIndex, in_smallbin_range, LargeIndex
<1>5. Bins = MinSize .. MinLarge + l
  BY <1>2 DEF Bins
<1> QED BY <1>3, <1>4, <1>5, ConstantFacts DEF MinSize

LEMMA BinIndexGrows ==
  ASSUME NEW m \in Nat, NEW n \in Nat, m >= MinSize, m <= n
  PROVE  BinIndex(m) <= BinIndex(n)
<1>1. n >= MinSize
  BY DEF MinSize
<1>2. CASE n < MinLarge \/ m < MinLarge
  BY <1>1, <1>2, BinIndexFacts, ConstantFacts
<1>3. CASE n >= MinLarge /\ m >= MinLarge
  <2>1. PICK k : k = Cardinality({s \in LargeSizes : s <= m})
    OBVIOUS
  <2>2. PICK l : l = Cardinality({s \in LargeSizes : s <= n})
    OBVIOUS
  <2>3. k \in Nat /\ l \in Nat /\ k <= l
    BY <2>1, <2>2, LargeBins, LargeBinsGrow
  <2>4. BinIndex(m) = MinLarge + k /\ BinIndex(n) = MinLarge + l
    BY <1>3, <2>1, <2>2, ConstantFacts DEF BinIndex, in_smallbin_range, LargeIndex
  <2> QED BY <2>3, <2>4, ConstantFacts
<1> QED BY <1>2, <1>3, ConstantFacts

LEMMA ChunkForFacts ==
  ASSUME NEW n \in Lengths
  PROVE  ChunkFor(n) \in Nat /\ ChunkFor(n) >= MinSize
<1>1. n \in Nat
  BY AllocatorConstants
<1>2. PICK k : k = (n + GuardWords + 1 + 1) \div 2
  OBVIOUS
<1>3. k \in Nat
  BY <1>1, <1>2 DEF GuardWords
<1>4. ChunkFor(n) = IF MinSize > k THEN MinSize ELSE k
  BY <1>2 DEF ChunkFor, request2size, Max2
<1> QED BY <1>3, <1>4 DEF MinSize

(* The memory that is asked for ends on a page and is not less than needed. *)
LEMMA RoundUpFacts ==
  ASSUME NEW n \in Int
  PROVE  RoundUp(n) \in Int /\ RoundUp(n) >= n
<1>1. PageSize \in Nat /\ PageSize > 0
  BY ConstantFacts
<1>2. PICK m : m = n + PageSize - 1
  OBVIOUS
<1>3. m \in Int
  BY <1>1, <1>2
<1>4. PICK q : q = m \div PageSize
  OBVIOUS
<1>5. q \in Int /\ m = PageSize * q + (m % PageSize) /\ m % PageSize \in 0 .. PageSize - 1
  BY <1>1, <1>3, <1>4
<1>6. PageSize * q = q * PageSize /\ q * PageSize \in Int
  BY <1>1, <1>5
<1>7. RoundUp(n) = q * PageSize
  BY <1>2, <1>4 DEF RoundUp
<1> QED BY <1>1, <1>2, <1>3, <1>5, <1>6, <1>7

-------------------------------------------------------------------------------
(***************************************************************************)
(* The lists: what is taken out, and what is put in.                       *)
(***************************************************************************)
LEMMA ListsUnlinked ==
  ASSUME NEW s \in Seq(Nat), NEW S, Lists(s, S), NEW a
  PROVE  Unlinked(s, a) \in Seq(Nat) /\ Lists(Unlinked(s, a), S \ {a})
<1>1. Len(s) \in Nat /\ DOMAIN s = 1 .. Len(s)
  BY LenProperties
<1>2. CASE Contains(s, a)
  <2>1. PICK i : i = CHOOSE j \in DOMAIN s : s[j] = a
    OBVIOUS
  <2>2. i \in 1 .. Len(s) /\ s[i] = a
    <3>1. \E j \in DOMAIN s : s[j] = a
      BY <1>1, <1>2 DEF Contains
    <3> QED BY <1>1, <2>1, <3>1
  <2>3. Unlinked(s, a) = RemoveAt(s, i)
    BY <1>2, <2>1 DEF Unlinked
  <2>4. Lists(RemoveAt(s, i), S \ {a})
    BY <2>2, ListsRemoveAt
  <2>5. RemoveAt(s, i) \in Seq(Nat)
    BY <2>2, RemoveAtProperties
  <2> QED BY <2>3, <2>4, <2>5
<1>3. CASE ~Contains(s, a)
  <2>1. Unlinked(s, a) = s
    BY <1>3 DEF Unlinked
  <2>2. a \notin S
    BY <1>3, ListsMember DEF Contains
  <2>3. S \ {a} = S
    BY <2>2
  <2> QED BY <2>1, <2>3
<1> QED BY <1>2, <1>3

LEMMA UnlinkedEmpty ==
  ASSUME NEW a
  PROVE  Unlinked(<<>>, a) = <<>>
<1>1. ~Contains(<<>>, a)
  <2>1. Len(<<>>) = 0
    OBVIOUS
  <2> QED BY <2>1 DEF Contains
<1> QED BY <1>1 DEF Unlinked

Descending(h, s) ==
  \A k, l \in 1 .. Len(s) : k < l => h[s[k]].size >= h[s[l]].size

LEMMA DescendingRemoveAt ==
  ASSUME NEW h, NEW s \in Seq(Nat), Descending(h, s), NEW i \in 1 .. Len(s)
  PROVE  Descending(h, RemoveAt(s, i))
<1>1. Len(s) \in Nat
  BY LenProperties
<1>2. PICK r : r = RemoveAt(s, i)
  OBVIOUS
<1>3. Len(r) = Len(s) - 1 /\ \A j \in 1 .. Len(s) - 1 : r[j] = IF j < i THEN s[j] ELSE s[j + 1]
  BY <1>2, RemoveAtProperties
<1>4. ASSUME NEW k \in 1 .. Len(s) - 1, NEW l \in 1 .. Len(s) - 1, k < l
      PROVE  h[r[k]].size >= h[r[l]].size
  <2>1. PICK k1 \in 1 .. Len(s) : k1 = IF k < i THEN k ELSE k + 1
    BY <1>1
  <2>2. PICK l1 \in 1 .. Len(s) : l1 = IF l < i THEN l ELSE l + 1
    BY <1>1
  <2>3. r[k] = s[k1] /\ r[l] = s[l1]
    BY <1>3, <2>1, <2>2
  <2>4. k1 < l1
    BY <1>1, <1>4, <2>1, <2>2
  <2> QED BY <2>3, <2>4 DEF Descending
<1> QED BY <1>1, <1>2, <1>3, <1>4 DEF Descending

LEMMA DescendingFront ==
  ASSUME NEW h, NEW s \in Seq(Nat), Descending(h, s), s # <<>>
  PROVE  Descending(h, Front(s))
<1>1. Len(s) \in Nat
  BY LenProperties
<1>2. PICK r : r = Front(s)
  OBVIOUS
<1>3. Len(r) = Len(s) - 1 /\ \A j \in 1 .. Len(s) - 1 : r[j] = s[j]
  BY <1>2, FrontProperties
<1>4. ASSUME NEW k \in 1 .. Len(s) - 1, NEW l \in 1 .. Len(s) - 1, k < l
      PROVE  h[r[k]].size >= h[r[l]].size
  <2>1. r[k] = s[k] /\ r[l] = s[l] /\ k \in 1 .. Len(s) /\ l \in 1 .. Len(s)
    BY <1>1, <1>3
  <2> QED BY <1>4, <2>1 DEF Descending
<1> QED BY <1>1, <1>2, <1>3, <1>4 DEF Descending

LEMMA DescendingUnlinked ==
  ASSUME NEW h, NEW s \in Seq(Nat), Descending(h, s), NEW a
  PROVE  Descending(h, Unlinked(s, a))
<1>1. Len(s) \in Nat /\ DOMAIN s = 1 .. Len(s)
  BY LenProperties
<1>2. CASE Contains(s, a)
  <2>1. PICK i : i = CHOOSE j \in DOMAIN s : s[j] = a
    OBVIOUS
  <2>2. i \in 1 .. Len(s)
    <3>1. \E j \in DOMAIN s : s[j] = a
      BY <1>1, <1>2 DEF Contains
    <3> QED BY <1>1, <2>1, <3>1
  <2>3. Unlinked(s, a) = RemoveAt(s, i)
    BY <1>2, <2>1 DEF Unlinked
  <2> QED BY <2>2, <2>3, DescendingRemoveAt
<1>3. CASE ~Contains(s, a)
  BY <1>3 DEF Unlinked
<1> QED BY <1>2, <1>3

LEMMA DescendingInsertAt ==
  ASSUME NEW h, NEW S, NEW s \in Seq(S), Descending(h, s), NEW e \in S, NEW p \in 1 .. Len(s) + 1,
         \A j \in 1 .. Len(s) : j < p => h[s[j]].size >= h[e].size,
         \A j \in 1 .. Len(s) : j >= p => h[e].size >= h[s[j]].size
  PROVE  Descending(h, InsertAt(s, p, e))
<1>1. Len(s) \in Nat
  BY LenProperties
<1>2. /\ Len(InsertAt(s, p, e)) = Len(s) + 1 /\ InsertAt(s, p, e)[p] = e
      /\ \A k \in 1 .. Len(s) + 1 :
           k # p => /\ InsertAt(s, p, e)[k] = s[Shifted(k, p)]
                    /\ Shifted(k, p) \in 1 .. Len(s)
  BY InsertAtOld
<1>3. PICK r : r = InsertAt(s, p, e)
  OBVIOUS
<1>4. Len(r) = Len(s) + 1 /\ r[p] = e
  BY <1>2, <1>3
<1>5. \A k \in 1 .. Len(s) + 1 :
        k # p => r[k] = s[Shifted(k, p)] /\ Shifted(k, p) \in 1 .. Len(s)
  BY <1>2, <1>3
<1>6. ASSUME NEW k \in 1 .. Len(s) + 1, NEW l \in 1 .. Len(s) + 1, k < l
      PROVE  h[r[k]].size >= h[r[l]].size
  <2>1. CASE l = p
    <3>1. PICK i \in 1 .. Len(s) : i = Shifted(k, p) /\ r[k] = s[i]
      BY <1>1, <1>5, <1>6, <2>1
    <3>2. i < p
      BY <1>1, <1>6, <2>1, <3>1 DEF Shifted
    <3> QED BY <1>4, <2>1, <3>1, <3>2
  <2>2. CASE k = p
    <3>1. PICK j \in 1 .. Len(s) : j = Shifted(l, p) /\ r[l] = s[j]
      BY <1>1, <1>5, <1>6, <2>2
    <3>2. j >= p
      BY <1>1, <1>6, <2>2, <3>1 DEF Shifted
    <3> QED BY <1>4, <2>2, <3>1, <3>2
  <2>3. CASE k # p /\ l # p
    <3>1. PICK i \in 1 .. Len(s) : i = Shifted(k, p) /\ r[k] = s[i]
      BY <1>5, <2>3
    <3>2. PICK j \in 1 .. Len(s) : j = Shifted(l, p) /\ r[l] = s[j]
      BY <1>5, <2>3
    <3>3. i < j
      BY <1>1, <1>6, <2>3, <3>1, <3>2 DEF Shifted
    <3> QED BY <3>1, <3>2, <3>3 DEF Descending
  <2> QED BY <2>1, <2>2, <2>3
<1>7. \A k, l \in 1 .. Len(r) : k < l => h[r[k]].size >= h[r[l]].size
  BY <1>4, <1>6
<1> QED BY <1>3, <1>7 DEF Descending

(* Where a chunk of n units goes: after all that are larger. *)
LEMMA PlaceFacts ==
  ASSUME NEW s \in Seq(Nat), Descending(heap, s), NEW n \in Nat,
         \A j \in 1 .. Len(s) : size(s[j]) \in Int,
         in_smallbin_range(n) => \A j \in 1 .. Len(s) : size(s[j]) = n
  PROVE  /\ Place(n, s) \in 1 .. Len(s) + 1
         /\ \A j \in 1 .. Len(s) : j < Place(n, s) => size(s[j]) >= n
         /\ \A j \in 1 .. Len(s) : j >= Place(n, s) => n >= size(s[j])
<1>1. Len(s) \in Nat /\ DOMAIN s = 1 .. Len(s)
  BY LenProperties
<1>2. CASE in_smallbin_range(n) \/ s = <<>>
  <2>1. Place(n, s) = 1
    BY <1>2 DEF Place
  <2>2. \A j \in 1 .. Len(s) : size(s[j]) = n
    <3>1. CASE in_smallbin_range(n)
      BY <3>1
    <3>2. CASE s = <<>>
      <4>1. Len(s) = 0
        BY <3>2
      <4> QED BY <4>1
    <3> QED BY <1>2, <3>1, <3>2
  <2> QED BY <1>1, <2>1, <2>2
<1>3. CASE ~(in_smallbin_range(n) \/ s = <<>>) /\ n <= size(Last(s))
  <2>1. Place(n, s) = Len(s) + 1
    BY <1>3 DEF Place
  <2>2. Len(s) >= 1 /\ Last(s) = s[Len(s)]
    BY <1>1, <1>3, EmptySeq DEF Last
  <2>3. ASSUME NEW j \in 1 .. Len(s)
        PROVE  size(s[j]) >= n
    <3>1. CASE j = Len(s)
      BY <1>3, <2>2, <3>1
    <3>2. CASE j # Len(s)
      <4>1. j < Len(s) /\ Len(s) \in 1 .. Len(s)
        <5>1. Len(s) \in Nat
          BY <1>1
        <5>2. j \in Nat /\ j >= 1 /\ j <= Len(s)
          BY <5>1
        <5> QED BY <3>2, <5>1, <5>2
      <4>2. size(s[j]) >= size(s[Len(s)])
        BY <4>1 DEF Descending, size
      <4> QED BY <1>3, <2>2, <4>1, <4>2
    <3> QED BY <3>1, <3>2
  <2> QED BY <1>1, <2>1, <2>3
<1>4. CASE ~(in_smallbin_range(n) \/ s = <<>>) /\ ~(n <= size(Last(s)))
  <2> DEFINE P(i) == size(s[i]) <= n /\ \A j \in 1 .. i - 1 : size(s[j]) > n
  <2>1. PICK i : i = CHOOSE j \in DOMAIN s : P(j)
    OBVIOUS
  <2>2. Place(n, s) = i
    BY <1>4, <2>1 DEF Place
  <2>3. Len(s) >= 1 /\ Last(s) = s[Len(s)]
    BY <1>1, <1>4, EmptySeq DEF Last
  <2>4. PICK T : T = {j \in 1 .. Len(s) : size(s[j]) <= n}
    OBVIOUS
  <2>5. T \subseteq Nat /\ Len(s) \in T
    BY <1>1, <1>4, <2>3, <2>4
  <2>6. PICK m \in T : \A j \in T : m <= j
    BY <2>5, LeastNatural
  <2>7. m \in DOMAIN s /\ P(m)
    <3>1. m \in 1 .. Len(s) /\ size(s[m]) <= n
      BY <2>4
    <3>2. ASSUME NEW j \in 1 .. m - 1
          PROVE  size(s[j]) > n
      <4>1. j \in 1 .. Len(s) /\ j \notin T
        BY <1>1, <2>6, <3>1
      <4> QED BY <2>4, <4>1
    <3> QED BY <1>1, <3>1, <3>2
  <2>8. i \in DOMAIN s /\ P(i)
    <3> HIDE DEF P
    <3> QED BY <2>1, <2>7
  <2>9. ASSUME NEW j \in 1 .. Len(s)
        PROVE  (j < i => size(s[j]) >= n) /\ (j >= i => n >= size(s[j]))
    <3>1. i \in 1 .. Len(s) /\ size(s[i]) <= n /\ \A l \in 1 .. i - 1 : size(s[l]) > n
      BY <1>1, <2>8
    <3>2. CASE j < i
      <4>1. j \in 1 .. i - 1
        BY <3>1, <3>2
      <4>2. size(s[j]) > n
        BY <3>1, <4>1
      <4> QED BY <3>1, <3>2, <4>2
    <3>3. CASE j = i
      BY <3>1, <3>3
    <3>4. CASE j > i
      <4>1. size(s[i]) >= size(s[j])
        BY <3>1, <3>4 DEF Descending, size
      <4> QED BY <3>1, <3>4, <4>1
    <3> QED BY <3>1, <3>2, <3>3, <3>4
  <2> QED BY <1>1, <2>2, <2>8, <2>9
<1> QED BY <1>2, <1>3, <1>4

-------------------------------------------------------------------------------
(***************************************************************************)
(* The chunks of S are the ones in the bins b, each in the bin of its size *)
(* according to the heap h.                                                *)
(***************************************************************************)
OfBin(S, h, i) == {a \in S : BinIndex(h[a].size) = i}

Binned(S, h, b) ==
  /\ b \in [Bins -> Seq(Nat)]
  /\ \A i \in Bins : Lists(b[i], OfBin(S, h, i)) /\ Descending(h, b[i])

LEMMA BinnedSame ==
  ASSUME NEW S, NEW h, NEW b, Binned(S, h, b), NEW g, \A a \in S : g[a].size = h[a].size
  PROVE  Binned(S, g, b)
<1>1. \A i : OfBin(S, g, i) = OfBin(S, h, i)
  BY DEF OfBin
<1>2. ASSUME NEW i \in Bins
      PROVE  Descending(g, b[i])
  <2>1. b[i] \in Seq(Nat) /\ Lists(b[i], OfBin(S, h, i)) /\ Descending(h, b[i])
    BY DEF Binned
  <2>2. \A k \in 1 .. Len(b[i]) : b[i][k] \in OfBin(S, h, i)
    BY <2>1, ListsMember
  <2>3. \A k \in 1 .. Len(b[i]) : g[b[i][k]].size = h[b[i][k]].size
    BY <2>2 DEF OfBin
  <2> QED BY <2>1, <2>3 DEF Descending
<1> QED BY <1>1, <1>2 DEF Binned

(* What is in a bin. *)
LEMMA BinnedMember ==
  ASSUME NEW S, NEW h, NEW b, Binned(S, h, b), NEW i \in Bins
  PROVE  /\ b[i] \in Seq(Nat) /\ Lists(b[i], OfBin(S, h, i)) /\ Descending(h, b[i])
         /\ \A k \in 1 .. Len(b[i]) : b[i][k] \in S /\ BinIndex(h[b[i][k]].size) = i
         /\ \A a \in S : BinIndex(h[a].size) = i => \E k \in 1 .. Len(b[i]) : b[i][k] = a
<1>1. b[i] \in Seq(Nat) /\ Lists(b[i], OfBin(S, h, i)) /\ Descending(h, b[i])
  BY DEF Binned
<1>2. /\ \A x : x \in OfBin(S, h, i) <=> \E k \in 1 .. Len(b[i]) : b[i][k] = x
      /\ \A k \in 1 .. Len(b[i]) : b[i][k] \in OfBin(S, h, i)
  BY <1>1, ListsMember
<1>3. \A x : x \in OfBin(S, h, i) <=> x \in S /\ BinIndex(h[x].size) = i
  BY DEF OfBin
<1> QED BY <1>1, <1>2, <1>3

(* A chunk is taken out of its bin. *)
LEMMA BinnedTake ==
  ASSUME NEW S, NEW h, NEW b, Binned(S, h, b), NEW i \in Bins,
         NEW a, a \in S, BinIndex(h[a].size) = i,
         NEW w, w \in Seq(Nat), Lists(w, OfBin(S, h, i) \ {a}), Descending(h, w),
         NEW c, c = [b EXCEPT ![i] = w]
  PROVE  Binned(S \ {a}, h, c)
<1>1. c \in [Bins -> Seq(Nat)] /\ c[i] = w /\ \A j \in Bins \ {i} : c[j] = b[j]
  BY DEF Binned
<1>2. OfBin(S \ {a}, h, i) = OfBin(S, h, i) \ {a}
  BY DEF OfBin
<1>3. \A j \in Bins \ {i} : OfBin(S \ {a}, h, j) = OfBin(S, h, j)
  BY DEF OfBin
<1>4. Lists(c[i], OfBin(S \ {a}, h, i)) /\ Descending(h, c[i])
  BY <1>1, <1>2
<1>5. \A j \in Bins \ {i} : Lists(c[j], OfBin(S \ {a}, h, j)) /\ Descending(h, c[j])
  BY <1>1, <1>3 DEF Binned
<1> QED BY <1>1, <1>4, <1>5 DEF Binned

(* A chunk is taken out of wherever it may be. *)
LEMMA BinnedUnlink ==
  ASSUME NEW S, NEW h, NEW b, Binned(S, h, b), NEW a,
         NEW c, c = [i \in Bins |-> Unlinked(b[i], a)]
  PROVE  Binned(S \ {a}, h, c)
<1>1. ASSUME NEW i \in Bins
      PROVE  /\ c[i] \in Seq(Nat) /\ Descending(h, c[i])
             /\ Lists(c[i], OfBin(S \ {a}, h, i))
  <2>1. b[i] \in Seq(Nat) /\ Lists(b[i], OfBin(S, h, i)) /\ Descending(h, b[i])
    BY DEF Binned
  <2>2. c[i] = Unlinked(b[i], a)
    OBVIOUS
  <2>3. Unlinked(b[i], a) \in Seq(Nat) /\ Lists(Unlinked(b[i], a), OfBin(S, h, i) \ {a})
    BY <2>1, ListsUnlinked
  <2>4. Descending(h, Unlinked(b[i], a))
    BY <2>1, DescendingUnlinked
  <2>5. OfBin(S \ {a}, h, i) = OfBin(S, h, i) \ {a}
    BY DEF OfBin
  <2> QED BY <2>2, <2>3, <2>4, <2>5
<1>2. c \in [Bins -> Seq(Nat)]
  BY <1>1
<1> QED BY <1>1, <1>2 DEF Binned

LEMMA BinnedRest ==
  ASSUME NEW S, NEW h, NEW b, Binned(S, h, b), NEW x, NEW y,
         NEW c, c = [i \in Bins |-> Unlinked(Unlinked(b[i], x), y)]
  PROVE  Binned(S \ {x, y}, h, c)
<1>1. PICK d : d = [i \in Bins |-> Unlinked(b[i], x)]
  OBVIOUS
<1>2. Binned(S \ {x}, h, d)
  BY <1>1, BinnedUnlink
<1>3. c = [i \in Bins |-> Unlinked(d[i], y)]
  BY <1>1
<1>4. Binned((S \ {x}) \ {y}, h, c)
  BY <1>2, <1>3, BinnedUnlink
<1>5. (S \ {x}) \ {y} = S \ {x, y}
  OBVIOUS
<1> QED BY <1>4, <1>5

(* The chunk that the loop over the unsorted ones puts into its bin. *)
LEMMA BinnedPlace ==
  ASSUME NEW S, NEW b, Binned(S, heap, b), NEW a, a \in Nat, a \notin S,
         \A x \in S \cup {a} : size(x) \in Nat /\ size(x) >= MinSize,
         NEW n \in Nat, n = size(a), NEW i, i = BinIndex(n),
         NEW c, c = [b EXCEPT ![i] = InsertAt(@, Place(n, @), a)]
  PROVE  Binned(S \cup {a}, heap, c)
<1>1. i \in Bins /\ b \in [Bins -> Seq(Nat)]
  BY BinIndexFacts DEF Binned
<1>2. PICK s : s = b[i]
  OBVIOUS
<1>3. /\ s \in Seq(Nat) /\ Lists(s, OfBin(S, heap, i)) /\ Descending(heap, s)
      /\ \A k \in 1 .. Len(s) : s[k] \in S /\ BinIndex(heap[s[k]].size) = i
  BY <1>1, <1>2, BinnedMember
<1>4. PICK p : p = Place(n, s)
  OBVIOUS
<1>5. \A j \in 1 .. Len(s) : size(s[j]) \in Nat /\ size(s[j]) >= MinSize /\ BinIndex(size(s[j])) = i
  BY <1>3 DEF size
<1>6. in_smallbin_range(n) => \A j \in 1 .. Len(s) : size(s[j]) = n
  <2>1. ASSUME NEW j \in 1 .. Len(s), n < MinLarge
        PROVE  size(s[j]) = n
    <3>1. PICK m \in Nat : m = size(s[j])
      BY <1>5
    <3>2. m >= MinSize /\ BinIndex(m) = i
      BY <1>5, <3>1
    <3>3. n >= MinSize
      OBVIOUS
    <3>4. BinIndex(n) = n
      BY <2>1, <3>3, BinIndexFacts
    <3>5. m < MinLarge
      BY <2>1, <3>2, <3>4, BinIndexFacts, ConstantFacts
    <3>6. BinIndex(m) = m
      BY <3>2, <3>5, BinIndexFacts
    <3> QED BY <3>1, <3>2, <3>4, <3>6
  <2> QED BY <2>1 DEF in_smallbin_range
<1>7. \A j \in 1 .. Len(s) : size(s[j]) \in Int
  BY <1>5
<1>8. /\ p \in 1 .. Len(s) + 1
      /\ \A j \in 1 .. Len(s) : j < p => size(s[j]) >= n
      /\ \A j \in 1 .. Len(s) : j >= p => n >= size(s[j])
  BY <1>3, <1>4, <1>6, <1>7, PlaceFacts
<1>9. /\ \A j \in 1 .. Len(s) : j < p => heap[s[j]].size >= heap[a].size
      /\ \A j \in 1 .. Len(s) : j >= p => heap[a].size >= heap[s[j]].size
  BY <1>8 DEF size
<1>10. PICK w : w = InsertAt(s, p, a)
  OBVIOUS
<1>11. a \notin OfBin(S, heap, i)
  BY DEF OfBin
<1>12. w \in Seq(Nat)
  BY <1>3, <1>8, <1>10, InsertAtProperties
<1>13. Lists(w, OfBin(S, heap, i) \cup {a})
  BY <1>3, <1>8, <1>10, <1>11, ListsInsertAt
<1>14. Descending(heap, w)
  BY <1>3, <1>8, <1>9, <1>10, DescendingInsertAt
<1>15. c = [b EXCEPT ![i] = w]
  BY <1>2, <1>4, <1>10
<1>16. c \in [Bins -> Seq(Nat)] /\ c[i] = w /\ \A j \in Bins \ {i} : c[j] = b[j]
  BY <1>1, <1>12, <1>15
<1>17. OfBin(S \cup {a}, heap, i) = OfBin(S, heap, i) \cup {a}
  BY DEF OfBin, size
<1>18. \A j \in Bins \ {i} : OfBin(S \cup {a}, heap, j) = OfBin(S, heap, j)
  BY DEF OfBin, size
<1>19. Lists(c[i], OfBin(S \cup {a}, heap, i)) /\ Descending(heap, c[i])
  BY <1>13, <1>14, <1>16, <1>17
<1>20. \A j \in Bins \ {i} : Lists(c[j], OfBin(S \cup {a}, heap, j)) /\ Descending(heap, c[j])
  BY <1>16, <1>18 DEF Binned
<1> QED BY <1>16, <1>19, <1>20 DEF Binned

(***************************************************************************)
(* The chunks of S are the ones in the fast bins f.                        *)
(***************************************************************************)
OfFast(S, h, i) == {a \in S : h[a].size = i}

FastListed(S, h, f) ==
  /\ f \in [FastBins -> Seq(Nat)]
  /\ \A i \in FastBins : Lists(f[i], OfFast(S, h, i))
  /\ \A a \in S : h[a].size \in FastBins

LEMMA FastSame ==
  ASSUME NEW S, NEW h, NEW f, FastListed(S, h, f), NEW g, \A a \in S : g[a].size = h[a].size
  PROVE  FastListed(S, g, f)
<1>1. \A i : OfFast(S, g, i) = OfFast(S, h, i)
  BY DEF OfFast
<1> QED BY <1>1 DEF FastListed

LEMMA FastHead ==
  ASSUME NEW S, NEW h, NEW f, FastListed(S, h, f), NEW i \in FastBins, f[i] # <<>>,
         NEW a, a = Head(f[i])
  PROVE  a \in S /\ h[a].size = i
<1>1. f[i] \in Seq(Nat) /\ Lists(f[i], OfFast(S, h, i))
  BY DEF FastListed
<1>2. a \in OfFast(S, h, i)
  BY <1>1, ListsTail
<1> QED BY <1>2 DEF OfFast

LEMMA FastTake ==
  ASSUME NEW S, NEW h, NEW f, FastListed(S, h, f), NEW i \in FastBins, f[i] # <<>>,
         NEW a, a = Head(f[i]), NEW g, g = [f EXCEPT ![i] = Tail(f[i])]
  PROVE  FastListed(S \ {a}, h, g)
<1>1. f[i] \in Seq(Nat) /\ Lists(f[i], OfFast(S, h, i))
  BY DEF FastListed
<1>2. Lists(Tail(f[i]), OfFast(S, h, i) \ {a})
  BY <1>1, ListsTail
<1>3. Tail(f[i]) \in Seq(Nat)
  BY <1>1
<1>4. a \in S /\ h[a].size = i
  BY FastHead
<1>5. g \in [FastBins -> Seq(Nat)] /\ g[i] = Tail(f[i]) /\ \A j \in FastBins \ {i} : g[j] = f[j]
  BY <1>3 DEF FastListed
<1>6. OfFast(S \ {a}, h, i) = OfFast(S, h, i) \ {a}
  BY DEF OfFast
<1>7. \A j \in FastBins \ {i} : OfFast(S \ {a}, h, j) = OfFast(S, h, j)
  BY <1>4 DEF OfFast
<1>8. Lists(g[i], OfFast(S \ {a}, h, i))
  BY <1>2, <1>5, <1>6
<1>9. \A j \in FastBins \ {i} : Lists(g[j], OfFast(S \ {a}, h, j))
  BY <1>5, <1>7 DEF FastListed
<1>10. \A x \in S \ {a} : h[x].size \in FastBins
  BY DEF FastListed
<1> QED BY <1>4, <1>5, <1>8, <1>9, <1>10 DEF FastListed

LEMMA FastPush ==
  ASSUME NEW S, NEW h, NEW f, FastListed(S, h, f), NEW a, a \in Nat, a \notin S,
         NEW i \in FastBins, i = h[a].size, NEW g, g = [f EXCEPT ![i] = <<a>> \o f[i]]
  PROVE  FastListed(S \cup {a}, h, g)
<1>1. f[i] \in Seq(Nat) /\ Lists(f[i], OfFast(S, h, i))
  BY DEF FastListed
<1>2. a \notin OfFast(S, h, i)
  BY DEF OfFast
<1>3. Lists(<<a>> \o f[i], OfFast(S, h, i) \cup {a})
  BY <1>1, <1>2, ListsPush
<1>4. <<a>> \o f[i] \in Seq(Nat)
  BY <1>1, PushProperties
<1>5. /\ g \in [FastBins -> Seq(Nat)] /\ g[i] = <<a>> \o f[i]
      /\ \A j \in FastBins \ {i} : g[j] = f[j]
  BY <1>4 DEF FastListed
<1>6. OfFast(S \cup {a}, h, i) = OfFast(S, h, i) \cup {a}
  BY DEF OfFast
<1>7. \A j \in FastBins \ {i} : OfFast(S \cup {a}, h, j) = OfFast(S, h, j)
  BY DEF OfFast
<1>8. Lists(g[i], OfFast(S \cup {a}, h, i))
  BY <1>3, <1>5, <1>6
<1>9. \A j \in FastBins \ {i} : Lists(g[j], OfFast(S \cup {a}, h, j))
  BY <1>5, <1>7 DEF FastListed
<1>10. \A x \in S \cup {a} : h[x].size \in FastBins
  BY DEF FastListed
<1> QED BY <1>5, <1>8, <1>9, <1>10 DEF FastListed

-------------------------------------------------------------------------------
(***************************************************************************)
(* The inductive invariant.                                                *)
(*                                                                         *)
(* HeapInv: nothing was obtained from sbrk yet, or the memory obtained is  *)
(* tiled with chunks and the boundary tags are right.                      *)
(***************************************************************************)
Used == Chunks \ Free

HeapInv ==
  /\ curptr \in HeapStart .. HeapEnd
  /\ top = None => heap = <<>> /\ curptr = HeapStart
  /\ top # None => Tiled(DOMAIN heap, heap, top, curptr) /\ Tagged(DOMAIN heap, heap, top)

(***************************************************************************)
(* ListInv: the free chunks are the unsorted ones and those in the bins,   *)
(* and what is in use but not handed out is in the fast bins.              *)
(***************************************************************************)
FreeLists(F, h, u, b) ==
  /\ u \in Seq(Nat) /\ Lists(u, Range(u)) /\ Range(u) \subseteq F
  /\ Binned(F \ Range(u), h, b)

Mapped(m, b) == m \subseteq Bins /\ \A i \in Bins : i \notin m => b[i] = <<>>

ListInv ==
  /\ FreeLists(Free, heap, unsorted, bins)
  /\ Mapped(binmap, bins)
  /\ FastListed(Used \ DOMAIN live, heap, fastbins)
  /\ fastchunks \/ NoFast \/ At("consolidate")
  /\ anychunks \/ (Free = {} /\ NoFast)

(***************************************************************************)
(* LiveInv: a block handed out is a chunk in use, and large enough.        *)
(***************************************************************************)
LiveInv ==
  /\ DOMAIN live \subseteq Used
  /\ \A a \in DOMAIN live : live[a] \in Nat /\ size(a) >= live[a] /\ size(a) - live[a] < MinSize

(***************************************************************************)
(* OpInv: what the call in progress already knows, where it stands: the    *)
(* small bin of its size is empty when it sorts; nothing in the bins up to *)
(* idx will do when it searches the map; no free chunk at all when it uses *)
(* the top.                                                                *)
(***************************************************************************)
Places == {"idle", "malloc", "consolidate", "sort", "map", "top", "systrim"}

SearchGoesOn == At("consolidate") /\ op.then # "systrim"

OpInv ==
  /\ op \in [at : Places, nb : Nat, idx : Nat, then : {"idle", "sort", "malloc", "systrim"}]
  /\ At("consolidate") => op.then # "idle"
  /\ At("malloc") \/ At("sort") \/ At("map") \/ At("top") \/ SearchGoesOn => nb >= MinSize
  /\ At("malloc") \/ At("sort") \/ SearchGoesOn => op.idx = BinIndex(nb)
  /\ At("sort") => (in_smallbin_range(nb) => bins[nb] = <<>>)
  /\ At("consolidate") /\ op.then = "sort" => ~in_smallbin_range(nb)
  /\ At("map") => /\ unsorted = <<>> /\ op.idx >= BinIndex(nb)
                  /\ \A a \in Free : size(a) >= nb => BinIndex(size(a)) > op.idx
  /\ At("top") => \A a \in Free : size(a) < nb

AllocInv == HeapInv /\ ListInv /\ LiveInv /\ OpInv

LEMMA TiledDomain ==
  ASSUME NEW h, NEW t, NEW c, NEW D, Tiled(D, h, t, c)
  PROVE  DOMAIN h = D /\ t \in Nat /\ t # None
<1>1. h \in [D -> Heads] /\ t \in D /\ D \subseteq Nat
  BY DEF Tiled
<1> QED BY <1>1 DEF None

LEMMA FreeIs == Free = FreeIn(DOMAIN heap, heap, top)
BY DEF Free, Chunks, inuse, NextChunk, size, FreeIn, Next1

LEMMA EmptyHeap ==
  ASSUME heap = <<>>
  PROVE  Chunks = {} /\ Free = {} /\ Used = {}
BY DEF Chunks, Free, Used

(* The chunks of a heap with memory. *)
LEMMA HeapIs ==
  ASSUME HeapInv, top # None
  PROVE  \E D : /\ Tiled(D, heap, top, curptr) /\ Tagged(D, heap, top)
                /\ DOMAIN heap = D /\ Chunks = D \ {top}
                /\ Free = FreeIn(D, heap, top)
                /\ top \in Nat /\ curptr \in Nat
<1>1. PICK D : D = DOMAIN heap
  OBVIOUS
<1>2. Tiled(D, heap, top, curptr) /\ Tagged(D, heap, top)
  BY <1>1 DEF HeapInv
<1>3. top \in Nat /\ curptr \in Nat
  BY <1>2, TiledFacts
<1> QED BY <1>1, <1>2, <1>3, FreeIs DEF Chunks

LEMMA HeapIsNext ==
  ASSUME NEW E, Tiled(E, heap', top', curptr'), Tagged(E, heap', top'),
         curptr' \in HeapStart .. HeapEnd
  PROVE  /\ HeapInv'
         /\ Chunks' = E \ {top'} /\ Free' = FreeIn(E, heap', top')
<1>1. DOMAIN heap' = E /\ top' # None
  BY TiledDomain
<1>2. HeapInv'
  BY <1>1 DEF HeapInv
<1>3. Chunks' = E \ {top'}
  BY <1>1 DEF Chunks
<1>4. Free' = FreeIn(E, heap', top')
  BY <1>3 DEF Free, inuse, NextChunk, size, FreeIn, Next1
<1> QED BY <1>2, <1>3, <1>4

LEMMA ChunkFacts ==
  ASSUME HeapInv
  PROVE  /\ Free \subseteq Chunks /\ Chunks \subseteq Nat /\ Used \subseteq Chunks
         /\ \A a \in Chunks : heap[a].size \in Nat /\ heap[a].size >= MinSize
<1>1. Free \subseteq Chunks /\ Used \subseteq Chunks
  BY DEF Free, Used
<1>2. CASE top = None
  BY <1>1, <1>2, EmptyHeap DEF HeapInv
<1>3. CASE top # None
  <2>1. PICK D : Tiled(D, heap, top, curptr) /\ Chunks = D \ {top}
    BY <1>3, HeapIs
  <2>2. \A a \in D : a \in Nat /\ heap[a].size \in Int /\ heap[a].size >= MinSize
    BY <2>1, TiledFacts
  <2>3. \A a \in Chunks : heap[a].size \in Nat
    BY <2>1, <2>2 DEF MinSize
  <2> QED BY <1>1, <2>1, <2>2, <2>3
<1> QED BY <1>2, <1>3

LEMMA FreeMeansMemory ==
  ASSUME HeapInv, Free # {}
  PROVE  top # None
BY EmptyHeap DEF HeapInv

(***************************************************************************)
(* The seven things again, as steps.                                       *)
(***************************************************************************)
LEMMA WholeStep ==
  ASSUME HeapInv, NEW a, a \in Free, heap' = InUseBefore(heap, NextChunk(a)),
         top' = top, curptr' = curptr
  PROVE  /\ HeapInv'
         /\ Free' = Free \ {a} /\ Used' = Used \cup {a} /\ a \notin Used
         /\ \A b \in Chunks : heap'[b].size = heap[b].size
<1>1. PICK D : /\ Tiled(D, heap, top, curptr) /\ Tagged(D, heap, top)
               /\ Chunks = D \ {top} /\ Free = FreeIn(D, heap, top)
  BY HeapIs, FreeMeansMemory
<1>2. PICK e : e = Next1(heap, a)
  OBVIOUS
<1>3. PICK g : g = heap'
  OBVIOUS
<1>4. g = InUseBefore(heap, e)
  BY <1>2, <1>3 DEF NextChunk, size, Next1
<1>5. a \in FreeIn(D, heap, top)
  BY <1>1
<1>6. Tiled(D, g, top, curptr) /\ Tagged(D, g, top)
  BY <1>1, <1>2, <1>4, <1>5, TakeWhole
<1>7. FreeIn(D, g, top) = FreeIn(D, heap, top) \ {a}
  BY <1>1, <1>2, <1>4, <1>5, TakeWhole
<1>8. \A b \in D : g[b].size = heap[b].size
  BY <1>1, <1>2, <1>4, <1>5, TakeWhole
<1>9. Tiled(D, heap', top', curptr') /\ Tagged(D, heap', top') /\ curptr' \in HeapStart .. HeapEnd
  BY <1>3, <1>6 DEF HeapInv
<1>10. HeapInv' /\ Chunks' = D \ {top'} /\ Free' = FreeIn(D, heap', top')
  BY <1>9, HeapIsNext
<1>11. Free' = Free \ {a} /\ Chunks' = Chunks /\ Free \subseteq Chunks
  BY <1>1, <1>3, <1>7, <1>10, ChunkFacts
<1>12. Used' = Used \cup {a} /\ a \notin Used
  BY <1>11 DEF Used
<1> QED BY <1>1, <1>3, <1>8, <1>10, <1>11, <1>12

LEMMA PartStep ==
  ASSUME HeapInv, NEW a, a \in Free, NEW n \in Nat, n = nb, n >= MinSize,
         NEW s \in Int, s = size(a) - n, s >= MinSize, NEW r, r = a + n,
         heap' = Cut(a), top' = top, curptr' = curptr
  PROVE  /\ HeapInv' /\ r \in Nat /\ r \notin Chunks
         /\ Free' = (Free \ {a}) \cup {r} /\ Used' = Used \cup {a} /\ a \notin Used
         /\ heap'[a].size = n /\ heap'[r].size = s
         /\ \A b \in Chunks \ {a} : heap'[b].size = heap[b].size
<1>1. PICK D : /\ Tiled(D, heap, top, curptr) /\ Tagged(D, heap, top)
               /\ Chunks = D \ {top} /\ Free = FreeIn(D, heap, top)
  BY HeapIs, FreeMeansMemory
<1>2. PICK e : e = Next1(heap, a)
  OBVIOUS
<1>3. PICK g : g = heap'
  OBVIOUS
<1>4. PICK k : k = WithHead(WithHead(heap, a, n), r, s)
  OBVIOUS
<1>5. g = FreeBefore(k, e, s)
  BY <1>2, <1>3, <1>4 DEF Cut, CutForUse, NextChunk, size, Next1
<1>6. a \in FreeIn(D, heap, top) /\ a \in D /\ a \in Nat
  BY <1>1, FreeFacts
<1>7. r \in Nat
  BY <1>6
<1>8. s = heap[a].size - n
  BY DEF size
<1>9. PICK E : E = D \cup {r}
  OBVIOUS
<1>10. Tiled(E, g, top, curptr) /\ Tagged(E, g, top)
  BY <1>1, <1>2, <1>4, <1>5, <1>6, <1>7, <1>8, <1>9, TakePart
<1>11. FreeIn(E, g, top) = (FreeIn(D, heap, top) \ {a}) \cup {r}
  BY <1>1, <1>2, <1>4, <1>5, <1>6, <1>7, <1>8, <1>9, TakePart
<1>12. r \notin D /\ g[r].size = s /\ g[a].size = n
  <2>1. r \notin D
    BY <1>1, <1>2, <1>4, <1>5, <1>6, <1>7, <1>8, <1>9, <1>10, TakePart
  <2>2. g[r].size = s
    BY <1>1, <1>2, <1>4, <1>5, <1>6, <1>7, <1>8, <1>9, <1>10, TakePart
  <2>3. g[a].size = n
    BY <1>1, <1>2, <1>4, <1>5, <1>6, <1>7, <1>8, <1>9, <1>10, TakePart
  <2> QED BY <2>1, <2>2, <2>3
<1>13. \A b \in D \ {a} : g[b].size = heap[b].size
  BY <1>1, <1>2, <1>4, <1>5, <1>6, <1>7, <1>8, <1>9, <1>10, TakePart
<1>14. Tiled(E, heap', top', curptr') /\ Tagged(E, heap', top') /\ curptr' \in HeapStart .. HeapEnd
  BY <1>3, <1>10 DEF HeapInv
<1>15. HeapInv' /\ Chunks' = E \ {top'} /\ Free' = FreeIn(E, heap', top')
  BY <1>14, HeapIsNext
<1>16. top \in D
  BY <1>1 DEF Tiled
<1>17. /\ Free' = (Free \ {a}) \cup {r} /\ Chunks' = Chunks \cup {r} /\ r \notin Chunks
       /\ Free \subseteq Chunks
  <2>1. Free' = (Free \ {a}) \cup {r} /\ Free \subseteq Chunks
    BY <1>1, <1>3, <1>11, <1>15, ChunkFacts
  <2>2. r \notin Chunks /\ r # top
    BY <1>1, <1>12, <1>16
  <2>3. Chunks' = Chunks \cup {r}
    BY <1>1, <1>9, <1>15, <2>2
  <2> QED BY <2>1, <2>2, <2>3
<1>18. Used' = Used \cup {a} /\ a \notin Used
  <2>1. a \in Free
    OBVIOUS
  <2>2. a # r
    BY <1>17
  <2> QED BY <1>17, <2>1, <2>2 DEF Used
<1>19. \A b \in Chunks \ {a} : heap'[b].size = heap[b].size
  BY <1>1, <1>3, <1>13
<1> QED BY <1>3, <1>7, <1>12, <1>15, <1>17, <1>18, <1>19

LEMMA TopStep ==
  ASSUME HeapInv, NEW n \in Nat, n = nb, n >= MinSize, TopSize >= n + MinSize,
         heap' = CutForUse(top), top' = top + n, curptr' = curptr
  PROVE  /\ HeapInv' /\ top \in Nat /\ top \notin Chunks
         /\ Free' = Free /\ Used' = Used \cup {top}
         /\ heap'[top].size = n
         /\ \A b \in Chunks : heap'[b].size = heap[b].size
<1>1. top # None
  BY DEF TopSize, MinSize
<1>2. PICK D : /\ Tiled(D, heap, top, curptr) /\ Tagged(D, heap, top)
               /\ Chunks = D \ {top} /\ Free = FreeIn(D, heap, top) /\ top \in Nat
  BY <1>1, HeapIs
<1>3. PICK g : g = heap'
  OBVIOUS
<1>4. PICK r : r = top + n
  OBVIOUS
<1>5. PICK s : s = heap[top].size - n
  OBVIOUS
<1>6. top \in D /\ heap[top].size \in Int
  <2>1. top \in D
    BY <1>2 DEF Tiled
  <2> QED BY <1>2, <2>1, TiledFacts
<1>7. s \in Int /\ s >= MinSize /\ r \in Nat
  BY <1>1, <1>2, <1>4, <1>5, <1>6 DEF TopSize, size, MinSize
<1>8. g = WithHead(WithHead(heap, top, n), r, s)
  BY <1>3, <1>4, <1>5 DEF CutForUse, size
<1>9. PICK E : E = D \cup {r}
  OBVIOUS
<1>10. Tiled(E, g, r, curptr) /\ Tagged(E, g, r)
  BY <1>2, <1>4, <1>5, <1>7, <1>8, <1>9, CutTop
<1>11. FreeIn(E, g, r) = FreeIn(D, heap, top)
  BY <1>2, <1>4, <1>5, <1>7, <1>8, <1>9, CutTop
<1>12. top \notin FreeIn(D, heap, top) /\ r \notin D /\ g[top].size = n
  BY <1>2, <1>4, <1>5, <1>7, <1>8, <1>9, CutTop
<1>13. \A b \in D \ {top} : g[b].size = heap[b].size
  BY <1>2, <1>4, <1>5, <1>7, <1>8, <1>9, <1>10, CutTop
<1>14. Tiled(E, heap', top', curptr') /\ Tagged(E, heap', top') /\ curptr' \in HeapStart .. HeapEnd
  BY <1>3, <1>4, <1>10 DEF HeapInv
<1>15. HeapInv' /\ Chunks' = E \ {top'} /\ Free' = FreeIn(E, heap', top')
  BY <1>14, HeapIsNext
<1>16. Free' = Free /\ Free \subseteq Chunks
  BY <1>2, <1>3, <1>4, <1>11, <1>15, ChunkFacts
<1>17. Chunks' = Chunks \cup {top} /\ top \notin Chunks
  BY <1>2, <1>4, <1>6, <1>9, <1>12, <1>15
<1>18. Used' = Used \cup {top}
  BY <1>2, <1>12, <1>16, <1>17 DEF Used
<1> QED BY <1>2, <1>3, <1>12, <1>13, <1>15, <1>16, <1>17, <1>18

LEMMA GrowStep ==
  ASSUME HeapInv, top # None, NEW n \in Nat, curptr' = curptr + n, curptr' <= HeapEnd,
         heap' = WithHead(heap, top, TopSize + n), top' = top
  PROVE  /\ HeapInv'
         /\ Free' = Free /\ Used' = Used
         /\ \A b \in Chunks : heap'[b].size = heap[b].size
<1>2. PICK D : /\ Tiled(D, heap, top, curptr) /\ Tagged(D, heap, top)
               /\ Chunks = D \ {top} /\ Free = FreeIn(D, heap, top) /\ top \in Nat /\ curptr \in Nat
  BY HeapIs
<1>3. PICK g : g = heap'
  OBVIOUS
<1>4. PICK d : d = curptr + n
  OBVIOUS
<1>5. PICK s : s = heap[top].size + n
  OBVIOUS
<1>6. top \in D /\ heap[top].size \in Int
  <2>1. top \in D
    BY <1>2 DEF Tiled
  <2> QED BY <1>2, <2>1, TiledFacts
<1>7. s \in Int /\ d \in Nat
  BY <1>2, <1>4, <1>5, <1>6
<1>8. g = WithHead(heap, top, s)
  BY <1>3, <1>5 DEF TopSize, size
<1>10. Tiled(D, g, top, d) /\ Tagged(D, g, top)
  BY <1>2, <1>4, <1>5, <1>7, <1>8, GrowTop
<1>11. FreeIn(D, g, top) = FreeIn(D, heap, top)
  BY <1>2, <1>4, <1>5, <1>7, <1>8, GrowTop
<1>13. \A b \in D \ {top} : g[b].size = heap[b].size
  BY <1>2, <1>4, <1>5, <1>7, <1>8, GrowTop
<1>14. curptr' \in HeapStart .. HeapEnd
  BY ConstantFacts DEF HeapInv
<1>15. HeapInv' /\ Chunks' = D \ {top'} /\ Free' = FreeIn(D, heap', top')
  BY <1>3, <1>4, <1>10, <1>14, HeapIsNext
<1>16. Free' = Free /\ Chunks' = Chunks
  BY <1>2, <1>3, <1>11, <1>15
<1> QED BY <1>2, <1>3, <1>13, <1>15, <1>16 DEF Used

LEMMA FirstStep ==
  ASSUME HeapInv, top = None, NEW d \in Nat, curptr' = d, d <= HeapEnd, d - curptr >= MinSize,
         heap' = WithHead(heap, curptr, d - curptr), top' = curptr
  PROVE  /\ HeapInv'
         /\ Free = {} /\ Used = {} /\ Free' = {} /\ Used' = {}
<1>1. heap = <<>> /\ curptr = HeapStart /\ curptr \in Nat
  BY ConstantFacts DEF HeapInv
<1>2. PICK g : g = heap'
  OBVIOUS
<1>3. PICK s : s = d - curptr
  OBVIOUS
<1>4. s \in Int /\ s >= MinSize /\ d = HeapStart + s
  BY <1>1, <1>3
<1>5. PICK a : a = HeapStart
  OBVIOUS
<1>6. PICK h : h = heap
  OBVIOUS
<1>7. DOMAIN h = {}
  BY <1>1, <1>6
<1>8. g = WithHead(h, a, s)
  BY <1>1, <1>2, <1>3, <1>5, <1>6
<1>9. Tiled({a}, g, a, d) /\ Tagged({a}, g, a) /\ FreeIn({a}, g, a) = {}
  BY <1>4, <1>5, <1>7, <1>8, FirstTop
<1>10. curptr' \in HeapStart .. HeapEnd
  BY <1>1, <1>4, ConstantFacts DEF MinSize
<1>11. top' = a /\ curptr' = d
  BY <1>1, <1>5
<1>12. PICK E : E = {a}
  OBVIOUS
<1>13. Tiled(E, heap', top', curptr') /\ Tagged(E, heap', top')
  BY <1>2, <1>9, <1>11, <1>12
<1>14. HeapInv' /\ Chunks' = E \ {top'} /\ Free' = FreeIn(E, heap', top')
  BY <1>10, <1>13, HeapIsNext
<1>15. Free' = {} /\ Chunks' = {}
  BY <1>2, <1>9, <1>11, <1>12, <1>14
<1> QED BY <1>1, <1>14, <1>15, EmptyHeap DEF Used

(* What chunk a is merged with, before and after it. *)
LEMMA BackMerge ==
  ASSUME NEW D, NEW h, NEW t, NEW c, Tiled(D, h, t, c), Tagged(D, h, t),
         NEW a \in D, a \notin FreeIn(D, h, t),
         NEW x, x = IF h[a].prev_inuse THEN None ELSE a - h[a].prev_size,
         NEW f, f = IF x = None THEN a ELSE x
  PROVE  /\ a \in Nat /\ f \in D /\ f \in Nat /\ f <= a /\ h[f].prev_inuse
         /\ x = None \/ (x \in FreeIn(D, h, t) /\ x = f)
         /\ f \in {a, x}
         /\ \A b \in D : b >= f /\ b < a => b = x
<1>1. a \in Nat /\ a # None
  BY TiledFacts DEF None
<1>2. CASE h[a].prev_inuse
  <2>1. x = None /\ f = a
    BY <1>2
  <2>2. \A b \in D : ~(b >= a /\ b < a)
    BY <1>1, TiledFacts
  <2> QED BY <1>1, <1>2, <2>1, <2>2
<1>3. CASE ~h[a].prev_inuse
  <2>1. x \in FreeIn(D, h, t) /\ Next1(h, x) = a
    BY <1>3, BackFacts
  <2>2. x \in D /\ x \in Nat /\ h[x].prev_inuse
    BY <2>1, FreeFacts
  <2>3. x # None /\ f = x
    BY <2>2 DEF None
  <2>4. x < a /\ \A b \in D : b \in Nat /\ (b <= x \/ b >= a)
    BY <1>1, <2>1, <2>2, TiledFacts
  <2> QED BY <1>1, <2>1, <2>2, <2>3, <2>4
<1> QED BY <1>2, <1>3

LEMMA ForwardMerge ==
  ASSUME NEW D, NEW h, NEW t, NEW c, Tiled(D, h, t, c), Tagged(D, h, t),
         NEW a \in D, a # t, a \notin FreeIn(D, h, t), NEW n, n = Next1(h, a),
         NEW y, y = IF n # t /\ ~h[Next1(h, n)].prev_inuse THEN n ELSE None,
         NEW e, e = IF n = t \/ n = y THEN Next1(h, n) ELSE n
  PROVE  /\ e \in Nat /\ e > a
         /\ y = None \/ (y \in FreeIn(D, h, t) /\ y > a /\ y < e)
         /\ n = t => e = c /\ y = None
         /\ n # t => e \in D /\ e # t /\ e \notin FreeIn(D, h, t)
         /\ \A b \in D : b > a /\ b < e => b = y \/ (b = t /\ n = t)
<1>1. n \in D /\ n \in Nat /\ n > a /\ a \in Nat /\ n # None
  BY TiledFacts DEF None
<1>2. \A b \in D : b \in Nat /\ (b <= a \/ b >= n)
  BY <1>1, TiledFacts
<1>3. Next1(h, n) \in Nat /\ Next1(h, n) > n /\ \A b \in D : b <= n \/ b >= Next1(h, n)
  BY <1>1, TiledFacts
<1>4. CASE n = t
  <2>1. y = None /\ e = Next1(h, n) /\ e = c
    BY <1>4 DEF Tiled
  <2> QED BY <1>1, <1>2, <1>3, <1>4, <2>1
<1>5. CASE n # t /\ ~h[Next1(h, n)].prev_inuse
  <2>1. y = n /\ e = Next1(h, n)
    BY <1>5
  <2>2. n \in FreeIn(D, h, t)
    BY <1>1, <1>5, FreeInMember
  <2>3. Next1(h, n) \in D /\ Next1(h, n) # t /\ Next1(h, n) \notin FreeIn(D, h, t)
    BY <2>2, FreeFacts
  <2> QED BY <1>1, <1>2, <1>3, <1>5, <2>1, <2>2, <2>3
<1>6. CASE n # t /\ h[Next1(h, n)].prev_inuse
  <2>1. y = None /\ e = n
    BY <1>1, <1>6
  <2>2. n \notin FreeIn(D, h, t)
    BY <1>6, FreeInMember
  <2> QED BY <1>1, <1>2, <1>6, <2>1, <2>2
<1> QED BY <1>4, <1>5, <1>6

Outside(D, a, e) == D \ (a + 1 .. e - 1)

Joined(h, a, e, s) == WithHead(WithoutHeads(h, a + 1 .. e - 1), a, s)

LEMMA JoinedTop ==
  ASSUME NEW D, NEW h, NEW t, NEW c, Tiled(D, h, t, c), Tagged(D, h, t),
         NEW a \in Nat, a \in D, h[a].prev_inuse,
         NEW e \in Nat, e = c, e > a,
         NEW s \in Int, s = e - a, NEW E, E = Outside(D, a, e),
         NEW g, g = Joined(h, a, e, s)
  PROVE  /\ Tiled(E, g, a, c) /\ Tagged(E, g, a)
         /\ FreeIn(E, g, a) = FreeIn(D, h, t) \ (a .. e - 1)
         /\ \A b \in E \ {a} : g[b].size = h[b].size
<1>1. E = D \ (a + 1 .. e - 1)
  BY DEF Outside
<1>2. g = WithHead(WithoutHeads(h, a + 1 .. e - 1), a, s)
  BY DEF Joined
<1>3. IntoTop(D, h, t, c, a, e, s, E, g)
  BY <1>1, <1>2, JoinTop
<1> QED BY <1>3 DEF IntoTop

LEMMA JoinedFree ==
  ASSUME NEW D, NEW h, NEW t, NEW c, Tiled(D, h, t, c), Tagged(D, h, t),
         NEW a \in Nat, a \in D, h[a].prev_inuse,
         NEW e \in Nat, e \in D, e # t, e \notin FreeIn(D, h, t), e > a,
         NEW s \in Int, s = e - a, NEW E, E = Outside(D, a, e),
         NEW g, g = FreeBefore(Joined(h, a, e, s), e, s)
  PROVE  /\ Tiled(E, g, t, c) /\ Tagged(E, g, t)
         /\ FreeIn(E, g, t) = (FreeIn(D, h, t) \ (a .. e - 1)) \cup {a}
         /\ \A b \in E \ {a} : g[b].size = h[b].size
<1>1. E = D \ (a + 1 .. e - 1)
  BY DEF Outside
<1>2. PICK k : k = WithHead(WithoutHeads(h, a + 1 .. e - 1), a, s)
  OBVIOUS
<1>3. g = FreeBefore(k, e, s)
  BY <1>2 DEF Joined
<1>4. IntoFree(D, h, t, c, a, e, s, E, g)
  BY <1>1, <1>2, <1>3, JoinFree
<1> QED BY <1>4 DEF IntoFree

LEMMA CoalesceStep ==
  ASSUME HeapInv, NEW a, a \in Used, Coalesce(a), curptr' = curptr,
         NEW x, x = MergedBack(a), NEW y, y = MergedForward(a), NEW f, f = Merged(a).addr
  PROVE  /\ HeapInv'
         /\ Used' = Used \ {a}
         /\ f \in Nat /\ f \in {a, x}
         /\ Free' = IF NextChunk(a) = top THEN Free \ {x, y} ELSE (Free \ {x, y}) \cup {f}
         /\ \A b \in Used \ {a} : heap'[b].size = heap[b].size
         /\ \A b \in Free \ {x, y} : heap'[b].size = heap[b].size
<1>1. top # None
  BY EmptyHeap DEF HeapInv
<1>2. PICK D : /\ Tiled(D, heap, top, curptr) /\ Tagged(D, heap, top)
               /\ Chunks = D \ {top} /\ Free = FreeIn(D, heap, top) /\ top \in Nat /\ curptr \in Nat
  BY <1>1, HeapIs
<1>3. a \in D /\ a # top /\ a \notin FreeIn(D, heap, top)
  BY <1>2 DEF Used
<1>4. PICK n : n = Next1(heap, a)
  OBVIOUS
<1>5. n = NextChunk(a) /\ \A b : NextChunk(b) = Next1(heap, b)
  BY <1>4 DEF NextChunk, size, Next1
<1>6. /\ x = IF heap[a].prev_inuse THEN None ELSE a - heap[a].prev_size
      /\ y = IF n # top /\ ~heap[Next1(heap, n)].prev_inuse THEN n ELSE None
  BY <1>5 DEF MergedBack, MergedForward, inuse
<1>7. PICK e : e = IF n = top \/ n = y THEN Next1(heap, n) ELSE n
  OBVIOUS
<1>8. f = (IF x = None THEN a ELSE x) /\ Merged(a).size = e - f
  <2>1. (n \in {top, MergedForward(a)}) <=> (n = top \/ n = y)
    OBVIOUS
  <2>2. Merged(a).addr = IF x = None THEN a ELSE x
    BY DEF Merged
  <2>3. Merged(a).size = e - Merged(a).addr
    BY <1>5, <1>7, <2>1 DEF Merged
  <2> QED BY <2>2, <2>3
<1>9. /\ a \in Nat /\ f \in D /\ f \in Nat /\ f <= a /\ heap[f].prev_inuse
      /\ x = None \/ (x \in FreeIn(D, heap, top) /\ x = f)
      /\ f \in {a, x}
      /\ \A b \in D : b >= f /\ b < a => b = x
  BY <1>2, <1>3, <1>6, <1>8, BackMerge
<1>10. /\ e \in Nat /\ e > a
       /\ y = None \/ (y \in FreeIn(D, heap, top) /\ y > a /\ y < e)
       /\ n = top => e = curptr /\ y = None
       /\ n # top => e \in D /\ e # top /\ e \notin FreeIn(D, heap, top)
       /\ \A b \in D : b > a /\ b < e => b = y \/ (b = top /\ n = top)
  BY <1>2, <1>3, <1>4, <1>6, <1>7, ForwardMerge
<1>11. PICK s \in Int : s = e - f
  BY <1>9, <1>10
<1>12. PICK E : E = Outside(D, f, e)
  OBVIOUS
<1>13. PICK k : k = Joined(heap, f, e, s)
  OBVIOUS
<1>14. IF n = top THEN heap' = k /\ top' = f ELSE heap' = FreeBefore(k, e, s) /\ top' = top
  <2>1. Merged(a).size = s /\ Merged(a).addr = f
    BY <1>8, <1>11
  <2>2. f + s - 1 = e - 1 /\ f + s = e
    BY <1>9, <1>10, <1>11
  <2>3. k = WithHead(WithoutHeads(heap, f + 1 .. f + s - 1), f, s)
    BY <1>13, <2>2 DEF Joined
  <2> QED BY <1>5, <2>1, <2>2, <2>3 DEF Coalesce
<1>15. e > f
  BY <1>9, <1>10
<1>16. ASSUME NEW b \in D, b \in f .. e - 1
       PROVE  b \in {x, y, a} \/ (b = top /\ n = top)
  <2>1. b \in Nat
    BY <1>2, TiledFacts
  <2> QED BY <1>9, <1>10, <1>16, <2>1
<1>17. {x, y} \cap D \subseteq f .. e - 1 /\ a \in f .. e - 1 /\ a \notin {x, y}
  <2>1. None \notin D
    BY <1>2, TiledFacts DEF None
  <2>2. (x = None \/ (x \in Nat /\ x = f)) /\ (y = None \/ (y \in Nat /\ y > a /\ y < e))
    BY <1>2, <1>9, <1>10, FreeFacts
  <2>3. a # None
    BY <1>9 DEF None
  <2>4. a \notin {x, y}
    BY <1>3, <1>9, <1>10, <2>3
  <2> QED BY <1>9, <1>10, <1>15, <2>1, <2>2, <2>4
<1>18. Free \ (f .. e - 1) = Free \ {x, y}
  <2>1. Free \subseteq D /\ a \notin Free /\ top \notin Free
    BY <1>2, <1>3, FreeInMember
  <2> QED BY <1>16, <1>17, <2>1
<1>19. CASE n = top
  <2>1. PICK g : g = heap'
    OBVIOUS
  <2>2. g = k /\ top' = f /\ e = curptr
    BY <1>10, <1>14, <1>19, <2>1
  <2>14. f \in Nat /\ f \in D /\ heap[f].prev_inuse /\ e \in Nat /\ e = curptr /\ e > f
    BY <1>9, <1>10, <1>15, <1>19
  <2>15. g = Joined(heap, f, e, s)
    BY <1>13, <2>2
  <2>3. Tiled(E, g, f, curptr) /\ Tagged(E, g, f)
    BY <1>2, <1>11, <1>12, <2>14, <2>15, JoinedTop
  <2>4. FreeIn(E, g, f) = FreeIn(D, heap, top) \ (f .. e - 1)
    BY <1>2, <1>11, <1>12, <2>14, <2>15, <2>3, JoinedTop
  <2>5. \A b \in E \ {f} : g[b].size = heap[b].size
    BY <1>2, <1>11, <1>12, <2>14, <2>15, <2>3, JoinedTop
  <2>6. Tiled(E, heap', top', curptr') /\ Tagged(E, heap', top') /\ curptr' \in HeapStart .. HeapEnd
    BY <2>1, <2>2, <2>3 DEF HeapInv
  <2>7. HeapInv' /\ Chunks' = E \ {top'} /\ Free' = FreeIn(E, heap', top')
    BY <2>6, HeapIsNext
  <2>8. Free' = Free \ {x, y}
    BY <1>2, <1>18, <2>1, <2>2, <2>4, <2>7
  <2>9. \A b : b \in Chunks' <=> b \in D /\ b \notin f .. e - 1
    <3>1. \A b : b \in f .. e - 1 <=> b = f \/ b \in f + 1 .. e - 1
      BY <1>9, <1>10, <1>15
    <3> QED BY <1>12, <2>2, <2>7, <3>1 DEF Outside
  <2>10. top \in f .. e - 1
    <3>1. n > a /\ n < e
      <4>1. top < curptr /\ a < top
        <5>1. top \in D
          BY <1>2 DEF Tiled
        <5> QED BY <1>2, <1>3, <5>1, TiledFacts
      <4> QED BY <1>9, <1>10, <1>19, <4>1
    <3> QED BY <1>2, <1>9, <1>10, <1>19, <3>1
  <2>11. Used' = Used \ {a}
    <3>1. \A b : b \in Used <=> b \in D /\ b # top /\ b \notin Free
      BY <1>2 DEF Used
    <3>2. \A b : b \in Used' <=> b \in Chunks' /\ b \notin Free'
      BY DEF Used
    <3>3. ASSUME NEW b
          PROVE  b \in Used' <=> b \in Used /\ b # a
      <4>1. CASE b \in D /\ b \in f .. e - 1
        <5>1. b \in {x, y, a} \/ b = top
          BY <1>16, <4>1
        <5>2. b \in {x, y} => b \in Free
          <6>1. None \notin D
            BY <1>2, TiledFacts DEF None
          <6> QED BY <1>2, <1>9, <1>10, <4>1, <6>1
        <5> QED BY <2>9, <3>1, <3>2, <4>1, <5>1, <5>2
      <4>2. CASE b \in D /\ b \notin f .. e - 1
        <5>1. b \notin {x, y} /\ b # a /\ b # top
          BY <1>17, <2>10, <4>2
        <5> QED BY <2>8, <2>9, <3>1, <3>2, <4>2, <5>1
      <4>3. CASE b \notin D
        BY <2>9, <3>1, <3>2, <4>3
      <4> QED BY <4>1, <4>2, <4>3
    <3> QED BY <3>3
  <2>12. \A b \in Chunks' : heap'[b].size = heap[b].size
    BY <2>1, <2>2, <2>5, <2>7
  <2>13. /\ \A b \in Used \ {a} : heap'[b].size = heap[b].size
         /\ \A b \in Free \ {x, y} : heap'[b].size = heap[b].size
    <3>1. Free' \subseteq Chunks' /\ Used' \subseteq Chunks'
      BY <2>7, FreeInMember DEF Used
    <3> QED BY <2>8, <2>11, <2>12, <3>1
  <2> QED BY <1>5, <1>9, <1>19, <2>7, <2>8, <2>11, <2>13
<1>20. CASE n # top
  <2>1. PICK g : g = heap'
    OBVIOUS
  <2>2. g = FreeBefore(k, e, s) /\ top' = top
    BY <1>14, <1>20, <2>1
  <2>14. /\ f \in Nat /\ f \in D /\ heap[f].prev_inuse /\ e \in Nat /\ e > f
         /\ e \in D /\ e # top /\ e \notin FreeIn(D, heap, top)
    BY <1>9, <1>10, <1>15, <1>20
  <2>3. Tiled(E, g, top, curptr) /\ Tagged(E, g, top)
    BY <1>2, <1>11, <1>12, <1>13, <2>2, <2>14, JoinedFree
  <2>4. FreeIn(E, g, top) = (FreeIn(D, heap, top) \ (f .. e - 1)) \cup {f}
    BY <1>2, <1>11, <1>12, <1>13, <2>2, <2>14, <2>3, JoinedFree
  <2>5. \A b \in E \ {f} : g[b].size = heap[b].size
    BY <1>2, <1>11, <1>12, <1>13, <2>2, <2>14, <2>3, JoinedFree
  <2>6. Tiled(E, heap', top', curptr') /\ Tagged(E, heap', top') /\ curptr' \in HeapStart .. HeapEnd
    BY <2>1, <2>2, <2>3 DEF HeapInv
  <2>7. HeapInv' /\ Chunks' = E \ {top'} /\ Free' = FreeIn(E, heap', top')
    BY <2>6, HeapIsNext
  <2>8. Free' = (Free \ {x, y}) \cup {f}
    BY <1>2, <1>18, <2>1, <2>2, <2>4, <2>7
  <2>9. \A b : b # f => (b \in E <=> b \in D /\ b \notin f .. e - 1)
    <3>1. \A b : b \in f .. e - 1 <=> b = f \/ b \in f + 1 .. e - 1
      BY <1>9, <1>10, <1>15
    <3> QED BY <1>12, <3>1 DEF Outside
  <2>11. Used' = Used \ {a}
    <3>1. \A b : b \in Used <=> b \in D /\ b # top /\ b \notin Free
      BY <1>2 DEF Used
    <3>2. \A b : b \in Used' <=> b \in E /\ b # top /\ b \notin Free'
      BY <2>2, <2>7 DEF Used
    <3>3. ASSUME NEW b
          PROVE  b \in Used' <=> b \in Used /\ b # a
      <4>1. CASE b \in D /\ b \in f .. e - 1
        <5>1. b \in {x, y, a}
          BY <1>16, <1>20, <4>1
        <5>2. b \in {x, y} => b \in Free
          <6>1. None \notin D
            BY <1>2, TiledFacts DEF None
          <6> QED BY <1>2, <1>9, <1>10, <4>1, <6>1
        <5>3. b \in Used' => b # f
          BY <2>8, <3>2
        <5> QED BY <2>9, <3>1, <3>2, <4>1, <5>1, <5>2, <5>3
      <4>2. CASE b \in D /\ b \notin f .. e - 1
        <5>1. b \notin {x, y} /\ b # a /\ b # f
          <6>1. f \in f .. e - 1
            BY <1>9, <1>10, <1>15
          <6> QED BY <1>17, <4>2, <6>1
        <5> QED BY <2>8, <2>9, <3>1, <3>2, <4>2, <5>1
      <4>3. CASE b \notin D
        BY <1>9, <2>9, <3>1, <3>2, <4>3
      <4> QED BY <4>1, <4>2, <4>3
    <3> QED BY <3>3
  <2>12. f \notin Used' /\ f \notin Free \ {x, y}
    <3>1. f \in Free'
      BY <2>8
    <3>2. a \notin Free
      BY <1>2, <1>3
    <3> QED BY <1>9, <3>1, <3>2 DEF Used
  <2>13. /\ \A b \in Used \ {a} : heap'[b].size = heap[b].size
         /\ \A b \in Free \ {x, y} : heap'[b].size = heap[b].size
    <3>1. Free' \subseteq E /\ Used' \subseteq E
      BY <2>7, FreeInMember DEF Used
    <3>2. \A b \in E \ {f} : heap'[b].size = heap[b].size
      BY <2>1, <2>5
    <3>3. \A b \in Used \ {a} : b \in E \ {f}
      BY <2>11, <2>12, <3>1
    <3>4. \A b \in Free \ {x, y} : b \in E \ {f}
      BY <2>8, <2>12, <3>1
    <3> QED BY <3>2, <3>3, <3>4
  <2> QED BY <1>5, <1>9, <1>20, <2>7, <2>8, <2>11, <2>13
<1> QED BY <1>19, <1>20

-------------------------------------------------------------------------------
(***************************************************************************)
(* What the calls do to the lists of free chunks.                          *)
(***************************************************************************)
LEMMA RangeFront ==
  ASSUME NEW u \in Seq(Nat), Lists(u, Range(u)), u # <<>>
  PROVE  /\ Front(u) \in Seq(Nat) /\ Lists(Front(u), Range(Front(u)))
         /\ Range(Front(u)) = Range(u) \ {Last(u)} /\ Last(u) \in Range(u) /\ Last(u) \in Nat
<1>1. Lists(Front(u), Range(u) \ {Last(u)}) /\ Last(u) \in Range(u)
  BY ListsFront
<1>2. Front(u) \in Seq(Nat) /\ Last(u) \in Nat
  BY FrontProperties
<1>3. Range(Front(u)) = Range(u) \ {Last(u)}
  BY <1>1 DEF Lists
<1> QED BY <1>1, <1>2, <1>3

LEMMA SortedOut ==
  ASSUME NEW F, NEW h, NEW u, NEW b, FreeLists(F, h, u, b), u # <<>>,
         NEW a, a = Last(u), NEW g, \A x \in F \ {a} : g[x].size = h[x].size
  PROVE  a \in F /\ FreeLists(F \ {a}, g, Front(u), b)
<1>1. u \in Seq(Nat) /\ Lists(u, Range(u)) /\ Range(u) \subseteq F /\ Binned(F \ Range(u), h, b)
  BY DEF FreeLists
<1>2. /\ Front(u) \in Seq(Nat) /\ Lists(Front(u), Range(Front(u)))
      /\ Range(Front(u)) = Range(u) \ {a} /\ a \in Range(u)
  BY <1>1, RangeFront
<1>3. (F \ {a}) \ Range(Front(u)) = F \ Range(u)
  BY <1>1, <1>2
<1>4. Binned(F \ Range(u), g, b)
  BY <1>1, <1>2, BinnedSame
<1>5. Range(Front(u)) \subseteq F \ {a}
  BY <1>1, <1>2
<1> QED BY <1>1, <1>2, <1>3, <1>4, <1>5 DEF FreeLists

LEMMA TakenOut ==
  ASSUME NEW F, NEW h, NEW u, NEW b, FreeLists(F, h, u, b), NEW i \in Bins,
         NEW a, a \in F \ Range(u), BinIndex(h[a].size) = i,
         NEW w, w \in Seq(Nat), Lists(w, OfBin(F \ Range(u), h, i) \ {a}), Descending(h, w),
         NEW c, c = [b EXCEPT ![i] = w], NEW g, \A x \in F \ {a} : g[x].size = h[x].size
  PROVE  FreeLists(F \ {a}, g, u, c)
<1>1. u \in Seq(Nat) /\ Lists(u, Range(u)) /\ Range(u) \subseteq F /\ Binned(F \ Range(u), h, b)
  BY DEF FreeLists
<1>2. PICK S : S = F \ Range(u)
  OBVIOUS
<1>3. Binned(S \ {a}, h, c)
  BY <1>1, <1>2, BinnedTake
<1>4. \A x \in S \ {a} : g[x].size = h[x].size
  BY <1>2
<1>5. Binned(S \ {a}, g, c)
  BY <1>3, <1>4, BinnedSame
<1>6. (F \ {a}) \ Range(u) = S \ {a} /\ Range(u) \subseteq F \ {a}
  BY <1>1, <1>2
<1> QED BY <1>1, <1>5, <1>6 DEF FreeLists

(* The rest of a chunk that was cut is the only unsorted chunk. *)
LEMMA RestUnsorted ==
  ASSUME NEW F, NEW h, NEW b, FreeLists(F, h, <<>>, b), NEW r, r \in Nat, r \notin F,
         NEW g, \A x \in F : g[x].size = h[x].size
  PROVE  FreeLists(F \cup {r}, g, <<r>>, b)
<1>1. Binned(F \ Range(<<>>), h, b) /\ Range(<<>>) = {}
  BY RangeEmpty DEF FreeLists
<1>2. F \ Range(<<>>) = F
  BY <1>1
<1>3. Binned(F, g, b)
  BY <1>1, <1>2, BinnedSame
<1>4. <<r>> = Append(<<>>, r) /\ <<>> \in Seq(Nat) /\ <<r>> \in Seq(Nat)
  OBVIOUS
<1>5. Lists(<<r>>, {} \cup {r})
  <2>1. PICK s \in Seq(Nat) : s = <<>>
    BY <1>4
  <2>2. PICK S : S = {}
    OBVIOUS
  <2>3. Lists(s, S) /\ r \notin S
    BY <2>1, <2>2, ListsEmpty
  <2>4. Lists(Append(s, r), S \cup {r})
    BY <2>3, ListsAppend
  <2> QED BY <1>4, <2>1, <2>2, <2>4
<1>6. Range(<<r>>) = {r} /\ {} \cup {r} = {r}
  BY <1>5 DEF Lists
<1>7. (F \cup {r}) \ Range(<<r>>) = F /\ Lists(<<r>>, Range(<<r>>)) /\ Range(<<r>>) \subseteq F \cup {r}
  BY <1>5, <1>6
<1> QED BY <1>3, <1>4, <1>7 DEF FreeLists

(* An unsorted chunk goes to its bin. *)
LEMMA SortedInto ==
  ASSUME NEW F, NEW u, NEW b, FreeLists(F, heap, u, b), u # <<>>,
         \A x \in F : size(x) \in Nat /\ size(x) >= MinSize,
         NEW a, a = Last(u), NEW n \in Nat, n = size(a), NEW i, i = BinIndex(n),
         NEW c, c = [b EXCEPT ![i] = InsertAt(@, Place(n, @), a)]
  PROVE  FreeLists(F, heap, Front(u), c)
<1>1. u \in Seq(Nat) /\ Lists(u, Range(u)) /\ Range(u) \subseteq F /\ Binned(F \ Range(u), heap, b)
  BY DEF FreeLists
<1>2. /\ Front(u) \in Seq(Nat) /\ Lists(Front(u), Range(Front(u)))
      /\ Range(Front(u)) = Range(u) \ {a} /\ a \in Range(u) /\ a \in Nat
  BY <1>1, RangeFront
<1>3. PICK S : S = F \ Range(u)
  OBVIOUS
<1>4. a \notin S /\ \A x \in S \cup {a} : size(x) \in Nat /\ size(x) >= MinSize
  BY <1>1, <1>2, <1>3
<1>5. Binned(S, heap, b)
  BY <1>1, <1>3
<1>6. Binned(S \cup {a}, heap, c)
  BY <1>2, <1>4, <1>5, BinnedPlace
<1>7. F \ Range(Front(u)) = S \cup {a} /\ Range(Front(u)) \subseteq F
  BY <1>1, <1>2, <1>3
<1> QED BY <1>2, <1>6, <1>7 DEF FreeLists

LEMMA CoalesceLists ==
  ASSUME HeapInv, FreeLists(Free, heap, unsorted, bins), NEW a, a \in Used, Coalesce(a),
         curptr' = curptr
  PROVE  /\ HeapInv' /\ Used' = Used \ {a}
         /\ \A b \in Used \ {a} : heap'[b].size = heap[b].size
         /\ FreeLists(Free', heap', unsorted', bins')
         /\ \A i \in Bins : bins[i] = <<>> => bins'[i] = <<>>
<1>1. PICK x : x = MergedBack(a)
  OBVIOUS
<1>2. PICK y : y = MergedForward(a)
  OBVIOUS
<1>3. PICK f : f = Merged(a).addr
  OBVIOUS
<1>4. /\ HeapInv' /\ Used' = Used \ {a}
      /\ f \in Nat /\ f \in {a, x}
      /\ Free' = IF NextChunk(a) = top THEN Free \ {x, y} ELSE (Free \ {x, y}) \cup {f}
      /\ \A b \in Used \ {a} : heap'[b].size = heap[b].size
      /\ \A b \in Free \ {x, y} : heap'[b].size = heap[b].size
  <2>1. HeapInv' /\ Used' = Used \ {a}
    BY <1>1, <1>2, <1>3, CoalesceStep
  <2>2. f \in Nat /\ f \in {a, x}
    BY <1>1, <1>2, <1>3, CoalesceStep
  <2>3. Free' = IF NextChunk(a) = top THEN Free \ {x, y} ELSE (Free \ {x, y}) \cup {f}
    BY <1>1, <1>2, <1>3, CoalesceStep
  <2>4. \A b \in Used \ {a} : heap'[b].size = heap[b].size
    BY <1>1, <1>2, <1>3, CoalesceStep
  <2>5. \A b \in Free \ {x, y} : heap'[b].size = heap[b].size
    BY <1>1, <1>2, <1>3, CoalesceStep
  <2> QED BY <2>1, <2>2, <2>3, <2>4, <2>5
<1>5. PICK u : u = Unlinked(Unlinked(unsorted, x), y)
  OBVIOUS
<1>6. /\ bins' = [i \in Bins |-> Unlinked(Unlinked(bins[i], x), y)]
      /\ unsorted' = IF NextChunk(a) = top THEN u ELSE <<f>> \o u
  <2>1. bins' = [i \in Bins |-> Unlinked(Unlinked(bins[i], x), y)]
    BY <1>1, <1>2 DEF Coalesce
  <2>2. NextChunk(a) = top => unsorted' = u
    BY <1>1, <1>2, <1>5 DEF Coalesce
  <2>3. NextChunk(a) # top => unsorted' = <<f>> \o u
    BY <1>1, <1>2, <1>3, <1>5 DEF Coalesce
  <2> QED BY <2>1, <2>2, <2>3
<1>7. PICK R : R = Range(unsorted)
  OBVIOUS
<1>8. unsorted \in Seq(Nat) /\ Lists(unsorted, R) /\ R \subseteq Free /\ Binned(Free \ R, heap, bins)
  BY <1>7 DEF FreeLists
<1>9. u \in Seq(Nat) /\ Lists(u, R \ {x, y})
  <2>1. Unlinked(unsorted, x) \in Seq(Nat) /\ Lists(Unlinked(unsorted, x), R \ {x})
    BY <1>8, ListsUnlinked
  <2>2. u \in Seq(Nat) /\ Lists(u, (R \ {x}) \ {y})
    BY <1>5, <2>1, ListsUnlinked
  <2>3. (R \ {x}) \ {y} = R \ {x, y}
    OBVIOUS
  <2> QED BY <2>2, <2>3
<1>10. Range(u) = R \ {x, y}
  BY <1>9 DEF Lists
<1>11. Binned((Free \ R) \ {x, y}, heap, bins')
  BY <1>6, <1>8, BinnedRest
<1>12. Binned((Free \ R) \ {x, y}, heap', bins')
  <2>1. PICK S : S = (Free \ R) \ {x, y}
    OBVIOUS
  <2>2. \A b \in S : heap'[b].size = heap[b].size
    BY <1>4, <2>1
  <2> QED BY <1>11, <2>1, <2>2, BinnedSame
<1>13. a \notin Free
  BY DEF Used
<1>14. FreeLists(Free', heap', unsorted', bins')
  <2>1. CASE NextChunk(a) = top
    <3>1. Free' \ Range(u) = (Free \ R) \ {x, y} /\ Range(u) \subseteq Free' /\ unsorted' = u
      BY <1>4, <1>6, <1>8, <1>10, <2>1
    <3> QED BY <1>9, <1>10, <1>12, <3>1 DEF FreeLists
  <2>2. CASE NextChunk(a) # top
    <3>1. unsorted' = <<f>> \o u /\ Free' = (Free \ {x, y}) \cup {f}
      BY <1>4, <1>6, <2>2
    <3>2. f \notin R \ {x, y}
      BY <1>4, <1>8, <1>13
    <3>3. unsorted' \in Seq(Nat) /\ Lists(unsorted', (R \ {x, y}) \cup {f})
      BY <1>4, <1>9, <3>1, <3>2, ListsPush, PushProperties
    <3>4. Range(unsorted') = (R \ {x, y}) \cup {f}
      BY <3>3 DEF Lists
    <3>5. Free' \ Range(unsorted') = (Free \ R) \ {x, y} /\ Range(unsorted') \subseteq Free'
      BY <1>4, <1>8, <1>13, <3>1, <3>4
    <3> QED BY <1>12, <3>3, <3>4, <3>5 DEF FreeLists
  <2> QED BY <2>1, <2>2
<1>15. \A i \in Bins : bins[i] = <<>> => bins'[i] = <<>>
  BY <1>6, UnlinkedEmpty
<1> QED BY <1>4, <1>14, <1>15

-------------------------------------------------------------------------------
(***************************************************************************)
(* What a call knows at each place of its search.                          *)
(***************************************************************************)
LEMMA FreeSizes ==
  ASSUME HeapInv, NEW a, a \in Free
  PROVE  /\ a \in Nat /\ size(a) \in Nat /\ size(a) >= MinSize /\ a \in Chunks /\ a \notin Used
         /\ BinIndex(size(a)) \in Bins /\ BinIndex(size(a)) \in Nat
<1>1. a \in Nat /\ size(a) \in Nat /\ size(a) >= MinSize /\ a \in Chunks
  BY ChunkFacts DEF size
<1>2. BinIndex(size(a)) \in Bins /\ BinIndex(size(a)) \in Nat
  BY <1>1, BinIndexFacts
<1> QED BY <1>1, <1>2 DEF Used

LEMMA UnsortedOrBinned ==
  ASSUME HeapInv, ListInv, NEW a, a \in Free, a \notin Range(unsorted),
         NEW i, i = BinIndex(size(a))
  PROVE  /\ i \in Bins /\ i \in Nat /\ i \in binmap
         /\ bins[i] \in Seq(Nat) /\ bins[i] # <<>>
         /\ \E k \in 1 .. Len(bins[i]) : bins[i][k] = a
<1>1. i \in Bins /\ i \in Nat
  BY FreeSizes
<1>2. Binned(Free \ Range(unsorted), heap, bins)
  BY DEF ListInv, FreeLists
<1>3. a \in Free \ Range(unsorted) /\ BinIndex(heap[a].size) = i
  BY DEF size
<1>4. bins[i] \in Seq(Nat) /\ \E k \in 1 .. Len(bins[i]) : bins[i][k] = a
  BY <1>1, <1>2, <1>3, BinnedMember
<1>5. bins[i] # <<>>
  <2>1. CASE bins[i] = <<>>
    <3>1. Len(bins[i]) = 0
      BY <2>1
    <3> QED BY <1>4, <3>1
  <2> QED BY <2>1
<1>6. i \in binmap
  BY <1>1, <1>5 DEF ListInv, Mapped
<1> QED BY <1>1, <1>4, <1>5, <1>6

(* And what is in a bin is free. *)
LEMMA BinnedIsFree ==
  ASSUME ListInv, NEW i \in Bins
  PROVE  /\ bins[i] \in Seq(Nat) /\ Lists(bins[i], OfBin(Free \ Range(unsorted), heap, i))
         /\ Descending(heap, bins[i])
         /\ \A k \in 1 .. Len(bins[i]) : /\ bins[i][k] \in Free \ Range(unsorted)
                                         /\ BinIndex(size(bins[i][k])) = i
<1>1. Binned(Free \ Range(unsorted), heap, bins)
  BY DEF ListInv, FreeLists
<1>2. /\ bins[i] \in Seq(Nat) /\ Lists(bins[i], OfBin(Free \ Range(unsorted), heap, i))
      /\ Descending(heap, bins[i])
  BY <1>1, BinnedMember
<1>3. \A k \in 1 .. Len(bins[i]) : /\ bins[i][k] \in Free \ Range(unsorted)
                                   /\ BinIndex(heap[bins[i][k]].size) = i
  BY <1>1, BinnedMember
<1> QED BY <1>2, <1>3 DEF size

LEMMA SortingFacts ==
  ASSUME OpInv, Sorting
  PROVE  /\ nb \in Nat /\ nb >= MinSize /\ op.idx = BinIndex(nb)
         /\ in_smallbin_range(nb) => bins[nb] = <<>>
         /\ At("malloc") \/ At("sort")
<1>1. At("malloc") \/ At("sort")
  BY DEF Sorting, MustSearch
<1>2. nb \in Nat /\ nb >= MinSize /\ op.idx = BinIndex(nb)
  BY <1>1 DEF OpInv, nb
<1>3. in_smallbin_range(nb) => bins[nb] = <<>>
  BY DEF Sorting, MustSearch, ExactSmall, OpInv
<1> QED BY <1>1, <1>2, <1>3

LEMMA MappingFacts ==
  ASSUME HeapInv, ListInv, OpInv, Mapping
  PROVE  /\ nb \in Nat /\ nb >= MinSize /\ unsorted = <<>>
         /\ op.idx \in Nat /\ op.idx >= BinIndex(nb)
         /\ \A a \in Free : size(a) >= nb => BinIndex(size(a)) > op.idx
         /\ At("malloc") \/ At("sort") \/ At("map")
<1>1. CASE At("map")
  BY <1>1 DEF OpInv, nb
<1>2. CASE Sorted /\ ~Scanning
  <2>1. /\ nb \in Nat /\ nb >= MinSize /\ op.idx = BinIndex(nb) /\ unsorted = <<>>
        /\ in_smallbin_range(nb) => bins[nb] = <<>>
        /\ At("malloc") \/ At("sort")
    BY <1>2, SortingFacts DEF Sorted
  <2>2. BinIndex(nb) \in Nat
    BY <2>1, BinIndexFacts
  <2>3. ASSUME NEW a \in Free, size(a) >= nb
        PROVE  BinIndex(size(a)) > op.idx
    <3>1. PICK s \in Nat : s = size(a)
      BY FreeSizes
    <3>2. PICK i : i = BinIndex(s)
      OBVIOUS
    <3>3. a \notin Range(unsorted)
      BY <2>1, RangeEmpty
    <3>4. i \in Bins /\ i \in Nat /\ bins[i] \in Seq(Nat) /\ bins[i] # <<>>
      BY <3>1, <3>2, <3>3, UnsortedOrBinned
    <3>5. PICK k \in 1 .. Len(bins[i]) : bins[i][k] = a
      BY <3>1, <3>2, <3>3, UnsortedOrBinned
    <3>6. i >= BinIndex(nb)
      BY <2>1, <2>3, <3>1, <3>2, BinIndexGrows
    <3>7. i # BinIndex(nb)
      <4>1. CASE in_smallbin_range(nb)
        <5>1. BinIndex(nb) = nb
          BY <4>1 DEF BinIndex
        <5> QED BY <2>1, <3>4, <4>1, <5>1
      <4>2. CASE ~in_smallbin_range(nb)
        <5>1. Fitting = {}
          BY <1>2, <4>2 DEF Scanning
        <5>2. ASSUME i = BinIndex(nb)
              PROVE  FALSE
          <6>1. OwnBin = bins[i] /\ DOMAIN bins[i] = 1 .. Len(bins[i])
            BY <2>1, <3>4, <5>2, LenProperties DEF OwnBin
          <6>2. k \in Fitting
            BY <2>3, <3>5, <6>1 DEF Fitting
          <6> QED BY <5>1, <6>2
        <5> QED BY <5>2
      <4> QED BY <4>1, <4>2
    <3> QED BY <2>1, <2>2, <3>1, <3>2, <3>4, <3>6, <3>7
  <2> QED BY <2>1, <2>2, <2>3
<1> QED BY <1>1, <1>2 DEF Mapping

LEMMA TopFacts ==
  ASSUME HeapInv, ListInv, OpInv, UsingTop
  PROVE  /\ nb \in Nat /\ nb >= MinSize
         /\ \A a \in Free : size(a) < nb
         /\ ~At("consolidate")
<1>1. CASE At("top")
  BY <1>1 DEF OpInv, At, nb
<1>2. CASE Mapping /\ Marked = {}
  <2>1. /\ nb \in Nat /\ nb >= MinSize /\ unsorted = <<>>
        /\ \A a \in Free : size(a) >= nb => BinIndex(size(a)) > op.idx
        /\ At("malloc") \/ At("sort") \/ At("map")
    BY <1>2, MappingFacts
  <2>2. ASSUME NEW a \in Free
        PROVE  size(a) < nb
    <3>1. a \notin Range(unsorted)
      BY <2>1, RangeEmpty
    <3>2. PICK i : i = BinIndex(size(a))
      OBVIOUS
    <3>3. i \in binmap
      BY <3>1, <3>2, UnsortedOrBinned
    <3>4. ~(i > op.idx)
      BY <1>2, <3>3 DEF Marked
    <3>5. ~(size(a) >= nb)
      BY <2>1, <3>2, <3>4
    <3>6. size(a) \in Nat
      BY FreeSizes
    <3> QED BY <2>1, <3>5, <3>6
  <2> QED BY <2>1, <2>2 DEF At
<1>3. CASE At("malloc") /\ ~anychunks
  BY <1>3 DEF OpInv, At, nb, ListInv
<1> QED BY <1>1, <1>2, <1>3 DEF UsingTop

-------------------------------------------------------------------------------
(***************************************************************************)
(* The steps.                                                              *)
(***************************************************************************)
LEMMA IdleIs ==
  /\ Idle.at = "idle" /\ Idle.then = "idle"
  /\ Idle \in [at : Places, nb : Nat, idx : Nat, then : {"idle", "sort", "malloc", "systrim"}]
BY DEF Idle, Places

LEMMA OpIdle ==
  ASSUME op' = Idle
  PROVE  OpInv'
BY IdleIs DEF OpInv, At, SearchGoesOn

(* The block at a is handed out. *)
LEMMA Returned ==
  ASSUME LiveInv, NEW a, Return(a), nb \in Nat,
         Used \subseteq Used', a \in Used',
         \A b \in Used : b # a => heap'[b].size = heap[b].size,
         heap'[a].size >= nb, heap'[a].size - nb < MinSize
  PROVE  LiveInv' /\ OpInv' /\ DOMAIN live' = DOMAIN live \cup {a}
<1>1. PICK L : L = DOMAIN live
  OBVIOUS
<1>2. PICK n : n = nb
  OBVIOUS
<1>3. live' = [b \in L \cup {a} |-> IF b = a THEN n ELSE live[b]] /\ op' = Idle
  BY <1>1, <1>2 DEF Return
<1>4. DOMAIN live' = L \cup {a} /\ live'[a] = n /\ \A b \in L \ {a} : live'[b] = live[b]
  BY <1>3
<1>5. L \subseteq Used
  BY <1>1 DEF LiveInv
<1>6. L \cup {a} \subseteq Used'
  BY <1>5
<1>7. live'[a] \in Nat /\ heap'[a].size >= live'[a] /\ heap'[a].size - live'[a] < MinSize
  BY <1>2, <1>4
<1>8. \A b \in L \ {a} : /\ live'[b] \in Nat /\ heap'[b].size >= live'[b]
                         /\ heap'[b].size - live'[b] < MinSize
  <2>1. \A b \in L \ {a} : live'[b] = live[b] /\ heap'[b].size = heap[b].size
    BY <1>4, <1>5
  <2>2. \A b \in L : /\ live[b] \in Nat /\ heap[b].size >= live[b]
                     /\ heap[b].size - live[b] < MinSize
    BY <1>1 DEF LiveInv, size
  <2> QED BY <2>1, <2>2
<1>9. LiveInv'
  BY <1>4, <1>6, <1>7, <1>8 DEF LiveInv, size
<1> QED BY <1>1, <1>3, <1>4, <1>9, OpIdle

(* The lists of the fast bins and the flags, when only free chunks move. *)
LEMMA ListsAfter ==
  ASSUME ListInv, ~At("consolidate"), anychunks \/ Free' = {},
         Used' \ DOMAIN live' = Used \ DOMAIN live,
         \A b \in Used \ DOMAIN live : heap'[b].size = heap[b].size,
         fastbins' = fastbins, fastchunks' = fastchunks, anychunks' = anychunks,
         FreeLists(Free', heap', unsorted', bins'), Mapped(binmap', bins')
  PROVE  ListInv'
<1>1. PICK S : S = Used \ DOMAIN live
  OBVIOUS
<1>2. FastListed(S, heap, fastbins)
  BY <1>1 DEF ListInv
<1>3. FastListed(S, heap', fastbins')
  BY <1>1, <1>2, FastSame
<1>4. FastListed(Used' \ DOMAIN live', heap', fastbins')
  BY <1>1, <1>3
<1>5. NoFast' <=> NoFast
  BY DEF NoFast
<1>6. fastchunks' \/ NoFast'
  BY <1>5 DEF ListInv
<1>7. anychunks' \/ (Free' = {} /\ NoFast')
  BY <1>5 DEF ListInv
<1> QED BY <1>4, <1>6, <1>7 DEF ListInv

LEMMA LiveIsUsed ==
  ASSUME LiveInv, NEW a, a \notin Used
  PROVE  a \notin DOMAIN live
BY DEF LiveInv

(* A chunk that was not in use is handed out. *)
LEMMA HandedOut ==
  ASSUME ListInv, LiveInv, ~At("consolidate"), anychunks \/ Free' = {},
         NEW a, a \notin Used, Used' = Used \cup {a}, Return(a), nb \in Nat,
         \A b \in Used : heap'[b].size = heap[b].size,
         heap'[a].size >= nb, heap'[a].size - nb < MinSize,
         fastbins' = fastbins, fastchunks' = fastchunks, anychunks' = anychunks,
         FreeLists(Free', heap', unsorted', bins'), Mapped(binmap', bins')
  PROVE  ListInv' /\ LiveInv' /\ OpInv'
<1>1. LiveInv' /\ OpInv' /\ DOMAIN live' = DOMAIN live \cup {a}
  <2>1. Used \subseteq Used' /\ a \in Used'
    OBVIOUS
  <2>2. \A b \in Used : b # a => heap'[b].size = heap[b].size
    OBVIOUS
  <2> QED BY <2>1, <2>2, Returned
<1>2. a \notin DOMAIN live
  BY LiveIsUsed
<1>3. Used' \ DOMAIN live' = Used \ DOMAIN live
  BY <1>1, <1>2
<1>4. \A b \in Used \ DOMAIN live : heap'[b].size = heap[b].size
  OBVIOUS
<1>5. ListInv'
  BY <1>3, <1>4, ListsAfter
<1> QED BY <1>1, <1>5

LEMMA Exclusive ==
  ASSUME At("malloc") \/ At("sort") \/ At("map")
  PROVE  ~At("consolidate")
BY DEF At

LEMMA FreeMeansChunks ==
  ASSUME ListInv, Free # {}
  PROVE  anychunks
BY DEF ListInv

LEMMA MappedTake ==
  ASSUME Mapped(binmap, bins), NEW i, i \in Bins, bins[i] # <<>>, bins \in [Bins -> Seq(Nat)],
         NEW w, NEW c, c = [bins EXCEPT ![i] = w]
  PROVE  Mapped(binmap, c)
BY DEF Mapped

LEMMA Steady ==
  ASSUME HeapInv, ListInv, LiveInv,
         UNCHANGED <<heap, top, unsorted, bins, fastbins, curptr, live, anychunks>>,
         Mapped(binmap', bins), fastchunks' \/ NoFast \/ At("consolidate")'
  PROVE  /\ HeapInv' /\ ListInv' /\ LiveInv' /\ Free' = Free /\ Used' = Used
         /\ \A a : size(a)' = size(a)
<1>1. Free' = Free /\ Used' = Used /\ (\A a : size(a)' = size(a)) /\ (NoFast' <=> NoFast)
  BY DEF Free, Used, Chunks, inuse, NextChunk, size, NoFast
<1>2. HeapInv'
  BY DEF HeapInv
<1>3. LiveInv'
  BY <1>1 DEF LiveInv
<1>4. ListInv'
  BY <1>1 DEF ListInv
<1> QED BY <1>1, <1>2, <1>3, <1>4

LEMMA MemAllocStep ==
  ASSUME AllocInv, NEW n \in Lengths, MemAlloc(n)
  PROVE  AllocInv'
<1>1. PICK m : m = ChunkFor(n)
  OBVIOUS
<1>2. m \in Nat /\ m >= MinSize
  BY <1>1, ChunkForFacts
<1>3. BinIndex(m) \in Nat
  BY <1>2, BinIndexFacts
<1>4. op = Idle /\ op' = [Idle EXCEPT !.at = "malloc", !.nb = m, !.idx = BinIndex(m)]
  BY <1>1 DEF MemAlloc
<1>5. op' = [at |-> "malloc", nb |-> m, idx |-> BinIndex(m), then |-> "idle"]
  BY <1>4 DEF Idle
<1>6. ~At("consolidate")
  BY <1>4 DEF Idle, At
<1>7. /\ UNCHANGED <<heap, top, unsorted, bins, fastbins, curptr, live, anychunks>>
      /\ binmap' = binmap /\ fastchunks' = fastchunks
  BY DEF MemAlloc, lists, flags
<1>8. HeapInv' /\ ListInv' /\ LiveInv'
  BY <1>6, <1>7, Steady DEF AllocInv, ListInv
<1>9. OpInv'
  BY <1>2, <1>3, <1>5 DEF OpInv, At, SearchGoesOn, Places, nb
<1> QED BY <1>8, <1>9 DEF AllocInv

LEMMA SizeOfSmallBin ==
  ASSUME NEW m \in Nat, NEW n \in Nat, m >= MinSize, n >= MinSize, n < MinLarge, BinIndex(m) = n
  PROVE  m = n
BY BinIndexFacts, ConstantFacts

LEMMA MallocFastStep ==
  ASSUME AllocInv, MallocFast
  PROVE  AllocInv'
<1>1. PICK i : i = nb
  OBVIOUS
<1>2. PICK a : a = Head(fastbins[i])
  OBVIOUS
<1>3. /\ At("malloc") /\ anychunks /\ i \in FastBins /\ fastbins[i] # <<>>
      /\ fastbins' = [fastbins EXCEPT ![i] = Tail(fastbins[i])]
      /\ Return(a)
      /\ UNCHANGED <<heap, top, unsorted, bins, binmap, anychunks, fastchunks, curptr>>
  BY <1>1, <1>2 DEF MallocFast, Exact, flags
<1>4. PICK S : S = Used \ DOMAIN live
  OBVIOUS
<1>5. FastListed(S, heap, fastbins)
  BY <1>4 DEF AllocInv, ListInv
<1>6. a \in S /\ heap[a].size = i /\ FastListed(S \ {a}, heap, fastbins')
  <2>1. PICK f : f = fastbins
    OBVIOUS
  <2>2. PICK g : g = fastbins'
    OBVIOUS
  <2>3. FastListed(S, heap, f) /\ f[i] # <<>> /\ a = Head(f[i]) /\ g = [f EXCEPT ![i] = Tail(f[i])]
    BY <1>2, <1>3, <1>5, <2>1, <2>2
  <2>4. i \in FastBins
    BY <1>3
  <2>5. FastListed(S \ {a}, heap, g)
    BY <2>3, <2>4, FastTake
  <2>6. a \in S /\ heap[a].size = i
    BY <2>3, <2>4, FastHead
  <2> QED BY <2>2, <2>5, <2>6
<1>7. Free' = Free /\ Used' = Used /\ HeapInv'
  BY <1>3 DEF Free, Used, Chunks, inuse, NextChunk, size, HeapInv, AllocInv
<1>8. i \in Nat
  BY <1>3, ConstantFacts DEF FastBins, MinSize
<1>9. LiveInv' /\ OpInv' /\ DOMAIN live' = DOMAIN live \cup {a}
  <2>1. Used \subseteq Used' /\ a \in Used' /\ heap' = heap /\ nb \in Nat
    BY <1>1, <1>3, <1>4, <1>6, <1>7, <1>8
  <2>2. heap'[a].size >= nb /\ heap'[a].size - nb < MinSize
    BY <1>1, <1>6, <1>8, <2>1 DEF MinSize
  <2>3. \A b \in Used : b # a => heap'[b].size = heap[b].size
    BY <2>1
  <2> QED BY <1>3, <2>1, <2>2, <2>3, Returned DEF AllocInv
<1>10. Used' \ DOMAIN live' = S \ {a}
  BY <1>4, <1>7, <1>9
<1>11. fastchunks'
  <2>1. ~NoFast
    BY <1>3 DEF NoFast
  <2>2. ~At("consolidate")
    BY <1>3 DEF At
  <2> QED BY <1>3, <2>1, <2>2 DEF AllocInv, ListInv
<1>12. ListInv'
  <2>1. FastListed(Used' \ DOMAIN live', heap', fastbins')
    BY <1>3, <1>6, <1>10
  <2>2. FreeLists(Free', heap', unsorted', bins') /\ Mapped(binmap', bins') /\ anychunks'
    BY <1>3, <1>7 DEF AllocInv, ListInv
  <2> QED BY <1>11, <2>1, <2>2 DEF ListInv
<1> QED BY <1>7, <1>9, <1>12 DEF AllocInv

LEMMA MallocSmallStep ==
  ASSUME AllocInv, MallocSmall
  PROVE  AllocInv'
<1>1. PICK i : i = nb
  OBVIOUS
<1>2. PICK a : a = Last(bins[i])
  OBVIOUS
<1>3. PICK w : w = Front(bins[i])
  OBVIOUS
<1>4. /\ At("malloc") /\ anychunks /\ in_smallbin_range(i) /\ bins[i] # <<>>
      /\ bins' = [bins EXCEPT ![i] = w]
      /\ heap' = InUseBefore(heap, NextChunk(a))
      /\ Return(a)
      /\ UNCHANGED <<top, unsorted, fastbins, binmap, anychunks, fastchunks, curptr>>
  BY <1>1, <1>2, <1>3 DEF MallocSmall, ExactSmall, flags
<1>5. i \in Nat /\ i >= MinSize /\ i < MinLarge
  BY <1>1, <1>4 DEF AllocInv, OpInv, nb, in_smallbin_range
<1>6. i \in Bins /\ BinIndex(i) = i
  BY <1>5, BinIndexFacts
<1>7. /\ bins[i] \in Seq(Nat) /\ Lists(bins[i], OfBin(Free \ Range(unsorted), heap, i))
      /\ Descending(heap, bins[i])
      /\ \A k \in 1 .. Len(bins[i]) : /\ bins[i][k] \in Free \ Range(unsorted)
                                      /\ BinIndex(size(bins[i][k])) = i
  BY <1>6, BinnedIsFree DEF AllocInv
<1>8. /\ w \in Seq(Nat) /\ Lists(w, OfBin(Free \ Range(unsorted), heap, i) \ {a})
      /\ Descending(heap, w)
  <2>1. w \in Seq(Nat)
    BY <1>3, <1>4, <1>7, FrontProperties
  <2>2. Lists(w, OfBin(Free \ Range(unsorted), heap, i) \ {a})
    BY <1>2, <1>3, <1>4, <1>7, ListsFront
  <2>3. Descending(heap, w)
    BY <1>3, <1>4, <1>7, DescendingFront
  <2> QED BY <2>1, <2>2, <2>3
<1>9. a \in Free \ Range(unsorted) /\ BinIndex(size(a)) = i
  <2>1. Len(bins[i]) \in 1 .. Len(bins[i])
    BY <1>4, <1>7, EmptySeq, LenProperties
  <2> QED BY <1>2, <1>7, <2>1 DEF Last
<1>10. size(a) = i
  <2>1. PICK m \in Nat : m = size(a)
    BY <1>9, FreeSizes DEF AllocInv
  <2>2. m >= MinSize
    BY <1>9, <2>1, FreeSizes DEF AllocInv
  <2> QED BY <1>5, <1>9, <2>1, <2>2, SizeOfSmallBin
<1>11. /\ HeapInv' /\ Free' = Free \ {a} /\ Used' = Used \cup {a} /\ a \notin Used
       /\ \A b \in Chunks : heap'[b].size = heap[b].size
  BY <1>4, <1>9, WholeStep DEF AllocInv
<1>12. Free \subseteq Chunks /\ Used \subseteq Chunks
  BY ChunkFacts DEF AllocInv
<1>13. FreeLists(Free', heap', unsorted', bins')
  <2>1. FreeLists(Free, heap, unsorted, bins)
    BY DEF AllocInv, ListInv
  <2>2. \A x \in Free \ {a} : heap'[x].size = heap[x].size
    BY <1>11, <1>12
  <2>3. BinIndex(heap[a].size) = i
    BY <1>9 DEF size
  <2>4. FreeLists(Free \ {a}, heap', unsorted, bins')
    BY <1>4, <1>6, <1>8, <1>9, <2>1, <2>2, <2>3, TakenOut
  <2> QED BY <1>4, <1>11, <2>4
<1>14. Mapped(binmap', bins')
  <2>1. Mapped(binmap, bins) /\ bins \in [Bins -> Seq(Nat)]
    BY DEF AllocInv, ListInv, FreeLists, Binned
  <2> QED BY <1>4, <1>6, <2>1, MappedTake
<1>15. ListInv' /\ LiveInv' /\ OpInv'
  <2>1. ~At("consolidate")
    BY <1>4, Exclusive
  <2>2. \A b \in Used : heap'[b].size = heap[b].size
    BY <1>11, <1>12
  <2>3. heap'[a].size >= nb /\ heap'[a].size - nb < MinSize /\ nb \in Nat
    BY <1>1, <1>5, <1>9, <1>10, <1>11, <1>12 DEF size, MinSize
  <2> QED BY <1>4, <1>11, <1>13, <1>14, <2>1, <2>2, <2>3, HandedOut DEF AllocInv
<1> QED BY <1>11, <1>15 DEF AllocInv

(* A chunk of a bin is chosen, and used whole or in part. *)
LEMMA UseStep ==
  ASSUME AllocInv, At("malloc") \/ At("sort") \/ At("map"),
         nb \in Nat, nb >= MinSize, unsorted = <<>>,
         NEW i \in Bins, bins[i] # <<>>, NEW a, a \in Free, BinIndex(size(a)) = i, size(a) >= nb,
         NEW w, w \in Seq(Nat), Lists(w, OfBin(Free, heap, i) \ {a}), Descending(heap, w),
         bins' = [bins EXCEPT ![i] = w],
         NEW remembered, Use(a, remembered),
         UNCHANGED <<top, fastbins, binmap, anychunks, fastchunks, curptr>>
  PROVE  AllocInv'
<1>1. /\ a \in Nat /\ size(a) \in Nat /\ a \in Chunks /\ a \notin Used
      /\ Free \subseteq Chunks /\ Used \subseteq Chunks
  BY FreeSizes, ChunkFacts DEF AllocInv
<1>2. Range(unsorted) = {} /\ Free \ Range(unsorted) = Free
  BY RangeEmpty
<1>3. FreeLists(Free, heap, unsorted, bins) /\ a \in Free \ Range(unsorted)
  BY <1>2 DEF AllocInv, ListInv
<1>4. Mapped(binmap', bins')
  <2>1. Mapped(binmap, bins) /\ bins \in [Bins -> Seq(Nat)]
    BY DEF AllocInv, ListInv, FreeLists, Binned
  <2> QED BY <2>1, MappedTake
<1>5. ~At("consolidate") /\ anychunks /\ Return(a)
  BY Exclusive, FreeMeansChunks DEF AllocInv, Use
<1>6. BinIndex(heap[a].size) = i /\ Lists(w, OfBin(Free \ Range(unsorted), heap, i) \ {a})
  BY <1>2 DEF size
<1>7. CASE Exhausts(a)
  <2>1. heap' = InUseBefore(heap, NextChunk(a)) /\ unsorted' = unsorted
    BY <1>7 DEF Use
  <2>2. /\ HeapInv' /\ Free' = Free \ {a} /\ Used' = Used \cup {a}
        /\ \A b \in Chunks : heap'[b].size = heap[b].size
    BY <2>1, WholeStep DEF AllocInv
  <2>3. \A x \in Free \ {a} : heap'[x].size = heap[x].size
    BY <1>1, <2>2
  <2>4. FreeLists(Free \ {a}, heap', unsorted, bins')
    BY <1>3, <1>6, <2>3, TakenOut
  <2>5. FreeLists(Free', heap', unsorted', bins')
    BY <2>1, <2>2, <2>4
  <2>6. \A b \in Used : heap'[b].size = heap[b].size
    BY <1>1, <2>2
  <2>7. heap'[a].size >= nb /\ heap'[a].size - nb < MinSize
    <3>1. heap'[a].size = size(a)
      BY <1>1, <2>2 DEF size
    <3> QED BY <1>7, <3>1 DEF Exhausts
  <2>8. ListInv' /\ LiveInv' /\ OpInv'
    BY <1>1, <1>4, <1>5, <2>2, <2>5, <2>6, <2>7, HandedOut DEF AllocInv
  <2> QED BY <2>2, <2>8 DEF AllocInv
<1>8. CASE ~Exhausts(a)
  <2>1. heap' = Cut(a) /\ unsorted' = <<a + nb>>
    BY <1>8 DEF Use
  <2>2. PICK n \in Nat : n = nb
    OBVIOUS
  <2>3. PICK s \in Int : s = size(a) - n
    BY <1>1
  <2>4. PICK r : r = a + n
    OBVIOUS
  <2>5. n >= MinSize /\ s >= MinSize
    BY <1>1, <1>8, <2>2, <2>3 DEF Exhausts, MinSize
  <2>6. /\ HeapInv' /\ r \in Nat /\ r \notin Chunks
        /\ Free' = (Free \ {a}) \cup {r} /\ Used' = Used \cup {a}
        /\ heap'[a].size = n
        /\ \A b \in Chunks \ {a} : heap'[b].size = heap[b].size
    <3>1. HeapInv' /\ r \in Nat /\ r \notin Chunks
      BY <2>1, <2>2, <2>3, <2>4, <2>5, PartStep DEF AllocInv
    <3>2. Free' = (Free \ {a}) \cup {r} /\ Used' = Used \cup {a}
      BY <2>1, <2>2, <2>3, <2>4, <2>5, PartStep DEF AllocInv
    <3>3. heap'[a].size = n /\ \A b \in Chunks \ {a} : heap'[b].size = heap[b].size
      BY <2>1, <2>2, <2>3, <2>4, <2>5, PartStep DEF AllocInv
    <3> QED BY <3>1, <3>2, <3>3
  <2>7. PICK F : F = Free \ {a}
    OBVIOUS
  <2>8. FreeLists(F, heap, unsorted, bins')
    BY <1>3, <1>6, <2>7, TakenOut
  <2>9. r \notin F /\ \A x \in F : heap'[x].size = heap[x].size
    BY <1>1, <2>6, <2>7
  <2>10. FreeLists(F \cup {r}, heap', <<r>>, bins')
    BY <2>6, <2>8, <2>9, RestUnsorted
  <2>11. FreeLists(Free', heap', unsorted', bins')
    BY <2>1, <2>2, <2>4, <2>6, <2>7, <2>10
  <2>12. \A b \in Used : heap'[b].size = heap[b].size
    BY <1>1, <2>6
  <2>13. heap'[a].size >= nb /\ heap'[a].size - nb < MinSize
    BY <2>2, <2>6 DEF MinSize
  <2>14. ListInv' /\ LiveInv' /\ OpInv'
    BY <1>1, <1>4, <1>5, <2>6, <2>11, <2>12, <2>13, HandedOut DEF AllocInv
  <2> QED BY <2>6, <2>14 DEF AllocInv
<1> QED BY <1>7, <1>8

LEMMA SortRemainderStep ==
  ASSUME AllocInv, SortRemainder
  PROVE  AllocInv'
<1>1. PICK a : a = Victim
  OBVIOUS
<1>2. /\ Sorting /\ unsorted # <<>> /\ Len(unsorted) = 1 /\ size(a) > nb + MinSize
      /\ heap' = Cut(a) /\ unsorted' = <<a + nb>> /\ Return(a) /\ a = Last(unsorted)
      /\ UNCHANGED <<top, bins, fastbins, binmap, anychunks, fastchunks, curptr>>
  BY <1>1 DEF SortRemainder, UsesRemainder, Victim
<1>3. nb \in Nat /\ nb >= MinSize /\ (At("malloc") \/ At("sort"))
  BY <1>2, SortingFacts DEF AllocInv
<1>4. FreeLists(Free, heap, unsorted, bins) /\ Mapped(binmap, bins)
  BY DEF AllocInv, ListInv
<1>5. a \in Free /\ FreeLists(Free \ {a}, heap, Front(unsorted), bins)
  BY <1>2, <1>4, SortedOut
<1>6. Front(unsorted) = <<>>
  <2>1. unsorted \in Seq(Nat)
    BY <1>4 DEF FreeLists
  <2>2. Front(unsorted) \in Seq(Nat) /\ Len(Front(unsorted)) = 0
    BY <1>2, <2>1, FrontProperties
  <2> QED BY <2>2, EmptySeq
<1>7. /\ a \in Nat /\ size(a) \in Nat /\ a \in Chunks /\ a \notin Used
      /\ Free \subseteq Chunks /\ Used \subseteq Chunks
  BY <1>5, FreeSizes, ChunkFacts DEF AllocInv
<1>8. PICK n \in Nat : n = nb
  BY <1>3
<1>9. PICK s \in Int : s = size(a) - n
  BY <1>7
<1>10. PICK r : r = a + n
  OBVIOUS
<1>11. n >= MinSize /\ s >= MinSize
  BY <1>2, <1>3, <1>7, <1>8, <1>9 DEF MinSize
<1>12. /\ HeapInv' /\ r \in Nat /\ r \notin Chunks
       /\ Free' = (Free \ {a}) \cup {r} /\ Used' = Used \cup {a}
       /\ heap'[a].size = n
       /\ \A b \in Chunks \ {a} : heap'[b].size = heap[b].size
  <2>1. HeapInv' /\ r \in Nat /\ r \notin Chunks
    BY <1>2, <1>5, <1>8, <1>9, <1>10, <1>11, PartStep DEF AllocInv
  <2>2. Free' = (Free \ {a}) \cup {r} /\ Used' = Used \cup {a}
    BY <1>2, <1>5, <1>8, <1>9, <1>10, <1>11, PartStep DEF AllocInv
  <2>3. heap'[a].size = n /\ \A b \in Chunks \ {a} : heap'[b].size = heap[b].size
    BY <1>2, <1>5, <1>8, <1>9, <1>10, <1>11, PartStep DEF AllocInv
  <2> QED BY <2>1, <2>2, <2>3
<1>13. PICK F : F = Free \ {a}
  OBVIOUS
<1>14. r \notin F /\ (\A x \in F : heap'[x].size = heap[x].size) /\ FreeLists(F, heap, <<>>, bins)
  BY <1>5, <1>6, <1>7, <1>12, <1>13
<1>15. FreeLists(F \cup {r}, heap', <<r>>, bins)
  BY <1>12, <1>14, RestUnsorted
<1>16. FreeLists(Free', heap', unsorted', bins') /\ Mapped(binmap', bins')
  BY <1>2, <1>4, <1>8, <1>10, <1>12, <1>13, <1>15
<1>17. \A b \in Used : heap'[b].size = heap[b].size
  BY <1>7, <1>12
<1>18. heap'[a].size >= nb /\ heap'[a].size - nb < MinSize
  BY <1>8, <1>12 DEF MinSize
<1>19. ~At("consolidate") /\ anychunks
  BY <1>3, <1>5, Exclusive, FreeMeansChunks DEF AllocInv
<1>20. ListInv' /\ LiveInv' /\ OpInv'
  BY <1>2, <1>3, <1>7, <1>12, <1>16, <1>17, <1>18, <1>19, HandedOut DEF AllocInv
<1> QED BY <1>12, <1>20 DEF AllocInv

LEMMA SortExactStep ==
  ASSUME AllocInv, SortExact
  PROVE  AllocInv'
<1>1. PICK a : a = Victim
  OBVIOUS
<1>2. /\ Sorting /\ unsorted # <<>> /\ size(a) = nb
      /\ heap' = InUseBefore(heap, NextChunk(a)) /\ unsorted' = Front(unsorted)
      /\ Return(a) /\ a = Last(unsorted)
      /\ UNCHANGED <<top, bins, fastbins, binmap, anychunks, fastchunks, curptr>>
  BY <1>1 DEF SortExact, Victim, flags
<1>3. nb \in Nat /\ nb >= MinSize /\ (At("malloc") \/ At("sort"))
  BY <1>2, SortingFacts DEF AllocInv
<1>4. FreeLists(Free, heap, unsorted, bins) /\ Mapped(binmap, bins)
  BY DEF AllocInv, ListInv
<1>5. a \in Free
  BY <1>2, <1>4, SortedOut
<1>6. /\ HeapInv' /\ Free' = Free \ {a} /\ Used' = Used \cup {a} /\ a \notin Used
      /\ \A b \in Chunks : heap'[b].size = heap[b].size
  BY <1>2, <1>5, WholeStep DEF AllocInv
<1>7. Free \subseteq Chunks /\ Used \subseteq Chunks
  BY ChunkFacts DEF AllocInv
<1>8. \A x \in Free \ {a} : heap'[x].size = heap[x].size
  BY <1>6, <1>7
<1>9. FreeLists(Free \ {a}, heap', Front(unsorted), bins)
  BY <1>2, <1>4, <1>8, SortedOut
<1>10. FreeLists(Free', heap', unsorted', bins') /\ Mapped(binmap', bins')
  BY <1>2, <1>4, <1>6, <1>9
<1>11. \A b \in Used : heap'[b].size = heap[b].size
  BY <1>6, <1>7
<1>12. heap'[a].size >= nb /\ heap'[a].size - nb < MinSize
  BY <1>2, <1>3, <1>5, <1>6, <1>7 DEF size, MinSize
<1>13. ~At("consolidate") /\ anychunks
  BY <1>3, <1>5, Exclusive, FreeMeansChunks DEF AllocInv
<1>14. ListInv' /\ LiveInv' /\ OpInv'
  BY <1>2, <1>3, <1>6, <1>10, <1>11, <1>12, <1>13, HandedOut DEF AllocInv
<1> QED BY <1>6, <1>14 DEF AllocInv

LEMMA HeapSame ==
  ASSUME HeapInv, UNCHANGED <<heap, top, curptr>>
  PROVE  /\ HeapInv' /\ Free' = Free /\ Used' = Used /\ Chunks' = Chunks
         /\ \A a : size(a)' = size(a)
BY DEF HeapInv, Free, Used, Chunks, inuse, NextChunk, size

LEMMA LiveSame ==
  ASSUME LiveInv, live' = live, Used \subseteq Used',
         \A b \in Used : heap'[b].size = heap[b].size
  PROVE  LiveInv'
<1>1. PICK L : L = DOMAIN live
  OBVIOUS
<1>2. L \subseteq Used /\ DOMAIN live' = L
  BY <1>1 DEF LiveInv
<1>3. \A b \in L : /\ live[b] \in Nat /\ heap[b].size >= live[b] /\ heap[b].size - live[b] < MinSize
  BY <1>1 DEF LiveInv, size
<1>4. \A b \in L : /\ live'[b] \in Nat /\ heap'[b].size >= live'[b] /\ heap'[b].size - live'[b] < MinSize
  BY <1>2, <1>3
<1> QED BY <1>2, <1>4 DEF LiveInv, size

(* Where a call goes to inside malloc. *)
LEMMA OpMoves ==
  ASSUME OpInv, NEW at \in Places, op' = [op EXCEPT !.at = at]
  PROVE  /\ op' \in [at : Places, nb : Nat, idx : Nat, then : {"idle", "sort", "malloc", "systrim"}]
         /\ op'.at = at /\ op'.nb = op.nb /\ op'.idx = op.idx /\ op'.then = op.then
BY DEF OpInv

LEMMA SortPlaceStep ==
  ASSUME AllocInv, SortPlace
  PROVE  AllocInv'
<1>1. PICK a : a = Victim
  OBVIOUS
<1>2. PICK n : n = size(a)
  OBVIOUS
<1>3. PICK i : i = BinIndex(n)
  OBVIOUS
<1>4. /\ Sorting /\ unsorted # <<>> /\ n # nb /\ a = Last(unsorted)
      /\ bins' = [bins EXCEPT ![i] = InsertAt(@, Place(n, @), a)]
      /\ binmap' = binmap \cup {i} /\ unsorted' = Front(unsorted)
      /\ op' = [op EXCEPT !.at = "sort"]
      /\ UNCHANGED <<heap, top, fastbins, anychunks, fastchunks, curptr, live>>
  BY <1>1, <1>2, <1>3 DEF SortPlace, Victim, Goto, flags
<1>5. /\ nb \in Nat /\ nb >= MinSize /\ op.idx = BinIndex(nb) /\ (At("malloc") \/ At("sort"))
      /\ in_smallbin_range(nb) => bins[nb] = <<>>
  BY <1>4, SortingFacts DEF AllocInv
<1>6. FreeLists(Free, heap, unsorted, bins) /\ Mapped(binmap, bins) /\ bins \in [Bins -> Seq(Nat)]
  BY DEF AllocInv, ListInv, FreeLists, Binned
<1>7. a \in Free
  BY <1>4, <1>6, SortedOut
<1>8. n \in Nat /\ n >= MinSize /\ i \in Bins
  BY <1>2, <1>3, <1>7, FreeSizes DEF AllocInv
<1>9. HeapInv' /\ Free' = Free /\ Used' = Used
  BY <1>4, HeapSame DEF AllocInv
<1>10. FreeLists(Free, heap, Front(unsorted), bins')
  <2>1. \A x \in Free : size(x) \in Nat /\ size(x) >= MinSize
    BY FreeSizes DEF AllocInv
  <2> QED BY <1>2, <1>3, <1>4, <1>6, <1>8, <2>1, SortedInto
<1>11. \A j \in Bins \ {i} : bins'[j] = bins[j]
  BY <1>4, <1>6
<1>12. Mapped(binmap', bins')
  BY <1>4, <1>6, <1>8, <1>11 DEF Mapped
<1>13. LiveInv'
  BY <1>4, <1>9, LiveSame DEF AllocInv
<1>14. ListInv'
  <2>1. ~At("consolidate") /\ anychunks
    BY <1>5, <1>7, Exclusive, FreeMeansChunks DEF AllocInv
  <2>2. FreeLists(Free', heap', unsorted', bins')
    BY <1>4, <1>9, <1>10
  <2>3. /\ Used' \ DOMAIN live' = Used \ DOMAIN live
        /\ \A b \in Used \ DOMAIN live : heap'[b].size = heap[b].size
    BY <1>4, <1>9
  <2> QED BY <1>4, <1>12, <2>1, <2>2, <2>3, ListsAfter DEF AllocInv
<1>15. OpInv'
  <2>1. /\ op' \in [at : Places, nb : Nat, idx : Nat, then : {"idle", "sort", "malloc", "systrim"}]
        /\ op'.at = "sort" /\ op'.nb = op.nb /\ op'.idx = op.idx
    BY <1>4, OpMoves DEF AllocInv, Places
  <2>2. in_smallbin_range(nb) => bins'[nb] = <<>>
    <3>1. ASSUME in_smallbin_range(nb)
          PROVE  nb \in Bins /\ nb # i
      <4>1. nb < MinLarge /\ nb \in Bins
        BY <1>5, <3>1, BinIndexFacts DEF in_smallbin_range
      <4>2. i # nb
        BY <1>3, <1>4, <1>5, <1>8, <4>1, SizeOfSmallBin
      <4> QED BY <4>1, <4>2
    <3> QED BY <1>5, <1>11, <3>1
  <2> QED BY <1>5, <2>1, <2>2 DEF OpInv, At, SearchGoesOn, nb, in_smallbin_range
<1> QED BY <1>9, <1>13, <1>14, <1>15 DEF AllocInv

(* The position that ScanTakes chooses. *)
LEMMA SmallestIs ==
  ASSUME NEW S, OwnBin \in Seq(S), Fitting # {}
  PROVE  /\ Smallest \in 1 .. Len(OwnBin) /\ size(OwnBin[Smallest]) >= nb
         /\ \A j \in Fitting : j <= Smallest
<1>1. Len(OwnBin) \in Nat /\ DOMAIN OwnBin = 1 .. Len(OwnBin)
  BY LenProperties
<1>2. Fitting \subseteq 1 .. Len(OwnBin)
  BY <1>1 DEF Fitting
<1>3. PICK T : T = {k \in Nat : \A j \in Fitting : j <= k}
  OBVIOUS
<1>4. Len(OwnBin) \in T
  BY <1>1, <1>2, <1>3
<1>5. PICK m \in T : \A k \in T : m <= k
  BY <1>3, <1>4, LeastNatural
<1>6. m \in Nat /\ \A j \in Fitting : j <= m
  BY <1>3, <1>5
<1>7. m \in Fitting
  <2>1. ASSUME m \notin Fitting
        PROVE  FALSE
    <3>1. PICK j \in Fitting : j <= m
      BY <1>6
    <3>2. m - 1 \in Nat
      BY <1>1, <1>2, <1>6, <3>1
    <3>3. \A k \in Fitting : k <= m - 1
      BY <1>1, <1>2, <1>6, <2>1
    <3>4. m - 1 \in T
      BY <1>3, <3>2, <3>3
    <3> QED BY <1>5, <1>6, <3>4
  <2> QED BY <2>1
<1>8. Smallest \in Fitting /\ \A j \in Fitting : j <= Smallest
  BY <1>6, <1>7 DEF Smallest
<1> QED BY <1>1, <1>8 DEF Fitting

LEMMA ScanTakesStep ==
  ASSUME AllocInv, ScanTakes
  PROVE  AllocInv'
<1>1. PICK i : i = op.idx
  OBVIOUS
<1>2. PICK p : p = Smallest
  OBVIOUS
<1>3. PICK s : s = OwnBin
  OBVIOUS
<1>4. PICK a : a = s[p]
  OBVIOUS
<1>5. PICK w : w = RemoveAt(s, p)
  OBVIOUS
<1>6. /\ Sorting /\ unsorted = <<>> /\ Fitting # {} /\ s = bins[i]
      /\ bins' = [bins EXCEPT ![i] = w] /\ Use(a, FALSE)
      /\ UNCHANGED <<top, fastbins, binmap, anychunks, fastchunks, curptr>>
  BY <1>1, <1>2, <1>3, <1>4, <1>5 DEF ScanTakes, Scanning, Sorted, OwnBin
<1>7. nb \in Nat /\ nb >= MinSize /\ i = BinIndex(nb) /\ (At("malloc") \/ At("sort") \/ At("map"))
  BY <1>1, <1>6, SortingFacts DEF AllocInv
<1>8. i \in Bins
  BY <1>7, BinIndexFacts
<1>9. Free \ Range(unsorted) = Free
  BY <1>6, RangeEmpty
<1>10. /\ s \in Seq(Nat) /\ Lists(s, OfBin(Free, heap, i)) /\ Descending(heap, s)
       /\ \A k \in 1 .. Len(s) : s[k] \in Free /\ BinIndex(size(s[k])) = i
  BY <1>6, <1>8, <1>9, BinnedIsFree DEF AllocInv
<1>11. p \in 1 .. Len(s) /\ size(a) >= nb
  BY <1>2, <1>3, <1>4, <1>6, <1>10, SmallestIs
<1>12. a \in Free /\ BinIndex(size(a)) = i /\ s # <<>>
  <2>1. a \in Free /\ BinIndex(size(a)) = i
    BY <1>4, <1>10, <1>11
  <2>2. CASE s = <<>>
    <3>1. Len(s) = 0
      BY <2>2
    <3> QED BY <1>11, <3>1
  <2> QED BY <2>1, <2>2
<1>13. w \in Seq(Nat) /\ Lists(w, OfBin(Free, heap, i) \ {a}) /\ Descending(heap, w)
  <2>1. w \in Seq(Nat)
    BY <1>5, <1>10, <1>11, RemoveAtProperties
  <2>2. Lists(w, OfBin(Free, heap, i) \ {a})
    BY <1>4, <1>5, <1>10, <1>11, ListsRemoveAt
  <2>3. Descending(heap, w)
    BY <1>5, <1>10, <1>11, DescendingRemoveAt
  <2> QED BY <2>1, <2>2, <2>3
<1> QED BY <1>6, <1>7, <1>8, <1>11, <1>12, <1>13, UseStep

LEMMA FirstMarkedIs ==
  ASSUME ListInv, OpInv, Marked # {}
  PROVE  /\ FirstMarked \in Marked /\ FirstMarked \in Bins /\ FirstMarked \in binmap
         /\ FirstMarked \in Nat /\ FirstMarked > op.idx
         /\ \A j \in Marked : FirstMarked <= j
<1>1. Bins \subseteq Nat
  <2>1. PICK k : k = Cardinality(LargeSizes)
    OBVIOUS
  <2>2. k \in Nat
    BY <2>1, AllocatorConstants, FS_CardinalityType
  <2> QED BY <2>1, <2>2, ConstantFacts DEF Bins, MinSize
<1>2. Marked \subseteq binmap /\ binmap \subseteq Bins /\ \A j \in Marked : j > op.idx
  BY DEF Marked, ListInv, Mapped
<1>3. \E x \in Marked : \A y \in Marked : x <= y
  BY <1>1, <1>2, LeastNatural
<1>4. FirstMarked \in Marked /\ \A j \in Marked : FirstMarked <= j
  BY <1>3 DEF FirstMarked
<1> QED BY <1>1, <1>2, <1>4

LEMMA MapClearsStep ==
  ASSUME AllocInv, MapClears
  PROVE  AllocInv'
<1>1. PICK i : i = FirstMarked
  OBVIOUS
<1>2. /\ Mapping /\ Marked # {} /\ bins[i] = <<>> /\ binmap' = binmap \ {i}
      /\ op' = [op EXCEPT !.at = "map", !.idx = i]
      /\ UNCHANGED <<heap, top, unsorted, bins, fastbins, curptr, live, anychunks, fastchunks>>
  BY <1>1 DEF MapClears, flags
<1>3. /\ nb \in Nat /\ nb >= MinSize /\ unsorted = <<>>
      /\ op.idx \in Nat /\ op.idx >= BinIndex(nb)
      /\ \A a \in Free : size(a) >= nb => BinIndex(size(a)) > op.idx
      /\ At("malloc") \/ At("sort") \/ At("map")
  BY <1>2, MappingFacts DEF AllocInv
<1>4. i \in Bins /\ i \in Nat /\ i > op.idx /\ \A j \in Marked : i <= j
  BY <1>1, <1>2, FirstMarkedIs DEF AllocInv
<1>5. Mapped(binmap', bins)
  BY <1>2 DEF AllocInv, ListInv, Mapped
<1>6. fastchunks' \/ NoFast
  BY <1>2, <1>3, Exclusive DEF AllocInv, ListInv
<1>7. /\ HeapInv' /\ ListInv' /\ LiveInv' /\ Free' = Free
      /\ \A a : size(a)' = size(a)
  BY <1>2, <1>5, <1>6, Steady DEF AllocInv
<1>8. \A a \in Free : size(a) >= nb => BinIndex(size(a)) > i
  <2>1. ASSUME NEW a \in Free, size(a) >= nb
        PROVE  BinIndex(size(a)) > i
    <3>1. PICK j : j = BinIndex(size(a))
      OBVIOUS
    <3>2. a \notin Range(unsorted)
      BY <1>3, RangeEmpty
    <3>3. j \in Nat /\ j \in binmap /\ bins[j] # <<>>
      BY <3>1, <3>2, UnsortedOrBinned DEF AllocInv
    <3>4. j > op.idx
      BY <1>3, <2>1, <3>1
    <3>5. j \in Marked
      BY <3>3, <3>4 DEF Marked
    <3> QED BY <1>2, <1>4, <3>1, <3>3, <3>5
  <2> QED BY <2>1
<1>9. op' \in [at : Places, nb : Nat, idx : Nat, then : {"idle", "sort", "malloc", "systrim"}]
  BY <1>2, <1>4 DEF AllocInv, OpInv, Places
<1>10. op'.at = "map" /\ op'.idx = i /\ op'.nb = op.nb
  BY <1>2 DEF AllocInv, OpInv
<1>11. i >= BinIndex(nb)
  <2>1. BinIndex(nb) \in Nat
    BY <1>3, BinIndexFacts
  <2> QED BY <1>3, <1>4, <2>1
<1>12. \A a \in Free' : (size(a) >= nb)' => BinIndex(size(a))' > i
  <2>1. nb' = nb
    BY <1>10 DEF nb
  <2>2. ASSUME NEW a \in Free', (size(a) >= nb)'
        PROVE  BinIndex(size(a))' > i
    <3>1. a \in Free /\ heap'[a].size = heap[a].size /\ size(a) >= nb
      BY <1>7, <2>1, <2>2 DEF size
    <3>2. BinIndex(heap[a].size) > i
      BY <1>8, <3>1 DEF size
    <3> QED BY <3>1, <3>2 DEF size
  <2> QED BY <2>2
<1>13. OpInv'
  BY <1>2, <1>3, <1>9, <1>10, <1>11, <1>12 DEF OpInv, At, SearchGoesOn, nb
<1> QED BY <1>7, <1>13 DEF AllocInv

LEMMA FirstMarkedFits ==
  ASSUME AllocInv, Mapping, Marked # {}, NEW i, i = FirstMarked,
         NEW n \in Nat, n >= MinSize, BinIndex(n) = i
  PROVE  n >= nb
<1>1. nb \in Nat /\ nb >= MinSize /\ op.idx \in Nat /\ op.idx >= BinIndex(nb)
  BY MappingFacts DEF AllocInv
<1>2. i \in Nat /\ i > op.idx
  BY FirstMarkedIs DEF AllocInv
<1>3. BinIndex(nb) \in Nat
  BY <1>1, BinIndexFacts
<1>4. n < nb => BinIndex(n) <= BinIndex(nb)
  BY <1>1, BinIndexGrows
<1> QED BY <1>1, <1>2, <1>3, <1>4

LEMMA MapTakesStep ==
  ASSUME AllocInv, MapTakes
  PROVE  AllocInv'
<1>1. PICK i : i = FirstMarked
  OBVIOUS
<1>2. PICK s : s = bins[i]
  OBVIOUS
<1>3. PICK a : a = Last(s)
  OBVIOUS
<1>4. PICK w : w = Front(s)
  OBVIOUS
<1>5. PICK r : r = in_smallbin_range(nb)
  OBVIOUS
<1>6. /\ Mapping /\ Marked # {} /\ s # <<>>
      /\ bins' = [bins EXCEPT ![i] = w] /\ Use(a, r)
      /\ UNCHANGED <<top, fastbins, binmap, anychunks, fastchunks, curptr>>
  BY <1>1, <1>2, <1>3, <1>4, <1>5 DEF MapTakes
<1>7. nb \in Nat /\ nb >= MinSize /\ unsorted = <<>> /\ (At("malloc") \/ At("sort") \/ At("map"))
  BY <1>6, MappingFacts DEF AllocInv
<1>8. i \in Bins
  BY <1>1, <1>6, FirstMarkedIs DEF AllocInv
<1>9. Free \ Range(unsorted) = Free
  BY <1>7, RangeEmpty
<1>10. /\ s \in Seq(Nat) /\ Lists(s, OfBin(Free, heap, i)) /\ Descending(heap, s)
       /\ \A k \in 1 .. Len(s) : s[k] \in Free /\ BinIndex(size(s[k])) = i
  BY <1>2, <1>8, <1>9, BinnedIsFree DEF AllocInv
<1>11. a \in Free /\ BinIndex(size(a)) = i
  <2>1. Len(s) \in 1 .. Len(s)
    BY <1>6, <1>10, EmptySeq, LenProperties
  <2> QED BY <1>3, <1>10, <2>1 DEF Last
<1>12. size(a) >= nb
  <2>1. PICK n \in Nat : n = size(a)
    BY <1>11, FreeSizes DEF AllocInv
  <2>2. n >= MinSize
    BY <1>11, <2>1, FreeSizes DEF AllocInv
  <2> QED BY <1>1, <1>6, <1>11, <2>1, <2>2, FirstMarkedFits
<1>13. w \in Seq(Nat) /\ Lists(w, OfBin(Free, heap, i) \ {a}) /\ Descending(heap, w)
  <2>1. w \in Seq(Nat)
    BY <1>4, <1>6, <1>10, FrontProperties
  <2>2. Lists(w, OfBin(Free, heap, i) \ {a})
    BY <1>3, <1>4, <1>6, <1>10, ListsFront
  <2>3. Descending(heap, w)
    BY <1>4, <1>6, <1>10, DescendingFront
  <2> QED BY <2>1, <2>2, <2>3
<1> QED BY <1>2, <1>6, <1>7, <1>8, <1>11, <1>12, <1>13, UseStep

LEMMA MallocConsolidatesStep ==
  ASSUME AllocInv, MallocConsolidates
  PROVE  AllocInv'
<1>1. /\ At("malloc") /\ ~in_smallbin_range(nb)
      /\ op' = [op EXCEPT !.at = "consolidate", !.then = "sort"]
      /\ UNCHANGED <<heap, top, unsorted, bins, fastbins, binmap, curptr, live, anychunks>>
  BY DEF MallocConsolidates, MustConsolidate, MustSearch, Consolidate, lists, flags
<1>2. /\ op' \in [at : Places, nb : Nat, idx : Nat, then : {"idle", "sort", "malloc", "systrim"}]
      /\ op'.at = "consolidate" /\ op'.then = "sort" /\ op'.nb = op.nb /\ op'.idx = op.idx
  BY <1>1 DEF AllocInv, OpInv, Places
<1>3. Mapped(binmap', bins) /\ At("consolidate")'
  BY <1>1, <1>2 DEF AllocInv, ListInv, At
<1>4. HeapInv' /\ ListInv' /\ LiveInv'
  BY <1>1, <1>3, Steady DEF AllocInv
<1>5. OpInv'
  BY <1>1, <1>2 DEF AllocInv, OpInv, At, SearchGoesOn, nb, in_smallbin_range
<1> QED BY <1>4, <1>5 DEF AllocInv

LEMMA ConsolidateEndStep ==
  ASSUME AllocInv, ConsolidateEnd
  PROVE  AllocInv'
<1>1. /\ At("consolidate") /\ NoFast /\ op' = [op EXCEPT !.at = op.then]
      /\ UNCHANGED <<heap, top, unsorted, bins, fastbins, binmap, curptr, live, anychunks>>
  BY DEF ConsolidateEnd, Goto, lists
<1>2. op.then \in {"sort", "malloc", "systrim"}
  BY <1>1 DEF AllocInv, OpInv
<1>3. /\ op' \in [at : Places, nb : Nat, idx : Nat, then : {"idle", "sort", "malloc", "systrim"}]
      /\ op'.at = op.then /\ op'.nb = op.nb /\ op'.idx = op.idx
  BY <1>1, <1>2, OpMoves DEF AllocInv, Places
<1>4. Mapped(binmap', bins)
  BY <1>1 DEF AllocInv, ListInv
<1>5. HeapInv' /\ ListInv' /\ LiveInv'
  BY <1>1, <1>4, Steady DEF AllocInv
<1>6. op.then # "systrim" => nb \in Nat /\ nb >= MinSize /\ op.idx = BinIndex(nb)
  BY <1>1 DEF AllocInv, OpInv, SearchGoesOn, nb
<1>7. op.then = "sort" => ~in_smallbin_range(nb)
  BY <1>1 DEF AllocInv, OpInv
<1>8. OpInv'
  BY <1>2, <1>3, <1>6, <1>7 DEF OpInv, At, SearchGoesOn, nb, in_smallbin_range
<1> QED BY <1>5, <1>8 DEF AllocInv

LEMMA SysRetryStep ==
  ASSUME AllocInv, SysRetry
  PROVE  AllocInv'
<1>1. PICK i : i = BinIndex(nb)
  OBVIOUS
<1>2. /\ UsingTop /\ op' = [op EXCEPT !.at = "consolidate", !.then = "malloc", !.idx = i]
      /\ UNCHANGED <<heap, top, unsorted, bins, fastbins, binmap, curptr, live, anychunks>>
  BY <1>1 DEF SysRetry, InSysmalloc, lists, flags
<1>3. nb \in Nat /\ nb >= MinSize
  BY <1>2, TopFacts DEF AllocInv
<1>4. i \in Nat
  BY <1>1, <1>3, BinIndexFacts
<1>5. /\ op' \in [at : Places, nb : Nat, idx : Nat, then : {"idle", "sort", "malloc", "systrim"}]
      /\ op'.at = "consolidate" /\ op'.then = "malloc" /\ op'.nb = op.nb /\ op'.idx = i
  BY <1>2, <1>4 DEF AllocInv, OpInv, Places
<1>6. Mapped(binmap', bins) /\ At("consolidate")'
  BY <1>2, <1>5 DEF AllocInv, ListInv, At
<1>7. HeapInv' /\ ListInv' /\ LiveInv'
  BY <1>2, <1>6, Steady DEF AllocInv
<1>8. OpInv'
  BY <1>1, <1>3, <1>5 DEF OpInv, At, SearchGoesOn, nb
<1> QED BY <1>7, <1>8 DEF AllocInv

LEMMA SysFailsStep ==
  ASSUME AllocInv, SysFails
  PROVE  AllocInv'
<1>1. /\ UsingTop /\ op' = Idle
      /\ UNCHANGED <<heap, top, unsorted, bins, fastbins, binmap, curptr, live, anychunks, fastchunks>>
  BY DEF SysFails, InSysmalloc, lists, flags
<1>2. ~At("consolidate")
  BY <1>1, TopFacts DEF AllocInv
<1>3. Mapped(binmap', bins) /\ (fastchunks' \/ NoFast)
  BY <1>1, <1>2 DEF AllocInv, ListInv
<1>4. HeapInv' /\ ListInv' /\ LiveInv'
  BY <1>1, <1>3, Steady DEF AllocInv
<1> QED BY <1>1, <1>4, OpIdle DEF AllocInv

LEMMA SysTrimStep ==
  ASSUME AllocInv, SysTrim
  PROVE  AllocInv'
<1>1. /\ At("systrim") /\ op' = Idle
      /\ UNCHANGED <<heap, top, unsorted, bins, fastbins, binmap, curptr, live, anychunks, fastchunks>>
  BY DEF SysTrim, lists, flags
<1>2. Mapped(binmap', bins) /\ (fastchunks' \/ NoFast)
  BY <1>1 DEF AllocInv, ListInv, At
<1>3. HeapInv' /\ ListInv' /\ LiveInv'
  BY <1>1, <1>2, Steady DEF AllocInv
<1> QED BY <1>1, <1>3, OpIdle DEF AllocInv

(* The lists of free chunks, when the free chunks stay what they are. *)
LEMMA ListsSame ==
  ASSUME NEW F, NEW h, NEW u, NEW b, FreeLists(F, h, u, b), NEW g, \A x \in F : g[x].size = h[x].size
  PROVE  FreeLists(F, g, u, b)
<1>1. u \in Seq(Nat) /\ Lists(u, Range(u)) /\ Range(u) \subseteq F /\ Binned(F \ Range(u), h, b)
  BY DEF FreeLists
<1>2. PICK S : S = F \ Range(u)
  OBVIOUS
<1>3. Binned(S, g, b)
  BY <1>1, <1>2, BinnedSame
<1> QED BY <1>1, <1>2, <1>3 DEF FreeLists

LEMMA SearchedOrNone ==
  ASSUME ListInv, Free' = Free
  PROVE  anychunks \/ Free' = {}
BY DEF ListInv

LEMMA TopTakesStep ==
  ASSUME AllocInv, TopTakes
  PROVE  AllocInv'
<1>1. PICK a : a = top
  OBVIOUS
<1>2. /\ UsingTop /\ TopSize >= nb + MinSize
      /\ heap' = CutForUse(top) /\ top' = top + nb /\ Return(a)
      /\ UNCHANGED <<unsorted, bins, fastbins, binmap, anychunks, fastchunks, curptr>>
  BY <1>1 DEF TopTakes, lists, flags
<1>3. nb \in Nat /\ nb >= MinSize /\ ~At("consolidate")
  BY <1>2, TopFacts DEF AllocInv
<1>4. PICK n \in Nat : n = nb
  BY <1>3
<1>5. /\ HeapInv' /\ Free' = Free /\ Used' = Used \cup {a} /\ a \notin Chunks
      /\ heap'[a].size = n /\ \A b \in Chunks : heap'[b].size = heap[b].size
  <2>1. TopSize >= n + MinSize /\ top' = top + n /\ curptr' = curptr /\ n >= MinSize
    BY <1>2, <1>3, <1>4
  <2>2. HeapInv' /\ Free' = Free /\ top \notin Chunks
    BY <1>2, <1>4, <2>1, TopStep DEF AllocInv
  <2>3. Used' = Used \cup {top} /\ heap'[top].size = n
    BY <1>2, <1>4, <2>1, TopStep DEF AllocInv
  <2>4. \A b \in Chunks : heap'[b].size = heap[b].size
    BY <1>2, <1>4, <2>1, TopStep DEF AllocInv
  <2> QED BY <1>1, <2>2, <2>3, <2>4
<1>6. Free \subseteq Chunks /\ Used \subseteq Chunks
  BY ChunkFacts DEF AllocInv
<1>7. FreeLists(Free', heap', unsorted', bins') /\ Mapped(binmap', bins')
  <2>1. FreeLists(Free, heap, unsorted, bins) /\ Mapped(binmap, bins)
    BY DEF AllocInv, ListInv
  <2>2. \A x \in Free : heap'[x].size = heap[x].size
    BY <1>5, <1>6
  <2>3. FreeLists(Free, heap', unsorted, bins)
    BY <2>1, <2>2, ListsSame
  <2> QED BY <1>2, <1>5, <2>1, <2>3
<1>8. anychunks \/ Free' = {}
  BY <1>5, SearchedOrNone DEF AllocInv
<1>9. a \notin Used /\ \A b \in Used : heap'[b].size = heap[b].size
  BY <1>5, <1>6
<1>10. heap'[a].size >= nb /\ heap'[a].size - nb < MinSize
  BY <1>4, <1>5 DEF MinSize
<1>11. ListInv' /\ LiveInv' /\ OpInv'
  BY <1>2, <1>3, <1>5, <1>7, <1>8, <1>9, <1>10, HandedOut DEF AllocInv
<1> QED BY <1>5, <1>11 DEF AllocInv

(* The heap grows at its end while a call goes on. *)
LEMMA Grown ==
  ASSUME AllocInv, UsingTop, HeapInv', Free' = Free, Used' = Used,
         \A b \in Chunks : heap'[b].size = heap[b].size,
         Goto("top"), UNCHANGED <<lists, flags, live>>
  PROVE  AllocInv'
<1>1. /\ op' = [op EXCEPT !.at = "top"]
      /\ UNCHANGED <<unsorted, bins, fastbins, binmap, anychunks, fastchunks, live>>
  BY DEF Goto, lists, flags
<1>2. nb \in Nat /\ nb >= MinSize /\ ~At("consolidate") /\ \A a \in Free : size(a) < nb
  BY TopFacts DEF AllocInv
<1>3. Free \subseteq Chunks /\ Used \subseteq Chunks
  BY ChunkFacts DEF AllocInv
<1>4. FreeLists(Free', heap', unsorted', bins') /\ Mapped(binmap', bins')
  <2>1. FreeLists(Free, heap, unsorted, bins) /\ Mapped(binmap, bins)
    BY DEF AllocInv, ListInv
  <2>2. \A x \in Free : heap'[x].size = heap[x].size
    BY <1>3
  <2>3. FreeLists(Free, heap', unsorted, bins)
    BY <2>1, <2>2, ListsSame
  <2> QED BY <1>1, <2>1, <2>3
<1>5. anychunks \/ Free' = {}
  BY SearchedOrNone DEF AllocInv
<1>6. /\ Used' \ DOMAIN live' = Used \ DOMAIN live
      /\ \A b \in Used \ DOMAIN live : heap'[b].size = heap[b].size
  BY <1>1, <1>3
<1>7. ListInv'
  BY <1>1, <1>2, <1>4, <1>5, <1>6, ListsAfter DEF AllocInv
<1>8. LiveInv'
  <2>1. Used \subseteq Used' /\ live' = live /\ \A b \in Used : heap'[b].size = heap[b].size
    BY <1>1, <1>3
  <2> QED BY <2>1, LiveSame DEF AllocInv
<1>9. OpInv'
  <2>1. /\ op' \in [at : Places, nb : Nat, idx : Nat, then : {"idle", "sort", "malloc", "systrim"}]
        /\ op'.at = "top" /\ op'.nb = op.nb
    BY <1>1, OpMoves DEF AllocInv, Places
  <2>2. \A a \in Free' : heap'[a].size < nb
    BY <1>2, <1>3 DEF size
  <2> QED BY <1>2, <2>1, <2>2 DEF OpInv, At, SearchGoesOn, nb, size
<1> QED BY <1>7, <1>8, <1>9 DEF AllocInv

LEMMA TopSizeIs ==
  ASSUME HeapInv
  PROVE  /\ TopSize \in Nat
         /\ top = None => TopSize = 0
<1>1. CASE top = None
  BY <1>1 DEF TopSize
<1>2. CASE top # None
  <2>1. PICK D : Tiled(D, heap, top, curptr)
    BY <1>2, HeapIs
  <2>2. top \in D
    BY <2>1 DEF Tiled
  <2>3. heap[top].size \in Int /\ heap[top].size >= MinSize
    BY <2>1, <2>2, TiledFacts
  <2> QED BY <1>2, <2>3 DEF TopSize, size, MinSize
<1> QED BY <1>1, <1>2

LEMMA SysExtendsStep ==
  ASSUME AllocInv, SysExtends
  PROVE  AllocInv'
<1>1. PICK n : n = Needed
  OBVIOUS
<1>2. /\ UsingTop /\ sbrk(n) /\ top # None /\ curptr' = curptr + n /\ top' = top
      /\ heap' = WithHead(heap, top, TopSize + n)
      /\ Goto("top") /\ UNCHANGED <<lists, flags, live>>
  BY <1>1 DEF SysExtends, InSysmalloc
<1>3. nb \in Nat
  BY <1>2, TopFacts DEF AllocInv
<1>4. n \in Nat
  <2>1. nb + MinSize - TopSize \in Int
    BY <1>3, TopSizeIs DEF AllocInv, MinSize
  <2>2. n \in Int
    BY <1>1, <2>1, RoundUpFacts DEF Needed
  <2> QED BY <1>2, <2>2 DEF sbrk
<1>5. curptr' <= HeapEnd
  BY <1>2 DEF sbrk
<1>6. HeapInv' /\ Free' = Free /\ Used' = Used
  BY <1>2, <1>4, <1>5, GrowStep DEF AllocInv
<1>7. \A b \in Chunks : heap'[b].size = heap[b].size
  BY <1>2, <1>4, <1>5, GrowStep DEF AllocInv
<1> QED BY <1>2, <1>6, <1>7, Grown

LEMMA SysFirstStep ==
  ASSUME AllocInv, SysFirst
  PROVE  AllocInv'
<1>1. PICK n : n = Needed
  OBVIOUS
<1>2. PICK d : d = IF RoundUp(curptr + n) <= HeapEnd THEN RoundUp(curptr + n) ELSE curptr + n
  OBVIOUS
<1>3. /\ UsingTop /\ sbrk(n) /\ top = None /\ curptr' = d /\ top' = curptr
      /\ heap' = WithHead(heap, curptr, d - curptr)
      /\ Goto("top") /\ UNCHANGED <<lists, flags, live>>
  BY <1>1, <1>2 DEF SysFirst, InSysmalloc
<1>4. nb \in Nat
  BY <1>3, TopFacts DEF AllocInv
<1>5. n \in Int /\ n >= MinSize
  <2>1. TopSize = 0
    BY <1>3, TopSizeIs DEF AllocInv
  <2>2. nb + MinSize - TopSize \in Int /\ nb + MinSize - TopSize >= MinSize
    BY <1>4, <2>1 DEF MinSize
  <2>3. n \in Int /\ n >= nb + MinSize - TopSize
    BY <1>1, <2>2, RoundUpFacts DEF Needed
  <2> QED BY <2>2, <2>3 DEF MinSize
<1>6. curptr \in Nat
  BY ConstantFacts DEF AllocInv, HeapInv
<1>7. curptr + n \in Int
  BY <1>5, <1>6
<1>8. RoundUp(curptr + n) \in Int /\ RoundUp(curptr + n) >= curptr + n
  BY <1>7, RoundUpFacts
<1>9. d \in Nat /\ d <= HeapEnd /\ d - curptr >= MinSize
  BY <1>2, <1>3, <1>5, <1>6, <1>8, ConstantFacts DEF sbrk, MinSize
<1>10. HeapInv' /\ Free = {} /\ Used = {} /\ Free' = {} /\ Used' = {}
  BY <1>3, <1>9, FirstStep DEF AllocInv
<1>11. Chunks = {}
  BY <1>10, ChunkFacts DEF Used
<1> QED BY <1>3, <1>10, <1>11, Grown

(* Blocks leave the hands of the callers, or stay there. *)
LEMMA LiveLess ==
  ASSUME LiveInv, NEW L, L \subseteq DOMAIN live, DOMAIN live' = L, \A b \in L : live'[b] = live[b],
         L \subseteq Used', \A b \in L : heap'[b].size = heap[b].size
  PROVE  LiveInv'
<1>1. \A b \in L : /\ live[b] \in Nat /\ heap[b].size >= live[b] /\ heap[b].size - live[b] < MinSize
  BY DEF LiveInv, size
<1>2. \A b \in L : /\ live'[b] \in Nat /\ heap'[b].size >= live'[b]
                   /\ heap'[b].size - live'[b] < MinSize
  BY <1>1
<1> QED BY <1>2 DEF LiveInv, size

LEMMA MemFreeFastStep ==
  ASSUME AllocInv, NEW a \in DOMAIN live, MemFreeFast(a)
  PROVE  AllocInv'
<1>1. PICK i : i = size(a)
  OBVIOUS
<1>2. /\ op = Idle /\ op' = Idle /\ i <= MaxFast
      /\ fastbins' = [fastbins EXCEPT ![i] = <<a>> \o @] /\ fastchunks' /\ anychunks'
      /\ live' = [b \in DOMAIN live \ {a} |-> live[b]]
      /\ UNCHANGED <<heap, top, unsorted, bins, binmap, curptr>>
  BY <1>1 DEF MemFreeFast
<1>3. PICK L : L = DOMAIN live
  OBVIOUS
<1>4. PICK S : S = Used \ L
  OBVIOUS
<1>5. HeapInv' /\ Free' = Free /\ Used' = Used
  BY <1>2, HeapSame DEF AllocInv
<1>6. a \in L /\ L \subseteq Used
  BY <1>3 DEF AllocInv, LiveInv
<1>7. a \in Nat /\ i \in Nat /\ i >= MinSize /\ i = heap[a].size
  BY <1>1, <1>6, ChunkFacts DEF AllocInv, size
<1>8. i \in FastBins
  BY <1>2, <1>7, ConstantFacts DEF FastBins, MinSize
<1>9. FastListed(S \cup {a}, heap, fastbins')
  <2>1. PICK f : f = fastbins
    OBVIOUS
  <2>2. PICK g : g = fastbins'
    OBVIOUS
  <2>3. FastListed(S, heap, f)
    BY <1>3, <1>4, <2>1 DEF AllocInv, ListInv
  <2>4. g = [f EXCEPT ![i] = <<a>> \o f[i]] /\ a \notin S
    BY <1>2, <1>4, <1>6, <2>1, <2>2
  <2>5. FastListed(S \cup {a}, heap, g)
    BY <1>7, <1>8, <2>3, <2>4, FastPush
  <2> QED BY <2>2, <2>5
<1>10. DOMAIN live' = L \ {a} /\ \A b \in L \ {a} : live'[b] = live[b]
  BY <1>2, <1>3
<1>11. LiveInv'
  <2>1. L \ {a} \subseteq Used' /\ L \ {a} \subseteq DOMAIN live
    BY <1>3, <1>5, <1>6
  <2>2. \A b \in L \ {a} : heap'[b].size = heap[b].size
    BY <1>2
  <2> QED BY <1>10, <2>1, <2>2, LiveLess DEF AllocInv
<1>12. ListInv'
  <2>1. Used' \ DOMAIN live' = S \cup {a}
    BY <1>4, <1>5, <1>6, <1>10
  <2>2. FastListed(Used' \ DOMAIN live', heap', fastbins')
    BY <1>2, <1>9, <2>1
  <2>3. FreeLists(Free', heap', unsorted', bins') /\ Mapped(binmap', bins')
    BY <1>2, <1>5 DEF AllocInv, ListInv
  <2> QED BY <1>2, <2>2, <2>3 DEF ListInv
<1> QED BY <1>2, <1>5, <1>11, <1>12, OpIdle DEF AllocInv

(* A chunk in use is merged with its neighbours: the other chunks in use,    *)
(* and the fast bins that hold some of them, stay what they are.             *)
LEMMA AfterCoalesce ==
  ASSUME AllocInv, NEW a, a \in Used, Coalesce(a), curptr' = curptr, binmap' = binmap, anychunks',
         NEW S, S \subseteq Used \ {a}, FastListed(S, heap, fastbins'),
         Used' \ DOMAIN live' = S, fastchunks' \/ NoFast' \/ At("consolidate")'
  PROVE  /\ HeapInv' /\ ListInv' /\ Used' = Used \ {a}
         /\ \A b \in Used \ {a} : heap'[b].size = heap[b].size
<1>1. FreeLists(Free, heap, unsorted, bins) /\ HeapInv
  BY DEF AllocInv, ListInv
<1>2. HeapInv' /\ Used' = Used \ {a} /\ \A b \in Used \ {a} : heap'[b].size = heap[b].size
  BY <1>1, CoalesceLists
<1>3. FreeLists(Free', heap', unsorted', bins') /\ \A i \in Bins : bins[i] = <<>> => bins'[i] = <<>>
  BY <1>1, CoalesceLists
<1>4. Mapped(binmap', bins')
  BY <1>3 DEF AllocInv, ListInv, Mapped
<1>5. \A b \in S : heap'[b].size = heap[b].size
  BY <1>2
<1>6. FastListed(S, heap', fastbins')
  BY <1>5, FastSame
<1> QED BY <1>2, <1>3, <1>4, <1>6 DEF ListInv

LEMMA MemFreeStep ==
  ASSUME AllocInv, NEW a \in DOMAIN live, MemFree(a)
  PROVE  AllocInv'
<1>1. /\ op = Idle /\ anychunks' /\ Coalesce(a)
      /\ live' = [b \in DOMAIN live \ {a} |-> live[b]]
      /\ \/ op' = Idle
         \/ op' = [Idle EXCEPT !.at = "consolidate", !.then = "systrim"]
         \/ op' = [Idle EXCEPT !.at = "systrim"]
      /\ UNCHANGED <<fastbins, binmap, fastchunks, curptr>>
  BY DEF MemFree
<1>2. PICK L : L = DOMAIN live
  OBVIOUS
<1>3. PICK S : S = Used \ L
  OBVIOUS
<1>4. a \in L /\ L \subseteq Used
  BY <1>2 DEF AllocInv, LiveInv
<1>5. FastListed(S, heap, fastbins')
  BY <1>1, <1>2, <1>3 DEF AllocInv, ListInv
<1>6. DOMAIN live' = L \ {a} /\ \A b \in L \ {a} : live'[b] = live[b]
  BY <1>1, <1>2
<1>7. fastchunks' \/ NoFast'
  <2>1. ~At("consolidate")
    BY <1>1 DEF At, Idle
  <2>2. fastchunks \/ NoFast
    BY <2>1 DEF AllocInv, ListInv
  <2> QED BY <1>1, <2>2 DEF NoFast
<1>8. S \subseteq Used \ {a}
  BY <1>3, <1>4
<1>9. Used' = Used \ {a}
  BY <1>1, <1>4, CoalesceLists DEF AllocInv, ListInv
<1>10. Used' \ DOMAIN live' = S
  BY <1>3, <1>4, <1>6, <1>9
<1>11. /\ HeapInv' /\ ListInv'
       /\ \A b \in Used \ {a} : heap'[b].size = heap[b].size
  BY <1>1, <1>4, <1>5, <1>7, <1>8, <1>10, AfterCoalesce
<1>12. LiveInv'
  <2>1. L \ {a} \subseteq Used' /\ L \ {a} \subseteq DOMAIN live
    BY <1>2, <1>4, <1>9
  <2>2. \A b \in L \ {a} : heap'[b].size = heap[b].size
    BY <1>4, <1>11
  <2> QED BY <1>6, <2>1, <2>2, LiveLess DEF AllocInv
<1>13. OpInv'
  <2>1. CASE op' = Idle
    BY <2>1, OpIdle
  <2>2. CASE op' = [Idle EXCEPT !.at = "consolidate", !.then = "systrim"]
    <3>1. op' = [at |-> "consolidate", nb |-> 0, idx |-> 0, then |-> "systrim"]
      BY <2>2 DEF Idle
    <3> QED BY <3>1 DEF OpInv, At, SearchGoesOn, Places
  <2>3. CASE op' = [Idle EXCEPT !.at = "systrim"]
    <3>1. op' = [at |-> "systrim", nb |-> 0, idx |-> 0, then |-> "idle"]
      BY <2>3 DEF Idle
    <3> QED BY <3>1 DEF OpInv, At, SearchGoesOn, Places
  <2> QED BY <1>1, <2>1, <2>2, <2>3
<1> QED BY <1>11, <1>12, <1>13 DEF AllocInv

LEMMA FirstFastIs ==
  ASSUME ~NoFast
  PROVE  FirstFast \in FastBins /\ fastbins[FirstFast] # <<>>
<1>1. PICK T : T = {i \in FastBins : fastbins[i] # <<>>}
  OBVIOUS
<1>2. T # {}
  BY <1>1 DEF NoFast
<1>3. T \subseteq Nat
  BY <1>1, ConstantFacts DEF FastBins, MinSize
<1>4. PICK m \in T : \A j \in T : m <= j
  BY <1>2, <1>3, LeastNatural
<1>5. m \in FastBins /\ fastbins[m] # <<>>
  BY <1>1
<1>6. \A j \in FastBins : j < m => fastbins[j] = <<>>
  BY <1>1, <1>3, <1>4
<1> QED BY <1>5, <1>6 DEF FirstFast

LEMMA ConsolidateChunkStep ==
  ASSUME AllocInv, ConsolidateChunk
  PROVE  AllocInv'
<1>1. PICK i : i = FirstFast
  OBVIOUS
<1>2. PICK f : f = fastbins
  OBVIOUS
<1>3. PICK g : g = fastbins'
  OBVIOUS
<1>4. PICK a : a = Head(f[i])
  OBVIOUS
<1>5. /\ At("consolidate") /\ ~NoFast /\ g = [f EXCEPT ![i] = Tail(f[i])] /\ Coalesce(a)
      /\ UNCHANGED <<binmap, anychunks, curptr, op, live>>
  BY <1>1, <1>2, <1>3, <1>4 DEF ConsolidateChunk
<1>6. i \in FastBins /\ f[i] # <<>>
  BY <1>1, <1>2, <1>5, FirstFastIs
<1>7. PICK L : L = DOMAIN live
  OBVIOUS
<1>8. PICK S : S = Used \ L
  OBVIOUS
<1>9. FastListed(S, heap, f)
  BY <1>2, <1>7, <1>8 DEF AllocInv, ListInv
<1>10. a \in S
  BY <1>4, <1>6, <1>9, FastHead
<1>11. FastListed(S \ {a}, heap, g)
  BY <1>4, <1>5, <1>6, <1>9, FastTake
<1>12. a \in Used /\ a \notin L /\ L \subseteq Used
  BY <1>7, <1>8, <1>10 DEF AllocInv, LiveInv
<1>13. Used' = Used \ {a}
  BY <1>5, <1>12, CoalesceLists DEF AllocInv, ListInv
<1>14. /\ HeapInv' /\ ListInv'
       /\ \A b \in Used \ {a} : heap'[b].size = heap[b].size
  <2>1. PICK T : T = S \ {a}
    OBVIOUS
  <2>2. Used' \ DOMAIN live' = T /\ T \subseteq Used \ {a}
    BY <1>5, <1>7, <1>8, <1>13, <2>1
  <2>3. FastListed(T, heap, fastbins')
    BY <1>3, <1>11, <2>1
  <2>4. anychunks' /\ At("consolidate")'
    BY <1>5 DEF AllocInv, ListInv, At
  <2> QED BY <1>5, <1>12, <2>2, <2>3, <2>4, AfterCoalesce
<1>15. LiveInv'
  <2>1. L \subseteq Used' /\ L \subseteq DOMAIN live /\ DOMAIN live' = L /\ live' = live
    BY <1>5, <1>7, <1>12, <1>13
  <2>2. \A b \in L : heap'[b].size = heap[b].size
    BY <1>12, <1>14
  <2> QED BY <2>1, <2>2, LiveLess DEF AllocInv
<1>16. OpInv'
  <2>1. op' = op /\ OpInv /\ At("consolidate")
    BY <1>5 DEF AllocInv
  <2> QED BY <2>1 DEF OpInv, At, SearchGoesOn, nb, in_smallbin_range
<1> QED BY <1>14, <1>15, <1>16 DEF AllocInv

-------------------------------------------------------------------------------
(***************************************************************************)
(* The invariant is inductive.                                             *)
(***************************************************************************)
LEMMA InitHolds ==
  ASSUME Init
  PROVE  AllocInv
<1>1. /\ heap = <<>> /\ top = None /\ unsorted = <<>> /\ bins = [i \in Bins |-> <<>>]
      /\ fastbins = [i \in FastBins |-> <<>>] /\ binmap = {}
      /\ curptr = HeapStart /\ op = Idle /\ live = <<>>
  BY DEF Init
<1>2. Chunks = {} /\ Free = {} /\ Used = {}
  BY <1>1, EmptyHeap
<1>3. HeapInv
  BY <1>1, AllocatorConstants DEF HeapInv
<1>4. Range(unsorted) = {} /\ unsorted \in Seq(Nat) /\ Lists(unsorted, {})
  BY <1>1, RangeEmpty, ListsEmpty
<1>5. \A i \in Bins : bins[i] = <<>> /\ bins[i] \in Seq(Nat)
  BY <1>1
<1>6. Binned({}, heap, bins)
  <2>1. bins \in [Bins -> Seq(Nat)]
    BY <1>1
  <2>2. ASSUME NEW i \in Bins
        PROVE  Lists(bins[i], OfBin({}, heap, i)) /\ Descending(heap, bins[i])
    <3>1. OfBin({}, heap, i) = {}
      BY DEF OfBin
    <3>2. Lists(bins[i], OfBin({}, heap, i))
      BY <1>5, <3>1, ListsEmpty
    <3>3. Len(bins[i]) = 0
      BY <1>5
    <3> QED BY <3>2, <3>3 DEF Descending
  <2> QED BY <2>1, <2>2 DEF Binned
<1>7. FreeLists(Free, heap, unsorted, bins)
  <2>1. Free \ Range(unsorted) = {} /\ Range(unsorted) \subseteq Free
    BY <1>2, <1>4
  <2> QED BY <1>4, <1>6, <2>1 DEF FreeLists
<1>8. FastListed({}, heap, fastbins)
  <2>1. fastbins \in [FastBins -> Seq(Nat)] /\ \A i \in FastBins : fastbins[i] = <<>>
    BY <1>1
  <2>2. \A i \in FastBins : Lists(fastbins[i], OfFast({}, heap, i))
    <3>1. \A i : OfFast({}, heap, i) = {}
      BY DEF OfFast
    <3> QED BY <2>1, <3>1, ListsEmpty
  <2> QED BY <2>1, <2>2 DEF FastListed
<1>9. NoFast
  BY <1>1 DEF NoFast
<1>10. ListInv
  <2>1. Used \ DOMAIN live = {}
    BY <1>2
  <2>2. Mapped(binmap, bins)
    BY <1>1, <1>5 DEF Mapped
  <2> QED BY <1>2, <1>7, <1>8, <1>9, <2>1, <2>2 DEF ListInv
<1>11. LiveInv
  <2>1. DOMAIN live = {}
    BY <1>1
  <2> QED BY <2>1 DEF LiveInv
<1>12. OpInv
  BY <1>1, IdleIs DEF OpInv, At, SearchGoesOn
<1> QED BY <1>3, <1>10, <1>11, <1>12 DEF AllocInv

LEMMA StutterHolds ==
  ASSUME AllocInv, UNCHANGED vars
  PROVE  AllocInv'
<1>1. UNCHANGED <<heap, top, unsorted, bins, fastbins, binmap, anychunks, fastchunks, curptr, op, live>>
  BY DEF vars, lists, flags
<1>2. Mapped(binmap', bins) /\ (fastchunks' \/ NoFast \/ At("consolidate")')
  BY <1>1 DEF AllocInv, ListInv, At
<1>3. HeapInv' /\ ListInv' /\ LiveInv' /\ Free' = Free /\ \A a : size(a)' = size(a)
  BY <1>1, <1>2, Steady DEF AllocInv
<1>4. OpInv'
  BY <1>1, <1>3 DEF AllocInv, OpInv, At, SearchGoesOn, nb, in_smallbin_range, size
<1> QED BY <1>3, <1>4 DEF AllocInv

LEMMA MallocHolds ==
  ASSUME AllocInv, Malloc
  PROVE  AllocInv'
<1>1. CASE MallocFast
  BY <1>1, MallocFastStep
<1>2. CASE MallocSmall
  BY <1>2, MallocSmallStep
<1>3. CASE MallocConsolidates
  BY <1>3, MallocConsolidatesStep
<1>4. CASE SortRemainder
  BY <1>4, SortRemainderStep
<1>5. CASE SortExact
  BY <1>5, SortExactStep
<1>6. CASE SortPlace
  BY <1>6, SortPlaceStep
<1>7. CASE ScanTakes
  BY <1>7, ScanTakesStep
<1>8. CASE MapClears
  BY <1>8, MapClearsStep
<1>9. CASE MapTakes
  BY <1>9, MapTakesStep
<1>10. CASE TopTakes
  BY <1>10, TopTakesStep
<1>11. CASE SysRetry
  BY <1>11, SysRetryStep
<1>12. CASE SysFails
  BY <1>12, SysFailsStep
<1>13. CASE SysExtends
  BY <1>13, SysExtendsStep
<1>14. CASE SysFirst
  BY <1>14, SysFirstStep
<1> QED BY <1>1, <1>2, <1>3, <1>4, <1>5, <1>6, <1>7, <1>8, <1>9, <1>10, <1>11, <1>12, <1>13, <1>14
        DEF Malloc

LEMMA NextHolds ==
  ASSUME AllocInv, [Next]_vars
  PROVE  AllocInv'
<1>1. ASSUME NEW n \in Lengths, MemAlloc(n)
      PROVE  AllocInv'
  BY <1>1, MemAllocStep
<1>2. ASSUME NEW a \in DOMAIN live, MemFreeFast(a)
      PROVE  AllocInv'
  BY <1>2, MemFreeFastStep
<1>3. ASSUME NEW a \in DOMAIN live, MemFree(a)
      PROVE  AllocInv'
  BY <1>3, MemFreeStep
<1>4. CASE Malloc
  BY <1>4, MallocHolds
<1>5. CASE ConsolidateChunk
  BY <1>5, ConsolidateChunkStep
<1>6. CASE ConsolidateEnd
  BY <1>6, ConsolidateEndStep
<1>7. CASE SysTrim
  BY <1>7, SysTrimStep
<1>8. CASE UNCHANGED vars
  BY <1>8, StutterHolds
<1> QED BY <1>1, <1>2, <1>3, <1>4, <1>5, <1>6, <1>7, <1>8 DEF Next

LEMMA AllocInvHolds == Spec => []AllocInv
<1>1. Init => AllocInv
  BY InitHolds
<1>2. AllocInv /\ [Next]_vars => AllocInv'
  BY NextHolds
<1> QED BY <1>1, <1>2, PTL DEF Spec

-------------------------------------------------------------------------------
(***************************************************************************)
(* The four properties.                                                    *)
(***************************************************************************)
LEMMA TagsFollow ==
  ASSUME AllocInv
  PROVE  TagsAgree
<1>1. SUFFICES ASSUME top # None
               PROVE  /\ HeapStart \in DOMAIN heap /\ heap[HeapStart].prev_inuse
                      /\ NextChunk(top) = curptr /\ size(top) >= MinSize /\ heap[top].prev_inuse
                      /\ \A a \in Chunks : /\ NextChunk(a) \in DOMAIN heap
                                           /\ size(a) >= MinSize
                                           /\ \A b \in DOMAIN heap : b <= a \/ b >= NextChunk(a)
                      /\ \A a \in Free : /\ heap[NextChunk(a)].prev_size = size(a)
                                         /\ heap[a].prev_inuse
  BY DEF TagsAgree
<1>2. PICK D : /\ Tiled(D, heap, top, curptr) /\ Tagged(D, heap, top)
               /\ DOMAIN heap = D /\ Chunks = D \ {top} /\ Free = FreeIn(D, heap, top)
  BY <1>1, HeapIs DEF AllocInv
<1>3. \A a : NextChunk(a) = Next1(heap, a) /\ size(a) = heap[a].size
  BY DEF NextChunk, size, Next1
<1>4. HeapStart \in D /\ heap[HeapStart].prev_inuse /\ heap[top].prev_inuse
  BY <1>2 DEF Tiled, Tagged
<1>5. Next1(heap, top) = curptr /\ top \in D /\ \A a \in D : heap[a].size >= MinSize
  BY <1>2 DEF Tiled
<1>6. \A a \in D \ {top} : Next1(heap, a) \in D /\ \A b \in D : b <= a \/ b >= Next1(heap, a)
  BY <1>2 DEF Tiled
<1>7. \A a \in Free : heap[Next1(heap, a)].prev_size = heap[a].size /\ heap[a].prev_inuse
  BY <1>2 DEF Tagged, FreeIn
<1> QED BY <1>2, <1>3, <1>4, <1>5, <1>6, <1>7

LEMMA BinsFollow ==
  ASSUME AllocInv
  PROVE  BinsAgree
<1>1. PICK R : R = Range(unsorted)
  OBVIOUS
<1>2. /\ unsorted \in Seq(Nat) /\ Lists(unsorted, R) /\ R \subseteq Free
      /\ Binned(Free \ R, heap, bins)
  BY <1>1 DEF AllocInv, ListInv, FreeLists
<1>3. ToSet(unsorted) = R
  BY <1>1 DEF ToSet, Range
<1>4. IsInjective(unsorted)
  <2>1. DOMAIN unsorted = 1 .. Len(unsorted)
    BY <1>2, LenProperties
  <2> QED BY <1>2, <2>1 DEF IsInjective, Lists
<1>5. ASSUME NEW i \in Bins
      PROVE  /\ bins[i] \in Seq(Nat) /\ DOMAIN bins[i] = 1 .. Len(bins[i])
             /\ ToSet(bins[i]) = OfBin(Free \ R, heap, i) /\ IsInjective(bins[i])
             /\ \A k \in DOMAIN bins[i] : BinIndex(size(bins[i][k])) = i
             /\ \A k, l \in DOMAIN bins[i] : k < l => size(bins[i][k]) >= size(bins[i][l])
             /\ i \notin binmap => bins[i] = <<>>
  <2>1. /\ bins[i] \in Seq(Nat) /\ Lists(bins[i], OfBin(Free \ R, heap, i))
        /\ Descending(heap, bins[i])
    BY <1>2, BinnedMember
  <2>2. DOMAIN bins[i] = 1 .. Len(bins[i])
    BY <2>1, LenProperties
  <2>3. ToSet(bins[i]) = OfBin(Free \ R, heap, i)
    BY <2>1 DEF ToSet, Range, Lists
  <2>4. IsInjective(bins[i])
    BY <2>1, <2>2 DEF IsInjective, Lists
  <2>5. \A k \in DOMAIN bins[i] : BinIndex(size(bins[i][k])) = i
    BY <2>2, BinnedIsFree DEF AllocInv
  <2>6. \A k, l \in DOMAIN bins[i] : k < l => size(bins[i][k]) >= size(bins[i][l])
    BY <2>1, <2>2 DEF Descending, size
  <2>7. i \notin binmap => bins[i] = <<>>
    BY DEF AllocInv, ListInv, Mapped
  <2> QED BY <2>1, <2>2, <2>3, <2>4, <2>5, <2>6, <2>7
<1>6. InBins = Free \ R
  <2>1. \A a : a \in InBins <=> \E i \in Bins : a \in OfBin(Free \ R, heap, i)
    BY <1>5 DEF InBins
  <2>2. \A a \in Free : BinIndex(heap[a].size) \in Bins
    BY FreeSizes DEF AllocInv, size
  <2>3. \A i : OfBin(Free \ R, heap, i) = {a \in Free \ R : BinIndex(heap[a].size) = i}
    BY DEF OfBin
  <2> QED BY <2>1, <2>2, <2>3
<1>7. Free = ToSet(unsorted) \cup InBins /\ ToSet(unsorted) \cap InBins = {}
  BY <1>2, <1>3, <1>6
<1>8. ASSUME NEW i \in FastBins
      PROVE  \A k \in DOMAIN fastbins[i] : size(fastbins[i][k]) = i
  <2>1. PICK S : S = Used \ DOMAIN live
    OBVIOUS
  <2>2. FastListed(S, heap, fastbins)
    BY <2>1 DEF AllocInv, ListInv
  <2>3. fastbins[i] \in Seq(Nat) /\ Lists(fastbins[i], OfFast(S, heap, i))
    BY <2>2 DEF FastListed
  <2>4. \A k \in 1 .. Len(fastbins[i]) : fastbins[i][k] \in OfFast(S, heap, i)
    BY <2>3, ListsMember
  <2> QED BY <2>3, <2>4, LenProperties DEF OfFast, size
<1>9. /\ fastchunks \/ NoFast \/ At("consolidate")
      /\ anychunks \/ (Free = {} /\ NoFast)
  BY DEF AllocInv, ListInv
<1>10. \A i \in Bins : IsInjective(bins[i])
  BY <1>5
<1>11. \A i \in Bins :
         /\ \A k \in DOMAIN bins[i] : BinIndex(size(bins[i][k])) = i
         /\ \A k, l \in DOMAIN bins[i] : k < l => size(bins[i][k]) >= size(bins[i][l])
         /\ i \notin binmap => bins[i] = <<>>
  BY <1>5
<1> QED BY <1>4, <1>7, <1>8, <1>9, <1>10, <1>11 DEF BinsAgree

(* What is in a fast bin. *)
LEMMA FastIs ==
  ASSUME AllocInv, NEW a
  PROVE  InFast(a) <=> a \in Used \ DOMAIN live
<1>1. PICK S : S = Used \ DOMAIN live
  OBVIOUS
<1>2. FastListed(S, heap, fastbins)
  BY <1>1 DEF AllocInv, ListInv
<1>3. ASSUME NEW i \in FastBins
      PROVE  Contains(fastbins[i], a) <=> (a \in S /\ heap[a].size = i)
  <2>1. fastbins[i] \in Seq(Nat) /\ Lists(fastbins[i], OfFast(S, heap, i))
    BY <1>2 DEF FastListed
  <2>2. \A x : x \in OfFast(S, heap, i) <=> \E k \in 1 .. Len(fastbins[i]) : fastbins[i][k] = x
    BY <2>1, ListsMember
  <2>3. a \in OfFast(S, heap, i) <=> (a \in S /\ heap[a].size = i)
    BY DEF OfFast
  <2>4. PICK s : s = fastbins[i]
    OBVIOUS
  <2>5. Contains(s, a) <=> \E k \in 1 .. Len(s) : s[k] = a
    BY DEF Contains
  <2> QED BY <2>2, <2>3, <2>4, <2>5
<1>4. a \in S => heap[a].size \in FastBins
  BY <1>2 DEF FastListed
<1>5. CASE InFast(a)
  <2>1. PICK i \in FastBins : Contains(fastbins[i], a)
    BY <1>5 DEF InFast
  <2> QED BY <1>1, <1>3, <1>5, <2>1
<1>6. CASE a \in S
  <2>1. PICK i \in FastBins : i = heap[a].size
    BY <1>4, <1>6
  <2>2. Contains(fastbins[i], a)
    BY <1>3, <1>6, <2>1
  <2> QED BY <1>1, <1>6, <2>2 DEF InFast
<1> QED BY <1>1, <1>5, <1>6

LEMMA BlocksFollow ==
  ASSUME AllocInv
  PROVE  BlocksIntact
<1>1. Used = Chunks \ Free
  BY DEF Used
<1>2. DOMAIN live \subseteq Used
  BY DEF AllocInv, LiveInv
<1>3. \A a \in DOMAIN live : size(a) >= live[a] /\ size(a) - live[a] < MinSize
  BY DEF AllocInv, LiveInv
<1>4. \A a \in DOMAIN live : ~InFast(a)
  BY FastIs
<1>5. \A a \in Used : a \in DOMAIN live \/ InFast(a)
  BY FastIs
<1>6. ASSUME NEW a \in DOMAIN live
      PROVE  heap[NextChunk(a)].prev_size = 0
  <2>1. a \in Chunks /\ a \notin Free
    BY <1>1, <1>2
  <2>2. top # None
    BY <2>1, EmptyHeap DEF AllocInv, HeapInv
  <2>3. PICK D : Tagged(D, heap, top) /\ Chunks = D \ {top} /\ Free = FreeIn(D, heap, top)
    BY <2>2, HeapIs DEF AllocInv
  <2>4. a \in D \ {top} /\ heap[Next1(heap, a)].prev_inuse
    BY <2>1, <2>3 DEF FreeIn
  <2>5. heap[Next1(heap, a)].prev_size = 0
    BY <2>3, <2>4 DEF Tagged
  <2> QED BY <2>5 DEF Next1, NextChunk, size
<1> QED BY <1>1, <1>2, <1>3, <1>4, <1>5, <1>6 DEF BlocksIntact

(* A chunk of the bin scanned is the smallest that fits. *)
LEMMA ScanFits ==
  ASSUME AllocInv, Scanning, NEW a \in Free, size(a) >= nb
  PROVE  size(a) >= size(OwnBin[Smallest])
<1>1. PICK i : i = op.idx
  OBVIOUS
<1>2. PICK s : s = OwnBin
  OBVIOUS
<1>3. PICK p : p = Smallest
  OBVIOUS
<1>4. Sorting /\ unsorted = <<>> /\ Fitting # {} /\ s = bins[i]
  BY <1>1, <1>2 DEF Scanning, Sorted, OwnBin
<1>5. nb \in Nat /\ nb >= MinSize /\ i = BinIndex(nb)
  BY <1>1, <1>4, SortingFacts DEF AllocInv
<1>6. i \in Bins /\ i \in Nat
  BY <1>5, BinIndexFacts
<1>7. /\ s \in Seq(Nat) /\ Descending(heap, s)
      /\ \A k \in 1 .. Len(s) : s[k] \in Free /\ BinIndex(size(s[k])) = i
  BY <1>4, <1>6, BinnedIsFree DEF AllocInv
<1>8. p \in 1 .. Len(s) /\ \A j \in Fitting : j <= p
  BY <1>2, <1>3, <1>4, <1>7, SmallestIs
<1>9. PICK m \in Nat : m = size(a)
  BY FreeSizes DEF AllocInv
<1>10. s[p] \in Free /\ BinIndex(size(s[p])) = i
  BY <1>7, <1>8
<1>11. PICK n \in Nat : n = size(s[p])
  BY <1>10, FreeSizes DEF AllocInv
<1>12. m >= MinSize /\ n >= MinSize
  BY <1>9, <1>10, <1>11, FreeSizes DEF AllocInv
<1>13. BinIndex(m) \in Nat /\ BinIndex(m) >= i
  BY <1>5, <1>9, <1>12, BinIndexFacts, BinIndexGrows
<1>14. CASE BinIndex(m) = i
  <2>1. a \notin Range(unsorted)
    BY <1>4, RangeEmpty
  <2>2. PICK k \in 1 .. Len(s) : s[k] = a
    BY <1>4, <1>9, <1>14, <2>1, UnsortedOrBinned DEF AllocInv
  <2>3. k \in Fitting
    BY <1>2, <1>7, <2>2, LenProperties DEF Fitting
  <2>4. k <= p
    BY <1>8, <2>3
  <2>5. k < p => size(s[k]) >= size(s[p])
    BY <1>7, <1>8 DEF Descending, size
  <2>6. k = p \/ k < p
    BY <1>7, <1>8, <2>4, LenProperties
  <2>7. m >= n
    BY <1>9, <1>11, <2>2, <2>5, <2>6
  <2> QED BY <1>2, <1>3, <1>9, <1>11, <2>7
<1>15. CASE BinIndex(m) # i
  <2>1. BinIndex(n) = i
    BY <1>10, <1>11
  <2>2. m < n => BinIndex(m) <= BinIndex(n)
    BY <1>12, BinIndexGrows
  <2>3. m >= n
    BY <1>6, <1>13, <1>15, <2>1, <2>2
  <2> QED BY <1>2, <1>3, <1>9, <1>11, <2>3
<1> QED BY <1>14, <1>15

(* And so is the last chunk of the first bin that the map shows. *)
LEMMA MapFits ==
  ASSUME AllocInv, Mapping, Marked # {}, bins[FirstMarked] # <<>>
  PROVE  /\ size(Last(bins[FirstMarked])) >= nb
         /\ \A a \in Free : size(a) >= nb => size(a) >= size(Last(bins[FirstMarked]))
<1>1. PICK i : i = FirstMarked
  OBVIOUS
<1>2. PICK s : s = bins[i]
  OBVIOUS
<1>3. PICK x : x = Last(s)
  OBVIOUS
<1>4. s # <<>>
  BY <1>1, <1>2
<1>5. /\ nb \in Nat /\ nb >= MinSize /\ unsorted = <<>> /\ op.idx \in Nat
      /\ \A a \in Free : size(a) >= nb => BinIndex(size(a)) > op.idx
  BY MappingFacts DEF AllocInv
<1>6. i \in Bins /\ i \in Nat /\ i > op.idx /\ \A j \in Marked : i <= j
  BY <1>1, FirstMarkedIs DEF AllocInv
<1>7. /\ s \in Seq(Nat) /\ Descending(heap, s)
      /\ \A k \in 1 .. Len(s) : s[k] \in Free /\ BinIndex(size(s[k])) = i
  BY <1>2, <1>6, BinnedIsFree DEF AllocInv
<1>8. Len(s) \in 1 .. Len(s) /\ x = s[Len(s)]
  BY <1>3, <1>4, <1>7, EmptySeq, LenProperties DEF Last
<1>9. x \in Free /\ BinIndex(size(x)) = i
  BY <1>7, <1>8
<1>10. PICK n \in Nat : n = size(x)
  BY <1>9, FreeSizes DEF AllocInv
<1>11. n >= MinSize /\ BinIndex(n) = i
  BY <1>9, <1>10, FreeSizes DEF AllocInv
<1>12. n >= nb
  BY <1>1, <1>11, FirstMarkedFits
<1>13. ASSUME NEW a \in Free, size(a) >= nb
       PROVE  size(a) >= n
  <2>1. PICK m \in Nat : m = size(a)
    BY FreeSizes DEF AllocInv
  <2>2. m >= MinSize
    BY <2>1, FreeSizes DEF AllocInv
  <2>3. PICK j : j = BinIndex(m)
    OBVIOUS
  <2>4. a \notin Range(unsorted)
    BY <1>5, RangeEmpty
  <2>5. j \in Nat /\ j \in binmap
    BY <2>1, <2>3, <2>4, UnsortedOrBinned DEF AllocInv
  <2>6. j > op.idx
    BY <1>5, <1>13, <2>1, <2>3
  <2>7. i <= j
    BY <1>6, <2>5, <2>6 DEF Marked
  <2>8. CASE j = i
    <3>1. PICK k \in 1 .. Len(s) : s[k] = a
      BY <1>2, <2>1, <2>3, <2>4, <2>8, UnsortedOrBinned DEF AllocInv
    <3>2. k = Len(s) \/ k < Len(s)
      BY <1>7, <1>8
    <3>3. k < Len(s) => heap[s[k]].size >= heap[s[Len(s)]].size
      BY <1>7, <1>8 DEF Descending
    <3>4. m = heap[s[k]].size /\ n = heap[s[Len(s)]].size
      BY <1>8, <1>10, <2>1, <3>1 DEF size
    <3> QED BY <2>1, <3>2, <3>3, <3>4
  <2>9. CASE j # i
    <3>1. m < n => BinIndex(m) <= BinIndex(n)
      BY <2>2, BinIndexGrows
    <3> QED BY <1>6, <1>11, <2>1, <2>3, <2>5, <2>7, <2>9, <3>1
  <2> QED BY <2>8, <2>9
<1> QED BY <1>1, <1>2, <1>3, <1>10, <1>12, <1>13

LEMMA FitFollows ==
  ASSUME AllocInv
  PROVE  BestFit
<1>1. Scanning => \A a \in Free : size(a) >= nb => size(a) >= size(OwnBin[Smallest])
  BY ScanFits
<1>2. Mapping /\ Marked # {} /\ bins[FirstMarked] # <<>> =>
        /\ size(Last(bins[FirstMarked])) >= nb
        /\ \A a \in Free : size(a) >= nb => size(a) >= size(Last(bins[FirstMarked]))
  BY MapFits
<1>3. UsingTop => \A a \in Free : size(a) < nb
  BY TopFacts DEF AllocInv
<1>4. InSysmalloc /\ ~fastchunks => NoFast
  BY TopFacts DEF InSysmalloc, AllocInv, ListInv
<1> QED BY <1>1, <1>2, <1>3, <1>4 DEF BestFit

(* The chunks tile the memory obtained from sbrk, the top is the last one,   *)
(* every head tells whether the chunk before it is free and how long it is,  *)
(* and free() leaves no two free neighbours (set_head, set_foot and the      *)
(* consolidation of fREe in malloc.c.h).                                     *)
THEOREM TagsAgreeHolds == Spec => []TagsAgree
<1>1. AllocInv => TagsAgree
  BY TagsFollow
<1> QED BY <1>1, AllocInvHolds, PTL

(* Every free chunk is in exactly one place of one list, the unsorted one or *)
(* the bin of its size, where it is in order; the bin map misses no bin, and *)
(* the flags that let malloc skip a search hide nothing.                     *)
THEOREM BinsAgreeHolds == Spec => []BinsAgree
<1>1. AllocInv => BinsAgree
  BY BinsFollow
<1> QED BY <1>1, AllocInvHolds, PTL

(* A block handed out by malloc and not freed is a chunk of its own, large   *)
(* enough and not by a chunk too large, which no later call splits, merges,  *)
(* lists or writes a foot into.                                              *)
THEOREM BlocksIntactHolds == Spec => []BlocksIntact
<1>1. AllocInv => BlocksIntact
  BY BlocksFollow
<1> QED BY <1>1, AllocInvHolds, PTL

(* The search of mALLOc finds the smallest free chunk that is large enough,  *)
(* and comes to the top and to sYSMALLOc only when there is none.            *)
THEOREM BestFitHolds == Spec => []BestFit
<1>1. AllocInv => BestFit
  BY FitFollows
<1> QED BY <1>1, AllocInvHolds, PTL
===============================================================================
