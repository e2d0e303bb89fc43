----------------------------- MODULE PageProofs -----------------------------
(***************************************************************************)
(* What becomes of a page on its way through the proxy, for pages of any   *)
(* length and routes with any list of items.  The items of one location    *)
(* are gathered by induction; inserting their block moves what stands      *)
(* behind it; and what holds after every location (Built) says where every *)
(* token of the new page comes from, and so everything the runs check.     *)
(***************************************************************************)
EXTENDS ContentProofs, FiniteSetTheorems, SequenceTheorems

-----------------------------------------------------------------------------
(***************************************************************************)
(* Sequences: one behind another, and a block inside of one.               *)
(***************************************************************************)
\* A sequence, whatever its elements
Listed(s) == s \in Seq(Range(s))

LEMMA ListedIs ==
    ASSUME NEW s, Listed(s)
    PROVE  Len(s) \in Nat /\ DOMAIN s = 1..Len(s)
BY DEF Listed

LEMMA ListedFrom ==
    ASSUME NEW T, NEW s \in Seq(T)
    PROVE  Listed(s)
BY DEF Listed, Range

\* One sequence behind another
LEMMA Joined ==
    ASSUME NEW s, Listed(s), NEW t, Listed(t)
    PROVE  /\ Listed(s \o t)
           /\ Len(s \o t) = Len(s) + Len(t)
           /\ \A k \in 1..Len(s) : (s \o t)[k] = s[k]
           /\ \A k \in Len(s) + 1..Len(s) + Len(t) : (s \o t)[k] = t[k - Len(s)]
<1> DEFINE T == Range(s) \cup Range(t)
<1>1. s \in Seq(T) /\ t \in Seq(T)
  BY SeqMonotonic DEF Listed
<1>2. Len(s) \in Nat /\ Len(t) \in Nat
  BY ListedIs
<1>3. /\ s \o t \in Seq(T)
      /\ Len(s \o t) = Len(s) + Len(t)
      /\ \A i \in 1 .. Len(s) + Len(t) : (s \o t)[i] = IF i <= Len(s) THEN s[i] ELSE t[i - Len(s)]
  BY <1>1, ConcatProperties
<1>4. Listed(s \o t)
  BY <1>3, ListedFrom
<1> QED BY <1>2, <1>3, <1>4

\* A block s in page p after its first tokens
Inserts(p, at, s, q) ==
    /\ Listed(p) /\ Listed(s) /\ Listed(q) /\ at \in 0..Len(p)
    /\ Len(q) = Len(p) + Len(s)
    /\ \A k \in 1..at : q[k] = p[k]
    /\ \A k \in 1..Len(s) : q[at + k] = s[k]
    /\ \A k \in at + 1..Len(p) : q[Len(s) + k] = p[k]

\* What InjectAt puts together is such a page.
LEMMA Inserted ==
    ASSUME NEW p, Listed(p), NEW s, Listed(s), NEW at \in 0..Len(p)
    PROVE  Inserts(p, at, s, SubSeq(p, 1, at) \o s \o SubSeq(p, at + 1, Len(p)))
<1> DEFINE a == SubSeq(p, 1, at)
           b == SubSeq(p, at + 1, Len(p))
<1>1. Len(p) \in Nat /\ Len(s) \in Nat /\ DOMAIN p = 1..Len(p) /\ at \in Nat
  BY ListedIs
<1>2. \A i \in 1..Len(p) : p[i] \in Range(p)
  BY <1>1 DEF Range
<1>3. a \in Seq(Range(p)) /\ Len(a) = at /\ \A i \in 1..at : a[i] = p[i]
  <2>1. 1 \in Int /\ at \in Int /\ \A i \in 1..at : p[i] \in Range(p)
    BY <1>1, <1>2
  <2>2. /\ a \in Seq(Range(p))
        /\ Len(a) = IF 1 <= at THEN at - 1 + 1 ELSE 0
        /\ \A i \in 1..at - 1 + 1 : a[i] = p[1 + i - 1]
    BY <2>1, SubSeqProperties
  <2> HIDE DEF a
  <2> QED BY <1>1, <2>2
<1>4. b \in Seq(Range(p)) /\ Len(b) = Len(p) - at /\ \A i \in 1..Len(p) - at : b[i] = p[at + i]
  <2>1. /\ \A i \in at + 1..Len(p) : p[i] \in Range(p)
        /\ at + 1 \in Int /\ Len(p) \in Int
    BY <1>1, <1>2
  <2>2. /\ b \in Seq(Range(p))
        /\ Len(b) = IF at + 1 <= Len(p) THEN Len(p) - (at + 1) + 1 ELSE 0
        /\ \A i \in 1..Len(p) - (at + 1) + 1 : b[i] = p[(at + 1) + i - 1]
    BY <2>1, SubSeqProperties
  <2> HIDE DEF a, b
  <2>3. ASSUME NEW i \in 1..Len(p) - at PROVE b[i] = p[at + i]
    <3>1. i \in 1..Len(p) - (at + 1) + 1 /\ (at + 1) + i - 1 = at + i
      BY <1>1
    <3> QED BY <2>2, <3>1
  <2>4. Len(b) = IF at + 1 <= Len(p) THEN Len(p) - (at + 1) + 1 ELSE 0
    BY <2>2
  <2>5. Len(b) = Len(p) - at
    <3>1. at \in Nat /\ at <= Len(p) /\ Len(p) \in Nat
      BY <1>1
    <3> QED BY <2>4, <3>1
  <2> QED BY <2>2, <2>3, <2>5
<1>5. Listed(a) /\ Listed(b)
  BY <1>3, <1>4, ListedFrom
<1> HIDE DEF a, b
<1>6. /\ Listed(a \o s) /\ Len(a \o s) = at + Len(s)
      /\ \A k \in 1..at : (a \o s)[k] = p[k]
      /\ \A k \in at + 1..at + Len(s) : (a \o s)[k] = s[k - at]
  BY <1>3, <1>5, Joined
<1> DEFINE c == a \o s
           q == c \o b
<1> HIDE DEF c
<1>7. /\ Listed(c) /\ Len(c) = at + Len(s)
      /\ \A k \in 1..at : c[k] = p[k]
      /\ \A k \in at + 1..at + Len(s) : c[k] = s[k - at]
  BY <1>6 DEF c
<1>8. /\ Listed(q) /\ Len(q) = Len(c) + Len(b)
      /\ \A k \in 1..Len(c) : q[k] = c[k]
      /\ \A k \in Len(c) + 1..Len(c) + Len(b) : q[k] = b[k - Len(c)]
  <2>1. Listed(c) /\ Listed(b)
    BY <1>5, <1>7
  <2> QED BY <2>1, Joined
<1> HIDE DEF q
<1>9. Len(c) = at + Len(s) /\ Len(b) = Len(p) - at
  BY <1>4, <1>7
<1>10. Len(q) = Len(p) + Len(s)
  <2>1. Len(q) = Len(c) + Len(b)
    BY <1>8
  <2> QED BY <1>1, <1>9, <2>1
<1>11. ASSUME NEW k \in 1..at PROVE q[k] = p[k]
  <2>1. k \in 1..Len(c)
    BY <1>1, <1>9
  <2> QED BY <1>7, <1>8, <2>1
<1>12. ASSUME NEW k \in 1..Len(s) PROVE q[at + k] = s[k]
  <2>1. at + k \in 1..Len(c) /\ at + k \in at + 1..at + Len(s) /\ (at + k) - at = k
    BY <1>1, <1>9
  <2> QED BY <1>7, <1>8, <2>1
<1>13. ASSUME NEW k \in at + 1..Len(p) PROVE q[Len(s) + k] = p[k]
  <2>1. /\ Len(s) + k \in Len(c) + 1..Len(c) + Len(b)
        /\ (Len(s) + k) - Len(c) = k - at /\ k - at \in 1..Len(p) - at /\ at + (k - at) = k
    BY <1>1, <1>9
  <2> QED BY <1>4, <1>8, <2>1
<1>14. SubSeq(p, 1, at) \o s \o SubSeq(p, at + 1, Len(p)) = q
  BY DEF a, b, c, q
<1> HIDE DEF q
<1>15. Inserts(p, at, s, q)
  BY <1>8, <1>10, <1>11, <1>12, <1>13 DEF Inserts
<1> QED BY <1>14, <1>15, Zenon

\* A token of both together is a token of one of them.
LEMMA HasJoined ==
    ASSUME NEW s, Listed(s), NEW t, Listed(t), NEW token
    PROVE  Has(s \o t, token) <=> Has(s, token) \/ Has(t, token)
<1>1. /\ Len(s) \in Nat /\ DOMAIN s = 1..Len(s) /\ Len(t) \in Nat /\ DOMAIN t = 1..Len(t)
      /\ DOMAIN (s \o t) = 1..Len(s) + Len(t)
  BY ListedIs, Joined
<1>2. ASSUME Has(s \o t, token)
      PROVE  Has(s, token) \/ Has(t, token)
  <2>1. PICK k \in 1..Len(s) + Len(t) : (s \o t)[k] = token
    BY <1>1, <1>2 DEF Has
  <2>2. CASE k <= Len(s)
    <3>1. k \in 1..Len(s)
      BY <1>1, <2>2
    <3>2. s[k] = token
      BY <2>1, <3>1, Joined
    <3> QED BY <1>1, <3>1, <3>2 DEF Has
  <2>3. CASE k > Len(s)
    <3>1. k \in Len(s) + 1..Len(s) + Len(t) /\ k - Len(s) \in 1..Len(t)
      BY <1>1, <2>3
    <3>2. t[k - Len(s)] = token
      BY <2>1, <3>1, Joined
    <3> QED BY <1>1, <3>1, <3>2 DEF Has
  <2> QED BY <1>1, <2>2, <2>3
<1>3. ASSUME Has(s, token)
      PROVE  Has(s \o t, token)
  <2>1. PICK k \in 1..Len(s) : s[k] = token
    BY <1>1, <1>3 DEF Has
  <2>2. (s \o t)[k] = token /\ k \in 1..Len(s) + Len(t)
    BY <1>1, <2>1, Joined
  <2> QED BY <1>1, <2>2 DEF Has
<1>4. ASSUME Has(t, token)
      PROVE  Has(s \o t, token)
  <2>1. PICK k \in 1..Len(t) : t[k] = token
    BY <1>1, <1>4 DEF Has
  <2>2. Len(s) + k \in Len(s) + 1..Len(s) + Len(t) /\ (Len(s) + k) - Len(s) = k
    BY <1>1
  <2>3. (s \o t)[Len(s) + k] = token /\ Len(s) + k \in 1..Len(s) + Len(t)
    BY <1>1, <2>1, <2>2, Joined
  <2> QED BY <1>1, <2>3 DEF Has
<1> QED BY <1>2, <1>3, <1>4

\* The items one after another
CollectStep(page, items, path, location, n, acc) ==
    IF \/ ~EligibleItem(items[n], path) \/ items[n].location # location
       \/ Skipped(page, acc.snippets, items[n])
    THEN acc
    ELSE [snippets |-> acc.snippets \o Snippet(items[n]), ids |-> acc.ids \cup {items[n].id}]

Nothing == [snippets |-> <<>>, ids |-> {}]

\* Collected, one item after the other
LEMMA CollectedIs ==
    ASSUME NEW page, NEW items, Listed(items), NEW path, NEW location
    PROVE  LET c == Collected(page, items, path, location) IN
           /\ c[0] = Nothing
           /\ \A n \in 1..Len(items) : c[n] = CollectStep(page, items, path, location, n, c[n - 1])
<1> DEFINE St(n, acc) == CollectStep(page, items, path, location, n, acc)
           Upto(g, n) == g = [i \in 0..n |-> IF i = 0 THEN Nothing ELSE St(i, g[i - 1])]
           P == {n \in Nat : \E g : Upto(g, n)}
<1>1. 0 \in P
  <2>1. Upto([i \in 0..0 |-> Nothing], 0)
    OBVIOUS
  <2> QED BY <2>1
<1>2. ASSUME NEW n \in P
      PROVE  n + 1 \in P
  <2>1. PICK g : Upto(g, n)
    OBVIOUS
  <2> HIDE DEF St
  <2> DEFINE h == [i \in 0..(n + 1) |-> IF i = n + 1 THEN St(n + 1, g[n]) ELSE g[i]]
  <2>2. n \in Nat /\ n + 1 \in Nat
    OBVIOUS
  <2>3. ASSUME NEW i \in 0..(n + 1)
        PROVE  h[i] = IF i = 0 THEN Nothing ELSE St(i, h[i - 1])
    <3>1. CASE i = n + 1
      <4>1. h[i] = St(n + 1, g[n]) /\ i - 1 = n /\ n \in 0..(n + 1) /\ n # n + 1
        BY <2>2, <3>1
      <4>2. h[n] = g[n]
        BY <2>2, <4>1
      <4> HIDE DEF h
      <4> QED BY <2>2, <3>1, <4>1, <4>2
    <3>2. CASE i # n + 1
      <4>1. i \in 0..n
        BY <2>2, <3>2
      <4>2. h[i] = g[i] /\ g[i] = (IF i = 0 THEN Nothing ELSE St(i, g[i - 1]))
        BY <2>1, <3>2, <4>1
      <4>3. CASE i = 0
        BY <4>2, <4>3
      <4>4. CASE i # 0
        <5>1. i - 1 \in 0..(n + 1) /\ i - 1 # n + 1
          BY <2>2, <4>1, <4>4
        <5>2. h[i - 1] = g[i - 1]
          BY <5>1
        <5> QED BY <4>2, <4>4, <5>2
      <4> QED BY <4>3, <4>4
    <3> QED BY <3>1, <3>2
  <2>4. h = [i \in 0..(n + 1) |-> h[i]]
    OBVIOUS
  <2> HIDE DEF h
  <2>5. Upto(h, n + 1)
    BY <2>3, <2>4
  <2> HIDE DEF Upto
  <2> QED BY <2>2, <2>5
<1>3. P = Nat
  <2> HIDE DEF P
  <2>1. P \in SUBSET Nat
    BY DEF P
  <2> QED BY <1>1, <1>2, <2>1, Induct
<1>4. Len(items) \in Nat
  BY ListedIs
<1>5. \E g : Upto(g, Len(items))
  BY <1>3, <1>4
<1> DEFINE c == Collected(page, items, path, location)
<1>6. c = CHOOSE g : Upto(g, Len(items))
  BY Zenon DEF Collected, CollectStep, Nothing
<1>7. Upto(c, Len(items))
  <2> HIDE DEF Upto, c
  <2> QED BY <1>5, <1>6
<1> HIDE DEF St, c
<1>8. c[0] = Nothing
  BY <1>4, <1>7
<1>9. ASSUME NEW n \in 1..Len(items) PROVE c[n] = St(n, c[n - 1])
  BY <1>4, <1>7
<1> QED BY <1>8, <1>9 DEF c, St

-----------------------------------------------------------------------------
(***************************************************************************)
(* Items, and what waits to be inserted.                                   *)
(***************************************************************************)
\* The two tokens of an item's block
Mark(item) == <<"marker", item.id>>

Held(item) == <<"content", Rendered(item)>>

\* The token that is looked for instead of it
Sought(item) == <<"content", item.content>>

\* No two items share an id.
UniqueIds(items) == \A i, j \in DOMAIN items : items[i].id = items[j].id => i = j

\* An item that is meant for the path and the location
Suits(item, path, location) == EligibleItem(item, path) /\ item.location = location

\* What keeps an item out of a page, now or later
Done(page, item) ==
    \/ MarkerFound(page, item) \/ DuplicatePatternFound(page, item) \/ item.content = ""
    \/ Looked(item) /\ Has(page, Sought(item))

\* Markers and contents are never taken for one another.
LEMMA Marks ==
    /\ \A item : Mark(item)[1] = "marker" /\ Mark(item)[2] = item.id
    /\ \A item : Held(item)[1] = "content" /\ Held(item)[2] = Rendered(item)
    /\ \A item, other : Mark(item) # Held(other) /\ Mark(item) # Sought(other)
    /\ \A item, other : Mark(item) = Mark(other) <=> item.id = other.id
    /\ \A item, other : Held(item) = Sought(other) <=> Rendered(item) = other.content
BY DEF Mark, Held, Sought

\* An item's block: its marker, then its content
LEMMA SnippetIs ==
    ASSUME NEW item
    PROVE  /\ Listed(Snippet(item)) /\ Len(Snippet(item)) = 2
           /\ Snippet(item)[1] = Mark(item) /\ Snippet(item)[2] = Held(item)
BY DEF Snippet, Mark, Held, Listed, Range

LEMMA EmptyIs == Listed(<<>>) /\ Len(<<>>) = 0 /\ DOMAIN <<>> = {}
BY DEF Listed, Range

\* An item is skipped if it is done with, or if its script waits already.
LEMMA SkippedIs ==
    ASSUME NEW page, Listed(page), NEW s, Listed(s), NEW item
    PROVE  Skipped(page, s, item) <=>
              Done(page, item) \/ (Looked(item) /\ Has(s, Sought(item)))
<1>1. Has(page \o s, Sought(item)) <=> Has(page, Sought(item)) \/ Has(s, Sought(item))
  BY HasJoined
<1>2. CASE item.content = ""
  BY <1>2 DEF Skipped, Done
<1>3. CASE item.content # ""
  BY <1>1, <1>3 DEF Skipped, Done, AutomaticDuplicate, Looked, Sought
<1> QED BY <1>2, <1>3

\* What keeps an item out of a page keeps it out of every page with more in it.
LEMMA DoneStays ==
    ASSUME NEW p, NEW q, \A token : Has(p, token) => Has(q, token), NEW item, Done(p, item)
    PROVE  Done(q, item)
BY DEF Done, MarkerFound, DuplicatePatternFound

\* What waits to be inserted after the first n items: blocks of a marker and a
\* content,
Blocks(items, path, location, n, s) ==
    /\ Listed(s)
    /\ \A k \in DOMAIN s : \E i \in 1..n :
          /\ Suits(items[i], path, location)
          /\ \/ s[k] = Mark(items[i]) /\ k + 1 \in DOMAIN s /\ s[k + 1] = Held(items[i])
             \/ s[k] = Held(items[i]) /\ k - 1 \in DOMAIN s /\ s[k - 1] = Mark(items[i])

\* of items that nothing keeps out of the page,
Fresh(page, items, s) ==
    \A k \in DOMAIN s : \A i \in DOMAIN items : s[k] = Mark(items[i]) => ~Done(page, items[i])

\* in the order of the items, a script only once,
Ordered(items, s) ==
    \A j, k \in DOMAIN s : \A a, b \in DOMAIN items :
        j < k /\ s[j] = Mark(items[a]) /\ s[k] = Mark(items[b]) =>
            a < b /\ (Looked(items[b]) => Rendered(items[a]) # items[b].content)

\* and none is left out that has a reason to be there.
NoneForgotten(page, items, path, location, n, s) ==
    \A i \in 1..n : Suits(items[i], path, location) =>
        \/ Done(page, items[i])
        \/ Looked(items[i]) /\ Has(s, Sought(items[i]))
        \/ Has(s, Mark(items[i]))

\* The ids that the markers carry
Ids(s) == {s[k][2] : k \in {j \in DOMAIN s : s[j][1] = "marker"}}

\* All of this together, after the first n items
Gathered(page, items, path, location, n, acc) ==
    /\ Blocks(items, path, location, n, acc.snippets)
    /\ Fresh(page, items, acc.snippets)
    /\ Ordered(items, acc.snippets)
    /\ NoneForgotten(page, items, path, location, n, acc.snippets)
    /\ acc.ids = Ids(acc.snippets)

\* A block more at the end
LEMMA Extended ==
    ASSUME NEW s, Listed(s), NEW item
    PROVE  LET t == s \o Snippet(item) IN
           /\ Listed(t) /\ Len(t) = Len(s) + 2 /\ Len(s) \in Nat
           /\ DOMAIN s = 1..Len(s) /\ DOMAIN t = 1..Len(s) + 2
           /\ \A k \in DOMAIN s : k \in DOMAIN t /\ t[k] = s[k]
           /\ t[Len(s) + 1] = Mark(item) /\ t[Len(s) + 2] = Held(item)
           /\ \A k \in DOMAIN t : k \in DOMAIN s \/ k = Len(s) + 1 \/ k = Len(s) + 2
           /\ \A token : Has(t, token) <=> Has(s, token) \/ token = Mark(item) \/ token = Held(item)
<1> DEFINE u == Snippet(item)
           t == s \o u
<1>1. Listed(u) /\ Len(u) = 2 /\ u[1] = Mark(item) /\ u[2] = Held(item)
  BY SnippetIs
<1> HIDE DEF u
<1>2. /\ Listed(t) /\ Len(t) = Len(s) + Len(u)
      /\ \A k \in 1..Len(s) : t[k] = s[k]
      /\ \A k \in Len(s) + 1..Len(s) + Len(u) : t[k] = u[k - Len(s)]
  BY <1>1, Joined
<1> HIDE DEF t
<1>3. Len(s) \in Nat /\ DOMAIN s = 1..Len(s)
  BY ListedIs
<1>4. Len(t) = Len(s) + 2
  BY <1>1, <1>2, <1>3
<1>5. DOMAIN t = 1..Len(s) + 2
  <2>1. DOMAIN t = 1..Len(t)
    BY <1>2, ListedIs
  <2> QED BY <1>4, <2>1
<1>6. t[Len(s) + 1] = Mark(item)
  <2>1. Len(s) + 1 \in Len(s) + 1..Len(s) + Len(u) /\ (Len(s) + 1) - Len(s) = 1
    BY <1>1, <1>3
  <2> QED BY <1>1, <1>2, <2>1
<1>7. t[Len(s) + 2] = Held(item)
  <2>1. Len(s) + 2 \in Len(s) + 1..Len(s) + Len(u) /\ (Len(s) + 2) - Len(s) = 2
    BY <1>1, <1>3
  <2> QED BY <1>1, <1>2, <2>1
<1>8. \A k \in DOMAIN s : k \in DOMAIN t /\ t[k] = s[k]
  BY <1>2, <1>3, <1>5
<1>9. \A k \in DOMAIN t : k \in DOMAIN s \/ k = Len(s) + 1 \/ k = Len(s) + 2
  BY <1>3, <1>5
<1>10. Len(s) + 1 \in DOMAIN t /\ Len(s) + 2 \in DOMAIN t
  BY <1>3, <1>5
<1>11. \A token : Has(t, token) <=> Has(s, token) \/ token = Mark(item) \/ token = Held(item)
  BY <1>6, <1>7, <1>8, <1>9, <1>10 DEF Has
<1> QED BY <1>2, <1>3, <1>4, <1>5, <1>6, <1>7, <1>8, <1>9, <1>11 DEF t, u

-----------------------------------------------------------------------------
(***************************************************************************)
(* Collect, one item after the other.                                      *)
(***************************************************************************)
\* A marker names one item.
LEMMA SameItem ==
    ASSUME NEW items, UniqueIds(items), NEW a \in DOMAIN items, NEW b \in DOMAIN items,
           Mark(items[a]) = Mark(items[b])
    PROVE  a = b
BY Marks DEF UniqueIds

\* One item more: its block is behind the others,
LEMMA BlocksGrow ==
    ASSUME NEW items, NEW n \in Nat \ {0}, NEW path, NEW location, NEW s,
           Blocks(items, path, location, n - 1, s), Suits(items[n], path, location)
    PROVE  Blocks(items, path, location, n, s \o Snippet(items[n]))
<1> DEFINE t == s \o Snippet(items[n])
<1>1. Listed(s)
  BY DEF Blocks
<1>2. /\ Listed(t) /\ Len(t) = Len(s) + 2 /\ Len(s) \in Nat
      /\ DOMAIN s = 1..Len(s) /\ DOMAIN t = 1..Len(s) + 2
      /\ \A k \in DOMAIN s : k \in DOMAIN t /\ t[k] = s[k]
      /\ t[Len(s) + 1] = Mark(items[n]) /\ t[Len(s) + 2] = Held(items[n])
      /\ \A k \in DOMAIN t : k \in DOMAIN s \/ k = Len(s) + 1 \/ k = Len(s) + 2
  BY <1>1, Extended
<1> HIDE DEF t
<1> DEFINE Good(k, i) ==
             /\ Suits(items[i], path, location)
             /\ \/ t[k] = Mark(items[i]) /\ k + 1 \in DOMAIN t /\ t[k + 1] = Held(items[i])
                \/ t[k] = Held(items[i]) /\ k - 1 \in DOMAIN t /\ t[k - 1] = Mark(items[i])
<1>3. ASSUME NEW k \in DOMAIN t
      PROVE  \E i \in 1..n : Good(k, i)
  <2>1. CASE k \in DOMAIN s
    <3>1. PICK i \in 1..n - 1 :
             /\ Suits(items[i], path, location)
             /\ \/ s[k] = Mark(items[i]) /\ k + 1 \in DOMAIN s /\ s[k + 1] = Held(items[i])
                \/ s[k] = Held(items[i]) /\ k - 1 \in DOMAIN s /\ s[k - 1] = Mark(items[i])
      BY <2>1 DEF Blocks
    <3>2. Good(k, i) /\ i \in 1..n
      BY <1>2, <2>1, <3>1
    <3> QED BY <3>2
  <2>2. CASE k = Len(s) + 1
    <3>1. k + 1 = Len(s) + 2 /\ k + 1 \in DOMAIN t /\ n \in 1..n
      BY <1>2, <2>2
    <3>2. Good(k, n)
      BY <1>2, <2>2, <3>1
    <3> QED BY <3>1, <3>2
  <2>3. CASE k = Len(s) + 2
    <3>1. k - 1 = Len(s) + 1 /\ k - 1 \in DOMAIN t /\ n \in 1..n
      BY <1>2, <2>3
    <3>2. Good(k, n)
      BY <1>2, <2>3, <3>1
    <3> QED BY <3>1, <3>2
  <2> QED BY <1>2, <2>1, <2>2, <2>3
<1> QED BY <1>2, <1>3 DEF Blocks, t

\* or it adds nothing.
LEMMA BlocksStay ==
    ASSUME NEW items, NEW n \in Nat \ {0}, NEW path, NEW location, NEW s,
           Blocks(items, path, location, n - 1, s)
    PROVE  Blocks(items, path, location, n, s)
<1>1. \A i \in 1..n - 1 : i \in 1..n
  OBVIOUS
<1> QED BY <1>1 DEF Blocks

\* The block of an item that nothing keeps out is as fresh as the others.
LEMMA FreshGrows ==
    ASSUME NEW page, NEW items, UniqueIds(items), NEW n \in DOMAIN items, NEW s, Listed(s),
           Fresh(page, items, s), ~Done(page, items[n])
    PROVE  Fresh(page, items, s \o Snippet(items[n]))
<1> DEFINE t == s \o Snippet(items[n])
<1>1. /\ \A k \in DOMAIN s : k \in DOMAIN t /\ t[k] = s[k]
      /\ t[Len(s) + 1] = Mark(items[n]) /\ t[Len(s) + 2] = Held(items[n])
      /\ \A k \in DOMAIN t : k \in DOMAIN s \/ k = Len(s) + 1 \/ k = Len(s) + 2
  BY Extended
<1> HIDE DEF t
<1>2. ASSUME NEW k \in DOMAIN t, NEW i \in DOMAIN items, t[k] = Mark(items[i])
      PROVE  ~Done(page, items[i])
  <2>1. CASE k \in DOMAIN s
    BY <1>1, <1>2, <2>1 DEF Fresh
  <2>2. CASE k = Len(s) + 1
    BY <1>1, <1>2, <2>2, Marks DEF UniqueIds
  <2>3. CASE k = Len(s) + 2
    BY <1>1, <1>2, <2>3, Marks
  <2> QED BY <1>1, <2>1, <2>2, <2>3
<1> QED BY <1>2 DEF Fresh, t

\* It is the last in order, and its script is not there twice.
LEMMA OrderedGrows ==
    ASSUME NEW items, Listed(items), UniqueIds(items), NEW n \in 1..Len(items), NEW path, NEW location,
           NEW s, Blocks(items, path, location, n - 1, s), Ordered(items, s),
           Looked(items[n]) => ~Has(s, Sought(items[n]))
    PROVE  Ordered(items, s \o Snippet(items[n]))
<1> DEFINE t == s \o Snippet(items[n])
<1>1. Listed(s) /\ DOMAIN items = 1..Len(items) /\ Len(items) \in Nat
  BY ListedIs DEF Blocks
<1>2. /\ Len(s) \in Nat /\ DOMAIN s = 1..Len(s) /\ DOMAIN t = 1..Len(s) + 2
      /\ \A k \in DOMAIN s : k \in DOMAIN t /\ t[k] = s[k]
      /\ t[Len(s) + 1] = Mark(items[n]) /\ t[Len(s) + 2] = Held(items[n])
      /\ \A k \in DOMAIN t : k \in DOMAIN s \/ k = Len(s) + 1 \/ k = Len(s) + 2
  BY <1>1, Extended
<1> HIDE DEF t
<1>3. ASSUME NEW j \in DOMAIN t, NEW k \in DOMAIN t, NEW a \in DOMAIN items, NEW b \in DOMAIN items,
             j < k, t[j] = Mark(items[a]), t[k] = Mark(items[b])
      PROVE  a < b /\ (Looked(items[b]) => Rendered(items[a]) # items[b].content)
  <2>1. CASE k \in DOMAIN s
    <3>1. j \in DOMAIN s
      BY <1>2, <1>3, <2>1
    <3> QED BY <1>2, <1>3, <2>1, <3>1 DEF Ordered
  <2>2. CASE k = Len(s) + 1
    <3>1. j \in DOMAIN s
      BY <1>2, <1>3, <2>2
    <3>2. b = n
      BY <1>1, <1>2, <1>3, <2>2, SameItem
    <3>3. s[j] = Mark(items[a])
      BY <1>2, <1>3, <3>1
    <3>4. PICK i \in 1..n - 1 :
              \/ s[j] = Mark(items[i]) /\ j + 1 \in DOMAIN s /\ s[j + 1] = Held(items[i])
              \/ s[j] = Held(items[i]) /\ j - 1 \in DOMAIN s /\ s[j - 1] = Mark(items[i])
      BY <3>1 DEF Blocks
    <3>5. s[j] = Mark(items[i]) /\ j + 1 \in DOMAIN s /\ s[j + 1] = Held(items[i])
      BY <3>3, <3>4, Marks
    <3>6. i \in DOMAIN items /\ i < n
      BY <1>1
    <3>7. a = i
      BY <3>3, <3>5, <3>6, SameItem
    <3>8. Has(s, Held(items[a]))
      BY <3>5, <3>7 DEF Has
    <3>9. Looked(items[n]) => Rendered(items[a]) # items[n].content
      BY <3>8, Marks
    <3> QED BY <3>2, <3>6, <3>7, <3>9
  <2>3. CASE k = Len(s) + 2
    BY <1>2, <1>3, <2>3, Marks
  <2> QED BY <1>2, <2>1, <2>2, <2>3
<1> QED BY <1>3 DEF Ordered, t

\* And its id is among the ids.
LEMMA IdsGrow ==
    ASSUME NEW s, Listed(s), NEW item
    PROVE  Ids(s \o Snippet(item)) = Ids(s) \cup {item.id}
<1> DEFINE t == s \o Snippet(item)
<1>1. /\ Len(s) \in Nat /\ DOMAIN s = 1..Len(s) /\ DOMAIN t = 1..Len(s) + 2
      /\ \A k \in DOMAIN s : k \in DOMAIN t /\ t[k] = s[k]
      /\ t[Len(s) + 1] = Mark(item) /\ t[Len(s) + 2] = Held(item)
      /\ \A k \in DOMAIN t : k \in DOMAIN s \/ k = Len(s) + 1 \/ k = Len(s) + 2
  BY Extended
<1> HIDE DEF t
<1>2. Len(s) + 1 \in DOMAIN t
  BY <1>1
<1>3. t[Len(s) + 1][1] = "marker" /\ t[Len(s) + 1][2] = item.id /\ t[Len(s) + 2][1] # "marker"
  BY <1>1, Marks
<1>4. Ids(t) \subseteq Ids(s) \cup {item.id}
  BY <1>1, <1>3 DEF Ids
<1>5. Ids(s) \subseteq Ids(t)
  BY <1>1 DEF Ids
<1>6. item.id \in Ids(t)
  BY <1>2, <1>3 DEF Ids
<1> QED BY <1>4, <1>5, <1>6 DEF t

\* What Collect does with one item keeps all of it.
LEMMA GatherStep ==
    ASSUME NEW page, Listed(page), NEW items, Listed(items), UniqueIds(items), NEW path, NEW location,
           NEW n \in 1..Len(items), NEW acc, Gathered(page, items, path, location, n - 1, acc)
    PROVE  Gathered(page, items, path, location, n, CollectStep(page, items, path, location, n, acc))
<1> DEFINE s == acc.snippets
           next == CollectStep(page, items, path, location, n, acc)
           t == s \o Snippet(items[n])
<1>1. /\ Len(items) \in Nat /\ DOMAIN items = 1..Len(items) /\ n \in Nat \ {0} /\ n \in DOMAIN items
      /\ \A i \in 1..n : i = n \/ i \in 1..n - 1
  BY ListedIs
<1>2. /\ Blocks(items, path, location, n - 1, s) /\ Listed(s)
      /\ Fresh(page, items, s) /\ Ordered(items, s)
      /\ NoneForgotten(page, items, path, location, n - 1, s) /\ acc.ids = Ids(s)
  BY DEF Gathered, Blocks
<1>3. Skipped(page, s, items[n]) <=>
         Done(page, items[n]) \/ (Looked(items[n]) /\ Has(s, Sought(items[n])))
  BY <1>2, SkippedIs
<1>4. CASE ~Suits(items[n], path, location) \/ Skipped(page, s, items[n])
  <2>1. next = acc
    BY <1>4 DEF CollectStep, Suits
  <2>2. Blocks(items, path, location, n, s)
    BY <1>1, <1>2, BlocksStay
  <2>3. NoneForgotten(page, items, path, location, n, s)
    BY <1>1, <1>2, <1>3, <1>4 DEF NoneForgotten
  <2> QED BY <1>2, <2>1, <2>2, <2>3 DEF Gathered
<1>5. CASE Suits(items[n], path, location) /\ ~Skipped(page, s, items[n])
  <2>1. next = [snippets |-> t, ids |-> acc.ids \cup {items[n].id}]
    BY <1>5 DEF CollectStep, Suits
  <2> HIDE DEF next, t, s
  <2>2. next.snippets = t /\ next.ids = acc.ids \cup {items[n].id}
    BY <2>1
  <2>3. Blocks(items, path, location, n, t)
    BY <1>1, <1>2, <1>5, BlocksGrow DEF t
  <2>4. Fresh(page, items, t)
    BY <1>1, <1>2, <1>3, <1>5, FreshGrows DEF t
  <2>5. Ordered(items, t)
    BY <1>2, <1>3, <1>5, OrderedGrows DEF t
  <2>6. NoneForgotten(page, items, path, location, n, t)
    <3>1. \A token : Has(t, token) <=> Has(s, token) \/ token = Mark(items[n]) \/ token = Held(items[n])
      BY <1>2, Extended DEF t
    <3> QED BY <1>1, <1>2, <3>1 DEF NoneForgotten
  <2>7. next.ids = Ids(t)
    BY <1>2, <2>2, IdsGrow DEF t
  <2> QED BY <2>2, <2>3, <2>4, <2>5, <2>6, <2>7 DEF Gathered, next
<1> QED BY <1>4, <1>5

\* The items of one location, for lists of any length
LEMMA CollectGathers ==
    ASSUME NEW page, Listed(page), NEW items, Listed(items), UniqueIds(items), NEW path, NEW location
    PROVE  Gathered(page, items, path, location, Len(items), Collect(page, items, path, location))
<1> DEFINE c == Collected(page, items, path, location)
           P == {n \in Nat : n <= Len(items) => Gathered(page, items, path, location, n, c[n])}
<1>1. /\ c[0] = Nothing
      /\ \A n \in 1..Len(items) : c[n] = CollectStep(page, items, path, location, n, c[n - 1])
  BY CollectedIs
<1> HIDE DEF c
<1>2. Gathered(page, items, path, location, 0, Nothing)
  <2>1. Nothing.snippets = <<>> /\ Nothing.ids = {}
    BY DEF Nothing
  <2>2. Ids(<<>>) = {}
    BY DEF Ids
  <2> QED BY <2>1, <2>2, EmptyIs DEF Gathered, Blocks, Fresh, Ordered, NoneForgotten
<1>3. 0 \in P
  BY <1>1, <1>2
<1>4. Len(items) \in Nat
  BY ListedIs
<1>5. ASSUME NEW n \in P
      PROVE  n + 1 \in P
  <2> SUFFICES ASSUME n + 1 <= Len(items)
               PROVE  Gathered(page, items, path, location, n + 1, c[n + 1])
    OBVIOUS
  <2>1. n \in Nat /\ n <= Len(items) /\ n + 1 \in 1..Len(items) /\ (n + 1) - 1 = n
    BY <1>4
  <2>2. Gathered(page, items, path, location, (n + 1) - 1, c[(n + 1) - 1])
    BY <2>1
  <2>3. c[n + 1] = CollectStep(page, items, path, location, n + 1, c[(n + 1) - 1])
    BY <1>1, <2>1
  <2> QED BY <2>1, <2>2, <2>3, GatherStep
<1>6. P = Nat
  <2> HIDE DEF P
  <2>1. P \in SUBSET Nat
    BY DEF P
  <2> QED BY <1>3, <1>5, <2>1, Induct
<1>7. Gathered(page, items, path, location, Len(items), c[Len(items)])
  BY <1>4, <1>6
<1> QED BY <1>7 DEF Collect, c

-----------------------------------------------------------------------------
(***************************************************************************)
(* What an insertion moves, and the tags of a page.                        *)
(***************************************************************************)
\* Where a token of the page stands after the insertion
Moved(at, s, k) == IF k <= at THEN k ELSE Len(s) + k

\* Every token moves to its new place, and there are no others but those of the block.
LEMMA InsertsIs ==
    ASSUME NEW p, NEW at, NEW s, NEW q, Inserts(p, at, s, q)
    PROVE  /\ Len(p) \in Nat /\ Len(s) \in Nat /\ at \in Nat /\ at <= Len(p)
           /\ DOMAIN p = 1..Len(p) /\ DOMAIN s = 1..Len(s) /\ DOMAIN q = 1..Len(p) + Len(s)
           /\ \A k \in DOMAIN p : Moved(at, s, k) \in DOMAIN q /\ q[Moved(at, s, k)] = p[k]
           /\ \A k \in DOMAIN s : at + k \in DOMAIN q /\ q[at + k] = s[k]
           /\ \A k \in DOMAIN q : \/ \E i \in DOMAIN p : k = Moved(at, s, i)
                                  \/ \E i \in DOMAIN s : k = at + i
<1>1. /\ Len(p) \in Nat /\ Len(s) \in Nat /\ at \in Nat /\ at <= Len(p)
      /\ DOMAIN p = 1..Len(p) /\ DOMAIN s = 1..Len(s)
  BY ListedIs DEF Inserts
<1>2. DOMAIN q = 1..Len(p) + Len(s)
  <2>1. DOMAIN q = 1..Len(q) /\ Len(q) = Len(p) + Len(s)
    BY ListedIs DEF Inserts
  <2> QED BY <2>1
<1>3. ASSUME NEW k \in DOMAIN p
      PROVE  Moved(at, s, k) \in DOMAIN q /\ q[Moved(at, s, k)] = p[k]
  <2>1. CASE k <= at
    <3>1. k \in 1..at /\ Moved(at, s, k) = k /\ k \in DOMAIN q
      BY <1>1, <1>2, <2>1 DEF Moved
    <3> QED BY <3>1 DEF Inserts
  <2>2. CASE k > at
    <3>1. k \in at + 1..Len(p) /\ Moved(at, s, k) = Len(s) + k /\ Len(s) + k \in DOMAIN q
      BY <1>1, <1>2, <2>2 DEF Moved
    <3> QED BY <3>1 DEF Inserts
  <2> QED BY <1>1, <2>1, <2>2
<1>4. ASSUME NEW k \in DOMAIN s
      PROVE  at + k \in DOMAIN q /\ q[at + k] = s[k]
  BY <1>1, <1>2 DEF Inserts
<1>5. ASSUME NEW k \in DOMAIN q
      PROVE  (\E i \in DOMAIN p : k = Moved(at, s, i)) \/ (\E i \in DOMAIN s : k = at + i)
  <2>1. CASE k <= at
    BY <1>1, <1>2, <2>1 DEF Moved
  <2>2. CASE k > at /\ k <= at + Len(s)
    <3>1. k - at \in DOMAIN s /\ k = at + (k - at)
      BY <1>1, <1>2, <2>2
    <3> QED BY <3>1
  <2>3. CASE k > at + Len(s)
    <3>1. k - Len(s) \in DOMAIN p /\ k = Len(s) + (k - Len(s)) /\ k - Len(s) > at
      BY <1>1, <1>2, <2>3
    <3>2. k = Moved(at, s, k - Len(s))
      BY <1>1, <3>1 DEF Moved
    <3> QED BY <3>1, <3>2
  <2> QED BY <1>1, <1>2, <2>1, <2>2, <2>3
<1> QED BY <1>1, <1>2, <1>3, <1>4, <1>5

\* They keep their order.
LEMMA MovedKeepsOrder ==
    ASSUME NEW at \in Nat, NEW s, Len(s) \in Nat, NEW i \in Nat, NEW j \in Nat
    PROVE  /\ i < j <=> Moved(at, s, i) < Moved(at, s, j)
           /\ i = j <=> Moved(at, s, i) = Moved(at, s, j)
           /\ i <= at => Moved(at, s, i) = i
           /\ i > at => Moved(at, s, i) = Len(s) + i
           /\ Moved(at, s, i) \in Nat
           /\ Moved(at, s, i) <= Moved(at, s, j) + 1 => i <= j + 1
BY DEF Moved

\* The page has what it had and what the block has.
LEMMA HasInserted ==
    ASSUME NEW p, NEW at, NEW s, NEW q, Inserts(p, at, s, q), NEW token
    PROVE  Has(q, token) <=> Has(p, token) \/ Has(s, token)
BY InsertsIs DEF Has

\* A block has no tags.
Tagless(s) == \A k \in DOMAIN s : s[k][1] \in {"marker", "content"}

\* What is inserted holds no tags.
LEMMA BlocksAreTagless ==
    ASSUME NEW items, NEW path, NEW location, NEW n, NEW s, Blocks(items, path, location, n, s)
    PROVE  Tagless(s)
<1> SUFFICES ASSUME NEW k \in DOMAIN s PROVE s[k][1] \in {"marker", "content"}
  BY DEF Tagless
<1>1. \E i \in 1..n : s[k] = Mark(items[i]) \/ s[k] = Held(items[i])
  BY DEF Blocks
<1> QED BY <1>1, Marks

\* So the tags of the page are where they were, but for the move.
LEMMA PositionsMove ==
    ASSUME NEW p, NEW at, NEW s, NEW q, Inserts(p, at, s, q), Tagless(s),
           NEW sort, sort \notin {"marker", "content"}
    PROVE  /\ \A k \in DOMAIN p : k \in Positions(p, sort) <=> Moved(at, s, k) \in Positions(q, sort)
           /\ \A k \in Positions(q, sort) : \E i \in Positions(p, sort) : k = Moved(at, s, i)
<1>1. ASSUME NEW k \in DOMAIN p
      PROVE  k \in Positions(p, sort) <=> Moved(at, s, k) \in Positions(q, sort)
  BY InsertsIs DEF Positions
<1>2. ASSUME NEW k \in Positions(q, sort)
      PROVE  \E i \in Positions(p, sort) : k = Moved(at, s, i)
  <2>1. k \in DOMAIN q /\ q[k][1] = sort
    BY DEF Positions
  <2>2. CASE \E i \in DOMAIN s : k = at + i
    BY <2>1, <2>2, InsertsIs DEF Tagless
  <2>3. CASE \E i \in DOMAIN p : k = Moved(at, s, i)
    BY <1>1, <2>3
  <2> QED BY <2>1, <2>2, <2>3, InsertsIs
<1> QED BY <1>1, <1>2

\* The only tag of its kind
Sole(page, sort, x) == Positions(page, sort) = {x}

\* It is a token of the page.
LEMMA SoleIs ==
    ASSUME NEW page, Listed(page), NEW sort, NEW x, Sole(page, sort, x)
    PROVE  x \in 1..Len(page) /\ x \in Nat /\ x >= 1 /\ page[x][1] = sort
<1>1. x \in DOMAIN page /\ page[x][1] = sort
  BY DEF Sole, Positions
<1> QED BY <1>1, ListedIs

\* Once finds the only tag of its sort, or none.
LEMMA OnceIs ==
    ASSUME NEW page, Listed(page), NEW sort, NEW shift \in {0, 1}
    PROVE  \/ \E x \in 1..Len(page) : Sole(page, sort, x) /\ Once(page, sort, shift) = x - shift
           \/ (\A x : ~Sole(page, sort, x)) /\ Once(page, sort, shift) = Missing
<1> DEFINE at == Positions(page, sort)
<1>1. IsFiniteSet(at)
  <2>1. at \in SUBSET (1..Len(page)) /\ Len(page) \in Int
    BY ListedIs DEF Positions
  <2>2. IsFiniteSet(1..Len(page))
    BY <2>1, FS_Interval
  <2> QED BY <2>1, <2>2, FS_Subset
<1>2. Cardinality(at) = 1 <=> \E x : at = {x}
  BY <1>1, FS_Singleton
<1>3. CASE \E x : at = {x}
  <2>1. PICK x : at = {x}
    BY <1>3
  <2>2. (CHOOSE i \in at : TRUE) = x
    BY <2>1
  <2>3. Once(page, sort, shift) = x - shift
    BY <1>2, <1>3, <2>2 DEF Once
  <2>4. Sole(page, sort, x)
    BY <2>1 DEF Sole
  <2> QED BY <2>3, <2>4, SoleIs
<1>4. CASE ~\E x : at = {x}
  BY <1>2, <1>4 DEF Once, Sole
<1> QED BY <1>3, <1>4

\* An element with its start tag at x and its end tag at y
Element(page, open, close, x, y) == Sole(page, open, x) /\ Sole(page, close, y) /\ x < y

\* Pair finds the two ends of an element, or none.
LEMMA PairIs ==
    ASSUME NEW page, Listed(page), NEW open, NEW close
    PROVE  LET pair == Pair(Once(page, open, 0), Once(page, close, 1)) IN
           \/ \E x, y \in 1..Len(page) : Element(page, open, close, x, y) /\ pair = <<x, y - 1>>
           \/ (\A x, y : ~Element(page, open, close, x, y)) /\ pair = <<Missing, Missing>>
<1> DEFINE start == Once(page, open, 0)
           end == Once(page, close, 1)
<1>1. \/ \E x \in 1..Len(page) : Sole(page, open, x) /\ start = x - 0
      \/ (\A x : ~Sole(page, open, x)) /\ start = Missing
  BY OnceIs
<1>2. \/ \E y \in 1..Len(page) : Sole(page, close, y) /\ end = y - 1
      \/ (\A y : ~Sole(page, close, y)) /\ end = Missing
  BY OnceIs
<1>3. Len(page) \in Nat
  BY ListedIs
<1>4. \A x, y : Sole(page, open, x) /\ Sole(page, open, y) => x = y
  BY DEF Sole
<1>5. \A x, y : Sole(page, close, x) /\ Sole(page, close, y) => x = y
  BY DEF Sole
<1> HIDE DEF start, end
<1>6. CASE (\A x : ~Sole(page, open, x)) /\ start = Missing
  <2>1. Pair(start, end) = <<Missing, Missing>>
    BY <1>6 DEF Pair, Missing
  <2> QED BY <1>6, <2>1 DEF Element, start, end
<1>7. ASSUME NEW x \in 1..Len(page), Sole(page, open, x), start = x - 0
      PROVE  \/ \E y \in 1..Len(page) : Element(page, open, close, x, y) /\ Pair(start, end) = <<x, y - 1>>
             \/ (\A u, y : ~Element(page, open, close, u, y)) /\ Pair(start, end) = <<Missing, Missing>>
  <2>1. start = x /\ x \in Nat /\ x >= 1
    BY <1>3, <1>7
  <2>2. CASE (\A y : ~Sole(page, close, y)) /\ end = Missing
    <3>1. end < start
      BY <2>1, <2>2 DEF Missing
    <3> QED BY <2>2, <3>1 DEF Pair, Element
  <2>3. ASSUME NEW y \in 1..Len(page), Sole(page, close, y), end = y - 1
        PROVE  \/ Element(page, open, close, x, y) /\ Pair(start, end) = <<x, y - 1>>
               \/ (\A u, v : ~Element(page, open, close, u, v)) /\ Pair(start, end) = <<Missing, Missing>>
    <3>1. CASE x < y
      <4>1. ~(start < 0) /\ ~(end < start)
        BY <1>3, <2>1, <2>3, <3>1
      <4> QED BY <1>7, <2>1, <2>3, <3>1, <4>1 DEF Pair, Element
    <3>2. CASE ~(x < y)
      <4>1. end < start
        BY <1>3, <2>1, <2>3, <3>2
      <4>2. \A u, v : ~Element(page, open, close, u, v)
        BY <1>4, <1>5, <1>7, <2>3, <3>2 DEF Element
      <4> QED BY <4>1, <4>2 DEF Pair
    <3> QED BY <3>1, <3>2
  <2> QED BY <1>2, <2>2, <2>3 DEF end
<1> QED BY <1>1, <1>6, <1>7 DEF start, end

-----------------------------------------------------------------------------
(***************************************************************************)
(* HtmlBoundaries: the places between the tags.                            *)
(***************************************************************************)
\* Between which tags the head and the body are
InHead(page, x, y) == Element(page, "head", "/head", x, y)

InBody(page, x, y) == Element(page, "body", "/body", x, y)

\* Nothing is open, and the head ends before the body starts.
Sane(page) ==
    /\ Positions(page, "open") = {}
    /\ \A x, y, z, w : InHead(page, x, y) /\ InBody(page, z, w) => y - 1 <= z

\* The place of a location: next to a tag
Place(page, loc, at) ==
    \/ loc = "head-start" /\ \E x, y \in 1..Len(page) : InHead(page, x, y) /\ at = x
    \/ loc = "head-end" /\ \E x, y \in 1..Len(page) : InHead(page, x, y) /\ at = y - 1
    \/ loc = "body-start" /\ \E x, y \in 1..Len(page) : InBody(page, x, y) /\ at = x
    \/ loc = "body-end" /\ \E x, y \in 1..Len(page) : InBody(page, x, y) /\ at = y - 1

\* The four locations, in their order
LEMMA LocationsAre ==
    /\ Range(Locations) = {"head-start", "head-end", "body-start", "body-end"}
    /\ DOMAIN Locations = 1..4
    /\ Locations[1] = "head-start" /\ Locations[2] = "head-end"
    /\ Locations[3] = "body-start" /\ Locations[4] = "body-end"
<1>1. /\ DOMAIN Locations = 1..4
      /\ Locations[1] = "head-start" /\ Locations[2] = "head-end"
      /\ Locations[3] = "body-start" /\ Locations[4] = "body-end"
  BY DEF Locations
<1>2. 1..4 = {1, 2, 3, 4}
  OBVIOUS
<1>3. Range(Locations) = {Locations[1], Locations[2], Locations[3], Locations[4]}
  BY <1>1, <1>2 DEF Range
<1> QED BY <1>1, <1>3

\* A page has one element of a sort at most.
LEMMA ElementIsOne ==
    ASSUME NEW page, NEW open, NEW close, NEW x, NEW y, NEW u, NEW v,
           Element(page, open, close, x, y), Element(page, open, close, u, v)
    PROVE  x = u /\ y = v
BY DEF Element, Sole

\* A boundary is a place in a sane page, and such a place has a boundary.
LEMMA BoundaryIs ==
    ASSUME NEW page, Listed(page), NEW loc \in Range(Locations)
    PROVE  LET at == HtmlBoundaries(page)[loc] IN
           /\ at \in Int
           /\ at >= 0 => Sane(page) /\ Place(page, loc, at) /\ at \in 0..Len(page)
           /\ Sane(page) /\ (\E a : Place(page, loc, a)) => at >= 0
<1> DEFINE head == Pair(Once(page, "head", 0), Once(page, "/head", 1))
           body == Pair(Once(page, "body", 0), Once(page, "/body", 1))
           lost == Positions(page, "open") # {} \/ (head[2] >= 0 /\ body[1] >= 0 /\ head[2] > body[1])
           b == HtmlBoundaries(page)
<1>1. /\ lost => \A l \in Range(Locations) : b[l] = Missing
      /\ ~lost => /\ b["head-start"] = head[1] /\ b["head-end"] = head[2]
                  /\ b["body-start"] = body[1] /\ b["body-end"] = body[2]
  <2>1. CASE lost
    <3>1. b = NoBoundaries
      BY <2>1, Zenon DEF HtmlBoundaries
    <3> QED BY <2>1, <3>1 DEF NoBoundaries
  <2>2. CASE ~lost
    <3>1. b = [l \in Range(Locations) |->
                 CASE l = "head-start" -> head[1] [] l = "head-end" -> head[2]
                   [] l = "body-start" -> body[1] [] l = "body-end" -> body[2]]
      BY <2>2, Zenon DEF HtmlBoundaries
    <3>2. "head-start" \in Range(Locations) /\ "head-end" \in Range(Locations)
          /\ "body-start" \in Range(Locations) /\ "body-end" \in Range(Locations)
      BY LocationsAre
    <3> HIDE DEF head, body, b
    <3>3. b["head-start"] = head[1]
      BY <3>1, <3>2, Zenon
    <3>4. b["head-end"] = head[2]
      BY <3>1, <3>2, Zenon
    <3>5. b["body-start"] = body[1]
      BY <3>1, <3>2, Zenon
    <3>6. b["body-end"] = body[2]
      BY <3>1, <3>2, Zenon
    <3> QED BY <2>2, <3>3, <3>4, <3>5, <3>6
  <2> QED BY <2>1, <2>2
<1>2. \/ \E x, y \in 1..Len(page) : InHead(page, x, y) /\ head = <<x, y - 1>>
      \/ (\A x, y : ~InHead(page, x, y)) /\ head = <<Missing, Missing>>
  BY PairIs DEF InHead
<1>3. \/ \E x, y \in 1..Len(page) : InBody(page, x, y) /\ body = <<x, y - 1>>
      \/ (\A x, y : ~InBody(page, x, y)) /\ body = <<Missing, Missing>>
  BY PairIs DEF InBody
<1>4. Len(page) \in Nat
  BY ListedIs
<1>5. /\ \A x, y, u, v : InHead(page, x, y) /\ InHead(page, u, v) => x = u /\ y = v
      /\ \A x, y, u, v : InBody(page, x, y) /\ InBody(page, u, v) => x = u /\ y = v
  BY ElementIsOne DEF InHead, InBody
<1>6. \A x, y \in 1..Len(page) : InHead(page, x, y) \/ InBody(page, x, y) =>
         /\ x \in 0..Len(page) /\ y - 1 \in 0..Len(page)
         /\ x >= 0 /\ y - 1 >= 0
  BY <1>4 DEF InHead, InBody, Element
<1> HIDE DEF head, body
<1>7. ~lost <=> Sane(page)
  <2>1. CASE (\A x, y : ~InHead(page, x, y)) /\ head = <<Missing, Missing>>
    BY <2>1 DEF Sane, Missing
  <2>2. CASE (\A x, y : ~InBody(page, x, y)) /\ body = <<Missing, Missing>>
    BY <2>2 DEF Sane, Missing
  <2>3. ASSUME NEW x \in 1..Len(page), NEW y \in 1..Len(page), InHead(page, x, y), head = <<x, y - 1>>,
               NEW z \in 1..Len(page), NEW w \in 1..Len(page), InBody(page, z, w), body = <<z, w - 1>>
        PROVE  ~lost <=> Sane(page)
    <3>1. head[2] = y - 1 /\ body[1] = z /\ head[2] >= 0 /\ body[1] >= 0
      BY <1>4, <1>6, <2>3
    <3>2. (\A a, e, c, d : InHead(page, a, e) /\ InBody(page, c, d) => e - 1 <= c) <=> y - 1 <= z
      BY <1>5, <2>3
    <3>3. head[2] > body[1] <=> ~(y - 1 <= z)
      BY <1>4, <3>1
    <3> QED BY <3>1, <3>2, <3>3 DEF Sane
  <2> QED BY <1>2, <1>3, <2>1, <2>2, <2>3
<1>8. /\ head[1] >= 0 => Place(page, "head-start", head[1]) /\ head[1] \in 0..Len(page)
      /\ head[2] >= 0 => Place(page, "head-end", head[2]) /\ head[2] \in 0..Len(page)
      /\ (\E x, y : InHead(page, x, y)) => head[1] >= 0 /\ head[2] >= 0
      /\ head[1] \in Int /\ head[2] \in Int
  <2>1. CASE (\A x, y : ~InHead(page, x, y)) /\ head = <<Missing, Missing>>
    BY <2>1 DEF Missing
  <2>2. ASSUME NEW x \in 1..Len(page), NEW y \in 1..Len(page), InHead(page, x, y), head = <<x, y - 1>>
        PROVE  /\ Place(page, "head-start", head[1]) /\ head[1] \in 0..Len(page)
               /\ Place(page, "head-end", head[2]) /\ head[2] \in 0..Len(page)
               /\ head[1] >= 0 /\ head[2] >= 0 /\ head[1] \in Int /\ head[2] \in Int
    <3>1. head[1] = x /\ head[2] = y - 1
      BY <2>2
    <3> QED BY <1>6, <2>2, <3>1 DEF Place
  <2> QED BY <1>2, <2>1, <2>2
<1>9. /\ body[1] >= 0 => Place(page, "body-start", body[1]) /\ body[1] \in 0..Len(page)
      /\ body[2] >= 0 => Place(page, "body-end", body[2]) /\ body[2] \in 0..Len(page)
      /\ (\E x, y : InBody(page, x, y)) => body[1] >= 0 /\ body[2] >= 0
      /\ body[1] \in Int /\ body[2] \in Int
  <2>1. CASE (\A x, y : ~InBody(page, x, y)) /\ body = <<Missing, Missing>>
    BY <2>1 DEF Missing
  <2>2. ASSUME NEW x \in 1..Len(page), NEW y \in 1..Len(page), InBody(page, x, y), body = <<x, y - 1>>
        PROVE  /\ Place(page, "body-start", body[1]) /\ body[1] \in 0..Len(page)
               /\ Place(page, "body-end", body[2]) /\ body[2] \in 0..Len(page)
               /\ body[1] >= 0 /\ body[2] >= 0 /\ body[1] \in Int /\ body[2] \in Int
    <3>1. body[1] = x /\ body[2] = y - 1
      BY <2>2
    <3> QED BY <1>6, <2>2, <3>1 DEF Place
  <2> QED BY <1>3, <2>1, <2>2
<1> HIDE DEF lost, b
<1>10. b[loc] \in Int
  BY <1>1, <1>8, <1>9, LocationsAre DEF Missing
<1>11. b[loc] >= 0 => Sane(page) /\ Place(page, loc, b[loc]) /\ b[loc] \in 0..Len(page)
  BY <1>1, <1>7, <1>8, <1>9, LocationsAre DEF Missing
<1>12. ASSUME Sane(page), NEW a, Place(page, loc, a)
       PROVE  b[loc] >= 0
  BY <1>1, <1>7, <1>8, <1>9, <1>12, LocationsAre DEF Place
<1> QED BY <1>11, <1>12, <1>10 DEF b

-----------------------------------------------------------------------------
(***************************************************************************)
(* InjectAt inserts one block by a tag, or nothing.                        *)
(***************************************************************************)
\* A tag that is alone stays alone, and no other becomes so.
LEMMA SoleMoves ==
    ASSUME NEW p, NEW at, NEW s, NEW q, Inserts(p, at, s, q), Tagless(s),
           NEW sort, sort \notin {"marker", "content"}
    PROVE  /\ \A x : Sole(p, sort, x) => Sole(q, sort, Moved(at, s, x))
           /\ \A u : Sole(q, sort, u) => \E x : Sole(p, sort, x) /\ u = Moved(at, s, x)
<1>1. /\ \A k \in DOMAIN p : k \in Positions(p, sort) <=> Moved(at, s, k) \in Positions(q, sort)
      /\ \A k \in Positions(q, sort) : \E i \in Positions(p, sort) : k = Moved(at, s, i)
      /\ Positions(p, sort) \subseteq DOMAIN p
  BY PositionsMove DEF Positions
<1>2. ASSUME NEW x, Sole(p, sort, x)
      PROVE  Sole(q, sort, Moved(at, s, x))
  BY <1>1, <1>2 DEF Sole
<1>3. ASSUME NEW u, Sole(q, sort, u)
      PROVE  \E x : Sole(p, sort, x) /\ u = Moved(at, s, x)
  <2>1. PICK x \in Positions(p, sort) : u = Moved(at, s, x)
    BY <1>1, <1>3 DEF Sole
  <2>2. /\ at \in Nat /\ Len(s) \in Nat /\ DOMAIN p \subseteq Nat
    BY InsertsIs
  <2>3. ASSUME NEW y \in Positions(p, sort)
        PROVE  y = x
    <3>1. Moved(at, s, y) = u
      BY <1>1, <1>3 DEF Sole
    <3>2. x \in Nat /\ y \in Nat
      BY <1>1, <2>2
    <3> QED BY <2>1, <2>2, <3>1, <3>2, MovedKeepsOrder
  <2> QED BY <2>1, <2>3 DEF Sole
<1> QED BY <1>2, <1>3

\* So it is with elements,
LEMMA ElementMoves ==
    ASSUME NEW p, NEW at, NEW s, NEW q, Inserts(p, at, s, q), Tagless(s),
           NEW open, NEW close, {open, close} \cap {"marker", "content"} = {}
    PROVE  /\ \A x, y : Element(p, open, close, x, y) =>
                 Element(q, open, close, Moved(at, s, x), Moved(at, s, y))
           /\ \A u, v : Element(q, open, close, u, v) =>
                 \E x, y \in 1..Len(p) : /\ Element(p, open, close, x, y)
                                         /\ u = Moved(at, s, x) /\ v = Moved(at, s, y)
<1>1. at \in Nat /\ Len(s) \in Nat /\ Listed(p) /\ Len(p) \in Nat
  BY InsertsIs DEF Inserts
<1>2. \A sort, x : Sole(p, sort, x) => x \in 1..Len(p) /\ x \in Nat
  BY <1>1, SoleIs
<1>3. open \notin {"marker", "content"} /\ close \notin {"marker", "content"}
  OBVIOUS
<1>4. ASSUME NEW x, NEW y, Element(p, open, close, x, y)
      PROVE  Element(q, open, close, Moved(at, s, x), Moved(at, s, y))
  <2>1. Sole(p, open, x) /\ Sole(p, close, y) /\ x < y /\ x \in Nat /\ y \in Nat
    BY <1>2, <1>4 DEF Element
  <2>2. Moved(at, s, x) < Moved(at, s, y)
    BY <1>1, <2>1, MovedKeepsOrder
  <2> QED BY <2>1, <2>2, SoleMoves DEF Element
<1>5. ASSUME NEW u, NEW v, Element(q, open, close, u, v)
      PROVE  \E x, y \in 1..Len(p) : /\ Element(p, open, close, x, y)
                                     /\ u = Moved(at, s, x) /\ v = Moved(at, s, y)
  <2>1. Sole(q, open, u) /\ Sole(q, close, v) /\ u < v
    BY <1>5 DEF Element
  <2>2. PICK x : Sole(p, open, x) /\ u = Moved(at, s, x)
    BY <1>3, <2>1, SoleMoves
  <2>3. PICK y : Sole(p, close, y) /\ v = Moved(at, s, y)
    BY <1>3, <2>1, SoleMoves
  <2>4. x \in 1..Len(p) /\ x \in Nat /\ y \in 1..Len(p) /\ y \in Nat
    BY <1>2, <2>2, <2>3
  <2>5. x < y
    BY <1>1, <2>1, <2>2, <2>3, <2>4, MovedKeepsOrder
  <2> QED BY <2>2, <2>3, <2>4, <2>5 DEF Element
<1> QED BY <1>4, <1>5

\* and a page that is sane after an insertion was so before it.
LEMMA SaneBefore ==
    ASSUME NEW p, NEW at, NEW s, NEW q, Inserts(p, at, s, q), Tagless(s), Sane(q)
    PROVE  Sane(p)
<1>1. at \in Nat /\ Len(s) \in Nat /\ Listed(p) /\ Len(p) \in Nat
  BY InsertsIs DEF Inserts
<1>2. Positions(p, "open") = {}
  <2>1. \A k \in DOMAIN p : k \in Positions(p, "open") <=> Moved(at, s, k) \in Positions(q, "open")
    BY PositionsMove
  <2> QED BY <2>1 DEF Sane, Positions
<1>3. ASSUME NEW x, NEW y, NEW z, NEW w, InHead(p, x, y), InBody(p, z, w)
      PROVE  y - 1 <= z
  <2>1. /\ InHead(q, Moved(at, s, x), Moved(at, s, y))
        /\ InBody(q, Moved(at, s, z), Moved(at, s, w))
    BY <1>3, ElementMoves DEF InHead, InBody
  <2>2. Moved(at, s, y) - 1 <= Moved(at, s, z)
    BY <2>1 DEF Sane
  <2>3. y \in Nat /\ z \in Nat
    BY <1>1, <1>3, SoleIs DEF InHead, InBody, Element
  <2>4. Moved(at, s, y) \in Nat /\ Moved(at, s, z) \in Nat
    BY <1>1, <2>3, MovedKeepsOrder
  <2>5. Moved(at, s, y) <= Moved(at, s, z) + 1
    BY <2>2, <2>4
  <2>6. y <= z + 1
    BY <1>1, <2>3, <2>5, MovedKeepsOrder
  <2> QED BY <2>3, <2>6
<1> QED BY <1>2, <1>3 DEF Sane

\* An insertion makes no place where there was none.
LEMMA PlaceBefore ==
    ASSUME NEW p, NEW at, NEW s, NEW q, Inserts(p, at, s, q), Tagless(s),
           NEW loc \in Range(Locations), HtmlBoundaries(q)[loc] >= 0
    PROVE  HtmlBoundaries(p)[loc] >= 0
<1>1. Listed(p) /\ Listed(q)
  BY DEF Inserts
<1>2. Sane(q) /\ Place(q, loc, HtmlBoundaries(q)[loc])
  BY <1>1, BoundaryIs
<1>3. Sane(p)
  BY <1>2, SaneBefore
<1>4. \E a : Place(p, loc, a)
  <2>1. CASE loc \in {"head-start", "head-end"}
    <3>1. PICK u, v \in 1..Len(q) : InHead(q, u, v)
      BY <1>2, <2>1 DEF Place
    <3>2. PICK x, y \in 1..Len(p) : InHead(p, x, y)
      BY <3>1, ElementMoves DEF InHead
    <3>3. Place(p, loc, x) \/ Place(p, loc, y - 1)
      BY <2>1, <3>2 DEF Place
    <3> QED BY <3>3
  <2>2. CASE loc \in {"body-start", "body-end"}
    <3>1. PICK u, v \in 1..Len(q) : InBody(q, u, v)
      BY <1>2, <2>2 DEF Place
    <3>2. PICK x, y \in 1..Len(p) : InBody(p, x, y)
      BY <3>1, ElementMoves DEF InBody
    <3>3. Place(p, loc, x) \/ Place(p, loc, y - 1)
      BY <2>2, <3>2 DEF Place
    <3> QED BY <3>3
  <2> QED BY <2>1, <2>2, LocationsAre
<1> QED BY <1>1, <1>3, <1>4, BoundaryIs

\* On one side of a place there is a tag.
LEMMA PlaceIsByATag ==
    ASSUME NEW page, Listed(page), NEW loc, NEW at \in 0..Len(page), Place(page, loc, at)
    PROVE  \/ at \in DOMAIN page /\ page[at][1] \in {"head", "body"}
           \/ at + 1 \in DOMAIN page /\ page[at + 1][1] \in {"/head", "/body"}
<1>1. DOMAIN page = 1..Len(page) /\ Len(page) \in Nat
  BY ListedIs
<1>2. \A sort, x : Sole(page, sort, x) => x \in 1..Len(page) /\ page[x][1] = sort
  BY SoleIs
<1>3. CASE loc \in {"head-start", "head-end"}
  <2>1. PICK x, y \in 1..Len(page) : InHead(page, x, y) /\ (at = x \/ at = y - 1)
    BY <1>3 DEF Place
  <2>2. page[x][1] = "head" /\ page[y][1] = "/head"
    BY <1>2, <2>1 DEF InHead, Element
  <2>3. at = y - 1 => at + 1 = y
    BY <1>1
  <2> QED BY <1>1, <2>1, <2>2, <2>3
<1>4. CASE loc \in {"body-start", "body-end"}
  <2>1. PICK x, y \in 1..Len(page) : InBody(page, x, y) /\ (at = x \/ at = y - 1)
    BY <1>4 DEF Place
  <2>2. page[x][1] = "body" /\ page[y][1] = "/body"
    BY <1>2, <2>1 DEF InBody, Element
  <2>3. at = y - 1 => at + 1 = y
    BY <1>1
  <2> QED BY <1>1, <2>1, <2>2, <2>3
<1> QED BY <1>3, <1>4 DEF Place

\* What is inserted at a location, and what that does to what was applied
Insertion(acc, items, path, loc, next, at, s) ==
    /\ Inserts(acc.page, at, s, next.page) /\ DOMAIN s # {}
    /\ next.applied = acc.applied \cup Ids(s)
    /\ Sane(acc.page) /\ Place(acc.page, loc, at)
    /\ Blocks(items, path, loc, Len(items), s)
    /\ Fresh(acc.page, items, s) /\ Ordered(items, s)
    /\ NoneForgotten(acc.page, items, path, loc, Len(items), s)

\* InjectAt inserts a block as described, or leaves the page as it is because
\* the location has no place there or every item is done with.
LEMMA InjectAtIs ==
    ASSUME NEW acc, Listed(acc.page), NEW items, Listed(items), UniqueIds(items), NEW path,
           NEW loc \in Range(Locations)
    PROVE  LET next == InjectAt(acc, loc, items, path) IN
           \/ /\ next = acc
              /\ \/ ~(HtmlBoundaries(acc.page)[loc] >= 0)
                 \/ \A i \in DOMAIN items : Suits(items[i], path, loc) => Done(acc.page, items[i])
           \/ \E at, s : Insertion(acc, items, path, loc, next, at, s)
<1> DEFINE found == Collect(acc.page, items, path, loc)
           at == HtmlBoundaries(acc.page)[loc]
           next == InjectAt(acc, loc, items, path)
           s == found.snippets
<1>1. Gathered(acc.page, items, path, loc, Len(items), found)
  BY CollectGathers
<1>2. DOMAIN items = 1..Len(items)
  BY ListedIs
<1>3. at \in Int
  BY BoundaryIs
<1>4. at >= 0 => Sane(acc.page) /\ Place(acc.page, loc, at) /\ at \in 0..Len(acc.page)
  BY BoundaryIs
<1>5. next = IF s = <<>> THEN acc
             ELSE IF at < 0 THEN acc
             ELSE [page |-> SubSeq(acc.page, 1, at) \o s \o SubSeq(acc.page, at + 1, Len(acc.page)),
                   applied |-> acc.applied \cup found.ids]
  BY DEF InjectAt, WithoutPlace
<1> HIDE DEF found, at, next
<1>6. CASE s = <<>>
  <2>1. NoneForgotten(acc.page, items, path, loc, Len(items), <<>>)
    BY <1>1, <1>6 DEF Gathered
  <2>2. \A token : ~Has(<<>>, token)
    BY DEF Has
  <2>3. \A i \in DOMAIN items : Suits(items[i], path, loc) => Done(acc.page, items[i])
    BY <1>2, <2>1, <2>2 DEF NoneForgotten
  <2> QED BY <1>5, <1>6, <2>3 DEF next
<1>7. CASE s # <<>> /\ ~(at >= 0)
  <2>1. at < 0
    BY <1>3, <1>7
  <2>2. next = acc
    BY <1>5, <1>7, <2>1
  <2> QED BY <1>7, <2>2 DEF next, at
<1>8. CASE s # <<>> /\ at >= 0
  <2> DEFINE q == SubSeq(acc.page, 1, at) \o s \o SubSeq(acc.page, at + 1, Len(acc.page))
  <2>1. at \in 0..Len(acc.page)
    BY <1>4, <1>8
  <2>2. Len(acc.page) \in Nat
    BY ListedIs
  <2>3. ~(at < 0)
    BY <2>1, <2>2
  <2>4. Listed(s) /\ found.ids = Ids(s)
    BY <1>1 DEF Gathered, Blocks, s
  <2> HIDE DEF s
  <2>5. Inserts(acc.page, at, s, q)
    BY <2>1, <2>4, Inserted
  <2> HIDE DEF q
  <2>6. next = [page |-> q, applied |-> acc.applied \cup found.ids]
    BY <1>5, <1>8, <2>3 DEF q, s
  <2>7. next.page = q /\ next.applied = acc.applied \cup Ids(s)
    BY <2>4, <2>6
  <2>8. DOMAIN s # {}
    <3>1. s \in Seq(Range(s)) /\ s # <<>>
      BY <1>8, <2>4 DEF Listed, s
    <3>2. Len(s) \in Nat \ {0}
      BY <3>1, EmptySeq
    <3>3. DOMAIN s = 1..Len(s)
      BY <2>4, ListedIs
    <3> QED BY <3>2, <3>3
  <2>9. Insertion(acc, items, path, loc, next, at, s)
    BY <1>1, <1>4, <1>8, <2>5, <2>7, <2>8 DEF Insertion, Gathered, s
  <2> QED BY <2>9 DEF next
<1> QED BY <1>6, <1>7, <1>8

-----------------------------------------------------------------------------
(***************************************************************************)
(* SortedItems: as many items come before an item as go before it.         *)
(***************************************************************************)
\* Priorities and ids are numbers.
Numbered(items) == \A i \in DOMAIN items : items[i].priority \in Int /\ items[i].id \in Int

\* How many items come before one
Rank(items, item) == Cardinality({other \in Range(items) : Before(other, item)})

\* Before is a strict total order of the items.
LEMMA ItemsDiffer ==
    ASSUME NEW items, Numbered(items), UniqueIds(items),
           NEW x \in Range(items), NEW y \in Range(items)
    PROVE  /\ ~Before(x, x)
           /\ x.id = y.id => x = y
           /\ x = y \/ Before(x, y) \/ Before(y, x)
           /\ ~(Before(x, y) /\ Before(y, x))
           /\ \A z \in Range(items) : Before(z, x) /\ Before(x, y) => Before(z, y)
<1>1. \A z \in Range(items) : z.priority \in Int /\ z.id \in Int
  BY DEF Numbered, Range
<1>2. x.id = y.id => x = y
  BY DEF UniqueIds, Range
<1>3. x = y \/ Before(x, y) \/ Before(y, x)
  BY <1>1, <1>2 DEF Before
<1> QED BY <1>1, <1>2, <1>3 DEF Before

\* Every number below the number of the items is the rank of one of them.
LEMMA RankIs ==
    ASSUME NEW items, Listed(items), Numbered(items), UniqueIds(items)
    PROVE  /\ \A x \in Range(items) : Rank(items, x) \in 0..Len(items) - 1
           /\ \A x, y \in Range(items) : Before(x, y) => Rank(items, x) < Rank(items, y)
           /\ \A m \in 0..Len(items) - 1 : \E x \in Range(items) : Rank(items, x) = m
<1> DEFINE R == Range(items)
           n == Len(items)
           Below(x) == {other \in R : Before(other, x)}
<1>1. n \in Nat /\ DOMAIN items = 1..n
  BY ListedIs
<1>2. IsFiniteSet(R) /\ Cardinality(R) = n
  <2>1. items \in Bijection(1..n, R)
    <3>1. items \in [1..n -> R]
      BY <1>1 DEF Range, Listed
    <3>2. \A a, b \in 1..n : items[a] = items[b] => a = b
      BY <1>1 DEF UniqueIds
    <3>3. \A t \in R : \E a \in 1..n : items[a] = t
      BY <1>1 DEF Range
    <3> HIDE DEF R, n
    <3> QED BY <3>1, <3>2, <3>3 DEF Bijection, Injection, Surjection, IsInjective
  <2>2. IsFiniteSet(1..n) /\ Cardinality(1..n) = n
    <3>1. Cardinality(1..n) = IF 1 > n THEN 0 ELSE n - 1 + 1
      BY <1>1, FS_Interval
    <3> QED BY <1>1, <3>1, FS_Interval
  <2>3. ExistsBijection(1..n, R)
    BY <2>1 DEF ExistsBijection
  <2> QED BY <2>2, <2>3, FS_Bijection
<1> HIDE DEF n, R
<1>3. \A x \in R : IsFiniteSet(Below(x)) /\ Cardinality(Below(x)) \in Nat
  BY <1>2, FS_Subset, FS_CardinalityType
<1>4. ASSUME NEW x \in R
      PROVE  Cardinality(Below(x)) < n
  <2>1. Below(x) \in SUBSET R /\ x \notin Below(x)
    BY ItemsDiffer DEF R
  <2>2. Cardinality(Below(x)) <= Cardinality(R) /\ (Cardinality(R) = Cardinality(Below(x)) => R = Below(x))
    BY <1>2, <2>1, FS_Subset
  <2>3. Cardinality(Below(x)) # Cardinality(R)
    BY <2>1, <2>2
  <2> DEFINE card == Cardinality(Below(x))
  <2>4. card \in Nat /\ card <= n /\ card # n
    BY <1>2, <1>3, <2>2, <2>3
  <2> HIDE DEF card
  <2>5. card < n
    BY <1>1, <2>4
  <2> QED BY <2>5 DEF card
<1>5. ASSUME NEW x \in R, NEW y \in R, Before(x, y)
      PROVE  Cardinality(Below(x)) < Cardinality(Below(y))
  <2>1. Below(x) \in SUBSET Below(y) /\ x \notin Below(x) /\ x \in Below(y)
    BY <1>5, ItemsDiffer DEF R
  <2>2. IsFiniteSet(Below(y))
    BY <1>3
  <2> DEFINE B == Below(y)
             A == Below(x)
  <2>3. A \in SUBSET B /\ A # B /\ IsFiniteSet(B)
    BY <2>1, <2>2
  <2> HIDE DEF A, B
  <2>4. Cardinality(A) <= Cardinality(B) /\ (Cardinality(B) = Cardinality(A) => B = A)
    BY <2>3, FS_Subset
  <2>5. Cardinality(A) \in Nat /\ Cardinality(B) \in Nat
    BY <1>3 DEF A, B
  <2>6. Cardinality(A) < Cardinality(B)
    BY <2>3, <2>4, <2>5
  <2> QED BY <2>6 DEF A, B
<1>6. \A x \in R : Rank(items, x) = Cardinality(Below(x))
  BY DEF Rank, R
<1> HIDE DEF Below
<1>7. \A x \in R : Rank(items, x) \in 0..n - 1
  BY <1>1, <1>3, <1>4, <1>6
<1>8. \A x, y \in R : Before(x, y) => Rank(items, x) < Rank(items, y)
  BY <1>5, <1>6
<1>9. ASSUME NEW m \in 0..n - 1
      PROVE  \E x \in R : Rank(items, x) = m
  <2> DEFINE f == [x \in R |-> Rank(items, x)]
  <2>1. f \in [R -> 0..n - 1]
    BY <1>7
  <2>2. \A x, y \in R : f[x] = f[y] => x = y
    <3>1. \A x \in R : f[x] = Rank(items, x) /\ f[x] \in Nat
      BY <1>1, <1>7
    <3>2. \A x, y \in R : x = y \/ Before(x, y) \/ Before(y, x)
      BY ItemsDiffer DEF R
    <3> HIDE DEF f
    <3> QED BY <1>8, <3>1, <3>2
  <2>3. f \in Injection(R, 0..n - 1)
    <3> HIDE DEF f
    <3> QED BY <2>1, <2>2 DEF Injection, IsInjective
  <2>4. IsFiniteSet(0..n - 1) /\ Cardinality(0..n - 1) = n
    <3>1. Cardinality(0..n - 1) = IF 0 > n - 1 THEN 0 ELSE (n - 1) - 0 + 1
      BY <1>1, FS_Interval
    <3> QED BY <1>1, <3>1, FS_Interval
  <2>5. f \in Surjection(R, 0..n - 1)
    <3> HIDE DEF f
    <3> QED BY <1>2, <2>3, <2>4, FS_Injection
  <2>6. \E x \in R : f[x] = m
    <3> HIDE DEF f
    <3> QED BY <2>5 DEF Surjection
  <2> QED BY <2>6
<1> QED BY <1>7, <1>8, <1>9 DEF n, R

\* The items of a route in the order they are injected in
LEMMA SortedIs ==
    ASSUME NEW route, Listed(route.items), Numbered(route.items), UniqueIds(route.items)
    PROVE  LET sorted == SortedItems(route) IN
           /\ Listed(sorted) /\ UniqueIds(sorted)
           /\ Range(sorted) = Range(route.items)
           /\ \A i, j \in DOMAIN sorted : i < j => Before(sorted[i], sorted[j])
<1> DEFINE items == route.items
           R == Range(items)
           n == Len(items)
           sorted == SortedItems(route)
<1>1. n \in Nat /\ DOMAIN items = 1..n
  BY ListedIs
<1>2. sorted = [k \in 1..n |-> CHOOSE x \in R : Rank(items, x) = k - 1]
  BY <1>1 DEF SortedItems, Rank
<1> HIDE DEF sorted, n
<1>3. /\ \A x \in R : Rank(items, x) \in 0..n - 1
      /\ \A x, y \in R : Before(x, y) => Rank(items, x) < Rank(items, y)
      /\ \A m \in 0..n - 1 : \E x \in R : Rank(items, x) = m
  BY RankIs DEF n
<1>4. /\ \A x, y \in R : x = y \/ Before(x, y) \/ Before(y, x)
      /\ \A x, y \in R : x.id = y.id => x = y
  BY ItemsDiffer
<1>5. \A x, y \in R : Rank(items, x) = Rank(items, y) => x = y
  <2>1. \A x \in R : Rank(items, x) \in Int
    BY <1>3
  <2> QED BY <1>3, <1>4, <2>1
<1> HIDE DEF items, R
<1>6. ASSUME NEW k \in 1..n
      PROVE  sorted[k] \in R /\ Rank(items, sorted[k]) = k - 1
  <2>1. k - 1 \in 0..n - 1
    BY <1>1
  <2>2. \E x \in R : Rank(items, x) = k - 1
    BY <1>3, <2>1
  <2>3. sorted[k] = CHOOSE x \in R : Rank(items, x) = k - 1
    BY <1>2
  <2> QED BY <2>2, <2>3
<1>7. sorted \in [1..n -> R] /\ DOMAIN sorted = 1..n
  BY <1>2, <1>6
<1>8. Listed(sorted)
  <2>1. sorted \in Seq(R)
    BY <1>1, <1>7
  <2> QED BY <2>1, ListedFrom
<1>9. Range(sorted) = R
  <2>1. ASSUME NEW x \in R
        PROVE  x \in Range(sorted)
    <3>1. Rank(items, x) + 1 \in 1..n /\ (Rank(items, x) + 1) - 1 = Rank(items, x)
      BY <1>1, <1>3
    <3>2. sorted[Rank(items, x) + 1] = x
      BY <1>5, <1>6, <3>1
    <3> QED BY <1>7, <3>1, <3>2 DEF Range
  <2>2. Range(sorted) \subseteq R
    BY <1>6, <1>7 DEF Range
  <2> QED BY <2>1, <2>2
<1>10. ASSUME NEW i \in 1..n, NEW j \in 1..n, sorted[i].id = sorted[j].id
       PROVE  i = j
  <2>1. sorted[i] = sorted[j]
    BY <1>4, <1>6, <1>10
  <2>2. i - 1 = j - 1
    BY <1>6, <2>1
  <2> QED BY <1>1, <2>2
<1>11. ASSUME NEW i \in 1..n, NEW j \in 1..n, i < j
       PROVE  Before(sorted[i], sorted[j])
  <2>1. Rank(items, sorted[i]) < Rank(items, sorted[j])
    BY <1>1, <1>6, <1>11
  <2>2. /\ sorted[i] \in R /\ sorted[j] \in R
        /\ Rank(items, sorted[i]) \in Int /\ Rank(items, sorted[j]) \in Int
    BY <1>3, <1>6
  <2> QED BY <1>3, <1>4, <2>1, <2>2
<1> QED BY <1>7, <1>8, <1>9, <1>10, <1>11 DEF UniqueIds, sorted, items, R

-----------------------------------------------------------------------------
(***************************************************************************)
(* What is new in the page.                                                *)
(***************************************************************************)
\* The markers in page q that page p does not have
NewIn(p, q) == {k \in DOMAIN q : q[k][1] = "marker" /\ ~Has(p, q[k])}

\* After the first r locations: the page has what it had and, behind every new
\* marker, the content of an item of these locations that nothing kept out.
Named(p, items, path, r, acc) ==
    LET q == acc.page IN
    /\ Listed(p) /\ Listed(q) /\ Listed(items) /\ UniqueIds(items) /\ r \in 0..4
    /\ \A token : Has(p, token) => Has(q, token)
    /\ \A k \in NewIn(p, q) : \E i \in DOMAIN items : \E m \in 1..r :
          /\ Suits(items[i], path, Locations[m]) /\ ~Done(p, items[i])
          /\ q[k] = Mark(items[i]) /\ k + 1 \in DOMAIN q /\ q[k + 1] = Held(items[i])
    /\ acc.applied = {q[k][2] : k \in NewIn(p, q)}

\* The new markers of the block
LEMMA NewInBlock ==
    ASSUME NEW p, NEW items, NEW path, NEW r, NEW acc, Named(p, items, path, r, acc),
           NEW loc, NEW next, NEW at, NEW s, Insertion(acc, items, path, loc, next, at, s),
           NEW k \in DOMAIN s
    PROVE  /\ at + k \in NewIn(p, next.page) <=> s[k][1] = "marker"
           /\ s[k][1] = "marker" => \E i \in DOMAIN items :
                 /\ Suits(items[i], path, loc) /\ ~Done(acc.page, items[i])
                 /\ s[k] = Mark(items[i]) /\ k + 1 \in DOMAIN s /\ s[k + 1] = Held(items[i])
<1> DEFINE q == acc.page
<1>1. /\ Inserts(q, at, s, next.page) /\ Blocks(items, path, loc, Len(items), s) /\ Fresh(q, items, s)
  BY DEF Insertion
<1>2. /\ Listed(p) /\ Listed(q) /\ Listed(items) /\ \A token : Has(p, token) => Has(q, token)
  BY DEF Named
<1>3. DOMAIN items = 1..Len(items)
  BY <1>2, ListedIs
<1>4. at + k \in DOMAIN next.page /\ next.page[at + k] = s[k]
  BY <1>1, InsertsIs
<1>5. ASSUME s[k][1] = "marker"
      PROVE  \E i \in DOMAIN items :
                 /\ Suits(items[i], path, loc) /\ ~Done(q, items[i])
                 /\ s[k] = Mark(items[i]) /\ k + 1 \in DOMAIN s /\ s[k + 1] = Held(items[i])
  <2>1. PICK i \in DOMAIN items :
          /\ Suits(items[i], path, loc)
          /\ \/ s[k] = Mark(items[i]) /\ k + 1 \in DOMAIN s /\ s[k + 1] = Held(items[i])
             \/ s[k] = Held(items[i]) /\ k - 1 \in DOMAIN s /\ s[k - 1] = Mark(items[i])
    BY <1>1, <1>3 DEF Blocks
  <2>2. s[k] = Mark(items[i])
    BY <1>5, <2>1, Marks
  <2>3. ~Done(q, items[i])
    BY <1>1, <2>2 DEF Fresh
  <2> QED BY <2>1, <2>2, <2>3, Marks
<1>6. ASSUME s[k][1] = "marker"
      PROVE  ~Has(p, s[k])
  <2>1. PICK i \in DOMAIN items : ~Done(q, items[i]) /\ s[k] = Mark(items[i])
    BY <1>5, <1>6
  <2>2. ~Has(q, Mark(items[i]))
    BY <2>1 DEF Done, MarkerFound, Mark
  <2> QED BY <1>2, <2>1, <2>2
<1>7. at + k \in NewIn(p, next.page) <=> s[k][1] = "marker"
  BY <1>4, <1>6 DEF NewIn
<1> QED BY <1>5, <1>7

\* The new markers that were there before stay, with their contents.
LEMMA NewMoved ==
    ASSUME NEW p, NEW items, NEW path, NEW r, NEW acc, Named(p, items, path, r, acc),
           NEW loc, NEW next, NEW at, NEW s, Insertion(acc, items, path, loc, next, at, s),
           NEW k \in DOMAIN acc.page
    PROVE  /\ k \in NewIn(p, acc.page) <=> Moved(at, s, k) \in NewIn(p, next.page)
           /\ k \in NewIn(p, acc.page) =>
                 /\ k # at /\ k + 1 \in DOMAIN acc.page
                 /\ Moved(at, s, k + 1) = Moved(at, s, k) + 1
                 /\ next.page[Moved(at, s, k) + 1] = acc.page[k + 1]
<1> DEFINE q == acc.page
<1>1. Inserts(q, at, s, next.page) /\ Place(q, loc, at)
  BY DEF Insertion
<1>2. Listed(q) /\ at \in 0..Len(q) /\ at \in Nat /\ Len(s) \in Nat /\ DOMAIN q \subseteq Nat
  BY <1>1, InsertsIs DEF Inserts
<1>3. Moved(at, s, k) \in DOMAIN next.page /\ next.page[Moved(at, s, k)] = q[k]
  BY <1>1, InsertsIs
<1>4. k \in NewIn(p, q) <=> Moved(at, s, k) \in NewIn(p, next.page)
  BY <1>3 DEF NewIn
<1>5. ASSUME k \in NewIn(p, q)
      PROVE  /\ k # at /\ k + 1 \in DOMAIN q
             /\ Moved(at, s, k + 1) = Moved(at, s, k) + 1
             /\ next.page[Moved(at, s, k) + 1] = q[k + 1]
  <2>1. q[k][1] = "marker"
    BY <1>5 DEF NewIn
  <2>2. k + 1 \in DOMAIN q /\ q[k + 1][1] = "content"
    <3>1. \E i \in DOMAIN items : k + 1 \in DOMAIN q /\ q[k + 1] = Held(items[i])
      BY <1>5 DEF Named
    <3> QED BY <3>1, Marks
  <2>3. k # at
    <3>1. \/ at \in DOMAIN q /\ q[at][1] \in {"head", "body"}
          \/ at + 1 \in DOMAIN q /\ q[at + 1][1] \in {"/head", "/body"}
      BY <1>1, <1>2, PlaceIsByATag
    <3> QED BY <2>1, <2>2, <3>1
  <2>4. Moved(at, s, k + 1) = Moved(at, s, k) + 1
    <3>1. k \in Nat
      BY <1>2
    <3>2. k + 1 <= at <=> k <= at
      BY <1>2, <2>3, <3>1
    <3> QED BY <1>2, <3>1, <3>2 DEF Moved
  <2>5. next.page[Moved(at, s, k + 1)] = q[k + 1]
    BY <1>1, <2>2, InsertsIs
  <2> QED BY <2>2, <2>3, <2>4, <2>5
<1> QED BY <1>4, <1>5

\* And there are no others.
LEMMA NewSplit ==
    ASSUME NEW p, NEW items, NEW path, NEW r, NEW acc, Named(p, items, path, r, acc),
           NEW loc, NEW next, NEW at, NEW s, Insertion(acc, items, path, loc, next, at, s),
           NEW k \in NewIn(p, next.page)
    PROVE  \/ \E i \in NewIn(p, acc.page) : k = Moved(at, s, i)
           \/ \E i \in DOMAIN s : k = at + i /\ s[i][1] = "marker"
<1>1. Inserts(acc.page, at, s, next.page)
  BY DEF Insertion
<1>2. \/ \E i \in DOMAIN acc.page : k = Moved(at, s, i)
      \/ \E i \in DOMAIN s : k = at + i
  BY <1>1, InsertsIs DEF NewIn
<1> QED BY <1>2, NewInBlock, NewMoved

\* An insertion adds new markers of its own items, with their contents.
LEMMA NamedStep ==
    ASSUME NEW p, NEW items, NEW path, NEW r \in 0..3, NEW acc, Named(p, items, path, r, acc),
           NEW next, NEW at, NEW s, Insertion(acc, items, path, Locations[r + 1], next, at, s)
    PROVE  Named(p, items, path, r + 1, next)
<1> DEFINE q == acc.page
           loc == Locations[r + 1]
<1>1. /\ Inserts(q, at, s, next.page) /\ next.applied = acc.applied \cup Ids(s)
      /\ Listed(next.page) /\ Blocks(items, path, loc, Len(items), s)
  BY DEF Insertion, Inserts
<1>2. /\ Listed(p) /\ Listed(q) /\ Listed(items) /\ UniqueIds(items)
      /\ \A token : Has(p, token) => Has(q, token)
      /\ acc.applied = {q[k][2] : k \in NewIn(p, q)}
  BY DEF Named
<1>3. \A token : Has(p, token) => Has(next.page, token)
  BY <1>1, <1>2, HasInserted
<1>4. \A item : Done(p, item) => Done(q, item)
  BY <1>2, DoneStays
<1> DEFINE Good(k, i, m) ==
          /\ Suits(items[i], path, Locations[m]) /\ ~Done(p, items[i])
          /\ next.page[k] = Mark(items[i]) /\ k + 1 \in DOMAIN next.page
          /\ next.page[k + 1] = Held(items[i])
<1>5. ASSUME NEW k \in NewIn(p, next.page)
      PROVE  \E i \in DOMAIN items : \E m \in 1..r + 1 : Good(k, i, m)
  <2>1. ASSUME NEW j \in NewIn(p, q), k = Moved(at, s, j)
        PROVE  \E i \in DOMAIN items : \E m \in 1..r + 1 : Good(k, i, m)
    <3>1. PICK i \in DOMAIN items : \E m \in 1..r :
          /\ Suits(items[i], path, Locations[m]) /\ ~Done(p, items[i])
          /\ q[j] = Mark(items[i]) /\ j + 1 \in DOMAIN q /\ q[j + 1] = Held(items[i])
      BY DEF Named
    <3>2. PICK m \in 1..r :
          /\ Suits(items[i], path, Locations[m]) /\ ~Done(p, items[i])
          /\ q[j] = Mark(items[i]) /\ j + 1 \in DOMAIN q /\ q[j + 1] = Held(items[i])
      BY <3>1
    <3>3. j \in DOMAIN q
      BY DEF NewIn
    <3>4. next.page[k] = q[j] /\ k + 1 = Moved(at, s, j + 1) /\ next.page[k + 1] = q[j + 1]
      BY <1>1, <2>1, <3>3, InsertsIs, NewMoved
    <3>5. k + 1 \in DOMAIN next.page
      BY <1>1, <3>2, <3>4, InsertsIs
    <3>6. m \in 1..r + 1
      OBVIOUS
    <3>7. Good(k, i, m)
      BY <3>2, <3>4, <3>5
    <3> QED BY <3>6, <3>7
  <2>2. ASSUME NEW j \in DOMAIN s, k = at + j, s[j][1] = "marker"
        PROVE  \E i \in DOMAIN items : \E m \in 1..r + 1 : Good(k, i, m)
    <3>1. PICK i \in DOMAIN items :
             /\ Suits(items[i], path, loc) /\ ~Done(q, items[i])
             /\ s[j] = Mark(items[i]) /\ j + 1 \in DOMAIN s /\ s[j + 1] = Held(items[i])
      BY <2>2, NewInBlock
    <3>2. next.page[k] = s[j] /\ at + (j + 1) \in DOMAIN next.page /\ next.page[at + (j + 1)] = s[j + 1]
      BY <1>1, <2>2, <3>1, InsertsIs
    <3>3. k + 1 = at + (j + 1)
      <4>1. at \in Nat /\ j \in Nat
        BY <1>1, InsertsIs
      <4> QED BY <2>2, <4>1
    <3>4. r + 1 \in 1..r + 1
      OBVIOUS
    <3>5. Good(k, i, r + 1)
      BY <1>4, <3>1, <3>2, <3>3
    <3> QED BY <3>4, <3>5
  <2> QED BY <2>1, <2>2, NewSplit
<1>6. next.applied = {next.page[k][2] : k \in NewIn(p, next.page)}
  <2> DEFINE new == {next.page[k][2] : k \in NewIn(p, next.page)}
  <2>1. ASSUME NEW k \in NewIn(p, next.page)
        PROVE  next.page[k][2] \in next.applied
    <3>1. ASSUME NEW j \in NewIn(p, q), k = Moved(at, s, j)
          PROVE  next.page[k][2] \in next.applied
      <4>1. next.page[k] = q[j]
        BY <1>1, <3>1, InsertsIs DEF NewIn
      <4> QED BY <1>1, <1>2, <4>1
    <3>2. ASSUME NEW j \in DOMAIN s, k = at + j, s[j][1] = "marker"
          PROVE  next.page[k][2] \in next.applied
      <4>1. next.page[k] = s[j]
        BY <1>1, <3>2, InsertsIs
      <4>2. s[j][2] \in Ids(s)
        BY <3>2 DEF Ids
      <4> QED BY <1>1, <4>1, <4>2
    <3> QED BY <3>1, <3>2, NewSplit
  <2>2. ASSUME NEW id \in acc.applied
        PROVE  id \in new
    <3>1. PICK j \in NewIn(p, q) : id = q[j][2]
      BY <1>2
    <3>2. j \in DOMAIN q
      BY DEF NewIn
    <3>3. Moved(at, s, j) \in NewIn(p, next.page) /\ next.page[Moved(at, s, j)] = q[j]
      BY <1>1, <3>2, InsertsIs, NewMoved
    <3> QED BY <3>1, <3>3
  <2>3. ASSUME NEW id \in Ids(s)
        PROVE  id \in new
    <3>1. PICK j \in DOMAIN s : s[j][1] = "marker" /\ id = s[j][2]
      BY DEF Ids
    <3>2. at + j \in NewIn(p, next.page) /\ next.page[at + j] = s[j]
      BY <1>1, <3>1, InsertsIs, NewInBlock
    <3> QED BY <3>1, <3>2
  <2>4. new \subseteq next.applied
    BY <2>1
  <2>5. next.applied \subseteq new
    <3> HIDE DEF new
    <3> QED BY <1>1, <2>2, <2>3
  <2> QED BY <2>4, <2>5
<1> QED BY <1>1, <1>2, <1>3, <1>5, <1>6 DEF Named

-----------------------------------------------------------------------------
(***************************************************************************)
(* What a second pass finds.                                               *)
(***************************************************************************)
\* A place that is left with a reason for every item of its location
Handled(items, path, r, page) ==
    \A m \in 1..r : HtmlBoundaries(page)[Locations[m]] >= 0 =>
        \A i \in DOMAIN items : Suits(items[i], path, Locations[m]) => Done(page, items[i])

\* A location more: its items are in the page, or it has no place there, and no
\* later insertion gives an earlier location a place or takes a marker away.
LEMMA HandledStep ==
    ASSUME NEW items, Listed(items), UniqueIds(items), NEW path, NEW r \in 0..3,
           NEW acc, Listed(acc.page), Handled(items, path, r, acc.page),
           NEW next, next = InjectAt(acc, Locations[r + 1], items, path)
    PROVE  Handled(items, path, r + 1, next.page)
<1> DEFINE q == acc.page
           loc == Locations[r + 1]
<1>1. loc \in Range(Locations) /\ \A m \in 1..r + 1 : Locations[m] \in Range(Locations)
  <2>1. r + 1 \in DOMAIN Locations /\ \A m \in 1..r + 1 : m \in DOMAIN Locations
    BY LocationsAre
  <2> QED BY <2>1 DEF Range
<1>2. \/ /\ next = acc
         /\ \/ ~(HtmlBoundaries(q)[loc] >= 0)
            \/ \A i \in DOMAIN items : Suits(items[i], path, loc) => Done(q, items[i])
      \/ \E at, s : Insertion(acc, items, path, loc, next, at, s)
  BY <1>1, InjectAtIs
<1>3. \A m \in 1..r + 1 : m = r + 1 \/ m \in 1..r
  OBVIOUS
<1>4. CASE next = acc /\ ( \/ ~(HtmlBoundaries(q)[loc] >= 0)
                           \/ \A i \in DOMAIN items : Suits(items[i], path, loc) => Done(q, items[i]) )
  BY <1>3, <1>4 DEF Handled
<1>5. ASSUME NEW at, NEW s, Insertion(acc, items, path, loc, next, at, s)
      PROVE  Handled(items, path, r + 1, next.page)
  <2>1. /\ Inserts(q, at, s, next.page) /\ Blocks(items, path, loc, Len(items), s)
        /\ NoneForgotten(q, items, path, loc, Len(items), s)
    BY <1>5 DEF Insertion
  <2>2. Tagless(s) /\ DOMAIN items = 1..Len(items)
    BY <2>1, BlocksAreTagless, ListedIs
  <2>3. \A token : Has(next.page, token) <=> Has(q, token) \/ Has(s, token)
    BY <2>1, HasInserted
  <2>4. \A item : Done(q, item) => Done(next.page, item)
    BY <2>3, DoneStays
  <2>5. ASSUME NEW i \in DOMAIN items, Suits(items[i], path, loc)
        PROVE  Done(next.page, items[i])
    <3>1. \/ Done(q, items[i])
          \/ Looked(items[i]) /\ Has(s, Sought(items[i]))
          \/ Has(s, Mark(items[i]))
      BY <2>1, <2>2, <2>5 DEF NoneForgotten
    <3> QED BY <2>3, <2>4, <3>1 DEF Done, MarkerFound, Mark
  <2>6. ASSUME NEW m \in 1..r, HtmlBoundaries(next.page)[Locations[m]] >= 0,
               NEW i \in DOMAIN items, Suits(items[i], path, Locations[m])
        PROVE  Done(next.page, items[i])
    <3>1. HtmlBoundaries(q)[Locations[m]] >= 0
      <4>1. m \in 1..r + 1
        OBVIOUS
      <4> QED BY <1>1, <2>1, <2>2, <2>6, <4>1, PlaceBefore
    <3> QED BY <2>4, <2>6, <3>1 DEF Handled
  <2> QED BY <1>3, <2>5, <2>6 DEF Handled
<1> QED BY <1>2, <1>4, <1>5

\* Where there is a place, nothing waits for it any more.
LEMMA NothingWaits ==
    ASSUME NEW page, Listed(page), NEW items, Listed(items), NEW path, NEW loc,
           \A i \in DOMAIN items : Suits(items[i], path, loc) => Done(page, items[i])
    PROVE  Collect(page, items, path, loc) = Nothing
<1> DEFINE c == Collected(page, items, path, loc)
           P == {n \in Nat : n <= Len(items) => c[n] = Nothing}
<1>1. /\ c[0] = Nothing
      /\ \A n \in 1..Len(items) : c[n] = CollectStep(page, items, path, loc, n, c[n - 1])
  BY CollectedIs
<1> HIDE DEF c
<1>2. 0 \in P
  BY <1>1
<1>3. Len(items) \in Nat /\ DOMAIN items = 1..Len(items)
  BY ListedIs
<1>4. ASSUME NEW n \in P
      PROVE  n + 1 \in P
  <2> SUFFICES ASSUME n + 1 <= Len(items)
               PROVE  c[n + 1] = Nothing
    OBVIOUS
  <2>1. n \in Nat /\ n <= Len(items) /\ n + 1 \in 1..Len(items) /\ (n + 1) - 1 = n
    BY <1>3
  <2>2. c[n] = Nothing
    BY <2>1
  <2>3. c[n + 1] = CollectStep(page, items, path, loc, n + 1, Nothing)
    BY <1>1, <2>1, <2>2
  <2>4. Suits(items[n + 1], path, loc) => Skipped(page, Nothing.snippets, items[n + 1])
    <3>1. Nothing.snippets = <<>>
      BY DEF Nothing
    <3> QED BY <1>3, <2>1, <3>1, EmptyIs, SkippedIs
  <2> QED BY <2>3, <2>4 DEF CollectStep, Suits
<1>5. P = Nat
  <2> HIDE DEF P
  <2>1. P \in SUBSET Nat
    BY DEF P
  <2> QED BY <1>2, <1>4, <2>1, Induct
<1>6. c[Len(items)] = Nothing
  BY <1>3, <1>5
<1> QED BY <1>6 DEF Collect, c

\* Where every item is done with, InjectAt does nothing.
LEMMA InjectAtAgain ==
    ASSUME NEW acc, Listed(acc.page), NEW items, Listed(items), NEW path, NEW loc \in Range(Locations),
           HtmlBoundaries(acc.page)[loc] >= 0 =>
               \A i \in DOMAIN items : Suits(items[i], path, loc) => Done(acc.page, items[i])
    PROVE  InjectAt(acc, loc, items, path) = acc
<1> DEFINE found == Collect(acc.page, items, path, loc)
           at == HtmlBoundaries(acc.page)[loc]
<1>1. CASE at >= 0
  <2>1. found = Nothing
    BY <1>1, NothingWaits
  <2>2. found.snippets = <<>>
    BY <2>1 DEF Nothing
  <2> QED BY <2>2 DEF InjectAt
<1>2. CASE ~(at >= 0)
  <2>1. at \in Int
    BY BoundaryIs
  <2> HIDE DEF at
  <2>2. at < 0
    BY <1>2, <2>1
  <2> QED BY <2>2 DEF InjectAt, WithoutPlace, at
<1> QED BY <1>1, <1>2

-----------------------------------------------------------------------------
(***************************************************************************)
(* What was in the page stays.                                             *)
(***************************************************************************)
\* Neither a new marker nor the content behind one
Old(p, q) == {k \in DOMAIN q : k \notin NewIn(p, q) /\ k - 1 \notin NewIn(p, q)}

\* Where the tokens of p stand in q
Embeds(e, p, q) ==
    /\ e \in [DOMAIN p -> DOMAIN q]
    /\ \A i, j \in DOMAIN p : i < j => e[i] < e[j]
    /\ \A i \in DOMAIN p : q[e[i]] = p[i]
    /\ \A k \in DOMAIN q : k \in Old(p, q) <=> \E i \in DOMAIN p : k = e[i]

\* A token that was in the page before stays one,
LEMMA OldMoved ==
    ASSUME NEW p, NEW items, NEW path, NEW r, NEW acc, Named(p, items, path, r, acc),
           NEW loc, NEW next, NEW at, NEW s, Insertion(acc, items, path, loc, next, at, s),
           NEW k \in DOMAIN acc.page
    PROVE  k \in Old(p, acc.page) <=> Moved(at, s, k) \in Old(p, next.page)
<1> DEFINE q == acc.page
           t == next.page
           moved(i) == Moved(at, s, i)
<1>1. Inserts(q, at, s, t) /\ Blocks(items, path, loc, Len(items), s)
  BY DEF Insertion
<1>2. /\ at \in Nat /\ Len(s) \in Nat /\ Len(q) \in Nat /\ at <= Len(q)
      /\ DOMAIN q = 1..Len(q) /\ DOMAIN s = 1..Len(s) /\ DOMAIN t = 1..Len(q) + Len(s)
  BY <1>1, InsertsIs
<1>3. \A j \in DOMAIN q : moved(j) \in DOMAIN t /\ (j \in NewIn(p, q) <=> moved(j) \in NewIn(p, t))
  BY <1>1, InsertsIs, NewMoved
<1>4. at \notin NewIn(p, q)
  BY NewMoved DEF NewIn
<1>5. k - 1 \in NewIn(p, q) <=> moved(k) - 1 \in NewIn(p, t)
  <2>1. CASE k = 1 /\ at >= 1
    <3>1. k - 1 \notin DOMAIN q /\ moved(k) = 1 /\ moved(k) - 1 \notin DOMAIN t
      BY <1>2, <2>1 DEF Moved
    <3> QED BY <3>1 DEF NewIn
  <2>2. CASE k > 1 /\ k # at + 1
    <3>1. k - 1 \in DOMAIN q /\ moved(k - 1) = moved(k) - 1
      BY <1>2, <2>2 DEF Moved
    <3> QED BY <1>3, <3>1
  <2>3. CASE k = at + 1
    <3>1. k - 1 \notin NewIn(p, q)
      BY <1>2, <1>4, <2>3
    <3>2. moved(k) - 1 = at + Len(s)
      BY <1>2, <2>3 DEF Moved
    <3>3. CASE Len(s) = 0
      <4>1. moved(k) - 1 = at /\ (at \in DOMAIN q => moved(at) = at) /\ (at \in DOMAIN t => at \in DOMAIN q)
        BY <1>2, <3>2, <3>3 DEF Moved
      <4>2. at \in NewIn(p, t) => at \in DOMAIN t
        BY DEF NewIn
      <4> QED BY <1>3, <1>4, <3>1, <4>1, <4>2
    <3>4. CASE Len(s) # 0
      <4>1. Len(s) \in DOMAIN s /\ Len(s) + 1 \notin DOMAIN s
        BY <1>2, <3>4
      <4>2. s[Len(s)][1] # "marker"
        BY <4>1, NewInBlock
      <4>3. at + Len(s) \notin NewIn(p, t)
        BY <4>1, <4>2, NewInBlock
      <4> QED BY <3>1, <3>2, <4>3
    <3> QED BY <3>3, <3>4
  <2> QED BY <1>2, <2>1, <2>2, <2>3
<1> HIDE DEF moved
<1> QED BY <1>3, <1>5 DEF Old, moved

\* the tokens of the block are none,
LEMMA BlockIsNotOld ==
    ASSUME NEW p, NEW items, NEW path, NEW r, NEW acc, Named(p, items, path, r, acc),
           NEW loc, NEW next, NEW at, NEW s, Insertion(acc, items, path, loc, next, at, s),
           NEW k \in DOMAIN s
    PROVE  at + k \notin Old(p, next.page)
<1>1. Inserts(acc.page, at, s, next.page) /\ Blocks(items, path, loc, Len(items), s)
  BY DEF Insertion
<1>2. at \in Nat /\ k \in Nat
  BY <1>1, InsertsIs
<1>3. PICK i \in 1..Len(items) :
         \/ s[k] = Mark(items[i])
         \/ s[k] = Held(items[i]) /\ k - 1 \in DOMAIN s /\ s[k - 1] = Mark(items[i])
  BY <1>1 DEF Blocks
<1>4. CASE s[k] = Mark(items[i])
  <2>1. s[k][1] = "marker"
    BY <1>4, Marks
  <2> QED BY <2>1, NewInBlock DEF Old
<1>5. CASE k - 1 \in DOMAIN s /\ s[k - 1] = Mark(items[i])
  <2>1. s[k - 1][1] = "marker"
    BY <1>5, Marks
  <2>2. at + (k - 1) \in NewIn(p, next.page)
    BY <1>5, <2>1, NewInBlock
  <2>3. at + (k - 1) = (at + k) - 1
    BY <1>2
  <2> QED BY <2>2, <2>3 DEF Old
<1> QED BY <1>3, <1>4, <1>5

\* and so the page remains embedded.
LEMMA EmbedsStep ==
    ASSUME NEW p, NEW items, NEW path, NEW r, NEW acc, Named(p, items, path, r, acc),
           NEW loc, NEW next, NEW at, NEW s, Insertion(acc, items, path, loc, next, at, s),
           NEW e, Embeds(e, p, acc.page)
    PROVE  \E f : Embeds(f, p, next.page)
<1> DEFINE q == acc.page
           t == next.page
           f == [i \in DOMAIN p |-> Moved(at, s, e[i])]
<1>1. Inserts(q, at, s, t)
  BY DEF Insertion
<1>2. /\ at \in Nat /\ Len(s) \in Nat /\ DOMAIN q \subseteq Nat
      /\ DOMAIN q = 1..Len(q) /\ DOMAIN s = 1..Len(s) /\ at <= Len(q)
      /\ \A k \in DOMAIN q : Moved(at, s, k) \in DOMAIN t /\ t[Moved(at, s, k)] = q[k]
      /\ \A k \in DOMAIN t : \/ \E i \in DOMAIN q : k = Moved(at, s, i)
                             \/ \E i \in DOMAIN s : k = at + i
  BY <1>1, InsertsIs
<1>3. at \in Nat /\ Len(s) \in Nat
  BY <1>2
<1>4. \A i \in DOMAIN p : e[i] \in DOMAIN q /\ e[i] \in Nat /\ f[i] = Moved(at, s, e[i])
  BY <1>2 DEF Embeds
<1> HIDE DEF f
<1>5. f \in [DOMAIN p -> DOMAIN t]
  <2>1. \A i \in DOMAIN p : Moved(at, s, e[i]) \in DOMAIN t
    BY <1>2, <1>4
  <2> QED BY <2>1 DEF f
<1>6. ASSUME NEW i \in DOMAIN p, NEW j \in DOMAIN p, i < j
      PROVE  f[i] < f[j]
  <2>1. e[i] < e[j]
    BY <1>6 DEF Embeds
  <2>2. e[i] \in Nat /\ e[j] \in Nat
    BY <1>4
  <2>3. Moved(at, s, e[i]) < Moved(at, s, e[j])
    BY <1>3, <2>1, <2>2, MovedKeepsOrder
  <2> QED BY <1>4, <2>3
<1>7. \A i \in DOMAIN p : t[f[i]] = p[i]
  BY <1>2, <1>4 DEF Embeds
<1>8. ASSUME NEW k \in DOMAIN t
      PROVE  k \in Old(p, t) <=> \E i \in DOMAIN p : k = f[i]
  <2>1. ASSUME NEW j \in DOMAIN q, k = Moved(at, s, j)
        PROVE  k \in Old(p, t) <=> \E i \in DOMAIN p : k = f[i]
    <3>1. k \in Old(p, t) <=> j \in Old(p, q)
      BY <2>1, OldMoved
    <3>2. j \in Old(p, q) <=> \E i \in DOMAIN p : j = e[i]
      BY DEF Embeds
    <3>3. \A i \in DOMAIN p : j = e[i] <=> k = f[i]
      <4> TAKE i \in DOMAIN p
      <4>1. j \in Nat /\ e[i] \in Nat /\ f[i] = Moved(at, s, e[i])
        BY <1>2, <1>4
      <4>2. \A m, n \in Nat : m = n <=> Moved(at, s, m) = Moved(at, s, n)
        BY <1>3, MovedKeepsOrder
      <4>3. j = e[i] <=> Moved(at, s, j) = Moved(at, s, e[i])
        BY <4>2, <4>1
      <4> QED BY <2>1, <4>1, <4>3
    <3> QED BY <3>1, <3>2, <3>3
  <2>2. ASSUME NEW j \in DOMAIN s, k = at + j
        PROVE  k \in Old(p, t) <=> \E i \in DOMAIN p : k = f[i]
    <3>1. k \notin Old(p, t)
      BY <2>2, BlockIsNotOld
    <3>2. \A i \in DOMAIN p : k # f[i]
      <4>1. \A n \in Nat : at + j # Moved(at, s, n)
        BY <1>2 DEF Moved
      <4> QED BY <1>4, <2>2, <4>1
    <3> QED BY <3>1, <3>2
  <2> QED BY <1>2, <2>1, <2>2
<1>9. Embeds(f, p, t)
  BY <1>5, <1>6, <1>7, <1>8 DEF Embeds
<1> QED BY <1>9

-----------------------------------------------------------------------------
(***************************************************************************)
(* The order of the blocks.                                                *)
(***************************************************************************)
\* The element in which a location lies
Around(page, loc, k) ==
    /\ loc \in {"head-start", "head-end"} => \E x, y \in Nat : InHead(page, x, y) /\ x < k /\ k < y
    /\ loc \in {"body-start", "body-end"} => \E x, y \in Nat : InBody(page, x, y) /\ x < k /\ k < y

\* Every new marker is inside of its item's element.
Inside(p, items, q) ==
    \A k \in NewIn(p, q) : \A i \in DOMAIN items : q[k] = Mark(items[i]) => Around(q, items[i].location, k)

\* It stays inside when others are inserted,
LEMMA AroundMoves ==
    ASSUME NEW p, NEW at, NEW s, NEW q, Inserts(p, at, s, q), Tagless(s),
           NEW loc, NEW k \in Nat, Around(p, loc, k)
    PROVE  Around(q, loc, Moved(at, s, k))
<1>1. at \in Nat /\ Len(s) \in Nat
  BY InsertsIs
<1>2. ASSUME NEW open, NEW close, {open, close} \cap {"marker", "content"} = {},
             \E x, y \in Nat : Element(p, open, close, x, y) /\ x < k /\ k < y
      PROVE  \E x, y \in Nat : /\ Element(q, open, close, x, y)
                               /\ x < Moved(at, s, k) /\ Moved(at, s, k) < y
  <2>1. PICK x, y \in Nat : Element(p, open, close, x, y) /\ x < k /\ k < y
    BY <1>2
  <2>2. Element(q, open, close, Moved(at, s, x), Moved(at, s, y))
    BY <1>2, <2>1, ElementMoves
  <2>3. /\ Moved(at, s, x) \in Nat /\ Moved(at, s, y) \in Nat
        /\ Moved(at, s, x) < Moved(at, s, k) /\ Moved(at, s, k) < Moved(at, s, y)
    BY <1>1, <2>1, MovedKeepsOrder
  <2> QED BY <2>2, <2>3
<1>3. {"head", "/head"} \cap {"marker", "content"} = {} /\ {"body", "/body"} \cap {"marker", "content"} = {}
  OBVIOUS
<1>4. CASE loc \in {"head-start", "head-end"}
  BY <1>2, <1>3, <1>4 DEF Around, InHead
<1>5. CASE loc \in {"body-start", "body-end"}
  BY <1>2, <1>3, <1>5 DEF Around, InBody
<1> QED BY <1>4, <1>5 DEF Around

\* A block at a place is inside of the element.
LEMMA AroundBlock ==
    ASSUME NEW p, NEW at, NEW s, NEW q, Inserts(p, at, s, q), Tagless(s),
           NEW loc, Place(p, loc, at), NEW k \in DOMAIN s
    PROVE  Around(q, loc, at + k)
<1>1. at \in Nat /\ Len(s) \in Nat /\ k \in 1..Len(s) /\ Len(p) \in Nat
  BY InsertsIs
<1>2. ASSUME NEW open, NEW close, {open, close} \cap {"marker", "content"} = {},
             NEW x \in 1..Len(p), NEW y \in 1..Len(p), Element(p, open, close, x, y), at = x \/ at = y - 1
      PROVE  \E u, v \in Nat : Element(q, open, close, u, v) /\ u < at + k /\ at + k < v
  <2>1. x < y /\ x \in Nat /\ y \in Nat
    BY <1>1, <1>2 DEF Element
  <2>2. Element(q, open, close, Moved(at, s, x), Moved(at, s, y))
    BY <1>2, ElementMoves
  <2>3. x <= at /\ y > at
    BY <1>1, <1>2, <2>1
  <2>4. Moved(at, s, x) = x /\ Moved(at, s, y) = Len(s) + y
    BY <1>1, <2>1, <2>3, MovedKeepsOrder
  <2>5. x < at + k /\ at + k < Len(s) + y /\ x \in Nat /\ Len(s) + y \in Nat
    BY <1>1, <2>1, <2>3
  <2> QED BY <2>2, <2>4, <2>5
<1>3. {"head", "/head"} \cap {"marker", "content"} = {} /\ {"body", "/body"} \cap {"marker", "content"} = {}
  OBVIOUS
<1>4. CASE loc \in {"head-start", "head-end"}
  <2>1. PICK x, y \in 1..Len(p) : InHead(p, x, y) /\ (at = x \/ at = y - 1)
    BY <1>4 DEF Place
  <2>2. \E u, v \in Nat : InHead(q, u, v) /\ u < at + k /\ at + k < v
    BY <1>2, <1>3, <2>1 DEF InHead
  <2> QED BY <1>4, <2>2 DEF Around
<1>5. CASE loc \in {"body-start", "body-end"}
  <2>1. PICK x, y \in 1..Len(p) : InBody(p, x, y) /\ (at = x \/ at = y - 1)
    BY <1>5 DEF Place
  <2>2. \E u, v \in Nat : InBody(q, u, v) /\ u < at + k /\ at + k < v
    BY <1>2, <1>3, <2>1 DEF InBody
  <2> QED BY <1>5, <2>2 DEF Around
<1> QED BY <1>4, <1>5 DEF Around

\* so it holds after every location.
LEMMA InsideStep ==
    ASSUME NEW p, NEW items, NEW path, NEW r, NEW acc, Named(p, items, path, r, acc),
           NEW loc, NEW next, NEW at, NEW s, Insertion(acc, items, path, loc, next, at, s),
           Inside(p, items, acc.page)
    PROVE  Inside(p, items, next.page)
<1> DEFINE q == acc.page
           t == next.page
<1>1. /\ Inserts(q, at, s, t) /\ Blocks(items, path, loc, Len(items), s) /\ Place(q, loc, at)
      /\ UniqueIds(items)
  BY DEF Insertion, Named
<1>2. Tagless(s) /\ DOMAIN q \subseteq Nat
  BY <1>1, BlocksAreTagless, InsertsIs
<1>3. ASSUME NEW k \in NewIn(p, t), NEW i \in DOMAIN items, t[k] = Mark(items[i])
      PROVE  Around(t, items[i].location, k)
  <2>1. ASSUME NEW j \in NewIn(p, q), k = Moved(at, s, j)
        PROVE  Around(t, items[i].location, k)
    <3>1. j \in DOMAIN q /\ j \in Nat
      BY <1>2 DEF NewIn
    <3>2. q[j] = Mark(items[i])
      BY <1>1, <1>3, <2>1, <3>1, InsertsIs
    <3>3. Around(q, items[i].location, j)
      BY <3>2 DEF Inside
    <3> QED BY <1>1, <1>2, <2>1, <3>1, <3>3, AroundMoves
  <2>2. ASSUME NEW j \in DOMAIN s, k = at + j, s[j][1] = "marker"
        PROVE  Around(t, items[i].location, k)
    <3>1. PICK a \in DOMAIN items : Suits(items[a], path, loc) /\ s[j] = Mark(items[a])
      BY <2>2, NewInBlock
    <3>2. t[k] = s[j]
      BY <1>1, <2>2, InsertsIs
    <3>3. a = i
      BY <1>1, <1>3, <3>1, <3>2, SameItem
    <3>4. items[i].location = loc
      BY <3>1, <3>3 DEF Suits
    <3> QED BY <1>1, <1>2, <2>2, <3>4, AroundBlock
  <2> QED BY <2>1, <2>2, NewSplit
<1> QED BY <1>3 DEF Inside

\* The rank of a location is its number.
LEMMA RankOf ==
    ASSUME NEW item, NEW m \in 1..4, item.location = Locations[m]
    PROVE  LocationRank(item) = m
<1>1. \A k \in DOMAIN Locations : Locations[k] = Locations[m] => k = m
  <2>1. DOMAIN Locations = {1, 2, 3, 4} /\ m \in {1, 2, 3, 4}
    BY LocationsAre
  <2> QED BY <2>1, LocationsAre
<1>2. m \in DOMAIN Locations
  BY LocationsAre
<1> QED BY <1>1, <1>2 DEF LocationRank

\* What was inserted before stands in front of the next place.
LEMMA PlaceIsBehind ==
    ASSUME NEW p, NEW items, NEW path, NEW r \in 0..3, NEW acc, Named(p, items, path, r, acc),
           NEW next, NEW at, NEW s, Insertion(acc, items, path, Locations[r + 1], next, at, s),
           Inside(p, items, acc.page), NEW k \in NewIn(p, acc.page)
    PROVE  k <= at
<1> DEFINE q == acc.page
           loc == Locations[r + 1]
<1>1. Listed(q) /\ Sane(q) /\ Place(q, loc, at) /\ at \in Nat /\ DOMAIN q \subseteq Nat /\ Len(q) \in Nat
  BY InsertsIs DEF Insertion, Inserts
<1>2. PICK i \in DOMAIN items : \E m \in 1..r : Suits(items[i], path, Locations[m]) /\ q[k] = Mark(items[i])
  BY DEF Named
<1>3. PICK m \in 1..r : items[i].location = Locations[m]
  BY <1>2 DEF Suits
<1>4. Around(q, items[i].location, k) /\ k \in Nat
  BY <1>1, <1>2 DEF Inside, NewIn
<1>5. /\ \A x, y, u, v : InHead(q, x, y) /\ InHead(q, u, v) => x = u /\ y = v
      /\ \A x, y, u, v : InBody(q, x, y) /\ InBody(q, u, v) => x = u /\ y = v
  BY ElementIsOne DEF InHead, InBody
<1>6. \A x, y, z, w : InHead(q, x, y) /\ InBody(q, z, w) => y - 1 <= z
  BY <1>1 DEF Sane
<1>7. CASE r = 0
  BY <1>3, <1>7
<1>8. CASE r = 1
  <2>1. m = 1 /\ loc = "head-end"
    BY <1>8, LocationsAre
  <2>2. PICK x, y \in Nat : InHead(q, x, y) /\ k < y
    BY <1>3, <1>4, <2>1, LocationsAre DEF Around
  <2>3. at = y - 1
    BY <1>1, <1>5, <2>1, <2>2 DEF Place
  <2> QED BY <1>4, <2>2, <2>3
<1>9. CASE r = 2
  <2>1. m \in {1, 2} /\ loc = "body-start"
    BY <1>9, LocationsAre
  <2>2. PICK x, y \in Nat : InHead(q, x, y) /\ k < y
    BY <1>3, <1>4, <2>1, LocationsAre DEF Around
  <2>3. PICK z, w \in 1..Len(q) : InBody(q, z, w) /\ at = z
    BY <1>1, <2>1 DEF Place
  <2>4. y - 1 <= z
    BY <1>6, <2>2, <2>3
  <2> QED BY <1>1, <1>4, <2>2, <2>3, <2>4
<1>10. CASE r = 3
  <2>1. m \in {1, 2, 3} /\ loc = "body-end"
    BY <1>10, LocationsAre
  <2>2. PICK z, w \in 1..Len(q) : InBody(q, z, w) /\ at = w - 1
    BY <1>1, <2>1 DEF Place
  <2>3. z < w
    BY <2>2 DEF InBody, Element
  <2>4. CASE m \in {1, 2}
    <3>1. PICK x, y \in Nat : InHead(q, x, y) /\ k < y
      BY <1>3, <1>4, <2>4, LocationsAre DEF Around
    <3>2. y - 1 <= z
      BY <1>6, <2>2, <3>1
    <3> QED BY <1>1, <1>4, <2>2, <2>3, <3>1, <3>2
  <2>5. CASE m = 3
    <3>1. PICK x, y \in Nat : InBody(q, x, y) /\ k < y
      BY <1>3, <1>4, <2>5, LocationsAre DEF Around
    <3>2. y = w
      BY <1>5, <2>2, <3>1
    <3> QED BY <1>1, <1>4, <2>2, <3>1, <3>2
  <2> QED BY <2>1, <2>4, <2>5
<1> QED BY <1>7, <1>8, <1>9, <1>10

\* The new markers are in the order of their items, a script's content is new.
Sequenced(p, items, q) ==
    \A j, k \in NewIn(p, q) : \A a, b \in DOMAIN items :
        j < k /\ q[j] = Mark(items[a]) /\ q[k] = Mark(items[b]) =>
            /\ \/ LocationRank(items[a]) < LocationRank(items[b])
               \/ LocationRank(items[a]) = LocationRank(items[b]) /\ a < b
            /\ Looked(items[b]) => Rendered(items[a]) # items[b].content

\* The new block comes after all that was inserted before, and a script in it is
\* in none of them.
LEMMA SequencedStep ==
    ASSUME NEW p, NEW items, NEW path, NEW r \in 0..3, NEW acc, Named(p, items, path, r, acc),
           NEW next, NEW at, NEW s, Insertion(acc, items, path, Locations[r + 1], next, at, s),
           Inside(p, items, acc.page), Sequenced(p, items, acc.page)
    PROVE  Sequenced(p, items, next.page)
<1> DEFINE q == acc.page
           t == next.page
           loc == Locations[r + 1]
<1>1. /\ Inserts(q, at, s, t) /\ Ordered(items, s) /\ UniqueIds(items)
  BY DEF Insertion, Named
<1>2. /\ at \in Nat /\ Len(s) \in Nat /\ DOMAIN q \subseteq Nat /\ DOMAIN s = 1..Len(s)
  BY <1>1, InsertsIs
<1>3. ASSUME NEW j \in NewIn(p, t), NEW k \in NewIn(p, t), NEW a \in DOMAIN items, NEW b \in DOMAIN items,
             j < k, t[j] = Mark(items[a]), t[k] = Mark(items[b])
      PROVE  /\ \/ LocationRank(items[a]) < LocationRank(items[b])
                \/ LocationRank(items[a]) = LocationRank(items[b]) /\ a < b
             /\ Looked(items[b]) => Rendered(items[a]) # items[b].content
  <2> DEFINE Goal == /\ \/ LocationRank(items[a]) < LocationRank(items[b])
                        \/ LocationRank(items[a]) = LocationRank(items[b]) /\ a < b
                     /\ Looked(items[b]) => Rendered(items[a]) # items[b].content
  <2>1. \A i \in NewIn(p, q) : i \in DOMAIN q /\ i \in Nat /\ i <= at /\ t[Moved(at, s, i)] = q[i]
                               /\ Moved(at, s, i) = i
    <3> TAKE i \in NewIn(p, q)
    <3>1. i \in DOMAIN q /\ i \in Nat
      BY <1>2 DEF NewIn
    <3>2. i <= at
      BY PlaceIsBehind
    <3> QED BY <1>1, <3>1, <3>2, InsertsIs DEF Moved
  <2>2. ASSUME NEW i \in DOMAIN s, s[i][1] = "marker", NEW c \in DOMAIN items, t[at + i] = Mark(items[c])
        PROVE  /\ s[i] = Mark(items[c]) /\ LocationRank(items[c]) = r + 1
               /\ ~Done(q, items[c])
    <3>1. PICK d \in DOMAIN items : Suits(items[d], path, loc) /\ s[i] = Mark(items[d]) /\ ~Done(q, items[d])
      BY <2>2, NewInBlock
    <3>2. t[at + i] = s[i]
      BY <1>1, InsertsIs
    <3>3. c = d
      BY <1>1, <2>2, <3>1, <3>2, SameItem
    <3>4. LocationRank(items[c]) = r + 1
      <4>1. items[c].location = Locations[r + 1] /\ r + 1 \in 1..4
        BY <3>1, <3>3 DEF Suits
      <4> QED BY <4>1, RankOf
    <3> QED BY <3>1, <3>3, <3>4
  <2>3. CASE j \in NewIn(p, q) /\ k \in NewIn(p, q)
    BY <1>3, <2>1, <2>3 DEF Sequenced
  <2>4. ASSUME j \in NewIn(p, q), NEW i \in DOMAIN s, k = at + i, s[i][1] = "marker"
        PROVE  Goal
    <3>1. q[j] = Mark(items[a])
      BY <1>3, <2>1, <2>4
    <3>2. PICK d \in DOMAIN items : \E m \in 1..r :
             /\ Suits(items[d], path, Locations[m])
             /\ q[j] = Mark(items[d]) /\ j + 1 \in DOMAIN q /\ q[j + 1] = Held(items[d])
      BY <2>4 DEF Named
    <3>3. a = d
      BY <1>1, <3>1, <3>2, SameItem
    <3>4. PICK m \in 1..r : items[a].location = Locations[m]
      BY <3>2, <3>3 DEF Suits
    <3>5. LocationRank(items[a]) = m
      <4>1. m \in 1..4
        OBVIOUS
      <4> QED BY <3>4, <4>1, RankOf
    <3>6. LocationRank(items[b]) = r + 1 /\ ~Done(q, items[b])
      BY <1>3, <2>2, <2>4
    <3>7. Has(q, Held(items[a]))
      BY <3>2, <3>3 DEF Has
    <3>8. Looked(items[b]) => Rendered(items[a]) # items[b].content
      BY <3>6, <3>7, Marks DEF Done
    <3>9. LocationRank(items[a]) < LocationRank(items[b])
      BY <3>5, <3>6
    <3> QED BY <3>8, <3>9
  <2>5. ASSUME NEW i \in DOMAIN s, j = at + i, k \in NewIn(p, q)
        PROVE  FALSE
    BY <1>2, <1>3, <2>1, <2>5
  <2>6. ASSUME NEW i \in DOMAIN s, j = at + i, s[i][1] = "marker",
               NEW l \in DOMAIN s, k = at + l, s[l][1] = "marker"
        PROVE  Goal
    <3>1. s[i] = Mark(items[a]) /\ s[l] = Mark(items[b])
          /\ LocationRank(items[a]) = r + 1 /\ LocationRank(items[b]) = r + 1
      BY <1>3, <2>2, <2>6
    <3>2. i < l
      BY <1>2, <1>3, <2>6
    <3> QED BY <1>1, <3>1, <3>2 DEF Ordered
  <2>7. /\ j \in NewIn(p, q) \/ \E i \in DOMAIN s : j = at + i /\ s[i][1] = "marker"
        /\ k \in NewIn(p, q) \/ \E i \in DOMAIN s : k = at + i /\ s[i][1] = "marker"
    BY <2>1, NewSplit
  <2> HIDE DEF Goal
  <2> QED BY <2>3, <2>4, <2>5, <2>6, <2>7 DEF Goal
<1> QED BY <1>3 DEF Sequenced

-----------------------------------------------------------------------------
(***************************************************************************)
(* InjectHtml, one location after the other.                               *)
(***************************************************************************)
\* The page as it came, nothing applied
Start(p) == [page |-> p, applied |-> {}]

\* What holds of the page after the first r locations
Built(p, items, path, r, acc) ==
    /\ Named(p, items, path, r, acc) /\ Handled(items, path, r, acc.page)
    /\ \E e : Embeds(e, p, acc.page)
    /\ Inside(p, items, acc.page) /\ Sequenced(p, items, acc.page)
    /\ acc.applied = {} => acc = Start(p)

\* It holds of the page as it came,
LEMMA BuiltStart ==
    ASSUME NEW p, Listed(p), NEW items, Listed(items), UniqueIds(items), NEW path
    PROVE  Built(p, items, path, 0, Start(p))
<1>1. Start(p).page = p /\ Start(p).applied = {}
  BY DEF Start
<1>2. NewIn(p, p) = {}
  BY DEF NewIn, Has
<1>3. Named(p, items, path, 0, Start(p))
  BY <1>1, <1>2 DEF Named
<1>4. Handled(items, path, 0, p)
  BY DEF Handled
<1>5. Embeds([i \in DOMAIN p |-> i], p, p)
  <2>1. Old(p, p) = DOMAIN p
    BY <1>2 DEF Old
  <2> QED BY <2>1 DEF Embeds
<1>6. Inside(p, items, p) /\ Sequenced(p, items, p)
  BY <1>2 DEF Inside, Sequenced
<1> QED BY <1>1, <1>3, <1>4, <1>5, <1>6 DEF Built

\* and it holds after every location.
LEMMA BuiltStep ==
    ASSUME NEW p, NEW items, NEW path, NEW r \in 0..3, NEW acc, Built(p, items, path, r, acc),
           NEW next, next = InjectAt(acc, Locations[r + 1], items, path)
    PROVE  Built(p, items, path, r + 1, next)
<1> DEFINE loc == Locations[r + 1]
<1>1. /\ Named(p, items, path, r, acc) /\ Listed(acc.page) /\ Listed(items) /\ UniqueIds(items)
      /\ Handled(items, path, r, acc.page) /\ Inside(p, items, acc.page) /\ Sequenced(p, items, acc.page)
  BY DEF Built, Named
<1>2. Handled(items, path, r + 1, next.page)
  BY <1>1, HandledStep
<1>3. loc \in Range(Locations)
  <2>1. r + 1 \in DOMAIN Locations
    BY LocationsAre
  <2> QED BY <2>1 DEF Range
<1>4. next = acc \/ \E at, s : Insertion(acc, items, path, loc, next, at, s)
  BY <1>1, <1>3, InjectAtIs
<1>5. CASE next = acc
  <2>1. r + 1 \in 0..4 /\ \A m \in 1..r : m \in 1..r + 1
    OBVIOUS
  <2>2. Named(p, items, path, r + 1, acc)
    BY <1>1, <2>1 DEF Named
  <2> QED BY <1>2, <1>5, <2>2 DEF Built
<1>6. ASSUME NEW at, NEW s, Insertion(acc, items, path, loc, next, at, s)
      PROVE  Built(p, items, path, r + 1, next)
  <2>1. Named(p, items, path, r + 1, next)
    BY <1>1, <1>6, NamedStep
  <2>2. \E f : Embeds(f, p, next.page)
    <3>1. PICK e : Embeds(e, p, acc.page)
      BY DEF Built
    <3> QED BY <1>1, <1>6, <3>1, EmbedsStep
  <2>3. Inside(p, items, next.page)
    BY <1>1, <1>6, InsideStep
  <2>4. Sequenced(p, items, next.page)
    BY <1>1, <1>6, SequencedStep
  <2>5. next.applied # {}
    <3>1. next.applied = acc.applied \cup Ids(s) /\ Blocks(items, path, loc, Len(items), s)
      BY <1>6 DEF Insertion
    <3>2. PICK k \in DOMAIN s : TRUE
      BY <1>6 DEF Insertion
    <3>3. \E i \in 1..Len(items) :
             \/ s[k] = Mark(items[i])
             \/ k - 1 \in DOMAIN s /\ s[k - 1] = Mark(items[i])
      BY <3>1 DEF Blocks
    <3>4. \E j \in DOMAIN s : s[j][1] = "marker"
      BY <3>3, Marks
    <3>5. Ids(s) # {}
      BY <3>4 DEF Ids
    <3> QED BY <3>1, <3>5
  <2> QED BY <1>2, <2>1, <2>2, <2>3, <2>4, <2>5 DEF Built
<1> QED BY <1>4, <1>5, <1>6

\* A page and its items
Proper(p, route) ==
    Listed(p) /\ Listed(route.items) /\ Numbered(route.items) /\ UniqueIds(route.items)

\* InjectHtml leaves the page as it came, or all of it holds for four locations.
LEMMA InjectHtmlIs ==
    ASSUME NEW p, NEW route, Proper(p, route), NEW path
    PROVE  LET items == SortedItems(route)
               html == InjectHtml(p, route, path)
           IN  \/ MetaBlocked(p, route) /\ html = Start(p)
               \/ Built(p, items, path, 4, html)
<1> DEFINE items == SortedItems(route)
           html == InjectHtml(p, route, path)
           a == InjectAt(Start(p), "head-start", items, path)
           b == InjectAt(a, "head-end", items, path)
           c == InjectAt(b, "body-start", items, path)
           d == InjectAt(c, "body-end", items, path)
<1>1. Listed(items) /\ UniqueIds(items)
  BY SortedIs DEF Proper
<1>2. html = IF MetaBlocked(p, route) THEN Start(p) ELSE d
  BY Zenon DEF InjectHtml, Start
<1> HIDE DEF items, html, d
<1>3. Built(p, items, path, 0, Start(p))
  BY <1>1, BuiltStart DEF Proper
<1> HIDE DEF c
<1>4. Built(p, items, path, 1, a)
  <2>1. 0 \in 0..3 /\ 0 + 1 = 1 /\ a = InjectAt(Start(p), Locations[0 + 1], items, path)
    BY LocationsAre
  <2> HIDE DEF a
  <2>2. Built(p, items, path, 0 + 1, a)
    BY <1>3, <2>1, BuiltStep
  <2> QED BY <2>1, <2>2
<1> HIDE DEF a
<1>5. Built(p, items, path, 2, b)
  <2>1. 1 \in 0..3 /\ 1 + 1 = 2 /\ b = InjectAt(a, Locations[1 + 1], items, path)
    BY LocationsAre
  <2> HIDE DEF b
  <2>2. Built(p, items, path, 1 + 1, b)
    BY <1>4, <2>1, BuiltStep
  <2> QED BY <2>1, <2>2
<1> HIDE DEF b
<1>6. Built(p, items, path, 3, c)
  <2>1. 2 \in 0..3 /\ 2 + 1 = 3 /\ c = InjectAt(b, Locations[2 + 1], items, path)
    BY LocationsAre DEF c
  <2>2. Built(p, items, path, 2 + 1, c)
    BY <1>5, <2>1, BuiltStep
  <2> QED BY <2>1, <2>2
<1>7. Built(p, items, path, 4, d)
  <2>1. 3 \in 0..3 /\ 3 + 1 = 4 /\ d = InjectAt(c, Locations[3 + 1], items, path)
    BY LocationsAre DEF d
  <2>2. Built(p, items, path, 3 + 1, d)
    BY <1>6, <2>1, BuiltStep
  <2> QED BY <2>1, <2>2
<1> QED BY <1>2, <1>7 DEF html, items

\* A page that every item is done with where there is a place is not changed.
LEMMA InjectHtmlAgain ==
    ASSUME NEW q, NEW route, Proper(q, route), NEW path, Handled(SortedItems(route), path, 4, q)
    PROVE  InjectHtml(q, route, path) = Start(q)
<1> DEFINE items == SortedItems(route)
           start == Start(q)
<1>1. Listed(items) /\ Listed(q) /\ start.page = q
  BY SortedIs DEF Proper, Start
<1>2. ASSUME NEW m \in 1..4
      PROVE  InjectAt(start, Locations[m], items, path) = start
  <2>1. Locations[m] \in Range(Locations)
    BY LocationsAre DEF Range
  <2> HIDE DEF start, items
  <2>2. HtmlBoundaries(start.page)[Locations[m]] >= 0 =>
          \A i \in DOMAIN items : Suits(items[i], path, Locations[m]) => Done(start.page, items[i])
    BY <1>1 DEF Handled, items
  <2> QED BY <1>1, <2>1, <2>2, InjectAtAgain
<1> HIDE DEF start, items
<1>3. /\ InjectAt(start, "head-start", items, path) = start
      /\ InjectAt(start, "head-end", items, path) = start
      /\ InjectAt(start, "body-start", items, path) = start
      /\ InjectAt(start, "body-end", items, path) = start
  BY <1>2, LocationsAre
<1>4. InjectHtml(q, route, path) =
        IF MetaBlocked(q, route) THEN start
        ELSE InjectAt(InjectAt(InjectAt(InjectAt(start, "head-start", items, path),
                "head-end", items, path), "body-start", items, path), "body-end", items, path)
  BY Zenon DEF InjectHtml, start, items, Start
<1> QED BY <1>3, <1>4, Zenon DEF start

-----------------------------------------------------------------------------
(***************************************************************************)
(* The page without its blocks, and its length.                            *)
(***************************************************************************)
\* Different values for different elements: as many as there are elements.
LEMMA Counted ==
    ASSUME NEW e, NEW S, IsFiniteSet(S), \A i, j \in S : e[i] = e[j] => i = j
    PROVE  LET T == {e[i] : i \in S} IN IsFiniteSet(T) /\ Cardinality(T) = Cardinality(S)
<1> DEFINE T == {e[i] : i \in S}
           f == [i \in S |-> e[i]]
<1>1. f \in Bijection(S, T)
  <2>1. f \in [S -> T] /\ (\A t \in T : \E i \in S : f[i] = t) /\ \A i \in S : f[i] = e[i]
    OBVIOUS
  <2>2. \A i, j \in S : f[i] = f[j] => i = j
    BY <2>1
  <2> HIDE DEF f, T
  <2> QED BY <2>1, <2>2 DEF Bijection, Injection, Surjection, IsInjective
<1>2. ExistsBijection(S, T)
  BY <1>1 DEF ExistsBijection
<1> HIDE DEF T
<1>3. IsFiniteSet(T) /\ Cardinality(T) = Cardinality(S)
  BY <1>2, FS_Bijection
<1> QED BY <1>3 DEF T

LEMMA Interval ==
    ASSUME NEW n \in Nat
    PROVE  IsFiniteSet(1..n) /\ Cardinality(1..n) = n
<1>1. Cardinality(1..n) = IF 1 > n THEN 0 ELSE n - 1 + 1
  BY FS_Interval
<1> QED BY <1>1, FS_Interval

\* What was in the page before, up to a token
OldUpTo(p, q, k) == {i \in 1..k : i \in Old(p, q)}

\* The tokens that were there before are those of the page, one by one.
LEMMA OldIsCounted ==
    ASSUME NEW p, Listed(p), NEW q, Listed(q), NEW e, Embeds(e, p, q)
    PROVE  /\ IsFiniteSet(Old(p, q)) /\ Cardinality(Old(p, q)) = Len(p)
           /\ \A m \in DOMAIN p :
                 /\ e[m] \in Old(p, q)
                 /\ Cardinality(OldUpTo(p, q, e[m])) = m
           /\ \A j \in Old(p, q) : \E m \in DOMAIN p : j = e[m]
<1>1. /\ Len(p) \in Nat /\ DOMAIN p = 1..Len(p) /\ Len(q) \in Nat /\ DOMAIN q = 1..Len(q)
  BY ListedIs
<1>2. /\ \A m \in DOMAIN p : e[m] \in DOMAIN q /\ e[m] \in Nat /\ e[m] >= 1
      /\ \A i, j \in DOMAIN p : i < j => e[i] < e[j]
      /\ \A k \in DOMAIN q : k \in Old(p, q) <=> \E i \in DOMAIN p : k = e[i]
  BY <1>1 DEF Embeds
<1>3. \A i, j \in DOMAIN p : (e[i] = e[j] => i = j) /\ (e[i] <= e[j] <=> i <= j)
  <2>1. ASSUME NEW i \in DOMAIN p, NEW j \in DOMAIN p
        PROVE  (e[i] = e[j] => i = j) /\ (e[i] <= e[j] <=> i <= j)
    <3>1. i \in Nat /\ j \in Nat /\ (i < j \/ i = j \/ j < i) /\ e[i] \in Nat /\ e[j] \in Nat
      BY <1>1, <1>2
    <3> QED BY <1>2, <3>1
  <2> QED BY <2>1
<1>4. \A k : k \in Old(p, q) <=> \E i \in DOMAIN p : k = e[i]
  BY <1>2 DEF Old
<1>5. ASSUME NEW m \in Nat, m <= Len(p)
      PROVE  LET T == {e[i] : i \in 1..m} IN IsFiniteSet(T) /\ Cardinality(T) = m
  <2>1. \A i, j \in 1..m : i \in DOMAIN p /\ j \in DOMAIN p
    BY <1>1, <1>5
  <2>2. \A i, j \in 1..m : e[i] = e[j] => i = j
    BY <1>3, <2>1
  <2>3. IsFiniteSet(1..m) /\ Cardinality(1..m) = m
    BY Interval
  <2> DEFINE S == 1..m
             T == {e[i] : i \in S}
  <2>4. (\A i, j \in S : e[i] = e[j] => i = j) /\ IsFiniteSet(S)
    BY <2>2, <2>3
  <2> HIDE DEF S
  <2>5. IsFiniteSet(T) /\ Cardinality(T) = Cardinality(S)
    BY <2>4, Counted
  <2> QED BY <2>3, <2>5 DEF S
<1>6. Old(p, q) = {e[i] : i \in 1..Len(p)}
  BY <1>1, <1>4
<1>7. ASSUME NEW m \in DOMAIN p
      PROVE  Cardinality(OldUpTo(p, q, e[m])) = m
  <2>1. m \in Nat /\ m <= Len(p) /\ \A i : i \in 1..m <=> i \in DOMAIN p /\ i <= m
    BY <1>1
  <2>2. \A i \in DOMAIN p : e[i] \in 1..e[m] <=> i <= m
    BY <1>2, <1>3
  <2>3. OldUpTo(p, q, e[m]) = {e[i] : i \in 1..m}
    BY <1>4, <2>1, <2>2 DEF OldUpTo
  <2> QED BY <1>5, <2>1, <2>3
<1>8. Len(p) \in Nat /\ Len(p) <= Len(p)
  BY <1>1
<1> QED BY <1>4, <1>5, <1>6, <1>7, <1>8

\* Behind every new marker there is its content, and that is no marker.
LEMMA NewIsTwice ==
    ASSUME NEW p, Listed(p), NEW q, Listed(q), NEW e, Embeds(e, p, q),
           \A k \in NewIn(p, q) : k + 1 \in DOMAIN q /\ q[k + 1][1] # "marker"
    PROVE  Len(q) = Len(p) + 2 * Cardinality(NewIn(p, q))
<1> DEFINE N == NewIn(p, q)
           M == {k + 1 : k \in N}
           O == Old(p, q)
<1>1. Len(p) \in Nat /\ Len(q) \in Nat /\ DOMAIN q = 1..Len(q)
  BY ListedIs
<1>2. IsFiniteSet(O) /\ Cardinality(O) = Len(p)
  BY OldIsCounted
<1>3. IsFiniteSet(1..Len(q)) /\ Cardinality(1..Len(q)) = Len(q)
  BY <1>1, Interval
<1>4. N \subseteq 1..Len(q)
  BY <1>1 DEF NewIn
<1>5. IsFiniteSet(N) /\ Cardinality(N) \in Nat
  BY <1>3, <1>4, FS_Subset, FS_CardinalityType
<1>6. IsFiniteSet(M) /\ Cardinality(M) = Cardinality(N)
  <2> DEFINE s == [k \in N |-> k + 1]
             T == {s[k] : k \in N}
  <2>1. \A i, j \in N : s[i] = s[j] => i = j
    BY <1>1, <1>4
  <2>2. IsFiniteSet(T) /\ Cardinality(T) = Cardinality(N)
    <3> HIDE DEF s, N
    <3> QED BY <1>5, <2>1, Counted
  <2>3. T = M
    OBVIOUS
  <2> QED BY <2>2, <2>3
<1>7. N \cap M = {}
  BY DEF NewIn
<1>8. N \cup M \cup O = 1..Len(q) /\ (N \cup M) \cap O = {}
  <2>1. \A k \in 1..Len(q) : k \in O <=> k \notin N /\ k - 1 \notin N
    BY <1>1 DEF Old
  <2>2. \A k \in 1..Len(q) : k \in M <=> k - 1 \in N
    BY <1>1, <1>4
  <2>3. O \subseteq 1..Len(q) /\ M \subseteq 1..Len(q)
    BY <1>1 DEF Old
  <2> HIDE DEF N, M, O
  <2> QED BY <1>4, <2>1, <2>2, <2>3
<1> HIDE DEF N, M, O
<1>9. IsFiniteSet(N \cup M) /\ Cardinality(N \cup M) = Cardinality(N) + Cardinality(N)
  <2>1. IsFiniteSet(N \cup M) /\ Cardinality(N \cup M) = Cardinality(N) + Cardinality(M) - Cardinality(N \cap M)
    BY <1>5, <1>6, FS_Union
  <2>2. Cardinality(N \cap M) = 0
    BY <1>7, FS_EmptySet
  <2> QED BY <1>5, <1>6, <2>1, <2>2
<1>10. Len(q) = Cardinality(N) + Cardinality(N) + Len(p)
  <2>1. Cardinality((N \cup M) \cup O) = Cardinality(N \cup M) + Cardinality(O) - Cardinality((N \cup M) \cap O)
    BY <1>2, <1>9, FS_Union
  <2>2. Cardinality((N \cup M) \cap O) = 0
    BY <1>8, FS_EmptySet
  <2>3. Cardinality((N \cup M) \cup O) = Len(q)
    BY <1>3, <1>8
  <2> QED BY <1>1, <1>2, <1>5, <1>9, <2>1, <2>2, <2>3
<1> DEFINE c == Cardinality(N)
<1>11. Len(q) = c + c + Len(p) /\ c \in Nat
  BY <1>5, <1>10
<1> HIDE DEF c
<1>12. Len(q) = Len(p) + 2 * c
  BY <1>1, <1>11
<1> QED BY <1>12 DEF c, N

\* The words of Content
LEMMA NewMarkersAre ==
    /\ NewMarkers = NewIn(input.page, output.page)
    /\ \A q, k : k \in DOMAIN q => (IsNew(q[k]) <=> k \in NewIn(input.page, q))
BY DEF NewMarkers, IsNew, NewIn

\* Without the blocks it is the page that came.
LEMMA WithoutBlocksIs ==
    ASSUME NEW q, Listed(q), Listed(input.page), NEW e, Embeds(e, input.page, q)
    PROVE  WithoutBlocks(q) = input.page
<1> DEFINE p == input.page
           kept(k) == ~IsNew(q[k]) /\ (k > 1 => ~IsNew(q[k - 1]))
<1>1. Len(p) \in Nat /\ DOMAIN p = 1..Len(p) /\ Len(q) \in Nat /\ DOMAIN q = 1..Len(q)
  BY ListedIs
<1>2. /\ Cardinality(Old(p, q)) = Len(p)
      /\ \A m \in DOMAIN p : e[m] \in Old(p, q) /\ Cardinality(OldUpTo(p, q, e[m])) = m
      /\ \A j \in Old(p, q) : \E m \in DOMAIN p : j = e[m]
  BY OldIsCounted
<1>3. \A k \in DOMAIN q : kept(k) <=> k \in Old(p, q)
  <2>1. ASSUME NEW k \in DOMAIN q
        PROVE  kept(k) <=> k \in Old(p, q)
    <3>1. IsNew(q[k]) <=> k \in NewIn(p, q)
      BY NewMarkersAre
    <3>2. CASE k > 1
      <4>1. k - 1 \in DOMAIN q
        BY <1>1, <3>2
      <4>2. IsNew(q[k - 1]) <=> k - 1 \in NewIn(p, q)
        BY <4>1, NewMarkersAre
      <4> QED BY <3>1, <3>2, <4>2 DEF Old
    <3>3. CASE ~(k > 1)
      <4>1. k - 1 \notin DOMAIN q
        BY <1>1, <3>3
      <4>2. k - 1 \notin NewIn(p, q)
        BY <4>1 DEF NewIn
      <4> QED BY <3>1, <3>3, <4>2 DEF Old
    <3> QED BY <3>2, <3>3
  <2> QED BY <2>1
<1>4. WithoutBlocks(q) =
        [k \in 1..Cardinality({j \in DOMAIN q : kept(j)}) |->
            q[CHOOSE j \in DOMAIN q : kept(j) /\ Cardinality({i \in 1..j : kept(i)}) = k]]
  BY DEF WithoutBlocks
<1> HIDE DEF kept
<1>5. Cardinality({j \in DOMAIN q : kept(j)}) = Len(p)
  <2>1. {j \in DOMAIN q : kept(j)} = Old(p, q)
    BY <1>3 DEF Old
  <2> QED BY <1>2, <2>1
<1>6. \A j \in DOMAIN q : {i \in 1..j : kept(i)} = OldUpTo(p, q, j)
  BY <1>1, <1>3 DEF OldUpTo
<1>7. ASSUME NEW k \in 1..Len(p)
      PROVE  q[CHOOSE j \in DOMAIN q : kept(j) /\ Cardinality({i \in 1..j : kept(i)}) = k] = p[k]
  <2> DEFINE Q(j) == kept(j) /\ Cardinality({i \in 1..j : kept(i)}) = k
  <2>1. e[k] \in DOMAIN q /\ e[k] \in Old(p, q) /\ Cardinality(OldUpTo(p, q, e[k])) = k /\ q[e[k]] = p[k]
    BY <1>1, <1>2 DEF Embeds
  <2>2. Q(e[k])
    BY <1>3, <1>6, <2>1
  <2>3. ASSUME NEW j \in DOMAIN q, Q(j)
        PROVE  j = e[k]
    <3>1. j \in Old(p, q) /\ Cardinality(OldUpTo(p, q, j)) = k
      BY <1>3, <1>6, <2>3
    <3>2. PICK m \in DOMAIN p : j = e[m]
      BY <1>2, <3>1
    <3> QED BY <1>2, <3>1, <3>2
  <2> HIDE DEF Q
  <2>4. (CHOOSE j \in DOMAIN q : Q(j)) = e[k]
    BY <2>1, <2>2, <2>3
  <2> QED BY <2>1, <2>4 DEF Q
<1>8. WithoutBlocks(q) = [k \in 1..Len(p) |-> p[k]]
  BY <1>4, <1>5, <1>7
<1>9. p = [k \in 1..Len(p) |-> p[k]]
  BY <1>1 DEF Listed
<1> QED BY <1>8, <1>9

-----------------------------------------------------------------------------
(***************************************************************************)
(* What the proxy sends, and what it sends when that comes by again.       *)
(***************************************************************************)
\* The proxy sends the page as it came or with everything inserted.
LEMMA ProxiedIs ==
    ASSUME NEW p, NEW route, Proper(p, route), NEW response, NEW path
    PROVE  LET out == Proxied(p, route, response, path) IN
           \/ out = Start(p)
           \/ /\ out = InjectHtml(p, route, path) /\ Built(p, SortedItems(route), path, 4, out)
              /\ ~(Len(out.page) > route.maxInjectBytes)
<1> DEFINE html == InjectHtml(p, route, path)
           out == Proxied(p, route, response, path)
<1>1. html = Start(p) \/ Built(p, SortedItems(route), path, 4, html)
  BY InjectHtmlIs
<1>2. out = Start(p) \/ (out = html /\ ~(Len(html.page) > route.maxInjectBytes))
  BY DEF Proxied, Start
<1> QED BY <1>1, <1>2

\* Either way, what it sends can be built.
LEMMA ProxiedIsBuilt ==
    ASSUME NEW p, NEW route, Proper(p, route), route.maxInjectBytes \in Int, NEW response, NEW path
    PROVE  LET out == Proxied(p, route, response, path) IN
           /\ \E r : Built(p, SortedItems(route), path, r, out)
           /\ out.applied # {} => Len(out.page) <= route.maxInjectBytes
<1> DEFINE out == Proxied(p, route, response, path)
           items == SortedItems(route)
<1>1. \/ out = Start(p)
      \/ Built(p, items, path, 4, out) /\ ~(Len(out.page) > route.maxInjectBytes)
  BY ProxiedIs
<1>2. Listed(p) /\ Listed(items) /\ UniqueIds(items)
  BY SortedIs DEF Proper
<1> DEFINE Goal == /\ \E r : Built(p, items, path, r, out)
                   /\ out.applied # {} => Len(out.page) <= route.maxInjectBytes
<1> HIDE DEF out, items
<1>3. ASSUME out = Start(p) PROVE Goal
  <2>1. Built(p, items, path, 0, out) /\ out.applied = {}
    BY <1>2, <1>3, BuiltStart DEF Start
  <2> QED BY <2>1
<1>4. ASSUME Built(p, items, path, 4, out), ~(Len(out.page) > route.maxInjectBytes)
      PROVE  Goal
  <2>1. Len(out.page) \in Nat
    BY <1>4, ListedIs DEF Built, Named
  <2>2. Len(out.page) <= route.maxInjectBytes
    BY <1>4, <2>1
  <2> QED BY <1>4, <2>2
<1>5. Goal
  BY <1>1, <1>3, <1>4
<1> QED BY <1>5 DEF out, items

\* And when it comes by again, it is sent as it is.
LEMMA ProxiedAgain ==
    ASSUME NEW p, NEW route, Proper(p, route), NEW response, NEW path
    PROVE  LET out == Proxied(p, route, response, path) IN
           Proxied(out.page, route, response, path).page = out.page
<1> DEFINE out == Proxied(p, route, response, path)
           q == out.page
<1>1. \A x : Start(x).page = x
  BY DEF Start
<1>2. CASE out = Start(p)
  BY <1>1, <1>2
<1>3. CASE Built(p, SortedItems(route), path, 4, out)
  <2>1. Proper(q, route) /\ Handled(SortedItems(route), path, 4, q)
    <3> HIDE DEF out
    <3> QED BY <1>3 DEF Built, Named, Proper
  <2> HIDE DEF q
  <2>2. InjectHtml(q, route, path) = Start(q)
    BY <2>1, InjectHtmlAgain
  <2>3. \/ Proxied(q, route, response, path) = Start(q)
        \/ Proxied(q, route, response, path) = InjectHtml(q, route, path)
    BY DEF Proxied, Start
  <2>4. Proxied(q, route, response, path).page = q
    BY <1>1, <2>2, <2>3
  <2> QED BY <2>4 DEF q
<1> QED BY <1>2, <1>3, ProxiedIs

\* A page on its way
PageInv ==
    kind = "page" =>
        /\ Proper(input.page, input.route) /\ input.route.maxInjectBytes \in Int
        /\ round \in 0..2
        /\ round = 0 => output = Start(input.page)
        /\ round = 1 => output = Proxied(input.page, input.route, input.response, input.path)

\* It holds at first,
LEMMA PageInit == Init => PageInv
<1> SUFFICES ASSUME Init, kind = "page" PROVE PageInv
  BY DEF PageInv
<1>1. PICK k \in DOMAIN PageCases : \E c \in PageCases[k] : Starts("page", c, Start(c.page))
  BY DEF Init, Starts, Start
<1>2. input \in PageCases[k] /\ output = Start(input.page) /\ round = 0
  BY <1>1 DEF Starts
<1>3. Proper(input.page, input.route) /\ input.route.maxInjectBytes \in Int
  BY <1>2, PagesAssumption, Zenon DEF Proper, Listed, Numbered, UniqueIds
<1> QED BY <1>2, <1>3 DEF PageInv

\* after every step,
LEMMA PageNext == PageInv /\ [Next]_vars => PageInv'
<1> SUFFICES ASSUME PageInv, [Next]_vars PROVE PageInv'
  OBVIOUS
<1>1. CASE Pass
  <2>1. /\ kind = "page" /\ round < 2 /\ round' = round + 1 /\ UNCHANGED <<kind, input>>
        /\ output' = Proxied(output.page, input.route, input.response, input.path)
    BY <1>1 DEF Pass
  <2>2. /\ Proper(input.page, input.route) /\ input.route.maxInjectBytes \in Int
        /\ round \in 0..2 /\ (round = 0 => output = Start(input.page))
    BY <2>1 DEF PageInv
  <2>3. round' \in 1..2 /\ (round' = 1 => round = 0)
    BY <2>1, <2>2
  <2>4. round = 0 => output.page = input.page
    BY <2>2 DEF Start
  <2>5. round' = 1 => output' = Proxied(input.page, input.route, input.response, input.path)
    BY <2>1, <2>3, <2>4
  <2>6. /\ Proper(input'.page, input'.route) /\ input'.route.maxInjectBytes \in Int
        /\ round' \in 0..2 /\ round' # 0
        /\ round' = 1 => output' = Proxied(input'.page, input'.route, input'.response, input'.path)
    BY <2>1, <2>2, <2>3, <2>5
  <2> QED BY <2>6 DEF PageInv
<1>2. CASE CheckRoute \/ CheckItem \/ CheckProfile \/ Parse \/ LookUp \/ Load
  <2>1. kind' # "page"
    BY <1>2 DEF CheckRoute, CheckItem, CheckProfile, Check, Parse, LookUp, Load
  <2> QED BY <2>1 DEF PageInv
<1>3. CASE UNCHANGED vars
  BY <1>3 DEF vars, PageInv
<1> QED BY <1>1, <1>2, <1>3 DEF Next

\* The items of the new markers
LEMMA PageIsBuilt ==
    ASSUME PageInv, Passed
    PROVE  LET items == SortedItems(input.route) IN
           /\ \E r : Built(input.page, items, input.path, r, output)
           /\ output.applied # {} => Len(output.page) <= input.route.maxInjectBytes
           /\ NewMarkers = NewIn(input.page, output.page)
           /\ Listed(input.page) /\ Listed(items) /\ UniqueIds(items)
           /\ \A i, j \in DOMAIN items : i < j => Before(items[i], items[j])
           /\ \A i \in DOMAIN items : items[i] \in Range(input.route.items)
           /\ \A x, y \in Range(input.route.items) : x.id = y.id => x = y
<1>1. /\ Proper(input.page, input.route) /\ input.route.maxInjectBytes \in Int
      /\ output = Proxied(input.page, input.route, input.response, input.path)
  BY DEF PageInv, Passed
<1>2. /\ \E r : Built(input.page, SortedItems(input.route), input.path, r, output)
      /\ output.applied # {} => Len(output.page) <= input.route.maxInjectBytes
  BY <1>1, ProxiedIsBuilt
<1>3. /\ Listed(SortedItems(input.route)) /\ UniqueIds(SortedItems(input.route))
      /\ \A i, j \in DOMAIN SortedItems(input.route) :
            i < j => Before(SortedItems(input.route)[i], SortedItems(input.route)[j])
      /\ Range(SortedItems(input.route)) = Range(input.route.items)
  BY <1>1, SortedIs DEF Proper
<1>4. \A i \in DOMAIN SortedItems(input.route) :
         SortedItems(input.route)[i] \in Range(input.route.items)
  BY <1>3 DEF Range
<1>5. \A x, y \in Range(input.route.items) : x.id = y.id => x = y
  BY <1>1 DEF Proper, UniqueIds, Range
<1> QED BY <1>1, <1>2, <1>3, <1>4, <1>5, NewMarkersAre DEF Proper

\* A new marker is that of an item which nothing in the page kept out.
LEMMA NewMarkerIs ==
    ASSUME PageInv, Passed, NEW k \in NewMarkers
    PROVE  LET items == SortedItems(input.route) IN
           \E i \in DOMAIN items : \E m \in 1..4 :
              /\ ItemAt(k) = items[i] /\ output.page[k] = Mark(items[i])
              /\ items[i].location = Locations[m] /\ ~Done(input.page, items[i])
<1> DEFINE items == SortedItems(input.route)
<1>1. PICK r : Built(input.page, items, input.path, r, output)
  BY PageIsBuilt
<1>2. Named(input.page, items, input.path, r, output) /\ k \in NewIn(input.page, output.page) /\ r \in 0..4
  BY <1>1, PageIsBuilt DEF Built, Named
<1>3. PICK i \in DOMAIN items : \E m \in 1..r :
         /\ Suits(items[i], input.path, Locations[m]) /\ ~Done(input.page, items[i])
         /\ output.page[k] = Mark(items[i])
  BY <1>2 DEF Named
<1>4. PICK m \in 1..r : items[i].location = Locations[m]
  BY <1>3 DEF Suits
<1>5. m \in 1..4
  BY <1>2
<1>6. ItemAt(k) = items[i]
  <2>1. items[i] \in Range(input.route.items) /\ items[i].id = output.page[k][2]
    BY <1>3, PageIsBuilt, Marks
  <2>2. \A x \in Range(input.route.items) : x.id = items[i].id => x = items[i]
    BY <2>1, PageIsBuilt
  <2> HIDE DEF items
  <2> QED BY <2>1, <2>2 DEF ItemAt
<1> QED BY <1>3, <1>4, <1>5, <1>6

\* Two of them
LEMMA NewMarkersDiffer ==
    ASSUME PageInv, Passed, NEW j \in NewMarkers, NEW k \in NewMarkers, j < k
    PROVE  LET a == ItemAt(j)
               b == ItemAt(k)
           IN  /\ a.id # b.id /\ output.page[j][2] = a.id /\ output.page[k][2] = b.id
               /\ \/ LocationRank(a) < LocationRank(b)
                  \/ LocationRank(a) = LocationRank(b) /\ Before(a, b)
               /\ Looked(b) => Rendered(a) # b.content
<1> DEFINE items == SortedItems(input.route)
<1>1. PICK x \in DOMAIN items : \E m \in 1..4 :
         /\ ItemAt(j) = items[x] /\ output.page[j] = Mark(items[x]) /\ items[x].location = Locations[m]
  BY NewMarkerIs
<1>2. PICK y \in DOMAIN items : \E m \in 1..4 :
         /\ ItemAt(k) = items[y] /\ output.page[k] = Mark(items[y]) /\ items[y].location = Locations[m]
  BY NewMarkerIs
<1>3. PICK r : Built(input.page, items, input.path, r, output)
  BY PageIsBuilt
<1>4. Sequenced(input.page, items, output.page)
  BY <1>3 DEF Built
<1>5. /\ j \in NewIn(input.page, output.page) /\ k \in NewIn(input.page, output.page)
      /\ UniqueIds(items) /\ DOMAIN items \subseteq Nat
      /\ \A m, n \in DOMAIN items : m < n => Before(items[m], items[n])
  BY PageIsBuilt, ListedIs
<1> HIDE DEF items
<1>6. /\ \/ LocationRank(items[x]) < LocationRank(items[y])
         \/ LocationRank(items[x]) = LocationRank(items[y]) /\ x < y
      /\ Looked(items[y]) => Rendered(items[x]) # items[y].content
  BY <1>1, <1>2, <1>4, <1>5 DEF Sequenced
<1>7. LocationRank(items[x]) \in Nat /\ LocationRank(items[y]) \in Nat
  BY <1>1, <1>2, RankOf
<1>8. x # y
  BY <1>5, <1>6, <1>7
<1>9. items[x].id # items[y].id
  BY <1>5, <1>8 DEF UniqueIds
<1>10. output.page[j][2] = items[x].id /\ output.page[k][2] = items[y].id
  BY <1>1, <1>2, Marks
<1> QED BY <1>1, <1>2, <1>5, <1>6, <1>9, <1>10

\* Positions can be compared.
LEMMA NewMarkersAreNumbers ==
    ASSUME PageInv, Passed
    PROVE  NewMarkers \subseteq Nat
<1>1. PICK r : Built(input.page, SortedItems(input.route), input.path, r, output)
  BY PageIsBuilt
<1>2. DOMAIN output.page \subseteq Nat
  BY <1>1, ListedIs DEF Built, Named
<1> QED BY <1>2 DEF NewMarkers

-----------------------------------------------------------------------------
(***************************************************************************)
(* The theorems.                                                           *)
(***************************************************************************)
\* and so always.
LEMMA PageInvariant == Spec => []PageInv
BY PageInit, PageNext, PTL DEF Spec

\* What the proxy reports as applied is what it inserted, every item once; what
\* was there before is all there and in its order; and nothing else is inserted.
THEOREM PagesInjectedExactly == Spec => []InjectedExactly
<1>1. ASSUME PageInv, Passed
      PROVE  /\ output.applied = {output.page[k][2] : k \in NewMarkers}
             /\ \A j, k \in NewMarkers : output.page[j][2] = output.page[k][2] => j = k
             /\ WithoutBlocks(output.page) = input.page
             /\ Len(output.page) = Len(input.page) + 2 * Cardinality(NewMarkers)
             /\ output.applied # {} => Len(output.page) <= input.route.maxInjectBytes
  <2> DEFINE items == SortedItems(input.route)
             p == input.page
             q == output.page
  <2>1. PICK r : Built(p, items, input.path, r, output)
    BY <1>1, PageIsBuilt
  <2>2. /\ Named(p, items, input.path, r, output) /\ Listed(p) /\ Listed(q)
        /\ NewMarkers = NewIn(p, q)
    BY <1>1, <2>1, PageIsBuilt DEF Built, Named
  <2>3. PICK e : Embeds(e, p, q)
    BY <2>1 DEF Built
  <2>4. output.applied = {q[k][2] : k \in NewIn(p, q)}
    BY <2>2 DEF Named
  <2>5. ASSUME NEW j \in NewMarkers, NEW k \in NewMarkers, q[j][2] = q[k][2]
        PROVE  j = k
    <3>1. j \in Nat /\ k \in Nat
      BY <1>1, NewMarkersAreNumbers
    <3>2. ~(j < k) /\ ~(k < j)
      BY <1>1, <2>5, NewMarkersDiffer
    <3> QED BY <3>1, <3>2
  <2>6. WithoutBlocks(q) = p
    BY <2>2, <2>3, WithoutBlocksIs
  <2>7. Len(q) = Len(p) + 2 * Cardinality(NewIn(p, q))
    <3>1. ASSUME NEW k \in NewIn(p, q)
          PROVE  k + 1 \in DOMAIN q /\ q[k + 1][1] # "marker"
      <4>1. \E i \in DOMAIN items : k + 1 \in DOMAIN q /\ q[k + 1] = Held(items[i])
        BY <2>2 DEF Named
      <4> QED BY <4>1, Marks
    <3> QED BY <2>2, <2>3, <3>1, NewIsTwice
  <2>8. output.applied # {} => Len(q) <= input.route.maxInjectBytes
    BY <1>1, PageIsBuilt
  <2>9. output.applied = {q[k][2] : k \in NewMarkers}
    BY <2>2, <2>4
  <2>10. Len(q) = Len(p) + 2 * Cardinality(NewMarkers)
    BY <2>2, <2>7
  <2> QED BY <2>5, <2>6, <2>8, <2>9, <2>10
<1>2. PageInv => InjectedExactly
  BY <1>1 DEF InjectedExactly
<1> QED BY <1>2, PageInvariant, PTL

\* The blocks stand in the page in the order of their locations and, in one
\* location, of priority and id, wherever the tags are.
THEOREM BlocksInOrder == Spec => []InOrder
<1>1. PageInv => InOrder
  BY NewMarkersDiffer DEF InOrder
<1> QED BY <1>1, PageInvariant, PTL

\* Nothing is inserted that the page holds as it was configured, and a script
\* that escaping leaves as it is is not inserted twice, not even by two items
\* at any two locations.
THEOREM ScriptsLoadedOnce == Spec => []ScriptOnce
<1>1. ASSUME PageInv, Passed, NEW j \in NewMarkers, NEW k \in NewMarkers, Looked(ItemAt(j))
      PROVE  /\ ~Has(input.page, <<"content", ItemAt(j).content>>)
             /\ /\ Looked(ItemAt(k)) /\ ItemAt(j).content = ItemAt(k).content
                /\ Verbatim(ItemAt(j)) /\ Verbatim(ItemAt(k))
                => j = k
  <2>1. ~Done(input.page, ItemAt(j))
    BY <1>1, NewMarkerIs
  <2>2. ~Has(input.page, <<"content", ItemAt(j).content>>)
    BY <1>1, <2>1 DEF Done, Sought
  <2>3. ASSUME Looked(ItemAt(k)), ItemAt(j).content = ItemAt(k).content,
               Verbatim(ItemAt(j)), Verbatim(ItemAt(k))
        PROVE  j = k
    <3>1. j \in Nat /\ k \in Nat
      BY <1>1, NewMarkersAreNumbers
    <3>2. Rendered(ItemAt(j)) = ItemAt(k).content /\ Rendered(ItemAt(k)) = ItemAt(j).content
      BY <2>3 DEF Verbatim
    <3>3. ~(j < k) /\ ~(k < j)
      BY <1>1, <2>3, <3>2, NewMarkersDiffer
    <3> QED BY <3>1, <3>3
  <2> QED BY <2>2, <2>3
<1>2. PageInv => ScriptOnce
  BY <1>1 DEF ScriptOnce
<1> QED BY <1>2, PageInvariant, PTL

\* A page that comes by a second time is left as it is.
THEOREM SecondPassChangesNothing == Spec => InjectedOnce
<1>1. ASSUME PageInv, [Next]_vars
      PROVE  [kind = "page" /\ round = 1 => output'.page = output.page]_vars
  <2> SUFFICES ASSUME kind = "page", round = 1, ~ UNCHANGED vars
               PROVE  output'.page = output.page
    OBVIOUS
  <2>1. Pass
    BY <1>1 DEF Next, CheckRoute, CheckItem, CheckProfile, Check, Parse, LookUp, Load
  <2>2. /\ output' = Proxied(output.page, input.route, input.response, input.path)
        /\ output = Proxied(input.page, input.route, input.response, input.path)
        /\ Proper(input.page, input.route)
    BY <1>1, <2>1 DEF Pass, PageInv
  <2> QED BY <2>2, ProxiedAgain
<1> QED BY <1>1, PageInvariant, PTL DEF Spec, InjectedOnce

\* The preview of the administration page shows what the proxy would send, for
\* every page the preview accepts.
THEOREM PreviewShowsTheTruth == Spec => []PreviewAgrees
<1>1. ASSUME PageInv, Passed, Len(input.page) <= input.route.maxInjectBytes
      PROVE  Preview(input.page, input.route, input.response, input.path) = output
  <2> DEFINE html == InjectHtml(input.page, input.route, input.path)
  <2>1. /\ Proper(input.page, input.route) /\ input.route.maxInjectBytes \in Int
        /\ output = Proxied(input.page, input.route, input.response, input.path)
    BY <1>1 DEF PageInv, Passed
  <2>2. html.applied = {} => html = Start(input.page)
    BY <2>1, InjectHtmlIs DEF Built
  <2>3. ~(Len(input.page) > input.route.maxInjectBytes)
    <3>1. Len(input.page) \in Nat
      BY <2>1, ListedIs DEF Proper
    <3> QED BY <1>1, <2>1, <3>1
  <2> HIDE DEF html
  <2> QED BY <2>1, <2>2, <2>3 DEF Preview, Proxied, Start, html
<1>2. PageInv => PreviewAgrees
  BY <1>1 DEF PreviewAgrees
<1> QED BY <1>2, PageInvariant, PTL
=============================================================================
