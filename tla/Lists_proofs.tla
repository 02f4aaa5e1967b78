---------------------------- MODULE Lists_proofs ----------------------------
(***************************************************************************)
(* Proofs about the lists and the page that shows one: whatever is         *)
(* written, deleted, asked for or answered late, a page that has loaded    *)
(* all shows what it should, and nothing twice.                            *)
(*                                                                         *)
(* A cursor splits the rows into those it leaves behind and those that     *)
(* come.  Sound says that an answer is what lies between two cursors, and  *)
(* that the page shows what its own cursor leaves behind.                  *)
(***************************************************************************)
EXTENDS Lists, FiniteSetTheorems, TLAPS

-----------------------------------------------------------------------------
IdsOf(table) == {r.id : r \in table}

\* the order of a list, and the rows that a cursor leaves behind
InOrder(list, a, b) == IF list = "members" THEN Before(a, b) ELSE After(a, b)
Passed(list, r, cursor) ==
  cursor = End \/ (cursor # Top /\ ~ InOrder(list, decodeCursor(cursor), r))

CursorsOf(table) == {encodeCursor(r) : r \in table}

\* an answer to a request that had a cursor: its rows come after the cursor, each is
\* another, and its own cursor leaves them behind
IsPage(list, table, answer, cursor) ==
  /\ answer.next \in {End} \cup CursorsOf(table)
  /\ answer.next # End /\ cursor # Top =>
       InOrder(list, decodeCursor(cursor), decodeCursor(answer.next))
  /\ \A i, j \in DOMAIN answer.rows : i # j => answer.rows[i].id # answer.rows[j].id
  /\ \A i \in DOMAIN answer.rows : /\ ~ Passed(list, answer.rows[i], cursor)
                                   /\ Passed(list, answer.rows[i], answer.next)

\* none of these rows is between the two cursors and not in the answer, but for those
\* that are gone and those of others
Covers(list, gone, table, answer, cursor) ==
  \A r \in table :
    \/ r.id \in gone \/ (list = "mine" /\ ~ r.mine)
    \/ Passed(list, r, cursor) \/ ~ Passed(list, r, answer.next)
    \/ \E i \in DOMAIN answer.rows : answer.rows[i] = r

\* a request for more of what the page shows
IsMore(q) == q.state \in {"sent", "answered"} /\ q.cursor # Top /\ ~ q.stale

Answer(table) == [rows : Seq(table), next : {End} \cup CursorsOf(table)]

Request(table) ==
  [state : {"none", "sent", "answered", "delete", "deleted"},
   cursor : {Top} \cup CursorsOf(table), stale : BOOLEAN, id : Ids \cup {-1},
   answer : Answer(table), base : SUBSET table]

Typed ==
  /\ kind \in AllKinds
  /\ now \in 0..MaxTime /\ begun \in [Writers -> 0..now \cup {NotOpen}]
  /\ rows \subseteq [id : Ids, at : 0..now, mine : BOOLEAN]
  /\ \A a, b \in rows : a.id = b.id => a = b
  /\ removed \subseteq IdsOf(rows) /\ base \subseteq rows
  /\ shown \in Seq(IdsOf(rows))
  /\ next \in {End} \cup CursorsOf(rows)
  /\ requests \in [Fetches -> Request(rows)]
  /\ crossed \in BOOLEAN /\ hurried \in BOOLEAN
  /\ \A s \in Fetches :
       /\ Len(requests[s].answer.rows) <= Limit
       /\ requests[s].state = "delete" => requests[s].id \in IdsOf(rows)
       /\ requests[s].state = "deleted" => requests[s].id \in removed

\* what is answered is a page, of the rows there were when its top was read if it is to
\* be a new top, and of those there were under the top on the page if it is more
Answers ==
  \A s \in Fetches : requests[s].state = "answered" =>
    LET q == requests[s] IN
    /\ IsPage(kind, rows, q.answer, q.cursor)
    /\ q.cursor = Top => Covers(kind, removed, q.base, q.answer, q.cursor)
    /\ IsMore(q) => Covers(kind, removed, base, q.answer, q.cursor)

\* the page shows what its cursor leaves behind, and the cursors it has asked with
Gapless ==
  ~ crossed =>
    /\ \A r \in Listed : Passed(kind, r, next) => r.id \in ToSet(shown)
    /\ \A s \in Fetches : IsMore(requests[s]) =>
         \A r \in Listed : Passed(kind, r, requests[s].cursor) => r.id \in ToSet(shown)

\* ... and nothing else; only one request for more is under way, and it is with the cursor
Single ==
  ~ crossed /\ ~ hurried =>
    /\ IsInjective(shown)
    /\ \A r \in rows : r.id \in ToSet(shown) => Passed(kind, r, next)
    /\ \A s \in Fetches : IsMore(requests[s]) => requests[s].cursor = next
    /\ \A s, q \in Fetches : IsMore(requests[s]) /\ IsMore(requests[q]) => s = q

Sound == Typed /\ Answers /\ Gapless /\ Single

-----------------------------------------------------------------------------
(* A finite set whose elements are ordered by a strict total order, given  *)
(* as the set of its pairs, can be enumerated in that order: an element's  *)
(* place is the number of those before it, and itself.                     *)
LEMMA SortedExists ==
  ASSUME NEW T, IsFiniteSet(T), NEW R,
         \A a \in T : <<a, a>> \notin R,
         \A a, b \in T : a # b => <<a, b>> \in R \/ <<b, a>> \in R,
         \A a, b, c \in T : <<a, b>> \in R /\ <<b, c>> \in R => <<a, c>> \in R
  PROVE  \E s \in SetToSeqs(T) : \A i, j \in DOMAIN s : i < j => <<s[j], s[i]>> \notin R
<1> DEFINE N == Cardinality(T)
           Upto(x) == {y \in T : y = x \/ <<y, x>> \in R}
           place == [x \in T |-> Cardinality(Upto(x))]
<1>1. N \in Nat
  BY FS_CardinalityType
<1>2. \A x \in T : /\ IsFiniteSet(Upto(x)) /\ Upto(x) \in SUBSET T /\ x \in Upto(x)
                   /\ place[x] \in 1..N
  <2>1. TAKE x \in T
  <2>2. Upto(x) \in SUBSET T /\ x \in Upto(x)
    OBVIOUS
  <2>3. IsFiniteSet(Upto(x)) /\ Cardinality(Upto(x)) <= N
    BY <2>2, FS_Subset
  <2>4. Cardinality(Upto(x)) \in Nat /\ Cardinality(Upto(x)) # 0
    BY <2>2, <2>3, FS_CardinalityType, FS_EmptySet
  <2> QED BY <1>1, <2>2, <2>3, <2>4
<1>3. \A x, y \in T : <<x, y>> \in R => place[x] < place[y]
  <2>1. SUFFICES ASSUME NEW x \in T, NEW y \in T, <<x, y>> \in R  PROVE  place[x] < place[y]
    OBVIOUS
  <2>2. Upto(x) \in SUBSET Upto(y)
    BY <2>1
  <2>3. y \in Upto(y) /\ y \notin Upto(x)
    BY <2>1
  <2>4. Cardinality(Upto(x)) <= Cardinality(Upto(y)) /\ Cardinality(Upto(x)) # Cardinality(Upto(y))
    <3> HIDE DEF Upto
    <3>1. IsFiniteSet(Upto(y)) /\ Upto(x) # Upto(y)
      BY <1>2, <2>3
    <3>2. ASSUME NEW A, NEW B, IsFiniteSet(B), A \in SUBSET B, A # B
          PROVE  Cardinality(A) <= Cardinality(B) /\ Cardinality(A) # Cardinality(B)
      BY <3>2, FS_Subset, Zenon
    <3> QED BY <2>2, <3>1, <3>2
  <2>5. place[x] = Cardinality(Upto(x)) /\ place[y] = Cardinality(Upto(y))
    OBVIOUS
  <2>6. place[x] \in 1..N /\ place[y] \in 1..N
    BY <1>2
  <2> HIDE DEF place, Upto, N
  <2> QED BY <1>1, <2>4, <2>5, <2>6
<1> HIDE DEF Upto
<1>4. place \in [T -> 1..N]
  BY <1>2
<1> HIDE DEF place
<1>5. \A x, y \in T : place[x] = place[y] => x = y
  <2>1. SUFFICES ASSUME NEW x \in T, NEW y \in T, place[x] = place[y], x # y  PROVE  FALSE
    OBVIOUS
  <2>2. place[x] < place[y] \/ place[y] < place[x]
    BY <1>3, <2>1
  <2> QED BY <1>1, <1>4, <2>1, <2>2
<1>6. place \in Injection(T, 1..N)
  BY <1>4, <1>5 DEF Injection, IsInjective
<1>7. IsFiniteSet(1..N) /\ Cardinality(1..N) = N
  BY <1>1, FS_Interval
<1>8. place \in Surjection(T, 1..N)
  BY <1>6, <1>7, FS_Injection
<1>9. \A i \in 1..N : \E x \in T : place[x] = i
  BY <1>8 DEF Surjection
<1> DEFINE s == [i \in 1..N |-> CHOOSE x \in T : place[x] = i]
<1>10. \A i \in 1..N : s[i] \in T /\ place[s[i]] = i
  BY <1>9
<1>11. s \in [1..N -> T] /\ DOMAIN s = 1..N
  BY <1>10
<1> HIDE DEF s
<1>12. s \in SetToSeqs(T)
  BY <1>10, <1>11 DEF SetToSeqs
<1>13. ASSUME NEW i \in 1..N, NEW j \in 1..N, i < j, <<s[j], s[i]>> \in R  PROVE  FALSE
  <2>1. place[s[j]] < place[s[i]]
    BY <1>3, <1>10, <1>13
  <2> QED BY <1>1, <1>10, <1>13, <2>1
<1> WITNESS s \in SetToSeqs(T)
<1> QED BY <1>11, <1>13

\* a sequence of a set's elements has each of them once
LEMMA EnumerationsAreOnto ==
  ASSUME NEW T, IsFiniteSet(T), NEW s \in SetToSeqs(T)
  PROVE  /\ Cardinality(T) \in Nat /\ s \in [1..Cardinality(T) -> T]
         /\ s \in Seq(T) /\ Len(s) = Cardinality(T) /\ DOMAIN s = 1..Cardinality(T)
         /\ \A i, j \in DOMAIN s : i # j => s[i] # s[j]
         /\ \A x \in T : \E i \in DOMAIN s : s[i] = x
<1> DEFINE n == Cardinality(T)
<1>1. n \in Nat
  BY FS_CardinalityType
<1>2. s \in [1..n -> T] /\ \A i, j \in 1..n : i # j => s[i] # s[j]
  BY DEF SetToSeqs
<1>3. \A x \in T : \E i \in 1..n : s[i] = x
  <2>1. s \in Injection(1..n, T)
    BY <1>2 DEF Injection, IsInjective
  <2>2. IsFiniteSet(1..n) /\ Cardinality(1..n) = n
    BY <1>1, FS_Interval
  <2>3. s \in Surjection(1..n, T)
    BY <2>1, <2>2, FS_Injection
  <2> QED BY <2>3 DEF Surjection
<1> HIDE DEF n
<1>4. s \in Seq(T) /\ Len(s) = n /\ DOMAIN s = 1..n
  BY <1>1, <1>2
<1> QED BY <1>1, <1>2, <1>3, <1>4 DEF n

\* what a list is ordered by: it is of rows that are told apart by their ids
Told(T) == /\ IsFiniteSet(T)
           /\ \A r \in T : r.at \in Int /\ r.id \in Int
           /\ \A a, b \in T : a.id = b.id => a = b

\* so ORDER BY has a result, in either direction
LEMMA ListsAreOrdered ==
  ASSUME NEW T, Told(T)
  PROVE  /\ Ordered(T, Before) \in SetToSeqs(T)
         /\ \A i, j \in DOMAIN Ordered(T, Before) :
              i < j => ~ Before(Ordered(T, Before)[j], Ordered(T, Before)[i])
         /\ Ordered(T, After) \in SetToSeqs(T)
         /\ \A i, j \in DOMAIN Ordered(T, After) :
              i < j => ~ After(Ordered(T, After)[j], Ordered(T, After)[i])
<1> DEFINE R == {p \in T \X T : Before(p[1], p[2])}
           Q == {p \in T \X T : After(p[1], p[2])}
<1>1. \A a, b \in T : (<<a, b>> \in R <=> Before(a, b)) /\ (<<a, b>> \in Q <=> After(a, b))
  OBVIOUS
<1>2. \A a \in T : ~ Before(a, a) /\ ~ After(a, a)
  BY DEF Told, Before, After
<1>3. \A a, b \in T : a # b => Before(a, b) \/ Before(b, a)
  BY DEF Told, Before
<1>4. \A a, b, c \in T : Before(a, b) /\ Before(b, c) => Before(a, c)
  BY DEF Told, Before
<1>5. \A a, b \in T : After(a, b) <=> Before(b, a)
  BY DEF After
<1>6. IsFiniteSet(T)
  BY DEF Told
<1> HIDE DEF R, Q
<1>7. \E s \in SetToSeqs(T) : \A i, j \in DOMAIN s : i < j => <<s[j], s[i]>> \notin R
  BY <1>1, <1>2, <1>3, <1>4, <1>6, SortedExists
<1>8. \E s \in SetToSeqs(T) : \A i, j \in DOMAIN s : i < j => <<s[j], s[i]>> \notin Q
  <2>1. \A a \in T : <<a, a>> \notin Q
    BY <1>1, <1>2
  <2>2. \A a, b \in T : a # b => <<a, b>> \in Q \/ <<b, a>> \in Q
    BY <1>1, <1>3, <1>5
  <2>3. \A a, b, c \in T : <<a, b>> \in Q /\ <<b, c>> \in Q => <<a, c>> \in Q
    BY <1>1, <1>4, <1>5
  <2> QED BY <1>6, <2>1, <2>2, <2>3, SortedExists
<1>9. \A s \in SetToSeqs(T) : \A i \in DOMAIN s : s[i] \in T
  BY DEF SetToSeqs
<1>10. \E s \in SetToSeqs(T) : \A i, j \in DOMAIN s : i < j => ~ Before(s[j], s[i])
  BY <1>1, <1>7, <1>9
<1>11. \E s \in SetToSeqs(T) : \A i, j \in DOMAIN s : i < j => ~ After(s[j], s[i])
  BY <1>1, <1>8, <1>9
<1>12. /\ Ordered(T, Before) \in SetToSeqs(T)
       /\ \A i, j \in DOMAIN Ordered(T, Before) :
            i < j => ~ Before(Ordered(T, Before)[j], Ordered(T, Before)[i])
  BY <1>10 DEF Ordered
<1>13. /\ Ordered(T, After) \in SetToSeqs(T)
       /\ \A i, j \in DOMAIN Ordered(T, After) :
            i < j => ~ After(Ordered(T, After)[j], Ordered(T, After)[i])
  BY <1>11 DEF Ordered
<1> QED BY <1>12, <1>13

\* and so have the indices that a filter keeps
LEMMA FilterKeepsOrder ==
  ASSUME NEW T \in SUBSET Nat, IsFiniteSet(T)
  PROVE  /\ Ordered(T, <) \in SetToSeqs(T)
         /\ \A i, j \in DOMAIN Ordered(T, <) : i < j => ~ Ordered(T, <)[j] < Ordered(T, <)[i]
<1> DEFINE R == {p \in T \X T : p[1] < p[2]}
<1>1. \A a, b \in T : <<a, b>> \in R <=> a < b
  OBVIOUS
<1>2. \A a \in T : <<a, a>> \notin R
  BY <1>1
<1>3. \A a, b \in T : a # b => <<a, b>> \in R \/ <<b, a>> \in R
  BY <1>1
<1>4. \A a, b, c \in T : <<a, b>> \in R /\ <<b, c>> \in R => <<a, c>> \in R
  BY <1>1
<1> HIDE DEF R
<1>5. \E s \in SetToSeqs(T) : \A i, j \in DOMAIN s : i < j => <<s[j], s[i]>> \notin R
  BY <1>2, <1>3, <1>4, SortedExists
<1>6. \A s \in SetToSeqs(T) : \A i \in DOMAIN s : s[i] \in T
  BY DEF SetToSeqs
<1>7. \E s \in SetToSeqs(T) : \A i, j \in DOMAIN s : i < j => ~ s[j] < s[i]
  BY <1>1, <1>5, <1>6
<1> QED BY <1>7, Zenon DEF Ordered

-----------------------------------------------------------------------------
USE DEF NotOpen, Top, End, NoAnswer, NoRequest

(* A cursor, taken apart into milliseconds and microseconds and put        *)
(* together again, is where its row is: nothing is lost.                   *)
LEMMA CursorsRoundTrip ==
  ASSUME NEW r, r.at \in Nat, r.id \in Int
  PROVE  /\ decodeCursor(encodeCursor(r)).at = r.at
         /\ decodeCursor(encodeCursor(r)).id = r.id
         /\ encodeCursor(r).id = r.id
<1> DEFINE M == MicrosPerMilli
<1>1. M \in Nat \ {0}
  BY NumbersAssumption
<1> HIDE DEF M
<1>2. ((r.at \div M) * M) + (r.at % M) = r.at
  BY <1>1
<1>3. ((r.at \div MicrosPerMilli) * MicrosPerMilli) + (r.at % MicrosPerMilli) = r.at
  BY <1>2 DEF M
<1> QED BY <1>3 DEF decodeCursor, encodeCursor

\* something with a place in a list: a row, or a cursor that has been decoded
Placed(r) == r.at \in Int /\ r.id \in Int

\* rows and cursors are in a strict total order
LEMMA InOrderIsStrict ==
  ASSUME NEW list
  PROVE  /\ \A a : Placed(a) => ~ InOrder(list, a, a)
         /\ \A a, b : Placed(a) /\ Placed(b) /\ a.id # b.id => InOrder(list, a, b) \/ InOrder(list, b, a)
         /\ \A a, b, c : Placed(a) /\ Placed(b) /\ Placed(c) /\ InOrder(list, a, b) /\ InOrder(list, b, c)
                           => InOrder(list, a, c)
BY DEF Placed, InOrder, Before, After

\* a query of a list whose rows are "all": it looks at the table, after the cursor, in order
Queried(list, gone, all, table, cursor, found) ==
  /\ Told(all) /\ \A r \in all : r.at \in Nat /\ r.id \in Nat
  /\ table \subseteq all
  /\ \A r \in all : r \in table \/ r.id \in gone \/ (list = "mine" /\ ~ r.mine)
  /\ cursor # End /\ (cursor # Top => Placed(decodeCursor(cursor)))
  /\ found \in SetToSeqs({r \in table : cursor = Top \/ InOrder(list, decodeCursor(cursor), r)})
  /\ \A i, j \in DOMAIN found : i < j => ~ InOrder(list, found[j], found[i])

(* What is made of a query is a page of the list that covers it.           *)
LEMMA PagesPartition ==
  ASSUME NEW list, NEW gone, NEW all, NEW table, NEW cursor, NEW s,
         Queried(list, gone, all, table, cursor, s),
         NEW a, a = Trim(FirstOf(s))
  PROVE  /\ a \in Answer(all) /\ Len(a.rows) <= Limit
         /\ IsPage(list, all, a, cursor)
         /\ Covers(list, gone, all, a, cursor)
<1> DEFINE T == {r \in table : cursor = Top \/ InOrder(list, decodeCursor(cursor), r)}
<1>1. /\ Told(all) /\ (\A r \in all : r.at \in Nat /\ r.id \in Nat)
      /\ table \subseteq all
      /\ (\A r \in all : r \in table \/ r.id \in gone \/ (list = "mine" /\ ~ r.mine))
  BY DEF Queried
<1>2. cursor # End /\ (cursor # Top => Placed(decodeCursor(cursor)))
  BY DEF Queried
<1>3. /\ s \in SetToSeqs(T) /\ T \in SUBSET table
      /\ (\A r \in table : r \in T <=> cursor = Top \/ InOrder(list, decodeCursor(cursor), r))
      /\ (\A i, j \in DOMAIN s : i < j => ~ InOrder(list, s[j], s[i]))
  BY DEF Queried
<1>4. IsFiniteSet(table) /\ Told(table) /\ \A r \in table : r.at \in Nat /\ r.id \in Nat
  BY <1>1, FS_Subset DEF Told
<1> HIDE DEF T
<1> DEFINE n == Cardinality(T)
<1>5. IsFiniteSet(T) /\ T \in SUBSET table
  BY <1>3, <1>4, FS_Subset
<1>6. n \in Nat /\ Limit \in Nat \ {0}
  BY <1>5, FS_CardinalityType, NumbersAssumption
<1>7. s \in [1..n -> T] /\ \A i, j \in 1..n : i # j => s[i] # s[j]
  BY <1>3, <1>5, EnumerationsAreOnto
<1>8. \A r \in T : \E i \in 1..n : s[i] = r
  BY <1>3, <1>5, EnumerationsAreOnto
<1>9. s \in Seq(T) /\ Len(s) = n /\ DOMAIN s = 1..n
  BY <1>3, <1>5, EnumerationsAreOnto
<1>10. \A r \in table : Placed(r) /\ (r \in T <=> ~ Passed(list, r, cursor))
  BY <1>2, <1>3, <1>4 DEF Placed, Passed
<1>11. \A q \in T : encodeCursor(q) # End /\ encodeCursor(q) # Top
  <2>1. \A q \in T : encodeCursor(q).id = q.id /\ q.id \in Nat
    BY <1>4, <1>5, CursorsRoundTrip
  <2> QED BY <2>1
<1>12. \A q \in T, r \in table : Passed(list, r, encodeCursor(q)) <=> ~ InOrder(list, q, r)
  <2>1. TAKE q \in T, r \in table
  <2>2. q.at \in Nat /\ q.id \in Int
    BY <1>4, <1>5
  <2>3. decodeCursor(encodeCursor(q)).at = q.at /\ decodeCursor(encodeCursor(q)).id = q.id
    BY <2>2, CursorsRoundTrip
  <2> QED BY <1>11, <2>3 DEF Passed, InOrder, Before, After
<1>13. \A q \in T : InOrder(list, decodeCursor(cursor), q) =>
                     InOrder(list, decodeCursor(cursor), decodeCursor(encodeCursor(q)))
  <2>1. TAKE q \in T
  <2>2. q.at \in Nat /\ q.id \in Int
    BY <1>4, <1>5
  <2>3. decodeCursor(encodeCursor(q)).at = q.at /\ decodeCursor(encodeCursor(q)).id = q.id
    BY <2>2, CursorsRoundTrip
  <2> QED BY <2>3 DEF InOrder, Before, After
<1>14. \A q \in T : cursor # Top => InOrder(list, decodeCursor(cursor), q)
  BY <1>3, <1>5
<1>15. \A i, j \in 1..n : i # j => s[i].id # s[j].id
  BY <1>4, <1>5, <1>7 DEF Told
<1> HIDE DEF n
<1>16. CASE n <= Limit
  <2>1. FirstOf(s) = SubSeq(s, 1, n)
    BY <1>6, <1>9, <1>16 DEF FirstOf
  <2>2. SubSeq(s, 1, n) = s
    BY <1>6, <1>9
  <2>3. a = [rows |-> s, next |-> End]
    BY <1>6, <1>9, <1>16, <2>1, <2>2 DEF Trim
  <2>4. a.rows = s /\ a.next = End
    BY <2>3
  <2>5. \A r \in table : Passed(list, r, a.next)
    BY <2>4 DEF Passed
  <2>6. s \in Seq(table)
    BY <1>5, <1>9
  <2>7. IsPage(list, all, a, cursor)
    BY <1>1, <1>5, <1>7, <1>9, <1>10, <1>15, <2>4, <2>5 DEF IsPage
  <2>8. Covers(list, gone, all, a, cursor)
    BY <1>1, <1>8, <1>9, <1>10, <2>4 DEF Covers
  <2>9. s \in Seq(all) /\ Len(s) <= Limit
    BY <1>1, <1>6, <1>9, <1>16, <2>6
  <2>10. a \in Answer(all)
    BY <2>3, <2>9 DEF Answer
  <2> QED BY <2>4, <2>7, <2>8, <2>9, <2>10
<1>17. CASE n > Limit
  <2> DEFINE p == [i \in 1..Limit |-> s[i]]
  <2>1. FirstOf(s) = SubSeq(s, 1, Limit + 1)
    BY <1>6, <1>9, <1>17 DEF FirstOf
  <2>2. /\ Len(FirstOf(s)) = Limit + 1 /\ FirstOf(s) \in Seq(T)
        /\ \A i \in 1..Limit + 1 : FirstOf(s)[i] = s[i]
    BY <1>6, <1>9, <1>17, <2>1
  <2>3. SubSeq(FirstOf(s), 1, Limit) = p
    BY <1>6, <2>2
  <2>4. a = [rows |-> p, next |-> encodeCursor(s[Limit])]
    <3>1. Len(FirstOf(s)) > Limit /\ FirstOf(s)[Limit] = s[Limit]
      BY <1>6, <2>2
    <3> QED BY <2>3, <3>1 DEF Trim
  <2>5. a.rows = p /\ a.next = encodeCursor(s[Limit]) /\ DOMAIN a.rows = 1..Limit
    BY <2>4
  <2>6. p \in [1..Limit -> table] /\ p \in Seq(table) /\ Len(p) = Limit
    BY <1>5, <1>6, <1>7, <1>17
  <2>7. s[Limit] \in T /\ s[Limit] \in table
    BY <1>5, <1>6, <1>7, <1>17
  <2>8. \A i \in 1..Limit : a.rows[i] = s[i] /\ i \in 1..n
    BY <1>6, <1>17, <2>5
  <2> HIDE DEF p
  <2>9. \A i \in 1..Limit : ~ InOrder(list, s[Limit], s[i])
    <3>1. TAKE i \in 1..Limit
    <3>2. CASE i = Limit
      BY <1>10, <2>7, <3>2, InOrderIsStrict
    <3>3. CASE i < Limit
      BY <1>3, <1>6, <1>9, <1>17, <3>3
    <3> QED BY <1>6, <3>2, <3>3
  <2>10. \A i \in 1..Limit : ~ Passed(list, a.rows[i], cursor) /\ Passed(list, a.rows[i], a.next)
    <3>1. TAKE i \in 1..Limit
    <3>2. s[i] \in T /\ s[i] \in table
      BY <1>5, <1>7, <2>8
    <3> QED BY <1>10, <1>12, <2>5, <2>7, <2>8, <2>9, <3>2
  <2>11. ASSUME NEW r \in table, ~ Passed(list, r, cursor), Passed(list, r, a.next)
         PROVE  \E i \in DOMAIN a.rows : a.rows[i] = r
    <3>1. r \in T
      BY <1>10, <2>11
    <3>2. PICK k \in 1..n : s[k] = r
      BY <1>8, <3>1
    <3>3. ASSUME k > Limit  PROVE  FALSE
      <4>1. ~ InOrder(list, s[k], s[Limit]) /\ s[k].id # s[Limit].id
        <5>1. k \in 1..n /\ Limit \in 1..n /\ Limit < k /\ k # Limit
          BY <1>6, <1>17, <3>3
        <5>2. k \in DOMAIN s /\ Limit \in DOMAIN s
          BY <1>9, <5>1
        <5>3. ~ InOrder(list, s[k], s[Limit])
          BY <1>3, <5>1, <5>2
        <5>4. s[k].id # s[Limit].id
          BY <1>15, <5>1
        <5> QED BY <5>3, <5>4
      <4>2. InOrder(list, s[Limit], s[k])
        BY <1>5, <1>7, <1>10, <2>7, <4>1, InOrderIsStrict
      <4> QED BY <1>12, <2>5, <2>7, <2>11, <3>2, <4>2
    <3> QED BY <1>6, <2>5, <2>8, <3>2, <3>3
  <2>12. a.next # End /\ cursor # Top => InOrder(list, decodeCursor(cursor), decodeCursor(a.next))
    BY <1>13, <1>14, <2>5, <2>7
  <2>13. \A i, j \in 1..Limit : i # j => a.rows[i].id # a.rows[j].id
    BY <1>15, <2>8
  <2>14. a.next \in {End} \cup CursorsOf(all)
    BY <1>1, <2>5, <2>7 DEF CursorsOf
  <2>15. p \in Seq(all)
    BY <1>1, <2>6
  <2>16. a \in Answer(all) /\ Len(a.rows) <= Limit
    BY <1>6, <2>4, <2>5, <2>6, <2>14, <2>15 DEF Answer
  <2>17. IsPage(list, all, a, cursor)
    BY <2>5, <2>10, <2>12, <2>13, <2>14 DEF IsPage
  <2>18. Covers(list, gone, all, a, cursor)
    BY <1>1, <2>11 DEF Covers
  <2> QED BY <2>16, <2>17, <2>18
<1> QED BY <1>6, <1>16, <1>17

-----------------------------------------------------------------------------
\* the rows of the database can be put in order: a table is finite, and its ids differ
LEMMA RowsAreTold ==
  ASSUME Typed
  PROVE  /\ Told(rows) /\ \A r \in rows : r.at \in Nat /\ r.id \in Nat /\ r.id \in Ids
         /\ \A table \in SUBSET rows : Told(table)
<1>1. \A r \in rows : r.at \in Nat /\ r.id \in Nat /\ r.id \in Ids
  <2>1. now \in Nat
    BY NumbersAssumption DEF Typed
  <2>2. \A r \in rows : r.at \in 0..now /\ r.id \in Ids
    BY DEF Typed
  <2>3. Ids \subseteq Nat
    BY IdsAssumption
  <2> HIDE DEF Typed
  <2>4. \A n \in 0..now : n \in Nat
    BY <2>1
  <2> QED BY <2>2, <2>3, <2>4
<1>2. IsFiniteSet(rows)
  <2> DEFINE f == [r \in rows |-> r.id]
  <2>1. f \in [rows -> Ids]
    BY <1>1
  <2>2. \A a, b \in rows : f[a] = f[b] => a = b
    BY DEF Typed
  <2> HIDE DEF f
  <2>3. f \in Injection(rows, Ids)
    BY <2>1, <2>2 DEF Injection, IsInjective
  <2> QED BY <2>3, FS_Injection, IdsAssumption
<1>3. \A table \in SUBSET rows : Told(table)
  <2>1. TAKE table \in SUBSET rows
  <2>2. IsFiniteSet(table)
    BY <1>2, FS_Subset
  <2> QED BY <1>1, <2>2 DEF Told, Typed
<1> QED BY <1>1, <1>3

\* a cursor that is not one of the marks is where a row is
LEMMA CursorsArePlaced ==
  ASSUME Typed, NEW cursor \in CursorsOf(rows)
  PROVE  /\ Placed(decodeCursor(cursor)) /\ cursor # Top /\ cursor # End
         /\ cursor \in Cursors
<1>1. PICK r \in rows : cursor = encodeCursor(r)
  BY DEF CursorsOf
<1>2. r.at \in Nat /\ r.id \in Nat /\ r.id \in Ids /\ r.at <= MaxTime
  <2>1. r.at \in 0..now /\ now \in 0..MaxTime
    BY DEF Typed
  <2> QED BY <2>1, RowsAreTold, NumbersAssumption
<1>3. decodeCursor(cursor).at = r.at /\ decodeCursor(cursor).id = r.id /\ cursor.id = r.id
  BY <1>1, <1>2, CursorsRoundTrip
<1>4. cursor \in Cursors
  <2> DEFINE M == MicrosPerMilli
  <2>1. M \in Nat \ {0} /\ MaxTime \in Nat
    BY NumbersAssumption
  <2> HIDE DEF M
  <2>2. r.at \div M \in 0..MaxTime /\ r.at % M \in 0..(M - 1)
    BY <1>2, <2>1
  <2>3. cursor = [milli |-> r.at \div M, micro |-> r.at % M, id |-> r.id]
    BY <1>1 DEF encodeCursor, M
  <2> QED BY <1>2, <2>2, <2>3 DEF Cursors, M
<1> QED BY <1>2, <1>3, <1>4 DEF Placed

\* the rows that a handler looks at
Table == {r \in Present : kind = "mine" => r.mine}

Answering(s) ==
  \/ GetLedger(s) \/ GetReservations(s) \/ GetMyReservations(s)
  \/ GetPurchases(s) \/ GetAuditEvents(s) \/ GetMembers(s)

(* Every handler of a list answers with a page of the rows that are there. *)
LEMMA HandlersAnswerPages ==
  ASSUME Typed, NEW s \in Fetches, Answering(s)
  PROVE  \E found :
           /\ Reply(s, found)
           /\ Trim(found) \in Answer(rows)
           /\ Len(Trim(found).rows) <= Limit
           /\ IsPage(kind, rows, Trim(found), requests[s].cursor)
           /\ Covers(kind, removed, rows, Trim(found), requests[s].cursor)
<1> DEFINE c == requests[s].cursor
           T == {r \in Table : c = Top \/ InOrder(kind, decodeCursor(c), r)}
<1>1. Table \in SUBSET rows /\ \A r \in rows : r \in Table \/ r.id \in removed \/ (kind = "mine" /\ ~ r.mine)
  BY DEF Table, Present
<1>2. Told(Table) /\ Told(T) /\ \A r \in Table : r.at \in Nat /\ r.id \in Nat
  <2>1. T \in SUBSET rows
    BY <1>1
  <2> QED BY <1>1, <2>1, RowsAreTold
<1>3. c # End /\ (c # Top => Placed(decodeCursor(c)))
  <2>1. c \in {Top} \cup CursorsOf(rows)
    BY DEF Typed, Request
  <2> QED BY <2>1, CursorsArePlaced
<1>4. \E q : /\ Reply(s, FirstOf(q)) /\ q \in SetToSeqs(T)
             /\ \A i, j \in DOMAIN q : i < j => ~ InOrder(kind, q[j], q[i])
  <2>1. CASE GetMembers(s)
    <3>1. kind = "members" /\ Reply(s, FirstOf(Ordered(T, Before)))
      <4>1. kind = "members" /\ Reply(s, MemberRows(c))
        BY <2>1 DEF GetMembers
      <4>2. T = {r \in Present : c = Top \/ After(r, decodeCursor(c))}
        BY <4>1 DEF Table, InOrder, After
      <4> HIDE DEF T
      <4> QED BY <4>1, <4>2 DEF MemberRows, Oldest
    <3>2. \A a, b : InOrder(kind, a, b) <=> Before(a, b)
      BY <3>1 DEF InOrder
    <3> HIDE DEF T
    <3> QED BY <1>2, <3>1, <3>2, ListsAreOrdered
  <2>2. CASE ~ GetMembers(s)
    <3>1. kind # "members" /\ Reply(s, Newest(Table, c))
      <4>1. kind # "mine" => Table = Present
        BY DEF Table
      <4>2. kind = "mine" => Table = {r \in Present : r.mine}
        BY DEF Table
      <4> QED BY <2>2, <4>1, <4>2 DEF Answering, GetLedger, GetReservations, GetMyReservations,
                GetPurchases, GetAuditEvents, LedgerRows, ReservationRows, OwnReservationRows,
                PurchaseRows, AuditRows
    <3>2. T = {r \in Table : c = Top \/ Before(r, decodeCursor(c))}
      BY <3>1 DEF InOrder, After
    <3>3. \A a, b : InOrder(kind, a, b) <=> After(a, b)
      BY <3>1 DEF InOrder
    <3> HIDE DEF T
    <3>4. Reply(s, FirstOf(Ordered(T, After)))
      BY <3>1, <3>2 DEF Newest
    <3> QED BY <1>2, <3>3, <3>4, ListsAreOrdered
  <2> QED BY <2>1, <2>2
<1>5. PICK q : /\ Reply(s, FirstOf(q)) /\ q \in SetToSeqs(T)
               /\ \A i, j \in DOMAIN q : i < j => ~ InOrder(kind, q[j], q[i])
  BY <1>4
<1>6. Queried(kind, removed, rows, Table, c, q)
  BY <1>1, <1>3, <1>5, RowsAreTold DEF Queried
<1>7. \A a : a = Trim(FirstOf(q)) => /\ a \in Answer(rows) /\ Len(a.rows) <= Limit
                                     /\ IsPage(kind, rows, a, c)
                                     /\ Covers(kind, removed, rows, a, c)
  BY <1>6, PagesPartition
<1> HIDE DEF c, T
<1> WITNESS FirstOf(q)
<1> QED BY <1>5, <1>7 DEF c

(* Removing an id leaves the others, each as often as before.              *)
LEMMA WithoutKeepsTheOthers ==
  ASSUME NEW S, NEW ids \in Seq(S), NEW id
  PROVE  /\ Without(ids, id) \in Seq(S)
         /\ ToSet(Without(ids, id)) = ToSet(ids) \ {id}
         /\ IsInjective(ids) => IsInjective(Without(ids, id))
<1> DEFINE K == {i \in DOMAIN ids : ids[i] # id}
           kept == Ordered(K, <)
           n == Cardinality(K)
<1>1. DOMAIN ids = 1..Len(ids) /\ Len(ids) \in Nat /\ \A i \in DOMAIN ids : ids[i] \in S
  OBVIOUS
<1>2. K \in SUBSET Nat /\ IsFiniteSet(K)
  <2>1. IsFiniteSet(1..Len(ids)) /\ K \in SUBSET (1..Len(ids))
    BY <1>1, FS_Interval
  <2> QED BY <1>1, <2>1, FS_Subset
<1>3. kept \in SetToSeqs(K)
  <2> HIDE DEF K
  <2> QED BY <1>2, FilterKeepsOrder, Zenon
<1>4. \A i \in K : i \in DOMAIN ids /\ ids[i] # id
  OBVIOUS
<1>5. \A i \in DOMAIN ids : ids[i] # id => i \in K
  OBVIOUS
<1>6. Without(ids, id) = [i \in DOMAIN kept |-> ids[kept[i]]]
  BY Zenon DEF Without
<1> HIDE DEF K, kept
<1>7. /\ n \in Nat /\ DOMAIN kept = 1..n /\ \A i \in 1..n : kept[i] \in K
      /\ \A i, j \in 1..n : i # j => kept[i] # kept[j]
      /\ \A x \in K : \E i \in 1..n : kept[i] = x
  BY <1>2, <1>3, EnumerationsAreOnto
<1> HIDE DEF n
<1>8. Without(ids, id) = [i \in 1..n |-> ids[kept[i]]]
  BY <1>6, <1>7
<1>9. Without(ids, id) \in Seq(S) /\ DOMAIN Without(ids, id) = 1..n
  BY <1>1, <1>4, <1>7, <1>8
<1>10. ToSet(Without(ids, id)) = ToSet(ids) \ {id}
  BY <1>4, <1>5, <1>7, <1>8, <1>9 DEF ToSet
<1>11. IsInjective(ids) => IsInjective(Without(ids, id))
  BY <1>4, <1>7, <1>8, <1>9 DEF IsInjective
<1> QED BY <1>9, <1>10, <1>11

-----------------------------------------------------------------------------
\* pages stay pages when there are more rows, and cover as well what is less
LEMMA PagesStayPages ==
  ASSUME NEW T, NEW U, T \subseteq U
  PROVE  /\ IdsOf(T) \subseteq IdsOf(U) /\ CursorsOf(T) \subseteq CursorsOf(U)
         /\ Seq(IdsOf(T)) \subseteq Seq(IdsOf(U))
         /\ Request(T) \subseteq Request(U)
         /\ \A list, a, c : IsPage(list, T, a, c) => IsPage(list, U, a, c)
         /\ \A list, gone, more, a, c :
              gone \subseteq more /\ Covers(list, gone, U, a, c) => Covers(list, more, T, a, c)
<1>1. IdsOf(T) \subseteq IdsOf(U) /\ CursorsOf(T) \subseteq CursorsOf(U)
  BY DEF IdsOf, CursorsOf
<1>2. Seq(IdsOf(T)) \subseteq Seq(IdsOf(U)) /\ Seq(T) \subseteq Seq(U)
  BY <1>1
<1>3. Answer(T) \subseteq Answer(U)
  BY <1>1, <1>2 DEF Answer
<1>4. Request(T) \subseteq Request(U)
  BY <1>1, <1>3 DEF Request
<1>5. \A list, a, c : IsPage(list, T, a, c) => IsPage(list, U, a, c)
  BY <1>1 DEF IsPage
<1>6. \A list, gone, more, a, c :
        gone \subseteq more /\ Covers(list, gone, U, a, c) => Covers(list, more, T, a, c)
  BY DEF Covers
<1> QED BY <1>1, <1>2, <1>4, <1>5, <1>6

\* the page is opened
LEMMA InitSound == Init => Sound
<1> SUFFICES ASSUME Init  PROVE  Sound
  OBVIOUS
<1>1. PICK first \in Fetches :
        requests = [s \in Fetches |-> IF s = first THEN [NoRequest EXCEPT !.state = "sent"]
                                      ELSE NoRequest]
  BY DEF Init
<1>2. \A s \in Fetches : /\ requests[s] \in Request({}) /\ requests[s].cursor = Top
                         /\ requests[s].state \in {"none", "sent"}
                         /\ Len(requests[s].answer.rows) = 0
  <2>1. TAKE s \in Fetches
  <2>2. NoRequest \in Request({}) /\ [NoRequest EXCEPT !.state = "sent"] \in Request({})
    <3>1. NoAnswer \in Answer({})
      <4>1. <<>> \in Seq({})
        OBVIOUS
      <4> QED BY <4>1 DEF Answer
    <3> HIDE DEF Top, NoAnswer, NoRequest
    <3>2. {} \in SUBSET {} /\ Top \in {Top} \cup CursorsOf({}) /\ -1 \in Ids \cup {-1}
      OBVIOUS
    <3>3. NoRequest \in Request({})
      BY <3>1, <3>2 DEF Request, NoRequest
    <3>4. \A r \in Request({}) : [r EXCEPT !.state = "sent"] \in Request({})
      BY DEF Request
    <3> QED BY <3>3, <3>4
  <2>3. NoRequest.cursor = Top /\ NoRequest.state = "none" /\ Len(NoRequest.answer.rows) = 0
    OBVIOUS
  <2> QED BY <1>1, <2>2, <2>3
<1>3. \A s \in Fetches : ~ IsMore(requests[s]) /\ requests[s].state # "answered"
  BY <1>2 DEF IsMore
<1>4. Typed
  <2>1. kind \in AllKinds
    BY KindsAssumption DEF Init
  <2>2. 0 \in 0..MaxTime /\ Limit >= 0
    BY NumbersAssumption
  <2>3. requests \in [Fetches -> Request(rows)]
    BY <1>1, <1>2 DEF Init
  <2>4. shown \in Seq(IdsOf(rows))
    BY DEF Init
  <2> QED BY <1>2, <2>1, <2>2, <2>3, <2>4 DEF Init, Typed
<1>5. Answers
  BY <1>3 DEF Answers
<1>6. Listed = {}
  BY DEF Init, Listed
<1>7. Gapless
  BY <1>3, <1>6 DEF Gapless
<1>8. Single
  <2>1. IsInjective(shown) /\ rows = {}
    BY DEF Init, IsInjective
  <2> QED BY <1>3, <2>1 DEF Single
<1> QED BY <1>4, <1>5, <1>7, <1>8 DEF Sound

(* A step that leaves the page as it is, writes or deletes rows, and       *)
(* replaces requests by some that are not of more and have no answer.      *)
LEMMA QuietSteps ==
  ASSUME Sound, Typed', rows \subseteq rows', removed \subseteq removed',
         \A r \in rows' : r.id \in IdsOf(rows) => r \in rows,
         \A s \in Fetches : \/ requests'[s] = requests[s]
                            \/ requests'[s].state # "answered" /\ ~ IsMore(requests'[s]),
         UNCHANGED <<kind, screen, hurried>>
  PROVE  Sound'
<1> USE DEF screen
<1>1. Listed' \subseteq Listed
  BY DEF Listed
<1>2. Answers'
  <2>1. SUFFICES ASSUME NEW s \in Fetches, requests'[s].state = "answered"
                 PROVE  /\ IsPage(kind, rows', requests'[s].answer, requests'[s].cursor)
                        /\ requests'[s].cursor = Top =>
                             Covers(kind, removed', requests'[s].base, requests'[s].answer,
                                    requests'[s].cursor)
                        /\ IsMore(requests'[s]) =>
                             Covers(kind, removed', base, requests'[s].answer,
                                    requests'[s].cursor)
    BY DEF Answers
  <2>2. requests'[s] = requests[s]
    BY <2>1
  <2>3. /\ IsPage(kind, rows, requests[s].answer, requests[s].cursor)
        /\ requests[s].cursor = Top =>
             Covers(kind, removed, requests[s].base, requests[s].answer, requests[s].cursor)
        /\ IsMore(requests[s]) =>
             Covers(kind, removed, base, requests[s].answer, requests[s].cursor)
    BY <2>1, <2>2 DEF Sound, Answers
  <2> QED BY <2>2, <2>3, PagesStayPages
<1>3. Gapless'
  BY <1>1 DEF Sound, Gapless
<1>4. Single'
  <2>1. \A r \in rows' : r.id \in ToSet(shown) => r \in rows
    <3>1. \A id \in ToSet(shown) : id \in IdsOf(rows)
      BY DEF Sound, Typed, ToSet
    <3> QED BY <3>1
  <2> QED BY <2>1 DEF Sound, Single
<1> QED BY <1>2, <1>3, <1>4 DEF Sound

-----------------------------------------------------------------------------
\* the requests the page makes, and what is left of one
LEMMA FreshRequests ==
  ASSUME NEW T, NEW cursor \in {Top} \cup CursorsOf(T)
  PROVE  /\ NoRequest \in Request(T) /\ NoRequest.state = "none" /\ ~ IsMore(NoRequest)
         /\ Len(NoRequest.answer.rows) = 0
         /\ [NoRequest EXCEPT !.state = "sent", !.cursor = cursor] \in Request(T)
         /\ [NoRequest EXCEPT !.state = "sent", !.cursor = cursor].state = "sent"
         /\ [NoRequest EXCEPT !.state = "sent", !.cursor = cursor].cursor = cursor
         /\ ~ [NoRequest EXCEPT !.state = "sent", !.cursor = cursor].stale
         /\ Len([NoRequest EXCEPT !.state = "sent", !.cursor = cursor].answer.rows) = 0
<1>1. NoAnswer \in Answer(T)
  <2>1. <<>> \in Seq(T)
    OBVIOUS
  <2> QED BY <2>1 DEF Answer
<1> HIDE DEF Top, NoAnswer, NoRequest
<1>2. {} \in SUBSET T /\ Top \in {Top} \cup CursorsOf(T) /\ -1 \in Ids \cup {-1}
  OBVIOUS
<1>3. NoRequest \in Request(T)
  BY <1>1, <1>2 DEF Request, NoRequest
<1>4. \A r \in Request(T) : [r EXCEPT !.state = "sent", !.cursor = cursor] \in Request(T)
  BY DEF Request
<1>5. NoRequest.state = "none" /\ Len(NoRequest.answer.rows) = 0
  BY DEF NoRequest, NoAnswer
<1> QED BY <1>3, <1>4, <1>5 DEF NoRequest, NoAnswer, IsMore

LEMMA FreshDeletions ==
  ASSUME NEW T, NEW i \in Ids
  PROVE  /\ [NoRequest EXCEPT !.state = "delete", !.id = i] \in Request(T)
         /\ [NoRequest EXCEPT !.state = "delete", !.id = i].state = "delete"
         /\ [NoRequest EXCEPT !.state = "delete", !.id = i].id = i
         /\ Len([NoRequest EXCEPT !.state = "delete", !.id = i].answer.rows) = 0
<1>1. NoRequest \in Request(T)
  BY FreshRequests
<1> HIDE DEF Top, NoAnswer, NoRequest
<1>2. \A r \in Request(T) : [r EXCEPT !.state = "delete", !.id = i] \in Request(T)
  BY DEF Request
<1> QED BY <1>1, <1>2 DEF NoRequest, NoAnswer

\* one request in the place of another
LEMMA RequestReplaced ==
  ASSUME Typed, NEW s \in Fetches, NEW q \in Request(rows),
         requests' = [requests EXCEPT ![s] = q]
  PROVE  /\ requests' \in [Fetches -> Request(rows)] /\ requests'[s] = q
         /\ \A t \in Fetches : t # s => requests'[t] = requests[t]
BY DEF Typed

\* what the database does
LEMMA BeginSound == ASSUME Sound, NEW w \in Writers, Begin(w)  PROVE  Sound'
<1>1. Typed'
  <2>1. now \in 0..now /\ now \in Nat
    BY NumbersAssumption DEF Sound, Typed
  <2>2. begun' \in [Writers -> 0..now \cup {NotOpen}]
    BY <2>1 DEF Sound, Typed, Begin
  <2> QED BY <2>2 DEF Sound, Typed, Begin, screen
<1> QED BY <1>1, QuietSteps DEF Begin

LEMMA TickSound == ASSUME Sound, Tick  PROVE  Sound'
<1>1. Typed'
  <2>1. /\ now \in Nat /\ now' = now + 1 /\ now' \in 0..MaxTime
        /\ 0..now \subseteq 0..now'
    <3>1. now \in 0..MaxTime /\ MaxTime \in Nat
      BY NumbersAssumption DEF Sound, Typed
    <3> QED BY <3>1 DEF Tick
  <2>2. begun \in [Writers -> 0..now' \cup {NotOpen}]
    BY <2>1 DEF Sound, Typed
  <2>3. rows \subseteq [id : Ids, at : 0..now', mine : BOOLEAN]
    BY <2>1 DEF Sound, Typed
  <2> QED BY <2>1, <2>2, <2>3 DEF Sound, Typed, Tick, screen
<1> QED BY <1>1, QuietSteps DEF Tick

LEMMA CommitSound == ASSUME Sound, NEW w \in Writers, Commit(w)  PROVE  Sound'
<1>1. PICK id \in Ids \ {r.id : r \in rows}, mine \in BOOLEAN :
        rows' = rows \cup {[id |-> id, at |-> begun[w], mine |-> mine]}
  BY DEF Commit
<1> DEFINE new == [id |-> id, at |-> begun[w], mine |-> mine]
<1>2. begun[w] \in 0..now
  BY DEF Sound, Typed, Commit
<1>3. rows \subseteq rows' /\ rows' = rows \cup {new}
  BY <1>1
<1>4. new \in [id : Ids, at : 0..now, mine : BOOLEAN] /\ new.id = id
  BY <1>2
<1> HIDE DEF new
<1>5. id \notin IdsOf(rows)
  BY DEF IdsOf
<1>6. \A r \in rows : r.id \in IdsOf(rows)
  BY DEF IdsOf
<1>7. \A r \in rows' : r.id \in IdsOf(rows) => r \in rows
  BY <1>3, <1>4, <1>5
<1>8. Typed'
  <2>1. rows' \subseteq [id : Ids, at : 0..now, mine : BOOLEAN]
    BY <1>3, <1>4 DEF Sound, Typed
  <2>2. \A a, b \in rows' : a.id = b.id => a = b
    BY <1>3, <1>4, <1>5, <1>6 DEF Sound, Typed
  <2>3. begun' \in [Writers -> 0..now \cup {NotOpen}]
    BY DEF Sound, Typed, Commit
  <2>4. /\ removed \subseteq IdsOf(rows') /\ base \subseteq rows' /\ shown \in Seq(IdsOf(rows'))
        /\ next \in {End} \cup CursorsOf(rows')
        /\ requests \in [Fetches -> Request(rows')]
        /\ \A s \in Fetches : requests[s].state = "delete" => requests[s].id \in IdsOf(rows')
    BY <1>3, PagesStayPages DEF Sound, Typed
  <2> QED BY <2>1, <2>2, <2>3, <2>4 DEF Sound, Typed, Commit, screen
<1> QED BY <1>3, <1>7, <1>8, QuietSteps DEF Commit

LEMMA RemovedElsewhereSound == ASSUME Sound, NEW id, RemovedElsewhere(id)  PROVE  Sound'
<1>1. removed \subseteq removed' /\ removed' \subseteq IdsOf(rows)
  BY DEF Sound, Typed, RemovedElsewhere, Present, IdsOf
<1>2. Typed'
  BY <1>1 DEF Sound, Typed, RemovedElsewhere, screen
<1> QED BY <1>1, <1>2, QuietSteps DEF RemovedElsewhere

LEMMA DeleteMemberSound == ASSUME Sound, NEW s \in Fetches, DeleteMember(s)  PROVE  Sound'
<1> DEFINE q == [requests[s] EXCEPT !.state = "deleted"]
<1>1. requests[s] \in Request(rows)
  BY DEF Sound, Typed
<1>2. /\ q \in Request(rows) /\ q.state = "deleted" /\ q.id = requests[s].id
      /\ q.answer = requests[s].answer
  BY <1>1 DEF Request
<1>3. requests' = [requests EXCEPT ![s] = q]
  BY DEF DeleteMember, Sound, Typed
<1> HIDE DEF q
<1>4. /\ requests' \in [Fetches -> Request(rows)] /\ requests'[s] = q
      /\ \A t \in Fetches : t # s => requests'[t] = requests[t]
  BY <1>2, <1>3, RequestReplaced DEF Sound
<1>5. removed' = removed \cup {requests[s].id} /\ removed' \subseteq IdsOf(rows)
  BY DEF Sound, Typed, DeleteMember
<1>6. Typed'
  <2>1. \A t \in Fetches :
          /\ Len(requests'[t].answer.rows) <= Limit
          /\ requests'[t].state = "delete" => requests'[t].id \in IdsOf(rows)
          /\ requests'[t].state = "deleted" => requests'[t].id \in removed'
    BY <1>2, <1>4, <1>5 DEF Sound, Typed
  <2> QED BY <1>4, <1>5, <2>1 DEF Sound, Typed, DeleteMember, screen
<1>7. ~ IsMore(q)
  BY <1>2 DEF IsMore
<1> QED BY <1>2, <1>4, <1>5, <1>6, <1>7, QuietSteps DEF DeleteMember

\* a request without an answer in the place of another leaves the state as it should be
LEMMA ReplacedTyped ==
  ASSUME Sound, NEW s \in Fetches, NEW q \in Request(rows), Len(q.answer.rows) = 0,
         q.state = "delete" => q.id \in IdsOf(rows), q.state # "deleted",
         requests' = [requests EXCEPT ![s] = q],
         UNCHANGED <<tables, screen>>, hurried' \in BOOLEAN
  PROVE  Typed'
<1>1. /\ requests' \in [Fetches -> Request(rows)] /\ requests'[s] = q
      /\ \A t \in Fetches : t # s => requests'[t] = requests[t]
  BY RequestReplaced DEF Sound
<1>2. \A t \in Fetches :
        /\ Len(requests'[t].answer.rows) <= Limit
        /\ requests'[t].state = "delete" => requests'[t].id \in IdsOf(rows)
        /\ requests'[t].state = "deleted" => requests'[t].id \in removed
  BY <1>1, NumbersAssumption DEF Sound, Typed
<1> QED BY <1>1, <1>2 DEF Sound, Typed, tables, screen

\* what the page does: its requests
LEMMA BoughtSound == ASSUME Sound, NEW s \in Fetches, Bought(s)  PROVE  Sound'
<1> DEFINE q == [NoRequest EXCEPT !.state = "sent", !.cursor = Top]
<1>1. requests' = [requests EXCEPT ![s] = q]
  BY DEF Bought, Ask
<1>2. /\ q \in Request(rows) /\ q.state = "sent" /\ q.cursor = Top
      /\ Len(q.answer.rows) = 0
  BY FreshRequests
<1> HIDE DEF q
<1>3. Typed'
  BY <1>1, <1>2, ReplacedTyped DEF Bought, Sound, Typed
<1>4. ~ IsMore(q)
  BY <1>2 DEF IsMore
<1> QED BY <1>1, <1>2, <1>3, <1>4, RequestReplaced, QuietSteps DEF Bought, Sound, tables

LEMMA RemoveMemberSound ==
  ASSUME Sound, NEW s \in Fetches, NEW id \in Ids, RemoveMember(s, id)  PROVE  Sound'
<1> DEFINE q == [NoRequest EXCEPT !.state = "delete", !.id = id]
<1>1. requests' = [requests EXCEPT ![s] = q]
  BY DEF RemoveMember
<1>2. /\ q \in Request(rows) /\ q.state = "delete" /\ q.id = id
      /\ Len(q.answer.rows) = 0
  BY FreshDeletions
<1>3. id \in IdsOf(rows)
  BY DEF Sound, Typed, RemoveMember, ToSet
<1> HIDE DEF q
<1>4. Typed'
  BY <1>1, <1>2, <1>3, ReplacedTyped DEF RemoveMember, Sound, Typed
<1>5. ~ IsMore(q)
  BY <1>2 DEF IsMore
<1> QED BY <1>1, <1>2, <1>4, <1>5, RequestReplaced, QuietSteps DEF RemoveMember, Sound, tables

LEMMA FailsSound == ASSUME Sound, NEW s \in Fetches, Fails(s)  PROVE  Sound'
<1>1. requests' = [requests EXCEPT ![s] = NoRequest]
  BY DEF Fails
<1> HIDE DEF NoRequest
<1>2. /\ NoRequest \in Request(rows) /\ NoRequest.state = "none" /\ ~ IsMore(NoRequest)
      /\ Len(NoRequest.answer.rows) = 0
  BY FreshRequests
<1>3. Typed'
  BY <1>1, <1>2, ReplacedTyped DEF Fails, Sound, Typed
<1> QED BY <1>1, <1>2, <1>3, RequestReplaced, QuietSteps DEF Fails, Sound, tables

LEMMA LoadMoreSound == ASSUME Sound, NEW s \in Fetches, LoadMore(s)  PROVE  Sound'
<1> DEFINE q == [NoRequest EXCEPT !.state = "sent", !.cursor = next]
<1>1. requests' = [requests EXCEPT ![s] = q] /\ ~ IsMore(requests[s])
  BY DEF LoadMore, Ask, Free, IsMore
<1>2. next \in CursorsOf(rows) /\ next # Top
  <2>1. next \in CursorsOf(rows)
    BY DEF Sound, Typed, LoadMore
  <2> QED BY <2>1, CursorsArePlaced DEF Sound
<1>3. /\ q \in Request(rows) /\ q.state = "sent" /\ q.cursor = next /\ ~ q.stale
      /\ Len(q.answer.rows) = 0
  BY <1>2, FreshRequests
<1> HIDE DEF q
<1>4. AskedForMore <=> \E t \in Fetches : IsMore(requests[t])
  BY DEF AskedForMore, IsMore
<1>5. hurried' \in BOOLEAN /\ (~ hurried' => ~ hurried /\ \A t \in Fetches : ~ IsMore(requests[t]))
  <2>1. hurried' = (hurried \/ AskedForMore) /\ hurried \in BOOLEAN
    BY DEF LoadMore, Sound, Typed
  <2>2. AskedForMore \in BOOLEAN
    BY DEF AskedForMore
  <2> QED BY <1>4, <2>1, <2>2
<1>6. Typed'
  BY <1>1, <1>3, <1>5, ReplacedTyped DEF LoadMore
<1>7. /\ requests'[s] = q
      /\ \A t \in Fetches : t # s => requests'[t] = requests[t]
  BY <1>1, <1>3, RequestReplaced DEF Sound
<1> USE DEF tables, screen
<1>8. UNCHANGED <<kind, now, begun, rows, removed, shown, next, base, crossed>>
  BY DEF LoadMore
<1>9. Answers'
  BY <1>3, <1>7, <1>8 DEF Sound, Answers
<1>10. Listed' = Listed
  BY <1>8 DEF Listed
<1>11. Gapless'
  BY <1>3, <1>7, <1>8, <1>10 DEF Sound, Gapless
<1>12. Single'
  BY <1>3, <1>5, <1>7, <1>8 DEF Sound, Single
<1> QED BY <1>6, <1>9, <1>11, <1>12 DEF Sound

\* what the handlers answer
LEMMA AnsweringSound == ASSUME Sound, NEW s \in Fetches, Answering(s)  PROVE  Sound'
<1>1. PICK found :
        /\ Reply(s, found)
        /\ Trim(found) \in Answer(rows)
        /\ Len(Trim(found).rows) <= Limit
        /\ IsPage(kind, rows, Trim(found), requests[s].cursor)
        /\ Covers(kind, removed, rows, Trim(found), requests[s].cursor)
  BY HandlersAnswerPages DEF Sound
<1> DEFINE a == Trim(found)
           b == IF requests[s].cursor = Top THEN Present ELSE {}
           q == [requests[s] EXCEPT !.state = "answered", !.answer = a, !.base = b]
<1>2. requests[s] \in Request(rows) /\ Present \subseteq rows
  BY DEF Sound, Typed, Present
<1>3. /\ a \in Answer(rows) /\ Len(a.rows) <= Limit
      /\ IsPage(kind, rows, a, requests[s].cursor)
      /\ Covers(kind, removed, rows, a, requests[s].cursor)
  BY <1>1
<1>4. requests' = [requests EXCEPT ![s] = q] /\ requests[s].state = "sent"
  BY <1>1 DEF Reply, Sound, Typed
<1>5. UNCHANGED <<kind, now, begun, rows, removed, shown, next, base, crossed, hurried>>
  BY <1>1 DEF Reply, tables, screen
<1> HIDE DEF a
<1>6. b \in SUBSET rows
  BY <1>2
<1> HIDE DEF b
<1>7. /\ q \in Request(rows) /\ q.state = "answered" /\ q.answer = a /\ q.base = b
      /\ q.cursor = requests[s].cursor /\ q.stale = requests[s].stale
  BY <1>2, <1>3, <1>6 DEF Request
<1> HIDE DEF q
<1>8. /\ requests' \in [Fetches -> Request(rows)] /\ requests'[s] = q
      /\ \A t \in Fetches : t # s => requests'[t] = requests[t]
  BY <1>4, <1>7, RequestReplaced DEF Sound
<1>9. \A t \in Fetches : /\ IsMore(requests'[t]) <=> IsMore(requests[t])
                         /\ requests'[t].cursor = requests[t].cursor
  BY <1>4, <1>7, <1>8 DEF IsMore
<1>10. Typed'
  <2>1. \A t \in Fetches :
          /\ Len(requests'[t].answer.rows) <= Limit
          /\ requests'[t].state = "delete" => requests'[t].id \in IdsOf(rows)
          /\ requests'[t].state = "deleted" => requests'[t].id \in removed
    BY <1>3, <1>7, <1>8 DEF Sound, Typed
  <2> QED BY <1>5, <1>8, <2>1 DEF Sound, Typed
<1>11. Answers'
  <2>1. \A table : table \subseteq rows => Covers(kind, removed, table, a, q.cursor)
    BY <1>3, <1>7, PagesStayPages
  <2>2. base \subseteq rows /\ IsPage(kind, rows, a, q.cursor)
    BY <1>3, <1>7 DEF Sound, Typed
  <2> QED BY <1>5, <1>6, <1>7, <1>8, <2>1, <2>2 DEF Sound, Answers
<1>12. Listed' = Listed
  BY <1>5 DEF Listed
<1>13. Gapless'
  BY <1>5, <1>9, <1>12 DEF Sound, Gapless
<1>14. Single'
  BY <1>5, <1>9 DEF Sound, Single
<1> QED BY <1>10, <1>11, <1>13, <1>14 DEF Sound

\* the ids of an answer's rows
LEMMA AnsweredIds ==
  ASSUME NEW T, NEW a \in Answer(T), NEW ids,
         ids = [i \in DOMAIN a.rows |-> a.rows[i].id]
  PROVE  /\ ids \in Seq(IdsOf(T)) /\ DOMAIN ids = DOMAIN a.rows
         /\ \A i \in DOMAIN a.rows : a.rows[i] \in T /\ ids[i] = a.rows[i].id
         /\ \A id : id \in ToSet(ids) <=> \E i \in DOMAIN a.rows : a.rows[i].id = id
<1>1. /\ a.rows \in Seq(T) /\ DOMAIN a.rows = 1..Len(a.rows) /\ Len(a.rows) \in Nat
      /\ \A i \in DOMAIN a.rows : a.rows[i] \in T
  BY DEF Answer
<1>2. ids \in [1..Len(a.rows) -> IdsOf(T)]
  BY <1>1 DEF IdsOf
<1>3. ids \in Seq(IdsOf(T)) /\ DOMAIN ids = DOMAIN a.rows
  BY <1>1, <1>2
<1> QED BY <1>1, <1>3 DEF ToSet

\* what the page does: its answers
LEMMA ShowTopSound == ASSUME Sound, NEW s \in Fetches, ShowTop(s)  PROVE  Sound'
<1> DEFINE a == requests[s].answer
<1>1. requests[s] \in Request(rows) /\ a \in Answer(rows) /\ requests[s].base \subseteq rows
  BY DEF Sound, Typed, Request
<1>2. /\ IsPage(kind, rows, a, Top)
      /\ Covers(kind, removed, requests[s].base, a, Top)
  BY DEF ShowTop, Sound, Answers
<1>3. /\ shown' = [i \in DOMAIN a.rows |-> a.rows[i].id] /\ next' = a.next
      /\ base' = requests[s].base /\ crossed' = FALSE /\ hurried' = FALSE
      /\ UNCHANGED <<kind, now, begun, rows, removed>>
  BY DEF ShowTop, tables
<1> HIDE DEF a
<1>4. /\ shown' \in Seq(IdsOf(rows)) /\ DOMAIN shown' = DOMAIN a.rows
      /\ \A i \in DOMAIN a.rows : a.rows[i] \in rows /\ shown'[i] = a.rows[i].id
      /\ \A id : id \in ToSet(shown') <=> \E i \in DOMAIN a.rows : a.rows[i].id = id
  BY <1>1, <1>3, AnsweredIds
<1>5. /\ requests' \in [Fetches -> Request(rows)]
      /\ \A t \in Fetches :
           /\ requests'[t].cursor \in {Top, requests[t].cursor}
           /\ ~ IsMore(requests'[t])
           /\ Len(requests'[t].answer.rows) <= Limit
           /\ requests'[t].state # "none" =>
                /\ requests'[t].state = requests[t].state
                /\ requests'[t].id = requests[t].id /\ requests'[t].answer = requests[t].answer
                /\ requests'[t].base = requests[t].base
                /\ requests'[t].cursor = requests[t].cursor
  <2>1. \A t \in Fetches :
          requests'[t] = IF t = s THEN NoRequest ELSE Outdated(t)
    BY DEF ShowTop
  <2>2. DOMAIN requests' = Fetches /\ requests' = [t \in Fetches |-> requests'[t]]
    BY DEF ShowTop
  <2>3. NoRequest \in Request(rows)
    BY FreshRequests
  <2>4. \A t \in Fetches :
          /\ Outdated(t) \in Request(rows) /\ Outdated(t).state = requests[t].state
          /\ Outdated(t).id = requests[t].id /\ Outdated(t).answer = requests[t].answer
          /\ Outdated(t).base = requests[t].base /\ Outdated(t).cursor = requests[t].cursor
          /\ ~ IsMore(Outdated(t))
    <3>1. TAKE t \in Fetches
    <3>2. requests[t] \in Request(rows)
      BY DEF Sound, Typed
    <3>3. CASE Free(t)
      BY <3>2, <3>3 DEF Outdated, Free, IsMore
    <3>4. CASE ~ Free(t)
      BY <3>2, <3>4 DEF Outdated, Request, IsMore
    <3> QED BY <3>3, <3>4
  <2>5. requests' \in [Fetches -> Request(rows)]
    BY <2>1, <2>2, <2>3, <2>4
  <2>6. SUFFICES ASSUME NEW t \in Fetches
                 PROVE  /\ requests'[t].cursor \in {Top, requests[t].cursor}
                        /\ ~ IsMore(requests'[t])
                        /\ Len(requests'[t].answer.rows) <= Limit
                        /\ requests'[t].state # "none" =>
                             /\ requests'[t].state = requests[t].state
                             /\ requests'[t].id = requests[t].id /\ requests'[t].answer = requests[t].answer
                             /\ requests'[t].base = requests[t].base
                             /\ requests'[t].cursor = requests[t].cursor
    BY <2>5
  <2>7. CASE t = s
    BY <2>1, <2>5, <2>7, NumbersAssumption DEF IsMore
  <2>8. CASE t # s
    <3>1. Len(requests[t].answer.rows) <= Limit
      BY DEF Sound, Typed
    <3> QED BY <2>1, <2>4, <2>8, <3>1
  <2> QED BY <2>7, <2>8
<1>6. Typed'
  <2>1. \A t \in Fetches :
          /\ Len(requests'[t].answer.rows) <= Limit
          /\ requests'[t].state = "delete" => requests'[t].id \in IdsOf(rows)
          /\ requests'[t].state = "deleted" => requests'[t].id \in removed
    BY <1>5 DEF Sound, Typed
  <2>2. next' \in {End} \cup CursorsOf(rows)
    BY <1>2, <1>3 DEF IsPage
  <2>3. requests' \in [Fetches -> Request(rows)]
    BY <1>5
  <2> QED BY <1>1, <1>3, <1>4, <2>1, <2>2, <2>3 DEF Sound, Typed
<1>7. Answers'
  BY <1>3, <1>5 DEF Sound, Answers
<1>8. Gapless'
  <2>1. \A r \in Listed' : r \in requests[s].base /\ r.id \notin removed /\ (kind = "mine" => r.mine)
    BY <1>3 DEF Listed
  <2>2. \A r : ~ Passed(kind, r, Top)
    BY DEF Passed
  <2>3. \A r \in Listed' : Passed(kind, r, next') => r.id \in ToSet(shown')
    BY <1>2, <1>3, <1>4, <2>1, <2>2 DEF Covers
  <2> QED BY <1>3, <1>5, <2>3 DEF Gapless
<1>9. Single'
  <2>1. IsInjective(shown')
    <3>1. SUFFICES ASSUME NEW i \in DOMAIN a.rows, NEW j \in DOMAIN a.rows, i # j
                   PROVE  shown'[i] # shown'[j]
      BY <1>4 DEF IsInjective
    <3> QED BY <1>2, <1>4, <3>1 DEF IsPage
  <2>2. ASSUME NEW r \in rows, r.id \in ToSet(shown')  PROVE  Passed(kind, r, next')
    <3>1. PICK i \in DOMAIN a.rows : a.rows[i].id = r.id
      BY <1>4, <2>2
    <3>2. a.rows[i] = r
      BY <1>4, <3>1 DEF Sound, Typed
    <3> QED BY <1>2, <1>3, <3>2 DEF IsPage
  <2> QED BY <1>3, <1>5, <2>1, <2>2 DEF Single
<1> QED BY <1>6, <1>7, <1>8, <1>9 DEF Sound

LEMMA RemovedSound == ASSUME Sound, NEW s \in Fetches, Removed(s)  PROVE  Sound'
<1> DEFINE id == requests[s].id
<1>1. /\ requests' = [requests EXCEPT ![s] = NoRequest] /\ shown' = Without(shown, id)
      /\ UNCHANGED <<kind, now, begun, rows, removed, next, base, crossed, hurried>>
  BY DEF Removed, tables
<1>2. id \in removed /\ shown \in Seq(IdsOf(rows))
  BY DEF Removed, Sound, Typed
<1>3. /\ shown' \in Seq(IdsOf(rows))
      /\ ToSet(shown') = ToSet(shown) \ {id}
      /\ IsInjective(shown) => IsInjective(shown')
  BY <1>1, <1>2, WithoutKeepsTheOthers
<1> HIDE DEF NoRequest, id
<1>4. /\ NoRequest \in Request(rows) /\ NoRequest.state = "none" /\ ~ IsMore(NoRequest)
      /\ Len(NoRequest.answer.rows) = 0
  BY FreshRequests
<1>5. /\ requests' \in [Fetches -> Request(rows)] /\ requests'[s] = NoRequest
      /\ \A t \in Fetches : t # s => requests'[t] = requests[t]
  BY <1>1, <1>4, RequestReplaced DEF Sound
<1>6. Typed'
  <2>1. \A t \in Fetches :
          /\ Len(requests'[t].answer.rows) <= Limit
          /\ requests'[t].state = "delete" => requests'[t].id \in IdsOf(rows)
          /\ requests'[t].state = "deleted" => requests'[t].id \in removed
    BY <1>4, <1>5, NumbersAssumption DEF Sound, Typed
  <2> QED BY <1>1, <1>3, <1>5, <2>1 DEF Sound, Typed
<1>7. Answers'
  BY <1>1, <1>4, <1>5 DEF Sound, Answers
<1>8. Listed' = Listed /\ \A r \in Listed : r.id # id
  BY <1>1, <1>2 DEF Listed
<1>9. Gapless'
  BY <1>1, <1>3, <1>4, <1>5, <1>8 DEF Sound, Gapless
<1>10. Single'
  BY <1>1, <1>3, <1>4, <1>5 DEF Sound, Single
<1> QED BY <1>6, <1>7, <1>9, <1>10 DEF Sound

\* what is in a sequence that another is appended to
LEMMA AppendedIds ==
  ASSUME NEW S, NEW p \in Seq(S), NEW q \in Seq(S)
  PROVE  p \o q \in Seq(S) /\ ToSet(p \o q) = ToSet(p) \cup ToSet(q)
<1>1. /\ p \o q \in Seq(S) /\ Len(p \o q) = Len(p) + Len(q)
      /\ DOMAIN p = 1..Len(p) /\ DOMAIN q = 1..Len(q) /\ DOMAIN (p \o q) = 1..Len(p) + Len(q)
      /\ Len(p) \in Nat /\ Len(q) \in Nat
  OBVIOUS
<1>2. \A i \in DOMAIN p : i \in DOMAIN (p \o q) /\ (p \o q)[i] = p[i]
  BY <1>1
<1>3. \A i \in DOMAIN q : Len(p) + i \in DOMAIN (p \o q) /\ (p \o q)[Len(p) + i] = q[i]
  BY <1>1
<1>4. \A i \in DOMAIN (p \o q) : \/ i \in DOMAIN p
                                 \/ i - Len(p) \in DOMAIN q /\ (p \o q)[i] = q[i - Len(p)]
  BY <1>1
<1>5. ToSet(p \o q) \subseteq ToSet(p) \cup ToSet(q)
  BY <1>2, <1>4 DEF ToSet
<1>6. ToSet(p) \subseteq ToSet(p \o q) /\ ToSet(q) \subseteq ToSet(p \o q)
  BY <1>2, <1>3 DEF ToSet
<1> QED BY <1>1, <1>5, <1>6

(* The step all of it is for: the rows appended are those between the      *)
(* cursor asked with and the one returned; unless more has been asked for  *)
(* twice, the first is where the page ends.                                *)
LEMMA ShowMoreSound == ASSUME Sound, NEW s \in Fetches, ShowMore(s)  PROVE  Sound'
<1> DEFINE a == requests[s].answer
           c == requests[s].cursor
           ids == [i \in DOMAIN a.rows |-> a.rows[i].id]
<1>1. requests[s] \in Request(rows) /\ a \in Answer(rows) /\ c \in CursorsOf(rows) /\ c # Top
  BY DEF ShowMore, Sound, Typed, Request
<1>2. IsPage(kind, rows, a, c)
  BY DEF ShowMore, Sound, Answers
<1>3. /\ shown' = shown \o ids /\ next' = a.next /\ crossed' = (crossed \/ requests[s].stale)
      /\ requests' = [requests EXCEPT ![s] = NoRequest]
      /\ UNCHANGED <<kind, now, begun, rows, removed, base, hurried>>
  BY DEF ShowMore, tables
<1>4. IsMore(requests[s]) <=> ~ requests[s].stale
  BY DEF ShowMore, IsMore
<1>5. requests[s].stale \in BOOLEAN /\ crossed \in BOOLEAN
  BY <1>1 DEF Sound, Typed, Request
<1>6. IsMore(requests[s]) => Covers(kind, removed, base, a, c)
  BY DEF ShowMore, Sound, Answers
<1>7. shown \in Seq(IdsOf(rows))
  BY DEF Sound, Typed
<1>8. \A i, j \in DOMAIN a.rows : i # j => a.rows[i].id # a.rows[j].id
  BY <1>2 DEF IsPage
<1> DEFINE old == ToSet(shown)
           new == ToSet(ids)
<1> HIDE DEF a, c
<1>9. /\ ids \in Seq(IdsOf(rows)) /\ DOMAIN ids = DOMAIN a.rows
      /\ \A i \in DOMAIN a.rows : a.rows[i] \in rows /\ ids[i] = a.rows[i].id
      /\ \A id : id \in new <=> \E i \in DOMAIN a.rows : a.rows[i].id = id
  BY <1>1, AnsweredIds
<1> HIDE DEF ids
<1>10. shown' \in Seq(IdsOf(rows)) /\ ToSet(shown') = old \cup new
  BY <1>3, <1>7, <1>9, AppendedIds
<1>11. \A r \in rows : r.id \in new => /\ ~ Passed(kind, r, c) /\ Passed(kind, r, next')
                                       /\ \E i \in DOMAIN a.rows : a.rows[i] = r
  <2>1. TAKE r \in rows
  <2>2. SUFFICES ASSUME r.id \in new
                 PROVE  /\ ~ Passed(kind, r, c) /\ Passed(kind, r, next')
                        /\ \E i \in DOMAIN a.rows : a.rows[i] = r
    OBVIOUS
  <2>3. PICK i \in DOMAIN a.rows : a.rows[i].id = r.id
    BY <1>9, <2>2
  <2>4. a.rows[i] = r
    BY <1>9, <2>3 DEF Sound, Typed
  <2> QED BY <1>2, <1>3, <2>4 DEF IsPage
<1>12. \A r \in rows : Passed(kind, r, c) => Passed(kind, r, next')
  <2>1. SUFFICES ASSUME NEW r \in rows, Passed(kind, r, c), next' # End
                 PROVE  Passed(kind, r, next')
    BY DEF Passed
  <2>2. next' \in CursorsOf(rows)
    BY <1>2, <1>3, <2>1 DEF IsPage
  <2>3. /\ Placed(decodeCursor(c)) /\ c # End
        /\ Placed(decodeCursor(next')) /\ next' # Top /\ Placed(r)
    <3>1. Placed(r)
      BY RowsAreTold DEF Sound, Placed
    <3> QED BY <1>1, <2>2, <3>1, CursorsArePlaced DEF Sound
  <2>4. InOrder(kind, decodeCursor(c), decodeCursor(next'))
    BY <1>1, <1>2, <1>3, <2>1 DEF IsPage
  <2>5. ~ InOrder(kind, decodeCursor(c), r)
    BY <1>1, <2>1, <2>3 DEF Passed
  <2>6. ~ InOrder(kind, decodeCursor(next'), r)
    BY <2>3, <2>4, <2>5, InOrderIsStrict
  <2> QED BY <2>3, <2>6 DEF Passed
<1> HIDE DEF NoRequest, old, new
<1>13. /\ NoRequest \in Request(rows) /\ NoRequest.state = "none" /\ ~ IsMore(NoRequest)
       /\ Len(NoRequest.answer.rows) = 0
  BY FreshRequests
<1>14. /\ requests' \in [Fetches -> Request(rows)] /\ requests'[s] = NoRequest
       /\ \A t \in Fetches : t # s => requests'[t] = requests[t]
  BY <1>3, <1>13, RequestReplaced DEF Sound
<1>15. Typed'
  <2>1. \A t \in Fetches :
          /\ Len(requests'[t].answer.rows) <= Limit
          /\ requests'[t].state = "delete" => requests'[t].id \in IdsOf(rows)
          /\ requests'[t].state = "deleted" => requests'[t].id \in removed
    BY <1>13, <1>14, NumbersAssumption DEF Sound, Typed
  <2>2. next' \in {End} \cup CursorsOf(rows) /\ crossed' \in BOOLEAN
    BY <1>2, <1>3, <1>5 DEF IsPage
  <2> QED BY <1>3, <1>10, <1>14, <2>1, <2>2 DEF Sound, Typed
<1>16. Answers'
  BY <1>3, <1>13, <1>14 DEF Sound, Answers
<1>17. Listed' = Listed /\ \A r \in Listed : /\ r \in base /\ r \in rows /\ r.id \notin removed
                                             /\ (kind = "mine" => r.mine)
  BY <1>3 DEF Listed, Sound, Typed
<1>18. ~ crossed' => ~ crossed /\ IsMore(requests[s])
  BY <1>3, <1>4, <1>5
<1>19. Gapless'
  <2>1. SUFFICES ASSUME ~ crossed'
                 PROVE  /\ \A r \in Listed : Passed(kind, r, next') => r.id \in ToSet(shown')
                        /\ \A t \in Fetches : IsMore(requests'[t]) =>
                             \A r \in Listed : Passed(kind, r, requests'[t].cursor)
                                                 => r.id \in ToSet(shown')
    BY <1>3, <1>17 DEF Gapless
  <2>2. \A t \in Fetches : IsMore(requests[t]) =>
          \A r \in Listed : Passed(kind, r, requests[t].cursor) => r.id \in old
    BY <1>18, <2>1 DEF Sound, Gapless, old
  <2>3. ASSUME NEW r \in Listed, Passed(kind, r, next')  PROVE  r.id \in ToSet(shown')
    <3>1. Passed(kind, r, c) \/ \E i \in DOMAIN a.rows : a.rows[i] = r
      BY <1>3, <1>6, <1>17, <1>18, <2>1, <2>3 DEF Covers
    <3>2. CASE Passed(kind, r, c)
      BY <1>10, <1>18, <2>1, <2>2, <3>2 DEF c
    <3>3. CASE \E i \in DOMAIN a.rows : a.rows[i] = r
      BY <1>9, <1>10, <3>3
    <3> QED BY <3>1, <3>2, <3>3
  <2>4. ASSUME NEW t \in Fetches, IsMore(requests'[t]), NEW r \in Listed,
               Passed(kind, r, requests'[t].cursor)
        PROVE  r.id \in ToSet(shown')
    <3>1. requests'[t] = requests[t]
      BY <1>13, <1>14, <2>4
    <3> QED BY <1>10, <2>2, <2>4, <3>1
  <2> QED BY <2>3, <2>4
<1>20. Single'
  <2>1. SUFFICES ASSUME ~ crossed', ~ hurried
                 PROVE  /\ IsInjective(shown')
                        /\ \A r \in rows : r.id \in ToSet(shown') => Passed(kind, r, next')
                        /\ \A t \in Fetches : ~ IsMore(requests'[t])
    BY <1>3 DEF Single
  <2>2. /\ IsInjective(shown) /\ c = next
        /\ \A r \in rows : r.id \in old => Passed(kind, r, next)
        /\ \A t \in Fetches : IsMore(requests[t]) => t = s
    BY <1>18, <2>1 DEF Sound, Single, c, old
  <2>3. IsInjective(shown')
    <3>1. \A i \in DOMAIN shown, j \in DOMAIN ids : shown[i] # ids[j]
      <4>1. SUFFICES ASSUME NEW i \in DOMAIN shown, NEW j \in DOMAIN ids, shown[i] = ids[j]
                     PROVE  FALSE
        OBVIOUS
      <4>2. a.rows[j] \in rows /\ a.rows[j].id \in old /\ a.rows[j].id \in new
        BY <1>9, <4>1 DEF old, ToSet
      <4> QED BY <1>11, <2>2, <4>2
    <3>2. \A i, j \in DOMAIN ids : ids[i] = ids[j] => i = j
      BY <1>8, <1>9
    <3> QED BY <1>3, <1>7, <1>9, <2>2, <3>1, <3>2 DEF IsInjective
  <2>4. \A r \in rows : r.id \in ToSet(shown') => Passed(kind, r, next')
    BY <1>10, <1>11, <1>12, <2>2
  <2>5. \A t \in Fetches : ~ IsMore(requests'[t])
    BY <1>13, <1>14, <2>2
  <2> QED BY <2>3, <2>4, <2>5
<1> QED BY <1>15, <1>16, <1>19, <1>20 DEF Sound

-----------------------------------------------------------------------------
\* every step
LEMMA NextSound == Sound /\ [Next]_vars => Sound'
<1> SUFFICES ASSUME Sound, [Next]_vars  PROVE  Sound'
  OBVIOUS
<1>1. CASE UNCHANGED vars
  <2>1. Typed'
    BY <1>1 DEF Sound, Typed, vars
  <2> QED BY <1>1, <2>1, QuietSteps DEF vars, screen
<1>2. ASSUME NEW w \in Writers, Begin(w) \/ Commit(w)  PROVE  Sound'
  BY <1>2, BeginSound, CommitSound
<1>3. ASSUME NEW id \in Ids, RemovedElsewhere(id)  PROVE  Sound'
  BY <1>3, RemovedElsewhereSound
<1>4. CASE Tick
  BY <1>4, TickSound
<1>5. ASSUME NEW s \in Fetches, Handler(s)  PROVE  Sound'
  BY <1>5, AnsweringSound, DeleteMemberSound DEF Handler, Answering
<1>6. ASSUME NEW s \in Fetches, Page(s)  PROVE  Sound'
  BY <1>6, LoadMoreSound, BoughtSound, ShowTopSound, ShowMoreSound, RemovedSound, FailsSound,
     RemoveMemberSound DEF Page
<1> QED BY <1>1, <1>2, <1>3, <1>4, <1>5, <1>6 DEF Next, Database

\* the inductive invariant
LEMMA AlwaysSound == Spec => []Sound
BY InitSound, NextSound, PTL DEF Spec

(* What the lists and the page keep has its type: every row was written at *)
(* a time that has been, every cursor is one the API has returned, and no  *)
(* answer has more rows than the limit (listByOrgId and its siblings in    *)
(* dal.ts).                                                                *)
THEOREM TypeCorrect == Spec => []TypeOK
<1>1. Sound => TypeOK
  <2>1. SUFFICES ASSUME Sound  PROVE  TypeOK
    OBVIOUS
  <2>2. End \in Cursors /\ Top \in Cursors /\ Top # End
    <3>1. 0 \in 0..MaxTime /\ 0 \in 0..MicrosPerMilli - 1
      BY NumbersAssumption
    <3> QED BY <3>1 DEF Cursors
  <2>3. CursorsOf(rows) \subseteq Cursors \ {End}
    BY <2>1, CursorsArePlaced DEF Sound
  <2>4. 0..now \subseteq 0..MaxTime
    BY <2>1, NumbersAssumption DEF Sound, Typed
  <2>5. begun \in [Writers -> 0..MaxTime \cup {NotOpen}]
    BY <2>1, <2>4 DEF Sound, Typed
  <2>6. \A s \in Fetches :
          /\ requests[s].state \in {"none", "sent", "answered", "delete", "deleted"}
          /\ requests[s].cursor \in Cursors \ {End}
          /\ Len(requests[s].answer.rows) <= Limit
    BY <2>1, <2>2, <2>3 DEF Sound, Typed, Request
  <2>7. /\ removed \subseteq {r.id : r \in rows} /\ base \subseteq rows
        /\ shown \in Seq({r.id : r \in rows}) /\ next \in Cursors
    BY <2>1, <2>2, <2>3 DEF Sound, Typed, IdsOf
  <2> QED BY <2>1, <2>5, <2>6, <2>7 DEF Sound, Typed, TypeOK
<1> QED BY <1>1, AlwaysSound, PTL

(* A page that has loaded all there is to load shows every row that was    *)
(* there when its top was read and has not been deleted, whatever is       *)
(* written, deleted or answered late meanwhile, for every limit, every     *)
(* order of ids and any number of rows of the same time (Credits.tsx,      *)
(* Members.tsx and the queries of dal.ts).                                 *)
THEOREM NothingIsSkipped == Spec => []NothingSkipped
<1>1. Sound => NothingSkipped
  BY DEF Sound, Gapless, NothingSkipped, Passed
<1> QED BY <1>1, AlwaysSound, PTL

(* No row is shown twice, unless the button for more has been pressed      *)
(* again before the answer came or a page was appended below a newer top   *)
(* (loadMore of Credits.tsx and Members.tsx).                              *)
THEOREM NothingIsRepeated == Spec => []NoRepeats
<1>1. Sound => NoRepeats
  BY DEF Sound, Single, NoRepeats
<1> QED BY <1>1, AlwaysSound, PTL
=============================================================================
