------------------------- MODULE EpochEnginesProofs -------------------------
(***************************************************************************)
(* Theorems about EpochEngines: about Aria, Harmony and OptME, for any     *)
(* number of threads and any blocks.                                       *)
(*                                                                         *)
(* Aria: until the barrier opens nobody has judged a transaction of the    *)
(* column, and from then on nobody reserves: a worker that judges finds in *)
(* every entry the smallest transaction of the column that uses the key.   *)
(* What is committed in a column can therefore be judged again with the    *)
(* transactions committed in it alone, after the table has been reused.    *)
(*                                                                         *)
(* Harmony: the workers are all in one stage of one block, or wait for it  *)
(* at the barrier, and the stage has seen to the first transactions of     *)
(* every worker.  What the data is like depends on the block, on the stage *)
(* and on the transactions it has seen to, and on nothing else.            *)
(*                                                                         *)
(* OptME: the block that holds a key is the current one, or one whose      *)
(* remaining writers are given up; only then do reservations pile up       *)
(* behind it.  A retried transaction reads nothing, so that an epoch that  *)
(* it fits also fits it.                                                   *)
(***************************************************************************)
EXTENDS EpochEngines, FiniteSetTheorems, SequenceTheorems, WellFoundedInduction, TLAPS


-----------------------------------------------------------------------------
(* Division with remainder, sequences, least and greatest elements         *)

LEMMA DivisionNamed ==
    ASSUME NEW a \in Int, NEW n \in Nat \ {0}, NEW q \in Int, NEW r \in Int,
           q = a \div n, r = a % n
    PROVE  a = q * n + r
OBVIOUS

LEMMA Division ==
    ASSUME NEW a \in Int, NEW n \in Nat \ {0}
    PROVE  /\ a \div n \in Int /\ a % n \in 0 .. n - 1
           /\ a = (a \div n) * n + (a % n)
<1>1. a \div n \in Int
  OBVIOUS
<1>2. a % n \in 0 .. n - 1
  OBVIOUS
<1> QED
  BY <1>1, <1>2, DivisionNamed

LEMMA Multiples ==
    ASSUME NEW x \in Int, NEW y \in Int, NEW n \in Nat \ {0}, x < y
    PROVE  /\ x * n \in Int /\ y * n \in Int /\ x * n + n <= y * n
<1>1. (y - x - 1) * n >= 0
  OBVIOUS
<1>2. (y - x - 1) * n = y * n - x * n - n
  OBVIOUS
<1> QED
  BY <1>1, <1>2

LEMMA DivisionUnique ==
    ASSUME NEW q \in Int, NEW n \in Nat \ {0}, NEW r \in 0 .. n - 1
    PROVE  (q * n + r) \div n = q /\ (q * n + r) % n = r
<1> DEFINE a == q * n + r
           d == a \div n
<1>0. a \in Int
  OBVIOUS
<1>1. d \in Int /\ a % n \in 0 .. n - 1 /\ a = d * n + (a % n)
  BY <1>0, Division
<1> HIDE DEF d
<1>2. ~(q < d)
  BY <1>1, Multiples
<1>3. ~(d < q)
  BY <1>1, Multiples
<1>4. d = q
  BY <1>1, <1>2, <1>3
<1> QED
  BY <1>1, <1>4 DEF d

\* What is left of a list without its head.
LEMMA TailFacts ==
    ASSUME NEW S, NEW s \in Seq(S), s # <<>>
    PROVE  /\ Len(s) \in Nat /\ Len(s) > 0 /\ DOMAIN s = 1 .. Len(s)
           /\ Head(s) = s[1] /\ Head(s) \in S
           /\ Tail(s) \in Seq(S) /\ DOMAIN Tail(s) = 1 .. Len(s) - 1
           /\ \A i \in 1 .. Len(s) - 1 : Tail(s)[i] = s[i + 1]
<1>1. Len(s) \in Nat /\ DOMAIN s = 1 .. Len(s) /\ \A i \in 1 .. Len(s) : s[i] \in S
  BY LenProperties, ElementOfSeq
<1>2. Len(s) > 0
  BY EmptySeq, <1>1
<1>3. Head(s) \in S /\ Tail(s) \in Seq(S) /\ Len(Tail(s)) = Len(s) - 1
      /\ \A i \in 1 .. Len(Tail(s)) : Tail(s)[i] = s[i + 1]
  BY HeadTailProperties
<1>4. Head(s) = s[1]
  OBVIOUS
<1>5. DOMAIN Tail(s) = 1 .. Len(s) - 1
  BY <1>3, LenProperties
<1> QED
  BY <1>1, <1>2, <1>3, <1>4, <1>5

\* A list with an element before it.
LEMMA BeforeFacts ==
    ASSUME NEW S, NEW s \in Seq(S), NEW e \in S
    PROVE  LET r == <<e>> \o s
           IN  /\ Len(s) \in Nat /\ DOMAIN s = 1 .. Len(s)
               /\ r \in Seq(S) /\ DOMAIN r = 1 .. Len(s) + 1 /\ r[1] = e
               /\ \A i \in 1 .. Len(s) : r[i + 1] = s[i]
<1> DEFINE one == <<e>>
           r == one \o s
<1>1. Len(s) \in Nat /\ DOMAIN s = 1 .. Len(s)
  BY LenProperties
<1>2. one \in Seq(S) /\ Len(one) = 1 /\ one[1] = e
  OBVIOUS
<1> HIDE DEF one
<1>3. r \in Seq(S) /\ Len(r) = Len(one) + Len(s)
      /\ \A i \in 1 .. Len(one) + Len(s) : r[i] = IF i <= Len(one) THEN one[i] ELSE s[i - Len(one)]
  BY <1>2, ConcatProperties
<1>4. DOMAIN r = 1 .. Len(s) + 1
  BY <1>1, <1>2, <1>3, LenProperties
<1>5. r[1] = e
  BY <1>1, <1>2, <1>3
<1>6. ASSUME NEW i \in 1 .. Len(s)
      PROVE  r[i + 1] = s[i]
  BY <1>1, <1>2, <1>3
<1> QED
  BY <1>1, <1>3, <1>4, <1>5, <1>6 DEF one

\* A set of naturals has a least element, and a greatest one if it is bounded.
LEMMA LeastOf ==
    ASSUME NEW S \in SUBSET Nat, S # {}
    PROVE  \E m \in S : \A x \in S : m <= x
<1>1. IsWellFoundedOn(OpToRel(<, Nat), Nat)
  BY NatLessThanWellFounded, Zenon
<1>2. PICK m \in S : \A y \in Nat : <<y, m>> \in OpToRel(<, Nat) => ~(y \in S)
  BY <1>1, WFMin, Zenon
<1>3. ASSUME NEW x \in S
      PROVE  m <= x
  <2>1. x \in Nat /\ m \in Nat
    OBVIOUS
  <2>2. ~(<<x, m>> \in OpToRel(<, Nat))
    BY <1>2, <2>1
  <2>3. ~(x < m)
    BY <2>1, <2>2, Zenon DEF OpToRel
  <2> QED
    BY <2>1, <2>3
<1> QED
  BY <1>3

LEMMA GreatestOf ==
    ASSUME NEW n \in Nat, NEW S \in SUBSET (0 .. n), S # {}
    PROVE  \E m \in S : \A x \in S : x <= m
<1> DEFINE R == {y \in Nat : \E x \in S : y = n - x}
<1>1. PICK x0 \in S : TRUE
  OBVIOUS
<1>2. n - x0 \in R
  OBVIOUS
<1>3. R \in SUBSET Nat /\ R # {}
  BY <1>2
<1> HIDE DEF R
<1>4. PICK m \in R : \A y \in R : m <= y
  BY <1>3, LeastOf
<1>5. PICK x \in S : m = n - x
  BY DEF R
<1>6. ASSUME NEW y \in S
      PROVE  y <= x
  <2>1. n - y \in R
    BY DEF R
  <2>2. n - x <= n - y
    BY <1>4, <1>5, <2>1
  <2> QED
    BY <2>2
<1> QED
  BY <1>6

\* The places of a list of length len that leave w, dealt out to n workers.
DealtTo(n, len, w) == [j \in 1 .. (len + n - 1 - w) \div n |-> (j - 1) * n + w + 1]

LEMMA DealtOut ==
    ASSUME NEW n \in Nat \ {0}, NEW len \in Nat, NEW w \in 0 .. n - 1
    PROVE  LET list == DealtTo(n, len, w)
           IN  /\ list \in Seq(1 .. len)
               /\ \A i, j \in DOMAIN list : i < j => list[i] < list[j]
               /\ \A i \in DOMAIN list : (list[i] - 1) % n = w /\ (list[i] - 1) \div n + 1 = i
               /\ \A t \in 1 .. len : (t - 1) % n = w =>
                      /\ (t - 1) \div n + 1 \in DOMAIN list
                      /\ list[(t - 1) \div n + 1] = t
<1> DEFINE a == len + n - 1 - w
           m == a \div n
           list == DealtTo(n, len, w)
<1>0. a \in Nat
  OBVIOUS
<1>1. m \in Int /\ a % n \in 0 .. n - 1 /\ a = m * n + (a % n)
  BY <1>0, Division
<1> HIDE DEF m
<1>2. m \in Nat
  <2>1. ~(m < 0)
    BY <1>0, <1>1, Multiples
  <2> QED
    BY <1>1, <2>1
<1>3. ASSUME NEW j \in 1 .. m
      PROVE  /\ (j - 1) * n + w + 1 \in 1 .. len
             /\ ((j - 1) * n + w) % n = w /\ ((j - 1) * n + w) \div n = j - 1
  <2>1. (j - 1) * n \in Int /\ 0 <= (j - 1) * n /\ (j - 1) * n + n <= m * n
    BY <1>2, Multiples
  <2>2. (j - 1) * n + w + 1 \in 1 .. len
    BY <1>1, <2>1
  <2> QED
    BY <1>2, <2>2, DivisionUnique
<1>4. /\ DOMAIN list = 1 .. m
      /\ \A j \in 1 .. m : list[j] = (j - 1) * n + w + 1 /\ list[j] \in 1 .. len
  BY <1>3 DEF m, DealtTo
<1>5. list \in Seq(1 .. len)
  <2>1. list = [j \in 1 .. m |-> (j - 1) * n + w + 1]
    BY DEF m, DealtTo
  <2> QED
    BY <1>2, <1>4, <2>1
<1> HIDE DEF list
<1>6. ASSUME NEW i \in 1 .. m, NEW j \in 1 .. m, i < j
      PROVE  list[i] < list[j]
  <2> DEFINE x == (i - 1) * n
             y == (j - 1) * n
  <2>1. i - 1 \in Int /\ j - 1 \in Int /\ i - 1 < j - 1
    BY <1>2, <1>6
  <2>2. x \in Int /\ y \in Int /\ x + n <= y
    BY <2>1, Multiples, Zenon
  <2>3. list[i] = x + w + 1 /\ list[j] = y + w + 1
    BY <1>4
  <2> HIDE DEF x, y
  <2> QED
    BY <2>2, <2>3
<1>7. ASSUME NEW i \in 1 .. m
      PROVE  (list[i] - 1) % n = w /\ (list[i] - 1) \div n + 1 = i
  <2> DEFINE x == (i - 1) * n
  <2>1. x \in Int
    BY <1>2
  <2>2. (x + w) % n = w /\ (x + w) \div n = i - 1 /\ list[i] = x + w + 1
    BY <1>3, <1>4, Zenon
  <2> HIDE DEF x
  <2>3. list[i] - 1 = x + w /\ (i - 1) + 1 = i
    BY <1>2, <2>1, <2>2
  <2> QED
    BY <2>2, <2>3
<1>8. ASSUME NEW t \in 1 .. len, (t - 1) % n = w
      PROVE  (t - 1) \div n + 1 \in 1 .. m /\ list[(t - 1) \div n + 1] = t
  <2> DEFINE q == (t - 1) \div n
  <2>1. q \in Int /\ t - 1 = q * n + w
    BY <1>8, Division
  <2> HIDE DEF q
  <2>2. ~(q < 0)
    BY <2>1, Multiples
  <2>3. ~(m <= q)
    <3>1. ASSUME m <= q
          PROVE  FALSE
      <4>1. m * n <= q * n
        BY <1>1, <2>1, <3>1, Multiples
      <4>2. a = len + n - 1 - w
        OBVIOUS
      <4> QED
        BY <1>1, <2>1, <4>1, <4>2
    <3> QED
      BY <3>1
  <2>4. q + 1 \in 1 .. m
    BY <1>1, <2>1, <2>2, <2>3
  <2>5. list[q + 1] = ((q + 1) - 1) * n + w + 1 /\ (q + 1) - 1 = q
    BY <1>4, <2>1, <2>4
  <2>6. list[q + 1] = t
    BY <2>1, <2>5
  <2> QED
    BY <2>4, <2>6 DEF q
<1> QED
  BY <1>4, <1>5, <1>6, <1>7, <1>8 DEF list

LEMMA SameRemainder ==
    ASSUME NEW n \in Nat \ {0}, NEW x \in Int, NEW y \in Int, (y - x) % n = 0
    PROVE  x % n = y % n
<1> DEFINE r == x % n
           q == x \div n
           d == (y - x) \div n
<1>1. r \in 0 .. n - 1 /\ q \in Int /\ x = q * n + r
  BY Division, Zenon
<1>2. y - x \in Int
  OBVIOUS
<1>3. d \in Int /\ y - x = d * n + ((y - x) % n)
  BY <1>2, Division, Zenon
<1>4. y - x = d * n
  BY <1>3
<1> HIDE DEF r, q, d
<1>5. y = (q + d) * n + r
  BY <1>1, <1>3, <1>4
<1>6. q + d \in Int
  BY <1>1, <1>3
<1>7. \A z \in Int : (z * n + r) % n = r
  BY <1>1, DivisionUnique
<1>8. y % n = r
  BY <1>5, <1>6, <1>7, Zenon
<1> QED
  BY <1>8 DEF r
-----------------------------------------------------------------------------
(* Aria: the inductive invariant                                           *)

Entries == [column : Nat, tx : A!Txs \cup {0}]

AriaTypeOK ==
    /\ txs \in AriaWorkloads
    /\ perThreadBatch \in [A!Workers -> Seq(A!Txs)]
    /\ controller \in {"send", "collect", "end"}
    /\ thread \in A!Workers
    /\ batchID \in Nat
    /\ controller # "send" => batchID > 0
    /\ BatchID \in [A!Txs -> Nat]
    /\ AriaCommitted \in [A!Txs -> BOOLEAN]
    /\ ReservedGet \in [A!Keys -> Entries]
    /\ ReservedPut \in [A!Keys -> Entries]
    /\ count \in Nat
    /\ gen \in Nat
    /\ at \in [A!Workers -> {"receive", "arrive", "wait", "verify", "result", "end"}]
    /\ tx \in [A!Workers -> A!Txs \cup {0}]
    /\ seen \in [A!Workers -> Nat]

\* The worker that has a transaction.
Owner(t) == (t - 1) % AriaThreads

\* Those that wait for the barrier to open.
Arrived == {w \in A!Workers : at[w] = "wait" /\ seen[w] = gen}
NotOpen(w) == at[w] = "arrive" \/ w \in Arrived

Sending == controller = "send" /\ \A w \in A!Workers : IF w < thread THEN NotOpen(w) ELSE at[w] = "receive"
Meeting == controller = "collect" /\ thread = 0 /\ \A w \in A!Workers : NotOpen(w)
Judging ==
    /\ controller = "collect"
    /\ \A w \in A!Workers :
           IF w < thread THEN at[w] = "receive"
           ELSE at[w] \in {"verify", "result"} \/ (at[w] = "wait" /\ seen[w] # gen)
Ended == controller = "end" /\ \A w \in A!Workers : at[w] = "end"

\* A column is dealt out, meets at the barrier, and is judged and collected.
RoundInv ==
    /\ count = AriaThreads - Cardinality(Arrived)
    /\ Sending \/ Meeting \/ Judging \/ Ended

Column == IF controller = "send" THEN batchID ELSE batchID - 1

\* The workers whose transactions of the column have been reserved.
Holders == IF Judging \/ Ended THEN A!Workers ELSE Arrived
Readers(k) == {t \in A!Txs : k \in txs[t].reads /\ \E w \in Holders : tx[w] = t}
Writers(k) == {t \in A!Txs : k \in txs[t].writes /\ \E w \in Holders : tx[w] = t}

EntryOf(entry, users) ==
    /\ entry.column <= Column
    /\ users = {} => entry.column # Column \/ entry.tx = 0
    /\ users # {} => /\ entry.column = Column
                     /\ entry.tx \in users
                     /\ \A t \in users : entry.tx <= t

\* The table has the smallest transactions of those reserved in this column.
TableInv ==
    \A k \in A!Keys :
        EntryOf(ReservedGet[k], Readers(k)) /\ EntryOf(ReservedPut[k], Writers(k))

Sent(w) == controller # "send" \/ w < thread
InFlight(w) == at[w] \in {"arrive", "wait", "verify", "result"} /\ tx[w] # 0

\* A worker has its own transactions, of this column, and one that it has not
\* judged is not committed.
ColumnInv ==
    \A w \in A!Workers :
        tx[w] # 0 =>
            /\ Owner(tx[w]) = w
            /\ Sent(w) => BatchID[tx[w]] = Column
            /\ at[w] \in {"arrive", "wait", "verify"} => ~AriaCommitted[tx[w]]

\* A worker's list has in order what it has still to do, and what is committed
\* comes before that.
InOrder(list) == \A i, j \in DOMAIN list : i < j => list[i] < list[j]

ToDo(w, list) ==
    \A i \in DOMAIN list :
        /\ Owner(list[i]) = w
        /\ ~AriaCommitted[list[i]]
        /\ InFlight(w) => tx[w] < list[i]
        /\ \A t \in A!Txs : Owner(t) = w /\ AriaCommitted[t] => t < list[i]

LastTaken(w) ==
    InFlight(w) => \A t \in A!Txs :
        Owner(t) = w /\ AriaCommitted[t] /\ t # tx[w] => t < tx[w]

NoneLost(w, list) ==
    \A t \in A!Txs : Owner(t) = w =>
        \/ AriaCommitted[t]
        \/ \E i \in DOMAIN list : list[i] = t
        \/ InFlight(w) /\ tx[w] = t

ListInv ==
    \A w \in A!Workers :
        /\ InOrder(perThreadBatch[w])
        /\ ToDo(w, perThreadBatch[w])
        /\ LastTaken(w)
        /\ NoneLost(w, perThreadBatch[w])

\* What a worker committed in earlier columns and, of this one, what it has.
CommitInv ==
    \A t \in A!Txs : AriaCommitted[t] =>
        /\ BatchID[t] <= Column
        /\ BatchID[t] = Column => controller # "send" /\ tx[Owner(t)] = t
        /\ \A u \in A!Txs :
               (AriaCommitted[u] /\ Owner(u) = Owner(t) /\ t < u) => BatchID[t] < BatchID[u]

\* Of those committed in a column, v comes before t in the block.
EarlierInColumn(t, v) == AriaCommitted[v] /\ BatchID[v] = BatchID[t] /\ v < t

\* The verdict on t among what its column has committed.
SerialInv ==
    /\ Judging => \A w \in A!Workers :
           tx[w] # 0 /\ AriaCommitted[tx[w]] => ~A!Conflict(tx[w])
    /\ \A t, u, v \in A!Txs :
           AriaCommitted[t] /\ EarlierInColumn(t, u) /\ EarlierInColumn(t, v) =>
               /\ txs[t].writes \cap txs[u].writes = {}
               /\ txs[t].reads \cap txs[u].writes = {} \/ txs[t].writes \cap txs[v].reads = {}

AriaIInv ==
    AriaTypeOK /\ RoundInv /\ TableInv /\ ColumnInv /\ ListInv /\ CommitInv /\ SerialInv


-----------------------------------------------------------------------------
(* Aria: the phases of a column                                            *)

LEMMA AriaConstants ==
    ASSUME txs \in AriaWorkloads
    PROVE  /\ AriaThreads \in Nat \ {0} /\ A!Workers = 0 .. AriaThreads - 1
           /\ Len(txs) \in Nat /\ A!Txs = 1 .. Len(txs)
           /\ \A t \in A!Txs : t \in Nat /\ t # 0 /\ Owner(t) \in A!Workers
           /\ \A t \in A!Txs : txs[t].reads \subseteq A!Keys /\ txs[t].writes \subseteq A!Keys
<1>1. AriaThreads \in Nat \ {0} /\ A!Workers = 0 .. AriaThreads - 1
  BY Assumptions DEF A!AriaThreadsAssumption, A!Workers
<1>2. Len(txs) \in Nat /\ A!Txs = 1 .. Len(txs)
  BY Assumptions DEF A!AriaBlocksAssumption, A!Txs
<1>3. ASSUME NEW t \in A!Txs
      PROVE  t \in Nat /\ t # 0 /\ Owner(t) \in A!Workers
  BY <1>1, <1>2 DEF Owner
<1>4. ASSUME NEW t \in A!Txs
      PROVE  txs[t].reads \subseteq A!Keys /\ txs[t].writes \subseteq A!Keys
  BY DEF A!Keys
<1> QED
  BY <1>1, <1>2, <1>3, <1>4

\* The phases exclude each other, and a worker's place tells which it is.
LEMMA Phases ==
    ASSUME AriaTypeOK, RoundInv
    PROVE  /\ controller = "send" => Sending /\ ~Meeting /\ ~Judging /\ ~Ended
           /\ controller = "end" => Ended /\ ~Sending /\ ~Meeting /\ ~Judging
           /\ controller = "collect" => ~Sending /\ ~Ended /\ (Meeting <=> ~Judging)
           /\ Arrived \subseteq A!Workers /\ IsFiniteSet(Arrived)
           /\ Cardinality(Arrived) \in 0 .. AriaThreads
           /\ Sending \/ Meeting => Holders = Arrived
           /\ Judging \/ Ended => Holders = A!Workers
<1>1. AriaThreads \in Nat \ {0} /\ A!Workers = 0 .. AriaThreads - 1
  BY AriaConstants DEF AriaTypeOK
<1>2. 0 \in A!Workers
  BY <1>1
<1>3. controller \in {"send", "collect", "end"}
  BY DEF AriaTypeOK
<1>4. ~(Meeting /\ Judging)
  <2>1. Meeting => at[0] = "arrive" \/ (at[0] = "wait" /\ seen[0] = gen)
    BY <1>2 DEF Meeting, NotOpen, Arrived
  <2>2. Meeting /\ Judging => at[0] \in {"verify", "result"} \/ (at[0] = "wait" /\ seen[0] # gen)
    BY <1>2 DEF Meeting, Judging
  <2> QED
    BY <2>1, <2>2
<1>5. Arrived \subseteq A!Workers
  BY DEF Arrived
<1>6. IsFiniteSet(A!Workers) /\ Cardinality(A!Workers) = AriaThreads
  BY <1>1, FS_Interval
<1>7. IsFiniteSet(Arrived) /\ Cardinality(Arrived) \in 0 .. AriaThreads
  <2>1. IsFiniteSet(Arrived) /\ Cardinality(Arrived) <= Cardinality(A!Workers)
    BY <1>5, <1>6, FS_Subset
  <2>2. Cardinality(Arrived) \in Nat
    BY <2>1, FS_CardinalityType
  <2> QED
    BY <1>1, <1>6, <2>1, <2>2
<1>8. /\ controller = "send" => Sending /\ ~Meeting /\ ~Judging /\ ~Ended
      /\ controller = "end" => Ended /\ ~Sending /\ ~Meeting /\ ~Judging
      /\ controller = "collect" => ~Sending /\ ~Ended /\ (Meeting <=> ~Judging)
  BY <1>3, <1>4 DEF RoundInv, Sending, Meeting, Judging, Ended
<1>9. Sending => controller = "send"
  BY DEF Sending
<1>10. Meeting => controller = "collect"
  BY DEF Meeting
<1> QED
  BY <1>5, <1>7, <1>8, <1>9, <1>10 DEF Holders

-----------------------------------------------------------------------------
(* Aria: sending                                                           *)

\* Nobody arrives at the barrier by being sent to.
LEMMA SendRound ==
    ASSUME AriaTypeOK, RoundInv, A!Send
    PROVE  /\ Sending /\ Arrived' = Arrived /\ thread \notin Arrived
           /\ Sending' \/ Meeting'
           /\ ~Judging' /\ ~Ended' /\ Holders' = Arrived
           /\ RoundInv' /\ Column' = Column
           /\ controller' \in {"send", "collect"} /\ thread' \in A!Workers
           /\ \A w \in A!Workers : w # thread => (Sent(w)' => Sent(w))
<1>1. AriaThreads \in Nat \ {0} /\ A!Workers = 0 .. AriaThreads - 1
  BY AriaConstants DEF AriaTypeOK
<1>2. controller = "send" /\ at[thread] = "receive" /\ thread \in A!Workers
  BY DEF A!Send, AriaTypeOK
<1>3. Sending /\ Holders = Arrived
  BY <1>2, Phases
<1>4. /\ at' = [at EXCEPT ![thread] = "arrive"] /\ seen' = seen /\ gen' = gen /\ count' = count
      /\ thread' = (thread + 1) % AriaThreads
      /\ controller' = IF thread = AriaThreads - 1 THEN "collect" ELSE "send"
      /\ batchID' = IF thread = AriaThreads - 1 THEN batchID + 1 ELSE batchID
  BY DEF A!Send, A!NextThread, A!LastThread, A!barrier
<1>5. /\ DOMAIN at = A!Workers /\ at' \in [A!Workers -> {"receive", "arrive", "wait", "verify", "result", "end"}]
      /\ at'[thread] = "arrive" /\ \A w \in A!Workers : w # thread => at'[w] = at[w]
  BY <1>2, <1>4 DEF AriaTypeOK
<1>6. Arrived' = Arrived /\ thread \notin Arrived
  BY <1>2, <1>4, <1>5 DEF Arrived
<1>7. \A w \in A!Workers : w # thread => (NotOpen(w)' <=> NotOpen(w))
  BY <1>5, <1>6 DEF NotOpen
<1>8. \A w \in A!Workers : w = thread => NotOpen(w)'
  BY <1>5 DEF NotOpen
<1>9. CASE thread = AriaThreads - 1
  <2>1. thread' = 0 /\ controller' = "collect" /\ batchID' = batchID + 1
    BY <1>1, <1>4, <1>9
  <2>2. \A w \in A!Workers : w # thread => w < thread
    BY <1>1, <1>9
  <2>3. \A w \in A!Workers : NotOpen(w)'
    BY <1>3, <1>7, <1>8, <2>2 DEF Sending
  <2>4. Meeting'
    BY <2>1, <2>3 DEF Meeting
  <2>5. at'[0] \notin {"verify", "result"} /\ ~(at'[0] = "wait" /\ seen'[0] # gen') /\ ~(0 < thread')
    BY <1>1, <2>1, <2>3 DEF NotOpen, Arrived
  <2>6. ~Judging'
    BY <1>1, <2>5 DEF Judging
  <2>7. ~Ended'
    BY <2>1 DEF Ended
  <2>8. RoundInv'
    BY <1>4, <1>6, <2>4 DEF RoundInv
  <2>9. Column' = Column
    BY <1>2, <2>1 DEF Column, AriaTypeOK
  <2>10. Holders' = Arrived
    BY <1>6, <2>6, <2>7 DEF Holders
  <2>11. thread' \in A!Workers
    BY <1>1, <2>1
  <2>12. \A w \in A!Workers : w # thread => Sent(w)
    BY <2>2 DEF Sent
  <2> QED
    BY <1>3, <1>6, <2>1, <2>4, <2>6, <2>7, <2>8, <2>9, <2>10, <2>11, <2>12
<1>10. CASE thread # AriaThreads - 1
  <2>1. thread' = thread + 1 /\ controller' = "send" /\ batchID' = batchID /\ thread' \in A!Workers
    BY <1>1, <1>2, <1>4, <1>10
  <2>2. ASSUME NEW w \in A!Workers
        PROVE  IF w < thread' THEN NotOpen(w)' ELSE at'[w] = "receive"
    <3>1. w < thread' => w < thread \/ w = thread
      BY <1>1, <1>2, <2>1
    <3>2. w < thread => NotOpen(w) /\ w # thread
      BY <1>1, <1>2, <1>3 DEF Sending
    <3>3. ~(w < thread') => at[w] = "receive" /\ w # thread
      BY <1>1, <1>2, <1>3, <2>1 DEF Sending
    <3> QED
      BY <1>5, <1>7, <1>8, <3>1, <3>2, <3>3
  <2>3. Sending'
    BY <2>1, <2>2 DEF Sending
  <2>4. ~Judging' /\ ~Ended'
    BY <2>1 DEF Judging, Ended
  <2>5. RoundInv'
    BY <1>4, <1>6, <2>3 DEF RoundInv
  <2>6. Column' = Column
    BY <1>2, <2>1 DEF Column
  <2>7. Holders' = Arrived
    BY <1>6, <2>4 DEF Holders
  <2>8. \A w \in A!Workers : w # thread => (Sent(w)' => Sent(w))
    BY <1>1, <1>2, <2>1 DEF Sent
  <2> QED
    BY <1>3, <1>6, <2>1, <2>3, <2>4, <2>5, <2>6, <2>7, <2>8
<1> QED
  BY <1>9, <1>10

LEMMA SendTable ==
    ASSUME AriaTypeOK, RoundInv, TableInv, A!Send
    PROVE  TableInv'
<1>1. /\ Arrived' = Arrived /\ thread \notin Arrived /\ Holders = Arrived /\ Holders' = Arrived
      /\ Column' = Column
  BY SendRound, Phases
<1>2. txs' = txs /\ ReservedGet' = ReservedGet /\ ReservedPut' = ReservedPut
  BY DEF A!Send, A!table
<1>3. \A w \in A!Workers : w # thread => tx'[w] = tx[w]
  BY DEF A!Send, AriaTypeOK
<1>4. \A w \in Arrived : w \in A!Workers /\ tx'[w] = tx[w]
  BY <1>1, <1>3 DEF Arrived
<1>5. ASSUME NEW k \in A!Keys
      PROVE  Readers(k)' = Readers(k) /\ Writers(k)' = Writers(k)
  BY <1>1, <1>2, <1>4 DEF Readers, Writers, A!Txs
<1>6. A!Keys' = A!Keys
  BY <1>2 DEF A!Keys, A!Txs
<1>7. ASSUME NEW k \in A!Keys
      PROVE  (EntryOf(ReservedGet[k], Readers(k)) /\ EntryOf(ReservedPut[k], Writers(k)))'
  BY <1>1, <1>2, <1>5, <1>7 DEF TableInv, EntryOf
<1> QED
  BY <1>6, <1>7 DEF TableInv

\* A worker is sent the first of its list.
LEMMA SendLists ==
    ASSUME AriaTypeOK, RoundInv, ColumnInv, ListInv, A!Send
    PROVE  /\ AriaTypeOK' /\ ColumnInv' /\ ListInv'
           /\ \A t \in A!Txs : AriaCommitted[t] => BatchID'[t] = BatchID[t]
<1>1. AriaThreads \in Nat \ {0} /\ A!Workers = 0 .. AriaThreads - 1
  BY AriaConstants DEF AriaTypeOK
<1>2. /\ A!Txs = 1 .. Len(txs) /\ Len(txs) \in Nat
      /\ \A t \in A!Txs : t \in Nat /\ t # 0 /\ Owner(t) \in A!Workers
  BY AriaConstants DEF AriaTypeOK
<1>3. controller = "send" /\ at[thread] = "receive" /\ thread \in A!Workers
  BY DEF A!Send, AriaTypeOK
<1>4. /\ txs' = txs /\ AriaCommitted' = AriaCommitted /\ at' = [at EXCEPT ![thread] = "arrive"]
      /\ seen' = seen /\ count' = count /\ gen' = gen
      /\ ReservedGet' = ReservedGet /\ ReservedPut' = ReservedPut
  BY DEF A!Send, A!table, A!barrier
<1>5. A!Txs' = A!Txs /\ A!Keys' = A!Keys /\ A!Workers' = A!Workers /\ Entries' = Entries
  BY <1>4 DEF A!Txs, A!Keys, A!Workers, Entries
<1>6. /\ controller' \in {"send", "collect"} /\ thread' \in A!Workers /\ Column' = Column
      /\ \A w \in A!Workers : w # thread => (Sent(w)' => Sent(w))
  BY SendRound
<1>7. batchID' \in Nat /\ (controller' # "send" => batchID' > 0)
  BY <1>3 DEF A!Send, AriaTypeOK, A!LastThread
<1>8. at' \in [A!Workers -> {"receive", "arrive", "wait", "verify", "result", "end"}]
      /\ at'[thread] = "arrive" /\ \A w \in A!Workers : w # thread => at'[w] = at[w]
  BY <1>3, <1>4 DEF AriaTypeOK
<1>9. ~InFlight(thread)
  BY <1>3 DEF InFlight
<1> DEFINE mine == perThreadBatch[thread]
<1>10. mine \in Seq(A!Txs)
  BY <1>3 DEF AriaTypeOK
<1>11. Column = batchID
  BY <1>3 DEF Column
<1>12. \A w \in A!Workers : \A t \in A!Txs : Owner(t)' = Owner(t) /\ (w = thread => Owner(w)' = Owner(w))
  BY DEF Owner
<1>13. CASE mine = <<>>
  <2>1. /\ tx' = [tx EXCEPT ![thread] = 0] /\ BatchID' = BatchID
        /\ perThreadBatch' = perThreadBatch
    BY <1>13 DEF A!Send
  <2>2. /\ tx' \in [A!Workers -> A!Txs \cup {0}]
        /\ tx'[thread] = 0 /\ \A w \in A!Workers : w # thread => tx'[w] = tx[w]
    BY <1>3, <2>1 DEF AriaTypeOK
  <2>3. AriaTypeOK'
    BY <1>4, <1>5, <1>6, <1>7, <1>8, <2>1, <2>2 DEF AriaTypeOK
  <2>4. ASSUME NEW w \in A!Workers, tx'[w] # 0
        PROVE  /\ Owner(tx'[w]) = w
               /\ Sent(w)' => BatchID'[tx'[w]] = Column'
               /\ at'[w] \in {"arrive", "wait", "verify"} => ~AriaCommitted'[tx'[w]]
    BY <1>4, <1>6, <1>8, <2>1, <2>2, <2>4 DEF ColumnInv
  <2>5. ColumnInv'
    BY <1>5, <2>4 DEF ColumnInv, Owner
  <2>6. \A w \in A!Workers : (InFlight(w)' <=> InFlight(w)) /\ (InFlight(w) => tx'[w] = tx[w])
    BY <1>8, <1>9, <2>2 DEF InFlight
  <2>7. ASSUME NEW w \in A!Workers
        PROVE  /\ InOrder(perThreadBatch'[w]) /\ ToDo(w, perThreadBatch[w])'
               /\ LastTaken(w)' /\ NoneLost(w, perThreadBatch[w])'
    <3>1. /\ InOrder(perThreadBatch[w]) /\ ToDo(w, perThreadBatch[w])
          /\ LastTaken(w) /\ NoneLost(w, perThreadBatch[w])
      BY DEF ListInv
    <3>2. (InFlight(w)' <=> InFlight(w)) /\ (InFlight(w) => tx'[w] = tx[w])
      BY <2>6
    <3>3. ToDo(w, perThreadBatch[w])'
      BY <1>4, <1>5, <2>1, <3>1, <3>2 DEF ToDo, Owner
    <3>4. LastTaken(w)'
      BY <1>4, <1>5, <3>1, <3>2 DEF LastTaken, Owner
    <3>5. NoneLost(w, perThreadBatch[w])'
      BY <1>4, <1>5, <2>1, <3>1, <3>2 DEF NoneLost, Owner
    <3> QED
      BY <2>1, <3>1, <3>3, <3>4, <3>5
  <2>8. ListInv'
    BY <1>5, <2>7 DEF ListInv, InOrder
  <2> QED
    BY <2>1, <2>3, <2>5, <2>8
<1>14. CASE mine # <<>>
  <2> DEFINE h == Head(mine)
             rest == Tail(mine)
  <2>1. /\ tx' = [tx EXCEPT ![thread] = h] /\ BatchID' = [BatchID EXCEPT ![h] = batchID]
        /\ perThreadBatch' = [perThreadBatch EXCEPT ![thread] = rest]
    BY <1>14 DEF A!Send
  <2>2. /\ Len(mine) \in Nat /\ Len(mine) > 0 /\ DOMAIN mine = 1 .. Len(mine)
        /\ h = mine[1] /\ h \in A!Txs
        /\ rest \in Seq(A!Txs) /\ DOMAIN rest = 1 .. Len(mine) - 1
        /\ \A i \in 1 .. Len(mine) - 1 : rest[i] = mine[i + 1]
    BY <1>10, <1>14, TailFacts
  <2>3. InOrder(mine) /\ ToDo(thread, mine) /\ LastTaken(thread) /\ NoneLost(thread, mine)
    BY <1>3 DEF ListInv
  <2> HIDE DEF mine, h, rest
  <2>4. /\ Owner(h) = thread /\ ~AriaCommitted[h]
        /\ \A t \in A!Txs : Owner(t) = thread /\ AriaCommitted[t] => t < h
    BY <2>2, <2>3 DEF ToDo
  <2>5. /\ tx' \in [A!Workers -> A!Txs \cup {0}]
        /\ tx'[thread] = h /\ \A w \in A!Workers : w # thread => tx'[w] = tx[w]
    BY <1>3, <2>1, <2>2 DEF AriaTypeOK
  <2>6. /\ BatchID' \in [A!Txs -> Nat]
        /\ BatchID'[h] = Column /\ \A t \in A!Txs : t # h => BatchID'[t] = BatchID[t]
    BY <1>11, <2>1, <2>2 DEF AriaTypeOK
  <2>7. /\ perThreadBatch' \in [A!Workers -> Seq(A!Txs)]
        /\ perThreadBatch'[thread] = rest
        /\ \A w \in A!Workers : w # thread => perThreadBatch'[w] = perThreadBatch[w]
    BY <1>3, <2>1, <2>2 DEF AriaTypeOK
  <2>8. AriaTypeOK'
    BY <1>4, <1>5, <1>6, <1>7, <1>8, <2>5, <2>6, <2>7 DEF AriaTypeOK
  <2>9. ASSUME NEW w \in A!Workers, tx'[w] # 0
        PROVE  /\ Owner(tx'[w]) = w
               /\ Sent(w)' => BatchID'[tx'[w]] = Column'
               /\ at'[w] \in {"arrive", "wait", "verify"} => ~AriaCommitted'[tx'[w]]
    <3>1. CASE w = thread
      BY <1>4, <1>6, <2>4, <2>5, <2>6, <3>1
    <3>2. CASE w # thread
      <4>1. Owner(tx[w]) = w /\ (Sent(w) => BatchID[tx[w]] = Column)
            /\ (at[w] \in {"arrive", "wait", "verify"} => ~AriaCommitted[tx[w]])
        BY <2>5, <2>9, <3>2 DEF ColumnInv
      <4>2. tx[w] \in A!Txs /\ tx[w] # h
        BY <2>4, <2>5, <2>9, <3>2, <4>1 DEF AriaTypeOK
      <4> QED
        BY <1>4, <1>6, <1>8, <2>5, <2>6, <3>2, <4>1, <4>2
    <3> QED
      BY <3>1, <3>2
  <2>10. ColumnInv'
    BY <1>5, <2>9 DEF ColumnInv, Owner
  <2>11. \A w \in A!Workers : w # thread => (InFlight(w)' <=> InFlight(w))
    BY <1>8, <2>5 DEF InFlight
  <2>12. \A w \in A!Workers : w = thread => InFlight(w)'
    BY <1>2, <1>8, <2>2, <2>5 DEF InFlight
  <2>13. ASSUME NEW w \in A!Workers
         PROVE  /\ InOrder(perThreadBatch'[w]) /\ ToDo(w, perThreadBatch[w])'
                /\ LastTaken(w)' /\ NoneLost(w, perThreadBatch[w])'
    <3>1. CASE w # thread
      <4>1. /\ InOrder(perThreadBatch[w]) /\ ToDo(w, perThreadBatch[w])
            /\ LastTaken(w) /\ NoneLost(w, perThreadBatch[w])
        BY DEF ListInv
      <4>2. perThreadBatch'[w] = perThreadBatch[w] /\ tx'[w] = tx[w] /\ (InFlight(w)' <=> InFlight(w))
        BY <2>5, <2>7, <2>11, <3>1
      <4>3. ToDo(w, perThreadBatch[w])'
        BY <1>4, <1>5, <4>1, <4>2 DEF ToDo, Owner
      <4>4. LastTaken(w)'
        BY <1>4, <1>5, <4>1, <4>2 DEF LastTaken, Owner
      <4>5. NoneLost(w, perThreadBatch[w])'
        BY <1>4, <1>5, <4>1, <4>2 DEF NoneLost, Owner
      <4> QED
        BY <4>1, <4>2, <4>3, <4>4, <4>5
    <3>2. CASE w = thread
      <4>1. /\ perThreadBatch'[w] = rest /\ tx'[w] = h /\ InFlight(w)' /\ ~InFlight(w)
            /\ Owner(h) = w /\ InOrder(mine) /\ ToDo(w, mine) /\ NoneLost(w, mine)
        BY <1>9, <2>3, <2>4, <2>5, <2>7, <2>12, <3>2
      <4>2. \A i \in DOMAIN rest : i + 1 \in DOMAIN mine /\ rest[i] = mine[i + 1] /\ h < mine[i + 1]
        BY <2>2, <4>1 DEF InOrder
      <4>3. InOrder(rest)
        BY <2>2, <4>1, <4>2 DEF InOrder
      <4>4. ASSUME NEW i \in DOMAIN rest
            PROVE  /\ Owner(rest[i]) = w /\ ~AriaCommitted[rest[i]] /\ h < rest[i]
                   /\ \A t \in A!Txs : Owner(t) = w /\ AriaCommitted[t] => t < rest[i]
        BY <4>1, <4>2 DEF ToDo
      <4>5. ToDo(w, perThreadBatch[w])'
        BY <1>4, <1>5, <4>1, <4>4 DEF ToDo, Owner
      <4>6. LastTaken(w)'
        BY <1>4, <1>5, <2>4, <3>2, <4>1 DEF LastTaken, Owner
      <4>7. ASSUME NEW t \in A!Txs, Owner(t) = w
            PROVE  AriaCommitted[t] \/ h = t \/ (\E i \in DOMAIN rest : rest[i] = t)
        <5>1. CASE \E i \in DOMAIN mine : mine[i] = t
          <6>1. PICK i \in DOMAIN mine : mine[i] = t
            BY <5>1
          <6>2. CASE i = 1
            BY <2>2, <6>1, <6>2
          <6>3. CASE i # 1
            <7>1. i - 1 \in DOMAIN rest /\ rest[i - 1] = t
              BY <2>2, <6>1, <6>3
            <7> QED
              BY <7>1
          <6> QED
            BY <6>2, <6>3
        <5> QED
          BY <4>1, <4>7, <5>1 DEF NoneLost
      <4>8. NoneLost(w, perThreadBatch[w])'
        BY <1>4, <1>5, <4>1, <4>7 DEF NoneLost, Owner
      <4> QED
        BY <4>1, <4>3, <4>5, <4>6, <4>8
    <3> QED
      BY <3>1, <3>2
  <2>14. ListInv'
    BY <1>5, <2>13 DEF ListInv, InOrder
  <2>15. \A t \in A!Txs : AriaCommitted[t] => BatchID'[t] = BatchID[t]
    BY <2>4, <2>6
  <2> QED
    BY <2>8, <2>10, <2>14, <2>15
<1> QED
  BY <1>13, <1>14

LEMMA SendStep ==
    ASSUME AriaIInv, A!Send
    PROVE  AriaIInv'
<1>1. /\ AriaTypeOK /\ RoundInv /\ TableInv /\ ColumnInv /\ ListInv /\ CommitInv /\ SerialInv
  BY DEF AriaIInv
<1>2. /\ AriaTypeOK' /\ RoundInv' /\ TableInv' /\ ColumnInv' /\ ListInv' /\ ~Judging'
      /\ Column' = Column /\ \A t \in A!Txs : AriaCommitted[t] => BatchID'[t] = BatchID[t]
  BY <1>1, SendRound, SendTable, SendLists
<1>3. controller = "send" /\ txs' = txs /\ AriaCommitted' = AriaCommitted /\ A!Txs' = A!Txs
  BY DEF A!Send, A!Txs
<1>4. \A t \in A!Txs : AriaCommitted[t] => BatchID[t] <= Column /\ BatchID[t] # Column
  BY <1>1, <1>3 DEF CommitInv
<1>5. CommitInv'
  BY <1>1, <1>2, <1>3, <1>4 DEF CommitInv, Owner
<1>6. SerialInv'
  <2>1. ASSUME NEW t \in A!Txs, NEW v \in A!Txs, AriaCommitted[t], EarlierInColumn(t, v)'
        PROVE  EarlierInColumn(t, v)
    BY <1>2, <1>3, <2>1 DEF EarlierInColumn
  <2> QED
    BY <1>1, <1>2, <1>3, <2>1 DEF SerialInv
<1> QED
  BY <1>2, <1>5, <1>6 DEF AriaIInv

-----------------------------------------------------------------------------
(* Aria: reserving and meeting                                             *)

\* The barrier opens when all have arrived, with the whole column reserved.
LEMMA ArriveRound ==
    ASSUME AriaTypeOK, RoundInv, NEW w \in A!Workers, A!ReserveAndArrive(w)
    PROVE  /\ Sending \/ Meeting
           /\ Holders = Arrived /\ Holders' = Arrived \cup {w} /\ w \notin Arrived
           /\ RoundInv' /\ ~Ended'
           /\ Judging' => Meeting /\ \A v \in A!Workers : v = w \/ at[v] = "wait"
           /\ count' \in Nat /\ gen' \in Nat
           /\ seen' \in [A!Workers -> Nat]
           /\ at' \in [A!Workers -> {"receive", "arrive", "wait", "verify", "result", "end"}]
           /\ at'[w] \in {"wait", "verify"} /\ \A v \in A!Workers : v # w => at'[v] = at[v]
<1>1. AriaThreads \in Nat \ {0} /\ A!Workers = 0 .. AriaThreads - 1
  BY AriaConstants DEF AriaTypeOK
<1>2. /\ at[w] = "arrive" /\ controller' = controller /\ thread' = thread /\ batchID' = batchID
  BY DEF A!ReserveAndArrive, A!controllerVars
<1>3. w \notin Arrived /\ NotOpen(w)
  BY <1>2 DEF Arrived, NotOpen
<1>4. Sending \/ Meeting
  BY <1>2 DEF RoundInv, Judging, Ended
<1>5. Holders = Arrived /\ Arrived \subseteq A!Workers /\ IsFiniteSet(Arrived) /\ Cardinality(Arrived) \in 0 .. AriaThreads
  BY <1>4, Phases
<1>6. ~Ended'
  BY <1>2, <1>4 DEF Ended, Sending, Meeting
<1> DEFINE Now == Arrived \cup {w}
<1>7. IsFiniteSet(Now) /\ Cardinality(Now) = Cardinality(Arrived) + 1 /\ Now \subseteq A!Workers
  BY <1>3, <1>5, FS_AddElement
<1>8. count = AriaThreads - Cardinality(Arrived)
  BY DEF RoundInv
<1>9. CASE count = 1
  <2>1. /\ gen' = gen + 1 /\ count' = AriaThreads /\ at' = [at EXCEPT ![w] = "verify"] /\ seen' = seen
    BY <1>9 DEF A!ReserveAndArrive, A!LastToArrive
  <2>2. IsFiniteSet(A!Workers) /\ Cardinality(A!Workers) = AriaThreads
    BY <1>1, FS_Interval
  <2>3. Cardinality(Now) = Cardinality(A!Workers)
    BY <1>1, <1>5, <1>7, <1>8, <1>9, <2>2
  <2>4. Now = A!Workers
    BY <1>7, <2>2, <2>3, FS_Subset
  <2>5. \A v \in A!Workers : v # w => at[v] = "wait" /\ seen[v] = gen
    BY <2>4 DEF Arrived
  <2>6. ~Sending
    <3>1. SUFFICES ASSUME Sending
                   PROVE  FALSE
      OBVIOUS
    <3>2. thread \in A!Workers /\ at[thread] = "receive"
      BY <1>1, <3>1 DEF Sending, AriaTypeOK
    <3> QED
      BY <1>2, <2>5, <3>2
  <2>7. Meeting
    BY <1>4, <2>6
  <2>8. /\ at' \in [A!Workers -> {"receive", "arrive", "wait", "verify", "result", "end"}]
        /\ at'[w] = "verify" /\ \A v \in A!Workers : v # w => at'[v] = "wait" /\ at[v] = "wait"
    BY <2>1, <2>5 DEF AriaTypeOK
  <2>9. /\ gen \in Nat /\ gen' \in Nat /\ count' \in Nat /\ seen' \in [A!Workers -> Nat]
    BY <1>1, <2>1 DEF AriaTypeOK
  <2>10. ASSUME NEW v \in A!Workers
         PROVE  /\ ~(v < thread')
                /\ at'[v] \in {"verify", "result"} \/ (at'[v] = "wait" /\ seen'[v] # gen')
    <3>1. ~(v < thread')
      BY <1>1, <1>2, <2>7 DEF Meeting
    <3>2. v # w => seen'[v] # gen'
      BY <2>1, <2>5, <2>9
    <3> QED
      BY <2>8, <3>1, <3>2
  <2>11. Judging'
    BY <1>2, <2>7, <2>10 DEF Judging, Meeting, A!Workers
  <2>12. Arrived' = {}
    BY <2>8, <2>10 DEF Arrived, A!Workers
  <2>13. count' = AriaThreads - Cardinality(Arrived')
    BY <1>1, <2>1, <2>12, FS_EmptySet
  <2>14. RoundInv' /\ Holders' = A!Workers
    BY <2>11, <2>13 DEF RoundInv, Holders, A!Workers
  <2> QED
    BY <1>3, <1>4, <1>5, <1>6, <2>4, <2>7, <2>8, <2>9, <2>14
<1>10. CASE count # 1
  <2>1. /\ gen' = gen /\ count' = count - 1 /\ at' = [at EXCEPT ![w] = "wait"]
        /\ seen' = [seen EXCEPT ![w] = gen]
    BY <1>10 DEF A!ReserveAndArrive, A!LastToArrive
  <2>2. /\ at' \in [A!Workers -> {"receive", "arrive", "wait", "verify", "result", "end"}]
        /\ at'[w] = "wait" /\ \A v \in A!Workers : v # w => at'[v] = at[v]
    BY <2>1 DEF AriaTypeOK
  <2>3. /\ seen' \in [A!Workers -> Nat] /\ seen'[w] = gen
        /\ \A v \in A!Workers : v # w => seen'[v] = seen[v]
    BY <2>1 DEF AriaTypeOK
  <2>4. Arrived' = Now
    BY <2>1, <2>2, <2>3 DEF Arrived, A!Workers
  <2>5. Cardinality(Now) <= AriaThreads
    <3>1. IsFiniteSet(A!Workers) /\ Cardinality(A!Workers) = AriaThreads
      BY <1>1, FS_Interval
    <3> QED
      BY <1>7, <3>1, FS_Subset
  <2>6. count' = AriaThreads - Cardinality(Arrived') /\ count' \in Nat
    BY <1>1, <1>5, <1>7, <1>8, <2>1, <2>4, <2>5
  <2>7. ASSUME NEW v \in A!Workers
        PROVE  /\ NotOpen(v) => NotOpen(v)'
               /\ at[v] = "receive" => at'[v] = "receive"
    BY <1>2, <2>2, <2>4 DEF NotOpen
  <2>8. Sending => Sending'
    BY <1>2, <2>7 DEF Sending, A!Workers
  <2>9. Meeting => Meeting'
    BY <1>2, <2>7 DEF Meeting, A!Workers
  <2>10. ~Judging'
    <3>1. SUFFICES ASSUME Judging'
                   PROVE  FALSE
      OBVIOUS
    <3>2. at'[w] \in {"verify", "result", "receive"} \/ (at'[w] = "wait" /\ seen'[w] # gen')
      BY <3>1 DEF Judging, A!Workers
    <3> QED
      BY <2>1, <2>2, <2>3, <3>2
  <2>11. RoundInv'
    BY <1>4, <2>6, <2>8, <2>9 DEF RoundInv
  <2>12. Holders' = Now
    BY <1>6, <2>4, <2>10 DEF Holders
  <2>13. gen' \in Nat
    BY <2>1 DEF AriaTypeOK
  <2> QED
    BY <1>3, <1>4, <1>5, <1>6, <2>2, <2>3, <2>6, <2>10, <2>11, <2>12, <2>13
<1> QED
  BY <1>9, <1>10

\* An entry after a reservation.
LEMMA ReservedEntry ==
    ASSUME txs \in AriaWorkloads, BatchID \in [A!Txs -> Nat], Column \in Nat,
           NEW entry \in Entries, NEW users \in SUBSET A!Txs, EntryOf(entry, users),
           NEW t \in A!Txs, BatchID[t] = Column
    PROVE  /\ A!Reserved(entry, t) \in Entries
           /\ EntryOf(A!Reserved(entry, t), users \cup {t})
<1>1. \A u \in A!Txs : u \in Nat /\ u # 0
  BY AriaConstants
<1>2. entry.column \in Nat /\ entry.tx \in A!Txs \cup {0}
  BY DEF Entries
<1>3. CASE entry.column # Column \/ entry.tx = 0 \/ entry.tx > t
  <2> DEFINE e == [column |-> Column, tx |-> t]
  <2>1. A!Reserved(entry, t) = e
    BY <1>3 DEF A!Reserved
  <2>2. e \in Entries
    BY DEF Entries
  <2>3. \A u \in users : t <= u
    BY <1>1, <1>2, <1>3 DEF EntryOf
  <2>4. EntryOf(e, users \cup {t})
    BY <1>1, <2>3 DEF EntryOf
  <2> QED
    BY <2>1, <2>2, <2>4
<1>4. CASE ~(entry.column # Column \/ entry.tx = 0 \/ entry.tx > t)
  <2>1. A!Reserved(entry, t) = entry
    BY <1>4 DEF A!Reserved
  <2>2. users # {} /\ entry.tx <= t
    BY <1>1, <1>2, <1>4 DEF EntryOf
  <2>3. EntryOf(entry, users \cup {t})
    BY <1>1, <1>2, <1>4, <2>2 DEF EntryOf
  <2> QED
    BY <2>1, <2>3
<1> QED
  BY <1>3, <1>4

LEMMA ArriveTable ==
    ASSUME AriaTypeOK, RoundInv, TableInv, ColumnInv, NEW w \in A!Workers, A!ReserveAndArrive(w)
    PROVE  TableInv' /\ AriaTypeOK'
<1>1. /\ Sending \/ Meeting
      /\ Holders = Arrived /\ Holders' = Holders \cup {w}
      /\ count' \in Nat /\ gen' \in Nat /\ seen' \in [A!Workers -> Nat]
      /\ at' \in [A!Workers -> {"receive", "arrive", "wait", "verify", "result", "end"}]
  BY ArriveRound
<1>2. /\ at[w] = "arrive" /\ A!Reserve(w)
      /\ txs' = txs /\ perThreadBatch' = perThreadBatch /\ controller' = controller
      /\ thread' = thread /\ batchID' = batchID /\ BatchID' = BatchID
      /\ AriaCommitted' = AriaCommitted /\ tx' = tx
  BY DEF A!ReserveAndArrive, A!controllerVars
<1>3. /\ A!Txs' = A!Txs /\ A!Keys' = A!Keys /\ A!Workers' = A!Workers /\ Entries' = Entries
      /\ Column' = Column
  BY <1>2 DEF A!Txs, A!Keys, A!Workers, Entries, Column
<1>4. Column \in Nat
  BY DEF Column, AriaTypeOK
<1>5. Sent(w)
  <2>1. thread \in 0 .. AriaThreads - 1 /\ w \in 0 .. AriaThreads - 1 /\ AriaThreads \in Nat
    BY AriaConstants DEF AriaTypeOK
  <2> QED
    BY <1>1, <1>2, <2>1 DEF Sent, Sending, Meeting
<1>6. \A k \in A!Keys :
          /\ Readers(k)' = {t \in A!Txs : k \in txs[t].reads /\ \E v \in Holders \cup {w} : tx[v] = t}
          /\ Writers(k)' = {t \in A!Txs : k \in txs[t].writes /\ \E v \in Holders \cup {w} : tx[v] = t}
  BY <1>1, <1>2, <1>3 DEF Readers, Writers
<1>7. CASE tx[w] = 0
  <2>1. ReservedGet' = ReservedGet /\ ReservedPut' = ReservedPut
    BY <1>2, <1>7 DEF A!Reserve, A!table
  <2>2. 0 \notin A!Txs
    BY AriaConstants DEF AriaTypeOK
  <2>3. ASSUME NEW k \in A!Keys
        PROVE  Readers(k)' = Readers(k) /\ Writers(k)' = Writers(k)
    BY <1>6, <1>7, <2>2 DEF Readers, Writers
  <2>4. TableInv'
    BY <1>3, <2>1, <2>3 DEF TableInv, EntryOf
  <2> QED
    BY <1>1, <1>2, <1>3, <2>1, <2>4 DEF AriaTypeOK
<1>8. CASE tx[w] # 0
  <2> DEFINE t == tx[w]
  <2>1. t \in A!Txs /\ BatchID[t] = Column
    BY <1>5, <1>8 DEF AriaTypeOK, ColumnInv
  <2>2. /\ ReservedGet' = A!ReserveAll(ReservedGet, txs[t].reads, t)
        /\ ReservedPut' = A!ReserveAll(ReservedPut, txs[t].writes, t)
    BY <1>2, <1>8 DEF A!Reserve
  <2> HIDE DEF t
  <2>3. ASSUME NEW k \in A!Keys
        PROVE  /\ ReservedGet'[k] \in Entries /\ EntryOf(ReservedGet[k], Readers(k))'
               /\ ReservedPut'[k] \in Entries /\ EntryOf(ReservedPut[k], Writers(k))'
    <3>1. /\ ReservedGet[k] \in Entries /\ EntryOf(ReservedGet[k], Readers(k))
          /\ ReservedPut[k] \in Entries /\ EntryOf(ReservedPut[k], Writers(k))
      BY DEF TableInv, AriaTypeOK
    <3>2. Readers(k) \in SUBSET A!Txs /\ Writers(k) \in SUBSET A!Txs
      BY DEF Readers, Writers
    <3>3. /\ ReservedGet'[k] = IF k \in txs[t].reads THEN A!Reserved(ReservedGet[k], t) ELSE ReservedGet[k]
          /\ ReservedPut'[k] = IF k \in txs[t].writes THEN A!Reserved(ReservedPut[k], t) ELSE ReservedPut[k]
      BY <2>2 DEF A!ReserveAll
    <3>4. /\ Readers(k)' = IF k \in txs[t].reads THEN Readers(k) \cup {t} ELSE Readers(k)
          /\ Writers(k)' = IF k \in txs[t].writes THEN Writers(k) \cup {t} ELSE Writers(k)
      BY <1>6, <2>1 DEF Readers, Writers, t
    <3>5. /\ A!Reserved(ReservedGet[k], t) \in Entries
          /\ EntryOf(A!Reserved(ReservedGet[k], t), Readers(k) \cup {t})
      BY <1>4, <2>1, <3>1, <3>2, ReservedEntry DEF AriaTypeOK
    <3>6. /\ A!Reserved(ReservedPut[k], t) \in Entries
          /\ EntryOf(A!Reserved(ReservedPut[k], t), Writers(k) \cup {t})
      BY <1>4, <2>1, <3>1, <3>2, ReservedEntry DEF AriaTypeOK
    <3>7. ReservedGet'[k] \in Entries /\ EntryOf(ReservedGet[k], Readers(k))'
      <4>1. CASE k \in txs[t].reads
        BY <1>3, <3>3, <3>4, <3>5, <4>1 DEF EntryOf
      <4>2. CASE k \notin txs[t].reads
        BY <1>3, <3>1, <3>3, <3>4, <4>2 DEF EntryOf
      <4> QED
        BY <4>1, <4>2
    <3>8. ReservedPut'[k] \in Entries /\ EntryOf(ReservedPut[k], Writers(k))'
      <4>1. CASE k \in txs[t].writes
        BY <1>3, <3>3, <3>4, <3>6, <4>1 DEF EntryOf
      <4>2. CASE k \notin txs[t].writes
        BY <1>3, <3>1, <3>3, <3>4, <4>2 DEF EntryOf
      <4> QED
        BY <4>1, <4>2
    <3> QED
      BY <3>7, <3>8
  <2>4. TableInv'
    BY <1>3, <2>3 DEF TableInv
  <2>5. ReservedGet' \in [A!Keys -> Entries] /\ ReservedPut' \in [A!Keys -> Entries]
    BY <2>2, <2>3 DEF A!ReserveAll
  <2> QED
    BY <1>1, <1>2, <1>3, <2>4, <2>5 DEF AriaTypeOK
<1> QED
  BY <1>7, <1>8

\* Nothing of a list depends on how far a worker is with its transaction.
LEMMA NothingJudged ==
    ASSUME AriaTypeOK, ColumnInv, ListInv, CommitInv,
           txs' = txs, perThreadBatch' = perThreadBatch, controller' = controller,
           thread' = thread, batchID' = batchID, BatchID' = BatchID,
           AriaCommitted' = AriaCommitted, tx' = tx,
           \A w \in A!Workers : at'[w] # at[w] =>
               /\ at[w] \in {"arrive", "wait"}
               /\ at'[w] \in {"wait", "verify"}
    PROVE  ColumnInv' /\ ListInv' /\ CommitInv'
<1>1. A!Txs' = A!Txs /\ A!Workers' = A!Workers /\ Column' = Column
  BY DEF A!Txs, A!Workers, Column
<1>2. ASSUME NEW w \in A!Workers
      PROVE  (InFlight(w)' <=> InFlight(w)) /\ (Sent(w)' <=> Sent(w))
  BY DEF InFlight, Sent
<1>3. ColumnInv'
  BY <1>1, <1>2 DEF ColumnInv, Owner
<1>4. ASSUME NEW w \in A!Workers
      PROVE  /\ InOrder(perThreadBatch'[w]) /\ ToDo(w, perThreadBatch[w])'
             /\ LastTaken(w)' /\ NoneLost(w, perThreadBatch[w])'
  <2>1. /\ InOrder(perThreadBatch[w]) /\ ToDo(w, perThreadBatch[w])
        /\ LastTaken(w) /\ NoneLost(w, perThreadBatch[w])
    BY DEF ListInv
  <2>2. ToDo(w, perThreadBatch[w])'
    BY <1>1, <1>2, <2>1 DEF ToDo, Owner
  <2>3. LastTaken(w)'
    BY <1>1, <1>2, <2>1 DEF LastTaken, Owner
  <2>4. NoneLost(w, perThreadBatch[w])'
    BY <1>1, <1>2, <2>1 DEF NoneLost, Owner
  <2> QED
    BY <2>1, <2>2, <2>3, <2>4
<1>5. ListInv'
  BY <1>1, <1>4 DEF ListInv, InOrder
<1>6. CommitInv'
  BY <1>1 DEF CommitInv, Owner
<1> QED
  BY <1>3, <1>5, <1>6

LEMMA ArriveStep ==
    ASSUME AriaIInv, NEW w \in A!Workers, A!ReserveAndArrive(w)
    PROVE  AriaIInv'
<1>1. /\ AriaTypeOK /\ RoundInv /\ TableInv /\ ColumnInv /\ ListInv /\ CommitInv /\ SerialInv
  BY DEF AriaIInv
<1>2. /\ at[w] = "arrive"
      /\ txs' = txs /\ perThreadBatch' = perThreadBatch /\ controller' = controller
      /\ thread' = thread /\ batchID' = batchID /\ BatchID' = BatchID
      /\ AriaCommitted' = AriaCommitted /\ tx' = tx
  BY DEF A!ReserveAndArrive, A!controllerVars
<1>3. /\ AriaTypeOK' /\ TableInv' /\ RoundInv'
      /\ at'[w] \in {"wait", "verify"} /\ \A v \in A!Workers : v # w => at'[v] = at[v]
      /\ Judging' => \A v \in A!Workers : v = w \/ at[v] = "wait"
  BY <1>1, ArriveRound, ArriveTable
<1>4. ColumnInv' /\ ListInv' /\ CommitInv'
  <2>1. \A v \in A!Workers : at'[v] # at[v] => at[v] \in {"arrive", "wait"} /\ at'[v] \in {"wait", "verify"}
    BY <1>2, <1>3
  <2> QED
    BY <1>1, <1>2, <2>1, NothingJudged
<1>5. SerialInv'
  <2>1. Judging' => \A v \in A!Workers : tx'[v] # 0 => ~AriaCommitted'[tx'[v]]
    BY <1>1, <1>2, <1>3 DEF ColumnInv
  <2>2. A!Txs' = A!Txs /\ A!Workers' = A!Workers
    BY <1>2 DEF A!Txs, A!Workers
  <2> QED
    BY <1>1, <1>2, <2>1, <2>2 DEF SerialInv, EarlierInColumn
<1> QED
  BY <1>3, <1>4, <1>5 DEF AriaIInv

LEMMA WakeStep ==
    ASSUME AriaIInv, NEW w \in A!Workers, A!Wake(w)
    PROVE  AriaIInv'
<1>1. /\ AriaTypeOK /\ RoundInv /\ TableInv /\ ColumnInv /\ ListInv /\ CommitInv /\ SerialInv
  BY DEF AriaIInv
<1>2. /\ at[w] = "wait" /\ gen # seen[w] /\ at' = [at EXCEPT ![w] = "verify"]
      /\ txs' = txs /\ perThreadBatch' = perThreadBatch /\ controller' = controller
      /\ thread' = thread /\ batchID' = batchID /\ BatchID' = BatchID
      /\ AriaCommitted' = AriaCommitted /\ tx' = tx
      /\ ReservedGet' = ReservedGet /\ ReservedPut' = ReservedPut
      /\ count' = count /\ gen' = gen /\ seen' = seen
  BY DEF A!Wake, A!controllerVars, A!table, A!barrier
<1>3. /\ A!Txs' = A!Txs /\ A!Workers' = A!Workers /\ A!Keys' = A!Keys /\ Entries' = Entries
      /\ Column' = Column
  BY <1>2 DEF A!Txs, A!Workers, A!Keys, Entries, Column
<1>4. /\ at' \in [A!Workers -> {"receive", "arrive", "wait", "verify", "result", "end"}]
      /\ at'[w] = "verify" /\ \A v \in A!Workers : v # w => at'[v] = at[v]
  BY <1>1, <1>2 DEF AriaTypeOK
<1>5. AriaTypeOK'
  BY <1>1, <1>2, <1>3, <1>4 DEF AriaTypeOK
<1>6. Judging
  <2>1. ~NotOpen(w) /\ at[w] # "receive" /\ at[w] # "end"
    BY <1>2 DEF NotOpen, Arrived
  <2> QED
    BY <1>1, <2>1 DEF RoundInv, Sending, Meeting, Ended
<1>7. Judging'
  <2>1. ASSUME NEW v \in A!Workers
        PROVE  IF v < thread THEN at'[v] = "receive"
               ELSE at'[v] \in {"verify", "result"} \/ (at'[v] = "wait" /\ seen'[v] # gen')
    BY <1>2, <1>4, <1>6 DEF Judging
  <2> QED
    BY <1>2, <1>3, <1>6, <2>1 DEF Judging
<1>8. Arrived' = Arrived
  BY <1>2, <1>3, <1>4 DEF Arrived
<1>9. RoundInv'
  BY <1>1, <1>2, <1>7, <1>8 DEF RoundInv
<1>10. Holders' = Holders
  BY <1>3, <1>6, <1>7 DEF Holders
<1>11. TableInv'
  <2>1. \A k \in A!Keys : Readers(k)' = Readers(k) /\ Writers(k)' = Writers(k)
    BY <1>2, <1>3, <1>10 DEF Readers, Writers
  <2> QED
    BY <1>1, <1>2, <1>3, <2>1 DEF TableInv, EntryOf
<1>12. ColumnInv' /\ ListInv' /\ CommitInv'
  <2>1. \A v \in A!Workers : at'[v] # at[v] => at[v] \in {"arrive", "wait"} /\ at'[v] \in {"wait", "verify"}
    BY <1>2, <1>4
  <2> QED
    BY <1>1, <1>2, <2>1, NothingJudged
<1>13. SerialInv'
  BY <1>1, <1>2, <1>3, <1>6
     DEF SerialInv, EarlierInColumn, A!Conflict, A!Waw, A!Raw, A!War, A!Before
<1> QED
  BY <1>5, <1>9, <1>11, <1>12, <1>13 DEF AriaIInv

-----------------------------------------------------------------------------
(* Aria: the verdict                                                       *)

\* What the entries tell of a transaction without a conflict.
LEMMA Verdict ==
    ASSUME AriaTypeOK, TableInv, ColumnInv, Judging,
           NEW w \in A!Workers, tx[w] # 0, ~A!Conflict(tx[w]),
           NEW u \in A!Txs, NEW v \in A!Txs, u < tx[w], v < tx[w],
           \E x \in A!Workers : tx[x] = u, \E x \in A!Workers : tx[x] = v
    PROVE  /\ txs[tx[w]].writes \cap txs[u].writes = {}
           /\ txs[tx[w]].reads \cap txs[u].writes = {} \/ txs[tx[w]].writes \cap txs[v].reads = {}
<1> DEFINE t == tx[w]
<1>1. t \in A!Txs /\ BatchID[t] = Column
  BY DEF AriaTypeOK, ColumnInv, Sent, Judging
<1>2. Holders = A!Workers
  BY DEF Holders
<1>3. /\ \A s \in A!Txs : s \in Nat /\ s # 0
      /\ \A s \in A!Txs : txs[s].reads \subseteq A!Keys /\ txs[s].writes \subseteq A!Keys
  BY AriaConstants DEF AriaTypeOK
<1>4. ASSUME NEW k \in A!Keys, NEW s \in A!Txs, k \in txs[s].writes, s < t, \E x \in A!Workers : tx[x] = s
      PROVE  A!Before(ReservedPut[k], t)
  <2>1. s \in Writers(k)
    BY <1>2, <1>4 DEF Writers
  <2>2. /\ ReservedPut[k].column = Column /\ ReservedPut[k].tx \in Writers(k)
        /\ ReservedPut[k].tx <= s
    BY <2>1 DEF TableInv, EntryOf
  <2>3. ReservedPut[k].tx \in A!Txs
    BY <2>2 DEF Writers
  <2> QED
    BY <1>1, <1>3, <1>4, <2>2, <2>3 DEF A!Before
<1>5. ASSUME NEW k \in A!Keys, NEW s \in A!Txs, k \in txs[s].reads, s < t, \E x \in A!Workers : tx[x] = s
      PROVE  A!Before(ReservedGet[k], t)
  <2>1. s \in Readers(k)
    BY <1>2, <1>5 DEF Readers
  <2>2. /\ ReservedGet[k].column = Column /\ ReservedGet[k].tx \in Readers(k)
        /\ ReservedGet[k].tx <= s
    BY <2>1 DEF TableInv, EntryOf
  <2>3. ReservedGet[k].tx \in A!Txs
    BY <2>2 DEF Readers
  <2> QED
    BY <1>1, <1>3, <1>5, <2>2, <2>3 DEF A!Before
<1> HIDE DEF t
<1>6. u < t /\ v < t /\ ~A!Conflict(t)
  BY DEF t
<1>7. txs[t].writes \cap txs[u].writes = {}
  BY <1>1, <1>3, <1>4, <1>6 DEF A!Conflict, A!Waw
<1>8. txs[t].reads \cap txs[u].writes # {} => A!Raw(t)
  BY <1>1, <1>3, <1>4, <1>6 DEF A!Raw
<1>9. txs[t].writes \cap txs[v].reads # {} => A!War(t)
  BY <1>1, <1>3, <1>5, <1>6 DEF A!War
<1> QED
  BY <1>6, <1>7, <1>8, <1>9 DEF A!Conflict, t

LEMMA VerifyRound ==
    ASSUME AriaTypeOK, RoundInv, TableInv, NEW w \in A!Workers, A!Verify(w)
    PROVE  Judging /\ Judging' /\ AriaTypeOK' /\ RoundInv' /\ TableInv'
<1>1. /\ at[w] = "verify" /\ at' = [at EXCEPT ![w] = "result"]
      /\ txs' = txs /\ perThreadBatch' = perThreadBatch /\ controller' = controller
      /\ thread' = thread /\ batchID' = batchID /\ BatchID' = BatchID /\ tx' = tx
      /\ ReservedGet' = ReservedGet /\ ReservedPut' = ReservedPut
      /\ count' = count /\ gen' = gen /\ seen' = seen
      /\ AriaCommitted' = IF tx[w] # 0 /\ ~A!Conflict(tx[w])
                          THEN [AriaCommitted EXCEPT ![tx[w]] = TRUE] ELSE AriaCommitted
  BY DEF A!Verify, A!controllerVars, A!table, A!barrier
<1>2. /\ A!Txs' = A!Txs /\ A!Workers' = A!Workers /\ A!Keys' = A!Keys /\ Entries' = Entries
      /\ Column' = Column
  BY <1>1 DEF A!Txs, A!Workers, A!Keys, Entries, Column
<1>3. /\ at' \in [A!Workers -> {"receive", "arrive", "wait", "verify", "result", "end"}]
      /\ at'[w] = "result" /\ \A v \in A!Workers : v # w => at'[v] = at[v]
  BY <1>1 DEF AriaTypeOK
<1>4. AriaCommitted' \in [A!Txs -> BOOLEAN]
  BY <1>1 DEF AriaTypeOK
<1>5. AriaTypeOK'
  BY <1>1, <1>2, <1>3, <1>4 DEF AriaTypeOK
<1>6. Judging
  <2>1. ~NotOpen(w) /\ at[w] # "receive" /\ at[w] # "end"
    BY <1>1 DEF NotOpen, Arrived
  <2> QED
    BY <2>1 DEF RoundInv, Sending, Meeting, Ended
<1>7. Judging'
  <2>1. ASSUME NEW v \in A!Workers
        PROVE  IF v < thread THEN at'[v] = "receive"
               ELSE at'[v] \in {"verify", "result"} \/ (at'[v] = "wait" /\ seen'[v] # gen')
    BY <1>1, <1>3, <1>6 DEF Judging
  <2> QED
    BY <1>1, <1>2, <1>6, <2>1 DEF Judging
<1>8. Arrived' = Arrived
  BY <1>1, <1>2, <1>3 DEF Arrived
<1>9. RoundInv'
  BY <1>1, <1>7, <1>8 DEF RoundInv
<1>10. Holders' = Holders
  BY <1>2, <1>6, <1>7 DEF Holders
<1>11. TableInv'
  <2>1. \A k \in A!Keys : Readers(k)' = Readers(k) /\ Writers(k)' = Writers(k)
    BY <1>1, <1>2, <1>10 DEF Readers, Writers
  <2> QED
    BY <1>1, <1>2, <2>1 DEF TableInv, EntryOf
<1> QED
  BY <1>5, <1>6, <1>7, <1>9, <1>11

LEMMA VerifyStep ==
    ASSUME AriaIInv, NEW w \in A!Workers, A!Verify(w)
    PROVE  AriaIInv'
<1>1. /\ AriaTypeOK /\ RoundInv /\ TableInv /\ ColumnInv /\ ListInv /\ CommitInv /\ SerialInv
  BY DEF AriaIInv
<1>2. Judging /\ Judging' /\ AriaTypeOK' /\ RoundInv' /\ TableInv'
  BY <1>1, VerifyRound
<1>3. /\ at[w] = "verify" /\ at' = [at EXCEPT ![w] = "result"]
      /\ txs' = txs /\ perThreadBatch' = perThreadBatch /\ controller' = controller
      /\ thread' = thread /\ batchID' = batchID /\ BatchID' = BatchID /\ tx' = tx
      /\ ReservedGet' = ReservedGet /\ ReservedPut' = ReservedPut
      /\ count' = count /\ gen' = gen /\ seen' = seen
      /\ AriaCommitted' = IF tx[w] # 0 /\ ~A!Conflict(tx[w])
                          THEN [AriaCommitted EXCEPT ![tx[w]] = TRUE] ELSE AriaCommitted
  BY DEF A!Verify, A!controllerVars, A!table, A!barrier
<1>4. /\ A!Txs' = A!Txs /\ A!Workers' = A!Workers /\ Column' = Column
  BY <1>3 DEF A!Txs, A!Workers, Column
<1>5. at'[w] = "result" /\ \A v \in A!Workers : v # w => at'[v] = at[v]
  BY <1>1, <1>3 DEF AriaTypeOK
<1>6. \A t \in A!Txs : t \in Nat /\ t # 0 /\ Owner(t) \in A!Workers
  BY <1>1, AriaConstants DEF AriaTypeOK
<1>7. tx[w] # 0 => /\ tx[w] \in A!Txs /\ Owner(tx[w]) = w /\ BatchID[tx[w]] = Column
                   /\ ~AriaCommitted[tx[w]]
  BY <1>1, <1>2, <1>3 DEF AriaTypeOK, ColumnInv, Sent, Judging
<1>8. \A t \in A!Txs : AriaCommitted'[t] <=>
          \/ AriaCommitted[t]
          \/ tx[w] # 0 /\ t = tx[w] /\ ~A!Conflict(tx[w])
  BY <1>1, <1>3, <1>7 DEF AriaTypeOK
<1>9. \A v \in A!Workers : InFlight(v)' <=> InFlight(v)
  BY <1>3, <1>5 DEF InFlight
<1>10. InFlight(w) <=> tx[w] # 0
  BY <1>3 DEF InFlight
<1>11. ColumnInv'
  <2>1. ASSUME NEW v \in A!Workers, tx'[v] # 0
        PROVE  /\ Owner(tx'[v]) = v
               /\ Sent(v)' => BatchID'[tx'[v]] = Column'
               /\ at'[v] \in {"arrive", "wait", "verify"} => ~AriaCommitted'[tx'[v]]
    <3>1. tx[v] \in A!Txs
      BY <1>1, <1>3, <2>1 DEF AriaTypeOK
    <3>2. v # w => tx[v] # tx[w]
      BY <1>1, <1>3, <2>1 DEF ColumnInv
    <3> QED
      BY <1>1, <1>3, <1>4, <1>5, <1>8, <2>1, <3>1, <3>2 DEF ColumnInv, Sent
  <2> QED
    BY <1>4, <2>1 DEF ColumnInv, Owner
<1>12. ASSUME NEW v \in A!Workers
       PROVE  /\ InOrder(perThreadBatch'[v]) /\ ToDo(v, perThreadBatch[v])'
              /\ LastTaken(v)' /\ NoneLost(v, perThreadBatch[v])'
  <2> DEFINE list == perThreadBatch[v]
  <2>1. InOrder(list) /\ ToDo(v, list) /\ LastTaken(v) /\ NoneLost(v, list)
    BY <1>1 DEF ListInv
  <2>2. list \in Seq(A!Txs) /\ perThreadBatch'[v] = list
    BY <1>1, <1>3 DEF AriaTypeOK
  <2> HIDE DEF list
  <2>3. \A i \in DOMAIN list : list[i] \in A!Txs
    BY <2>2, ElementOfSeq, LenProperties
  <2>4. ASSUME NEW t \in A!Txs, Owner(t) = v, AriaCommitted'[t]
        PROVE  AriaCommitted[t] \/ (v = w /\ t = tx[v] /\ InFlight(v))
    BY <1>7, <1>8, <1>10, <2>4
  <2>5. ASSUME NEW i \in DOMAIN list
        PROVE  /\ Owner(list[i]) = v /\ ~AriaCommitted'[list[i]]
               /\ InFlight(v) => tx[v] < list[i]
               /\ \A t \in A!Txs : Owner(t) = v /\ AriaCommitted'[t] => t < list[i]
    <3>1. /\ Owner(list[i]) = v /\ ~AriaCommitted[list[i]]
          /\ InFlight(v) => tx[v] < list[i]
          /\ \A t \in A!Txs : Owner(t) = v /\ AriaCommitted[t] => t < list[i]
      BY <2>1 DEF ToDo
    <3>2. list[i] \in A!Txs /\ list[i] \in Nat
      BY <1>6, <2>3
    <3>3. ~AriaCommitted'[list[i]]
      BY <1>7, <2>4, <3>1, <3>2, <1>6
    <3> QED
      BY <2>4, <3>1, <3>3
  <2>6. ToDo(v, perThreadBatch[v])'
    BY <1>3, <1>4, <1>9, <2>2, <2>5 DEF ToDo, Owner
  <2>7. LastTaken(v)'
    BY <1>3, <1>4, <1>9, <2>1, <2>4 DEF LastTaken, Owner
  <2>8. NoneLost(v, perThreadBatch[v])'
    BY <1>3, <1>4, <1>8, <1>9, <2>1, <2>2 DEF NoneLost, Owner
  <2> QED
    BY <2>1, <2>2, <2>6, <2>7, <2>8
<1>13. ListInv'
  BY <1>4, <1>12 DEF ListInv, InOrder
<1>14. CommitInv'
  <2>1. ASSUME NEW t \in A!Txs, AriaCommitted'[t]
        PROVE  /\ BatchID[t] <= Column
               /\ BatchID[t] = Column => controller # "send" /\ tx[Owner(t)] = t
    <3>1. Column \in Nat
      BY <1>1 DEF Column, AriaTypeOK
    <3> QED
      BY <1>1, <1>2, <1>7, <1>8, <2>1, <3>1 DEF CommitInv, Judging
  <2>2. ASSUME NEW t \in A!Txs, NEW u \in A!Txs, AriaCommitted'[t], AriaCommitted'[u],
               Owner(u) = Owner(t), t < u
        PROVE  BatchID[t] < BatchID[u]
    <3>1. BatchID[t] \in Nat /\ BatchID[u] \in Nat /\ Column \in Nat
      BY <1>1 DEF AriaTypeOK, Column
    <3>2. CASE AriaCommitted[t] /\ AriaCommitted[u]
      BY <1>1, <2>2, <3>2 DEF CommitInv
    <3>3. CASE AriaCommitted[t] /\ ~AriaCommitted[u]
      <4>1. u = tx[w] /\ tx[w] # 0 /\ Owner(t) = w
        BY <1>7, <1>8, <2>2, <3>3
      <4>2. BatchID[t] <= Column /\ (BatchID[t] = Column => tx[w] = t)
        BY <1>1, <3>3, <4>1 DEF CommitInv
      <4> QED
        BY <1>6, <1>7, <2>2, <3>1, <4>1, <4>2
    <3>4. CASE ~AriaCommitted[t]
      <4>1. t = tx[w] /\ tx[w] # 0 /\ Owner(t) = w
        BY <1>7, <1>8, <2>2, <3>4
      <4>2. AriaCommitted[u] /\ u # t
        BY <1>6, <1>8, <2>2, <4>1
      <4>3. u < t
        BY <1>1, <1>10, <2>2, <4>1, <4>2 DEF ListInv, LastTaken
      <4> QED
        BY <1>6, <2>2, <4>3
    <3> QED
      BY <3>2, <3>3, <3>4
  <2> QED
    BY <1>3, <1>4, <2>1, <2>2 DEF CommitInv, Owner
<1>15. \A v \in A!Workers : tx[v] # 0 /\ AriaCommitted'[tx[v]] => ~A!Conflict(tx[v])
  <2> TAKE v \in A!Workers
  <2>1. tx[v] # 0 => tx[v] \in A!Txs
    BY <1>1 DEF AriaTypeOK
  <2> QED
    BY <1>1, <1>2, <1>8, <2>1 DEF SerialInv
<1>16. ASSUME NEW t \in A!Txs, AriaCommitted'[t], BatchID[t] = Column
       PROVE  /\ tx[Owner(t)] = t /\ Owner(t) \in A!Workers
              /\ \E x \in A!Workers : tx[x] = t
  BY <1>3, <1>4, <1>6, <1>14, <1>16 DEF CommitInv, Owner
<1>17. ASSUME NEW t \in A!Txs, NEW u \in A!Txs, NEW v \in A!Txs,
              AriaCommitted'[t], EarlierInColumn(t, u)', EarlierInColumn(t, v)'
       PROVE  /\ txs[t].writes \cap txs[u].writes = {}
              /\ txs[t].reads \cap txs[u].writes = {} \/ txs[t].writes \cap txs[v].reads = {}
  <2>1. /\ AriaCommitted'[u] /\ AriaCommitted'[v] /\ BatchID[u] = BatchID[t] /\ BatchID[v] = BatchID[t]
        /\ u < t /\ v < t
    BY <1>3, <1>17 DEF EarlierInColumn
  <2>2. CASE BatchID[t] = Column
    <3>1. /\ Owner(t) \in A!Workers /\ tx[Owner(t)] = t /\ t # 0
          /\ \E x \in A!Workers : tx[x] = u
          /\ \E x \in A!Workers : tx[x] = v
      BY <1>6, <1>16, <1>17, <2>1, <2>2
    <3>2. ~A!Conflict(tx[Owner(t)])
      BY <1>15, <1>17, <3>1
    <3> QED
      BY <1>1, <1>2, <2>1, <3>1, <3>2, Verdict
  <2>3. CASE BatchID[t] # Column
    <3>1. AriaCommitted[t] /\ AriaCommitted[u] /\ AriaCommitted[v]
      BY <1>7, <1>8, <1>17, <2>1, <2>3
    <3> QED
      BY <1>1, <2>1, <3>1 DEF SerialInv, EarlierInColumn
  <2> QED
    BY <2>2, <2>3
<1>18. SerialInv'
  <2>1. ASSUME NEW v \in A!Workers, tx'[v] # 0, AriaCommitted'[tx'[v]]
        PROVE  ~A!Conflict(tx[v])'
    <3>1. tx[v] \in A!Txs /\ tx'[v] = tx[v]
      BY <1>1, <1>3, <2>1 DEF AriaTypeOK
    <3> QED
      BY <1>3, <1>15, <2>1, <3>1 DEF A!Conflict, A!Waw, A!Raw, A!War, A!Before
  <2> QED
    BY <1>3, <1>4, <1>17, <2>1 DEF SerialInv
<1> QED
  BY <1>2, <1>11, <1>13, <1>14, <1>18 DEF AriaIInv

-----------------------------------------------------------------------------
(* Aria: collecting                                                        *)

LEMMA CollectRound ==
    ASSUME AriaTypeOK, RoundInv, TableInv, A!Collect
    PROVE  /\ Judging /\ at[thread] = "result" /\ thread \in A!Workers
           /\ RoundInv' /\ TableInv' /\ thread' \in A!Workers
           /\ controller' \in {"send", "collect", "end"}
           /\ at' \in [A!Workers -> {"receive", "arrive", "wait", "verify", "result", "end"}]
           /\ \A v \in A!Workers :
                  /\ InFlight(v)' <=> v # thread /\ InFlight(v)
                  /\ at'[v] \in {"arrive", "wait", "verify"} => at'[v] = at[v]
                  /\ Sent(v)' => Column' = Column
           /\ Column' = Column \/ (Column' = Column + 1 /\ controller' = "send")
           /\ controller' = "send" => Column' = Column + 1
           /\ Judging' => Column' = Column
<1>1. AriaThreads \in Nat \ {0} /\ A!Workers = 0 .. AriaThreads - 1
  BY AriaConstants DEF AriaTypeOK
<1>2. thread \in A!Workers /\ controller = "collect" /\ at[thread] = "result"
  BY DEF A!Collect, AriaTypeOK
<1>3. /\ txs' = txs /\ batchID' = batchID /\ tx' = tx
      /\ ReservedGet' = ReservedGet /\ ReservedPut' = ReservedPut
      /\ count' = count /\ gen' = gen /\ seen' = seen
      /\ thread' = (thread + 1) % AriaThreads
  BY DEF A!Collect, A!NextThread, A!table, A!barrier
<1>4. /\ A!Txs' = A!Txs /\ A!Workers' = A!Workers /\ A!Keys' = A!Keys
  BY <1>3 DEF A!Txs, A!Workers, A!Keys
<1>5. Judging
  <2>1. SUFFICES ASSUME Meeting
                 PROVE  FALSE
    BY <1>2, Phases
  <2>2. NotOpen(thread)
    BY <1>2, <2>1 DEF Meeting
  <2> QED
    BY <1>2, <2>2 DEF NotOpen, Arrived
<1>6. Holders = A!Workers
  BY <1>5 DEF Holders
<1>7. Column = batchID - 1 /\ batchID \in Nat /\ batchID > 0
  BY <1>2 DEF Column, AriaTypeOK
<1> DEFINE last == thread = AriaThreads - 1 /\ nilNumber = AriaThreads
<1>8. CASE last
  <2>1. /\ controller' = "end" /\ at' = [v \in A!Workers |-> "end"] /\ thread' = 0
    BY <1>1, <1>3, <1>8 DEF A!Collect, A!LastThread
  <2>2. Ended'
    BY <1>4, <2>1 DEF Ended
  <2>3. ~Judging'
    BY <2>1 DEF Judging
  <2>4. Column' = Column
    BY <1>3, <1>7, <2>1 DEF Column
  <2>5. \A v \in A!Workers : v = thread \/ at[v] = "receive"
    <3> TAKE v \in A!Workers
    <3>1. v = thread \/ v < thread
      BY <1>1, <1>2, <1>8
    <3> QED
      BY <1>5, <3>1 DEF Judging
  <2>6. Arrived = {} /\ Arrived' = {}
    BY <1>2, <1>4, <2>1, <2>5 DEF Arrived
  <2>7. RoundInv'
    BY <1>3, <2>2, <2>6 DEF RoundInv
  <2>8. Holders' = Holders
    BY <1>4, <1>6, <2>2 DEF Holders
  <2>9. TableInv'
    <3>1. \A k \in A!Keys : Readers(k)' = Readers(k) /\ Writers(k)' = Writers(k)
      BY <1>3, <1>4, <2>8 DEF Readers, Writers
    <3> QED
      BY <1>3, <1>4, <2>4, <3>1 DEF TableInv, EntryOf
  <2>10. \A v \in A!Workers : ~InFlight(v)' /\ (v = thread \/ ~InFlight(v))
    BY <2>1, <2>5 DEF InFlight
  <2>11. thread' \in A!Workers
    BY <1>1, <2>1
  <2> QED
    BY <1>2, <1>5, <2>1, <2>3, <2>4, <2>7, <2>9, <2>10, <2>11
<1>9. CASE ~last
  <2>1. at' = [at EXCEPT ![thread] = "receive"]
    BY <1>9 DEF A!Collect, A!LastThread
  <2>2. /\ at' \in [A!Workers -> {"receive", "arrive", "wait", "verify", "result", "end"}]
        /\ at'[thread] = "receive" /\ \A v \in A!Workers : v # thread => at'[v] = at[v]
    BY <1>2, <2>1 DEF AriaTypeOK
  <2>3. Arrived' = Arrived
    BY <1>2, <1>3, <1>4, <2>2 DEF Arrived
  <2>4. \A v \in A!Workers : InFlight(v)' <=> v # thread /\ InFlight(v)
    BY <1>3, <2>2 DEF InFlight
  <2>5. CASE thread # AriaThreads - 1
    <3>1. thread' = thread + 1 /\ controller' = "collect" /\ thread' \in A!Workers
      BY <1>1, <1>2, <1>3, <1>9, <2>5 DEF A!Collect, A!LastThread
    <3>2. ASSUME NEW v \in A!Workers
          PROVE  IF v < thread' THEN at'[v] = "receive"
                 ELSE at'[v] \in {"verify", "result"} \/ (at'[v] = "wait" /\ seen'[v] # gen')
      <4>1. CASE v = thread
        BY <1>1, <1>2, <2>2, <3>1, <4>1
      <4>2. CASE v # thread
        <5>1. v < thread' <=> v < thread
          BY <1>1, <1>2, <3>1, <4>2
        <5> QED
          BY <1>3, <1>5, <2>2, <4>2, <5>1 DEF Judging
      <4> QED
        BY <4>1, <4>2
    <3>3. Judging'
      BY <1>4, <3>1, <3>2 DEF Judging
    <3>4. Column' = Column
      BY <1>3, <1>7, <3>1 DEF Column
    <3>5. RoundInv'
      BY <1>3, <2>3, <3>3 DEF RoundInv
    <3>6. Holders' = Holders
      BY <1>4, <1>6, <3>3 DEF Holders
    <3>7. TableInv'
      <4>1. \A k \in A!Keys : Readers(k)' = Readers(k) /\ Writers(k)' = Writers(k)
        BY <1>3, <1>4, <3>6 DEF Readers, Writers
      <4> QED
        BY <1>3, <1>4, <3>4, <4>1 DEF TableInv, EntryOf
    <3> QED
      BY <1>2, <1>5, <2>2, <2>4, <3>1, <3>4, <3>5, <3>7
  <2>6. CASE thread = AriaThreads - 1
    <3>1. thread' = 0 /\ controller' = "send" /\ thread' \in A!Workers
      BY <1>1, <1>3, <1>9, <2>6 DEF A!Collect, A!LastThread
    <3>2. ASSUME NEW v \in A!Workers
          PROVE  at'[v] = "receive" /\ ~(v < thread')
      <4>1. v = thread \/ v < thread
        BY <1>1, <1>2, <2>6
      <4>2. v # thread => at[v] = "receive"
        BY <1>5, <4>1 DEF Judging
      <4> QED
        BY <1>1, <2>2, <3>1, <4>2
    <3>3. Sending'
      BY <1>4, <3>1, <3>2 DEF Sending
    <3>4. Column' = Column + 1 /\ ~Judging' /\ ~Ended'
      BY <1>3, <1>7, <3>1 DEF Column, Judging, Ended
    <3>5. RoundInv'
      BY <1>3, <2>3, <3>3 DEF RoundInv
    <3>6. Holders' = {}
      BY <1>4, <3>2, <3>4 DEF Holders, Arrived
    <3>7. \A k \in A!Keys : Readers(k)' = {} /\ Writers(k)' = {}
      BY <3>6 DEF Readers, Writers
    <3>8. ASSUME NEW k \in A!Keys
          PROVE  (EntryOf(ReservedGet[k], Readers(k)) /\ EntryOf(ReservedPut[k], Writers(k)))'
      <4>1. ReservedGet[k] \in Entries /\ ReservedPut[k] \in Entries
        BY DEF AriaTypeOK
      <4>2. ReservedGet[k].column \in Nat /\ ReservedPut[k].column \in Nat
        BY <4>1 DEF Entries
      <4>3. ReservedGet[k].column <= Column /\ ReservedPut[k].column <= Column
        BY DEF TableInv, EntryOf
      <4> QED
        BY <1>3, <1>7, <3>4, <3>7, <4>2, <4>3 DEF EntryOf
    <3>9. TableInv'
      BY <1>4, <3>8 DEF TableInv
    <3>10. \A v \in A!Workers : ~Sent(v)'
      BY <3>1, <3>2 DEF Sent
    <3> QED
      BY <1>2, <1>5, <2>2, <2>4, <3>1, <3>4, <3>5, <3>9, <3>10
  <2> QED
    BY <2>5, <2>6
<1> QED
  BY <1>8, <1>9

\* A transaction that is not committed is the next of its worker's list.
LEMMA CollectLists ==
    ASSUME AriaTypeOK, RoundInv, TableInv, ColumnInv, ListInv, A!Collect
    PROVE  ListInv' /\ perThreadBatch' \in [A!Workers -> Seq(A!Txs)]
<1>1. /\ at[thread] = "result" /\ thread \in A!Workers
      /\ \A v \in A!Workers : InFlight(v)' <=> v # thread /\ InFlight(v)
  BY CollectRound
<1>2. /\ txs' = txs /\ tx' = tx /\ AriaCommitted' = AriaCommitted
      /\ perThreadBatch' = IF tx[thread] # 0 /\ ~AriaCommitted[tx[thread]]
                           THEN [perThreadBatch EXCEPT ![thread] = <<tx[thread]>> \o perThreadBatch[thread]]
                           ELSE perThreadBatch
  BY DEF A!Collect, A!PutBack
<1>3. A!Txs' = A!Txs /\ A!Workers' = A!Workers
  BY <1>2 DEF A!Txs, A!Workers
<1>4. \A t \in A!Txs : t \in Nat /\ t # 0 /\ Owner(t) \in A!Workers
  BY AriaConstants DEF AriaTypeOK
<1> DEFINE t0 == tx[thread]
           mine == perThreadBatch[thread]
           back == <<t0>> \o mine
<1>5. InFlight(thread) <=> t0 # 0
  BY <1>1 DEF InFlight
<1>6. ASSUME NEW v \in A!Workers, v # thread, perThreadBatch'[v] = perThreadBatch[v]
      PROVE  /\ InOrder(perThreadBatch'[v]) /\ ToDo(v, perThreadBatch[v])'
             /\ LastTaken(v)' /\ NoneLost(v, perThreadBatch[v])'
  <2>1. /\ InOrder(perThreadBatch[v]) /\ ToDo(v, perThreadBatch[v])
        /\ LastTaken(v) /\ NoneLost(v, perThreadBatch[v])
    BY DEF ListInv
  <2>2. InFlight(v)' <=> InFlight(v)
    BY <1>1, <1>6
  <2>3. ToDo(v, perThreadBatch[v])'
    BY <1>2, <1>3, <1>6, <2>1, <2>2 DEF ToDo, Owner
  <2>4. LastTaken(v)'
    BY <1>2, <1>3, <2>1, <2>2 DEF LastTaken, Owner
  <2>5. NoneLost(v, perThreadBatch[v])'
    BY <1>2, <1>3, <1>6, <2>1, <2>2 DEF NoneLost, Owner
  <2> QED
    BY <1>6, <2>1, <2>3, <2>4, <2>5
<1>7. mine \in Seq(A!Txs)
  BY <1>1 DEF AriaTypeOK
<1>8. InOrder(mine) /\ ToDo(thread, mine) /\ LastTaken(thread) /\ NoneLost(thread, mine)
  BY <1>1 DEF ListInv
<1>9. CASE t0 # 0 /\ ~AriaCommitted[t0]
  <2>1. t0 \in A!Txs /\ Owner(t0) = thread /\ InFlight(thread)
    BY <1>1, <1>5, <1>9 DEF AriaTypeOK, ColumnInv
  <2>2. /\ Len(mine) \in Nat /\ DOMAIN mine = 1 .. Len(mine)
        /\ back \in Seq(A!Txs) /\ DOMAIN back = 1 .. Len(mine) + 1 /\ back[1] = t0
        /\ \A i \in 1 .. Len(mine) : back[i + 1] = mine[i]
    BY <1>7, <2>1, BeforeFacts
  <2>3. perThreadBatch' = [perThreadBatch EXCEPT ![thread] = back]
    BY <1>2, <1>9
  <2> HIDE DEF mine, back, t0
  <2>4. /\ perThreadBatch' \in [A!Workers -> Seq(A!Txs)] /\ perThreadBatch'[thread] = back
        /\ \A v \in A!Workers : v # thread => perThreadBatch'[v] = perThreadBatch[v]
    BY <1>1, <2>2, <2>3 DEF AriaTypeOK
  <2>5. \A i \in DOMAIN back : i = 1 \/ (i - 1 \in DOMAIN mine /\ back[i] = mine[i - 1])
    <3> TAKE i \in DOMAIN back
    <3>1. i # 1 => i - 1 \in 1 .. Len(mine) /\ (i - 1) + 1 = i
      BY <2>2
    <3> QED
      BY <2>2, <3>1
  <2>6. \A i \in DOMAIN mine : t0 < mine[i]
    BY <1>8, <2>1 DEF ToDo, t0
  <2>7. InOrder(back)
    <3>1. ASSUME NEW i \in DOMAIN back, NEW j \in DOMAIN back, i < j
          PROVE  back[i] < back[j]
      <4>1. i \in Nat /\ j \in Nat /\ j # 1
        BY <2>2, <3>1
      <4>2. j - 1 \in DOMAIN mine /\ back[j] = mine[j - 1]
        BY <2>5, <4>1
      <4>3. CASE i = 1
        BY <2>2, <2>6, <4>2, <4>3
      <4>4. CASE i # 1
        <5>1. i - 1 \in DOMAIN mine /\ back[i] = mine[i - 1] /\ i - 1 < j - 1
          BY <2>5, <3>1, <4>1, <4>4
        <5> QED
          BY <1>8, <4>2, <5>1 DEF InOrder
      <4> QED
        BY <4>3, <4>4
    <3> QED
      BY <3>1 DEF InOrder
  <2>8. \A t \in A!Txs : Owner(t) = thread /\ AriaCommitted[t] => t < t0
    BY <1>8, <1>9, <2>1 DEF LastTaken, t0
  <2>9. ASSUME NEW i \in DOMAIN back
        PROVE  /\ Owner(back[i]) = thread /\ ~AriaCommitted[back[i]]
               /\ \A t \in A!Txs : Owner(t) = thread /\ AriaCommitted[t] => t < back[i]
    BY <1>8, <1>9, <2>1, <2>2, <2>5, <2>8 DEF ToDo
  <2>10. ASSUME NEW t \in A!Txs, Owner(t) = thread
         PROVE  AriaCommitted[t] \/ (\E i \in DOMAIN back : back[i] = t)
    <3>1. CASE \E i \in DOMAIN mine : mine[i] = t
      <4>1. PICK i \in DOMAIN mine : mine[i] = t
        BY <3>1
      <4>2. i + 1 \in DOMAIN back /\ back[i + 1] = t
        BY <2>2, <4>1
      <4> QED
        BY <4>2
    <3>2. CASE t = t0
      <4>1. 1 \in DOMAIN back
        BY <2>2
      <4> QED
        BY <2>2, <3>2, <4>1
    <3> QED
      BY <1>8, <2>10, <3>1, <3>2 DEF NoneLost, t0
  <2>11. ASSUME NEW v \in A!Workers, v = thread
         PROVE  /\ InOrder(perThreadBatch'[v]) /\ ToDo(v, perThreadBatch[v])'
                /\ LastTaken(v)' /\ NoneLost(v, perThreadBatch[v])'
    <3>1. perThreadBatch'[v] = back /\ ~InFlight(v)'
      BY <1>1, <2>4, <2>11
    <3>2. ToDo(v, perThreadBatch[v])'
      BY <1>2, <1>3, <2>9, <2>11, <3>1 DEF ToDo, Owner
    <3>3. LastTaken(v)'
      BY <3>1 DEF LastTaken
    <3>4. NoneLost(v, perThreadBatch[v])'
      BY <1>2, <1>3, <2>10, <2>11, <3>1 DEF NoneLost, Owner
    <3> QED
      BY <2>7, <3>1, <3>2, <3>3, <3>4
  <2>12. ListInv'
    BY <1>3, <1>6, <2>4, <2>11 DEF ListInv, InOrder
  <2> QED
    BY <2>4, <2>12
<1>10. CASE ~(t0 # 0 /\ ~AriaCommitted[t0])
  <2>1. perThreadBatch' = perThreadBatch
    BY <1>2, <1>10
  <2>2. ASSUME NEW v \in A!Workers, v = thread
        PROVE  /\ InOrder(perThreadBatch'[v]) /\ ToDo(v, perThreadBatch[v])'
               /\ LastTaken(v)' /\ NoneLost(v, perThreadBatch[v])'
    <3>1. perThreadBatch'[v] = mine /\ ~InFlight(v)' /\ perThreadBatch[v] = mine
      BY <1>1, <2>1, <2>2
    <3>2. ToDo(v, mine)
      BY <1>8, <2>2
    <3>3. ToDo(v, perThreadBatch[v])'
      BY <1>2, <1>3, <2>1, <3>1, <3>2 DEF ToDo, Owner
    <3>4. LastTaken(v)'
      BY <3>1 DEF LastTaken
    <3>5. \A t \in A!Txs : Owner(t) = v => AriaCommitted[t] \/ (\E i \in DOMAIN mine : mine[i] = t)
      BY <1>5, <1>8, <1>10, <2>2 DEF NoneLost
    <3>6. NoneLost(v, perThreadBatch[v])'
      BY <1>2, <1>3, <2>1, <3>1, <3>5 DEF NoneLost, Owner
    <3> QED
      BY <1>8, <3>1, <3>3, <3>4, <3>6
  <2>3. ListInv'
    BY <1>3, <1>6, <2>1, <2>2 DEF ListInv, InOrder
  <2> QED
    BY <2>1, <2>3 DEF AriaTypeOK
<1> QED
  BY <1>9, <1>10

LEMMA CollectStep ==
    ASSUME AriaIInv, A!Collect
    PROVE  AriaIInv'
<1>1. /\ AriaTypeOK /\ RoundInv /\ TableInv /\ ColumnInv /\ ListInv /\ CommitInv /\ SerialInv
  BY DEF AriaIInv
<1>2. /\ txs' = txs /\ batchID' = batchID /\ tx' = tx /\ BatchID' = BatchID
      /\ AriaCommitted' = AriaCommitted
      /\ ReservedGet' = ReservedGet /\ ReservedPut' = ReservedPut
      /\ count' = count /\ gen' = gen /\ seen' = seen
      /\ controller = "collect"
  BY DEF A!Collect, A!table, A!barrier
<1>3. /\ A!Txs' = A!Txs /\ A!Workers' = A!Workers /\ A!Keys' = A!Keys /\ Entries' = Entries
  BY <1>2 DEF A!Txs, A!Workers, A!Keys, Entries
<1>4. /\ Judging /\ thread \in A!Workers
      /\ RoundInv' /\ TableInv' /\ thread' \in A!Workers
      /\ controller' \in {"send", "collect", "end"}
      /\ at' \in [A!Workers -> {"receive", "arrive", "wait", "verify", "result", "end"}]
      /\ \A v \in A!Workers :
             /\ at'[v] \in {"arrive", "wait", "verify"} => at'[v] = at[v]
             /\ Sent(v)' => Column' = Column
      /\ Column' = Column \/ (Column' = Column + 1 /\ controller' = "send")
      /\ controller' = "send" => Column' = Column + 1
  BY <1>1, CollectRound
<1>5. ListInv' /\ perThreadBatch' \in [A!Workers -> Seq(A!Txs)]
  BY <1>1, CollectLists
<1>6. AriaTypeOK'
  BY <1>1, <1>2, <1>3, <1>4, <1>5 DEF AriaTypeOK
<1>7. \A v \in A!Workers : Sent(v)
  BY <1>2 DEF Sent
<1>8. ColumnInv'
  BY <1>1, <1>2, <1>3, <1>4, <1>7 DEF ColumnInv, Owner
<1>9. CommitInv'
  <2>1. ASSUME NEW t \in A!Txs, AriaCommitted[t]
        PROVE  /\ BatchID[t] <= Column'
               /\ BatchID[t] = Column' => controller' # "send" /\ tx[Owner(t)] = t
    <3>1. BatchID[t] \in Nat /\ Column \in Nat
      BY <1>1, <1>2 DEF AriaTypeOK, Column
    <3>2. BatchID[t] <= Column /\ (BatchID[t] = Column => tx[Owner(t)] = t)
      BY <1>1, <2>1 DEF CommitInv
    <3> QED
      BY <1>4, <3>1, <3>2
  <2>2. \A t, u \in A!Txs :
            (AriaCommitted[t] /\ AriaCommitted[u] /\ Owner(u) = Owner(t) /\ t < u) => BatchID[t] < BatchID[u]
    BY <1>1 DEF CommitInv
  <2> QED
    BY <1>2, <1>3, <2>1, <2>2 DEF CommitInv, Owner
<1>10. SerialInv'
  <2>1. \A v \in A!Workers : tx[v] # 0 /\ AriaCommitted[tx[v]] => ~A!Conflict(tx[v])
    BY <1>1, <1>4 DEF SerialInv
  <2>2. ASSUME NEW v \in A!Workers, tx'[v] # 0, AriaCommitted'[tx'[v]]
        PROVE  ~A!Conflict(tx[v])'
    BY <1>2, <2>1, <2>2 DEF A!Conflict, A!Waw, A!Raw, A!War, A!Before
  <2>3. \A t, u, v \in A!Txs :
           AriaCommitted[t] /\ EarlierInColumn(t, u) /\ EarlierInColumn(t, v) =>
               /\ txs[t].writes \cap txs[u].writes = {}
               /\ txs[t].reads \cap txs[u].writes = {} \/ txs[t].writes \cap txs[v].reads = {}
    BY <1>1 DEF SerialInv
  <2> QED
    BY <1>2, <1>3, <2>2, <2>3 DEF SerialInv, EarlierInColumn
<1> QED
  BY <1>4, <1>5, <1>6, <1>8, <1>9, <1>10 DEF AriaIInv

-----------------------------------------------------------------------------
(* Aria: the beginning, and the invariant                                  *)

LEMMA DealtFacts ==
    ASSUME txs \in AriaWorkloads, NEW w \in A!Workers
    PROVE  LET list == A!Dealt(txs, w)
           IN  /\ list \in Seq(A!Txs)
               /\ \A i, j \in DOMAIN list : i < j => list[i] < list[j]
               /\ \A i \in DOMAIN list : Owner(list[i]) = w
               /\ \A t \in A!Txs : Owner(t) = w => \E i \in DOMAIN list : list[i] = t
<1>1. /\ AriaThreads \in Nat \ {0} /\ w \in 0 .. AriaThreads - 1
      /\ Len(txs) \in Nat /\ A!Txs = 1 .. Len(txs)
  BY AriaConstants
<1>2. A!Dealt(txs, w) = DealtTo(AriaThreads, Len(txs), w)
  BY DEF A!Dealt, DealtTo
<1> DEFINE list == DealtTo(AriaThreads, Len(txs), w)
<1>3. /\ list \in Seq(1 .. Len(txs))
      /\ \A i, j \in DOMAIN list : i < j => list[i] < list[j]
      /\ \A i \in DOMAIN list : (list[i] - 1) % AriaThreads = w
      /\ \A t \in 1 .. Len(txs) : (t - 1) % AriaThreads = w =>
             /\ (t - 1) \div AriaThreads + 1 \in DOMAIN list
             /\ list[(t - 1) \div AriaThreads + 1] = t
  BY <1>1, DealtOut
<1> HIDE DEF list
<1>4. A!Dealt(txs, w) = list
  BY <1>2 DEF list
<1> QED
  BY <1>1, <1>3, <1>4 DEF Owner

LEMMA AriaInitial ==
    ASSUME A!Init
    PROVE  AriaIInv
<1>1. /\ txs \in AriaWorkloads
      /\ perThreadBatch = [w \in A!Workers |-> A!Dealt(txs, w)]
      /\ controller = "send" /\ thread = 0 /\ batchID = 0
      /\ BatchID = [t \in A!Txs |-> 0] /\ AriaCommitted = [t \in A!Txs |-> FALSE]
      /\ ReservedGet = [k \in A!Keys |-> A!NoEntry] /\ ReservedPut = [k \in A!Keys |-> A!NoEntry]
      /\ count = AriaThreads /\ gen = 0
      /\ at = [w \in A!Workers |-> "receive"]
      /\ tx = [w \in A!Workers |-> 0] /\ seen = [w \in A!Workers |-> 0]
  BY DEF A!Init
<1>2. /\ AriaThreads \in Nat \ {0} /\ A!Workers = 0 .. AriaThreads - 1
      /\ \A t \in A!Txs : t \in Nat /\ t # 0 /\ Owner(t) \in A!Workers
  BY <1>1, AriaConstants
<1>3. \A w \in A!Workers : ~InFlight(w) /\ at[w] = "receive" /\ tx[w] = 0
  BY <1>1 DEF InFlight
<1>4. AriaTypeOK
  <2>1. perThreadBatch \in [A!Workers -> Seq(A!Txs)]
    BY <1>1, DealtFacts
  <2>2. A!NoEntry \in Entries
    BY DEF A!NoEntry, Entries
  <2> QED
    BY <1>1, <1>2, <2>1, <2>2 DEF AriaTypeOK
<1>5. RoundInv
  <2>1. Arrived = {}
    BY <1>3 DEF Arrived
  <2>2. Sending
    BY <1>1, <1>2, <1>3 DEF Sending
  <2> QED
    BY <1>1, <1>2, <2>1, <2>2, FS_EmptySet DEF RoundInv
<1>6. Holders = {} /\ Column = 0
  BY <1>1, <1>3 DEF Holders, Column, Judging, Ended, Arrived
<1>7. TableInv
  <2>1. ASSUME NEW k \in A!Keys
        PROVE  /\ Readers(k) = {} /\ Writers(k) = {}
               /\ ReservedGet[k] = A!NoEntry /\ ReservedPut[k] = A!NoEntry
    BY <1>1, <1>6 DEF Readers, Writers
  <2> QED
    BY <1>6, <2>1 DEF TableInv, EntryOf, A!NoEntry
<1>8. ColumnInv
  BY <1>3 DEF ColumnInv
<1>9. ListInv
  <2>1. ASSUME NEW w \in A!Workers
        PROVE  /\ InOrder(perThreadBatch[w]) /\ ToDo(w, perThreadBatch[w])
               /\ LastTaken(w) /\ NoneLost(w, perThreadBatch[w])
    <3> DEFINE list == A!Dealt(txs, w)
    <3>1. /\ list \in Seq(A!Txs)
          /\ \A i, j \in DOMAIN list : i < j => list[i] < list[j]
          /\ \A i \in DOMAIN list : Owner(list[i]) = w
          /\ \A t \in A!Txs : Owner(t) = w => \E i \in DOMAIN list : list[i] = t
      BY <1>1, DealtFacts
    <3>2. perThreadBatch[w] = list
      BY <1>1
    <3> HIDE DEF list
    <3>3. \A i \in DOMAIN list : list[i] \in A!Txs
      BY <3>1, ElementOfSeq, LenProperties
    <3> QED
      BY <1>1, <1>3, <3>1, <3>2, <3>3 DEF InOrder, ToDo, LastTaken, NoneLost
  <2> QED
    BY <2>1 DEF ListInv
<1>10. CommitInv
  BY <1>1 DEF CommitInv
<1>11. SerialInv
  BY <1>1, <1>3 DEF SerialInv
<1> QED
  BY <1>4, <1>5, <1>7, <1>8, <1>9, <1>10, <1>11 DEF AriaIInv

AriaInv == engine = "aria" => AriaIInv

LEMMA AriaNext ==
    ASSUME AriaIInv, A!Next
    PROVE  AriaIInv'
<1>1. CASE A!Send
  BY <1>1, SendStep
<1>2. CASE A!Collect
  BY <1>2, CollectStep
<1>3. ASSUME NEW w \in A!Workers, A!Worker(w)
      PROVE  AriaIInv'
  BY <1>3, ArriveStep, WakeStep, VerifyStep DEF A!Worker
<1> QED
  BY <1>1, <1>2, <1>3 DEF A!Next

LEMMA AriaStutter ==
    ASSUME AriaIInv, UNCHANGED ariaVars
    PROVE  AriaIInv'
<1>1. /\ txs' = txs /\ perThreadBatch' = perThreadBatch /\ controller' = controller
      /\ thread' = thread /\ batchID' = batchID /\ BatchID' = BatchID
      /\ AriaCommitted' = AriaCommitted /\ ReservedGet' = ReservedGet /\ ReservedPut' = ReservedPut
      /\ count' = count /\ gen' = gen /\ at' = at /\ tx' = tx /\ seen' = seen
  BY DEF ariaVars
<1>2. /\ A!Txs' = A!Txs /\ A!Workers' = A!Workers /\ A!Keys' = A!Keys /\ Entries' = Entries
      /\ Column' = Column /\ Arrived' = Arrived
  BY <1>1 DEF A!Txs, A!Workers, A!Keys, Entries, Column, Arrived
<1>3. /\ Sending' = Sending /\ Meeting' = Meeting /\ Judging' = Judging /\ Ended' = Ended
  BY <1>1, <1>2 DEF Sending, Meeting, Judging, Ended, NotOpen
<1>4. \A w \in A!Workers : (InFlight(w)' <=> InFlight(w)) /\ (Sent(w)' <=> Sent(w))
  BY <1>1 DEF InFlight, Sent
<1>5. /\ AriaTypeOK /\ RoundInv /\ TableInv /\ ColumnInv /\ ListInv /\ CommitInv /\ SerialInv
  BY DEF AriaIInv
<1>6. AriaTypeOK'
  BY <1>1, <1>2, <1>5 DEF AriaTypeOK
<1>7. RoundInv'
  BY <1>1, <1>2, <1>3, <1>5 DEF RoundInv
<1>8. TableInv'
  <2>1. Holders' = Holders
    BY <1>2, <1>3 DEF Holders
  <2>2. \A k \in A!Keys : Readers(k)' = Readers(k) /\ Writers(k)' = Writers(k)
    BY <1>1, <1>2, <2>1 DEF Readers, Writers
  <2> QED
    BY <1>1, <1>2, <1>5, <2>2 DEF TableInv, EntryOf
<1>9. ColumnInv' /\ ListInv' /\ CommitInv'
  BY <1>1, <1>5, NothingJudged
<1>10. SerialInv'
  BY <1>1, <1>2, <1>3, <1>5
     DEF SerialInv, EarlierInColumn, A!Conflict, A!Waw, A!Raw, A!War, A!Before
<1> QED
  BY <1>6, <1>7, <1>8, <1>9, <1>10 DEF AriaIInv

\* Whatever Aria does, the invariant holds: of every block, for any number of
\* workers.
THEOREM AriaInvariance == Spec => []AriaInv
<1>1. Init => AriaInv
  BY AriaInitial DEF Init, AriaInv
<1>2. AriaInv /\ [Next]_vars => AriaInv'
  <2>1. ASSUME AriaInv, engine = "aria", A!Next, engine' = engine
        PROVE  AriaInv'
    BY <2>1, AriaNext DEF AriaInv
  <2>2. ASSUME AriaInv, engine' = engine, UNCHANGED ariaVars
        PROVE  AriaInv'
    BY <2>2, AriaStutter DEF AriaInv
  <2>3. ASSUME engine' = engine, engine # "aria"
        PROVE  AriaInv'
    BY <2>3 DEF AriaInv
  <2> QED
    BY <2>1, <2>2, <2>3 DEF Next, vars
<1> QED
  BY <1>1, <1>2, PTL DEF Spec

-----------------------------------------------------------------------------
(* Aria: what follows                                                      *)

LEMMA SeesColumn ==
    ASSUME AriaIInv
    PROVE  A!AriaSeesColumn
<1>1. /\ AriaTypeOK /\ RoundInv /\ TableInv /\ ColumnInv
  BY DEF AriaIInv
<1> DEFINE column == {tx[w] : w \in A!Workers} \ {0}
<1>2. ASSUME NEW w \in A!Workers, at[w] = "verify"
      PROVE  Judging
  <2>1. ~NotOpen(w) /\ at[w] # "receive" /\ at[w] # "end"
    BY <1>2 DEF NotOpen, Arrived
  <2> QED
    BY <1>1, <2>1 DEF RoundInv, Sending, Meeting, Ended
<1>3. ASSUME Judging, NEW k \in A!Keys
      PROVE  /\ LET users == {t \in column : k \in txs[t].reads}
                IN  users # {} => /\ ReservedGet[k].tx \in users
                                  /\ \A t \in users : ReservedGet[k].tx <= t /\ ReservedGet[k].column = BatchID[t]
             /\ LET users == {t \in column : k \in txs[t].writes}
                IN  users # {} => /\ ReservedPut[k].tx \in users
                                  /\ \A t \in users : ReservedPut[k].tx <= t /\ ReservedPut[k].column = BatchID[t]
  <2>1. Holders = A!Workers
    BY <1>3 DEF Holders
  <2>2. \A t \in column : t \in A!Txs /\ BatchID[t] = Column /\ \E w \in A!Workers : tx[w] = t
    BY <1>1, <1>3 DEF AriaTypeOK, ColumnInv, Sent, Judging
  <2>3. 0 \notin A!Txs
    BY <1>1, AriaConstants DEF AriaTypeOK
  <2>4. {t \in column : k \in txs[t].reads} = Readers(k)
    BY <2>1, <2>2, <2>3 DEF Readers
  <2>5. {t \in column : k \in txs[t].writes} = Writers(k)
    BY <2>1, <2>2, <2>3 DEF Writers
  <2>6. \A t \in Readers(k) \cup Writers(k) : BatchID[t] = Column
    BY <2>2, <2>4, <2>5
  <2> QED
    BY <1>1, <2>4, <2>5, <2>6 DEF TableInv, EntryOf
<1> QED
  BY <1>2, <1>3, Zenon DEF A!AriaSeesColumn

\* A worker judges when all reservations of the column are in the table, and
\* they stay until the last transaction of the column is judged.
THEOREM AriaSeesColumnCorrect == Spec => []AriaSeesColumn
<1>1. AriaInv => AriaSeesColumn
  BY SeesColumn DEF AriaInv, AriaSeesColumn
<1> QED
  BY <1>1, AriaInvariance, PTL

LEMMA SameOwner ==
    ASSUME txs \in AriaWorkloads, NEW t \in A!Txs, NEW u \in A!Txs, (u - t) % AriaThreads = 0
    PROVE  Owner(t) = Owner(u)
<1>1. AriaThreads \in Nat \ {0} /\ t - 1 \in Int /\ u - 1 \in Int /\ (u - 1) - (t - 1) = u - t
  BY AriaConstants
<1> QED
  BY <1>1, SameRemainder DEF Owner

LEMMA ThreadOrder ==
    ASSUME AriaIInv
    PROVE  A!AriaThreadOrder
<1>1. /\ AriaTypeOK /\ ListInv /\ CommitInv
  BY DEF AriaIInv
<1>2. \A t \in A!Txs : t \in Nat /\ t # 0 /\ Owner(t) \in A!Workers
  BY <1>1, AriaConstants DEF AriaTypeOK
<1>3. SUFFICES ASSUME NEW t \in A!Txs, NEW u \in A!Txs,
                      t < u, (u - t) % AriaThreads = 0, AriaCommitted[u]
               PROVE  AriaCommitted[t] /\ BatchID[t] < BatchID[u]
  BY DEF A!AriaThreadOrder
<1>4. Owner(t) = Owner(u)
  BY <1>1, <1>3, SameOwner DEF AriaTypeOK
<1> DEFINE w == Owner(t)
           list == perThreadBatch[w]
<1>5. ToDo(w, list) /\ LastTaken(w) /\ NoneLost(w, list)
  BY <1>1, <1>2 DEF ListInv
<1> HIDE DEF list
<1>6. AriaCommitted[t]
  <2>1. ~(\E i \in DOMAIN list : list[i] = t)
    <3>1. SUFFICES ASSUME NEW i \in DOMAIN list, list[i] = t
                   PROVE  FALSE
      OBVIOUS
    <3>2. u < t
      BY <1>3, <1>4, <1>5, <3>1 DEF ToDo
    <3> QED
      BY <1>2, <1>3, <3>2
  <2>2. ~(InFlight(w) /\ tx[w] = t)
    <3>1. SUFFICES ASSUME InFlight(w), tx[w] = t
                   PROVE  FALSE
      OBVIOUS
    <3>2. u < t
      BY <1>2, <1>3, <1>4, <1>5, <3>1 DEF LastTaken
    <3> QED
      BY <1>2, <1>3, <3>2
  <2> QED
    BY <1>5, <2>1, <2>2 DEF NoneLost
<1>7. BatchID[t] < BatchID[u]
  BY <1>1, <1>3, <1>4, <1>6 DEF CommitInv
<1> QED
  BY <1>6, <1>7

\* The transactions of one worker commit in the order of the block, one in a
\* column: one that is returned holds up those behind it.
THEOREM AriaThreadOrderCorrect == Spec => []AriaThreadOrder
<1>1. AriaInv => AriaThreadOrder
  BY ThreadOrder DEF AriaInv, AriaThreadOrder
<1> QED
  BY <1>1, AriaInvariance, PTL

\* Of those committed in a column one comes last: of those that read nothing
\* an earlier one writes the latest, as what it reads nobody writes after it;
\* if there is none, the earliest, since the others write nothing that an
\* earlier one reads.
LEMMA Serializable ==
    ASSUME AriaIInv
    PROVE  A!AriaSerializable
<1>1. /\ AriaTypeOK /\ SerialInv
  BY DEF AriaIInv
<1>2. /\ Len(txs) \in Nat /\ A!Txs = 1 .. Len(txs)
  BY <1>1, AriaConstants DEF AriaTypeOK
<1>3. SUFFICES ASSUME NEW b \in 0 .. batchID
               PROVE  LET column == {t \in A!Txs : AriaCommitted[t] /\ BatchID[t] = b}
                      IN  /\ \A t, u \in column : t # u => txs[t].writes \cap txs[u].writes = {}
                          /\ \A S \in (SUBSET column) \ {{}} :
                                 \E t \in S : \A u \in S : ~A!Precedes(t, u)
  BY DEF A!AriaSerializable
<1> DEFINE column == {t \in A!Txs : AriaCommitted[t] /\ BatchID[t] = b}
<1>4. \A t \in column : t \in A!Txs /\ t \in Nat
  BY <1>2
<1>5. ASSUME NEW t \in column, NEW u \in column, NEW v \in column, u < t, v < t
      PROVE  /\ txs[t].writes \cap txs[u].writes = {}
             /\ txs[t].reads \cap txs[u].writes = {} \/ txs[t].writes \cap txs[v].reads = {}
  <2>1. EarlierInColumn(t, u) /\ EarlierInColumn(t, v) /\ AriaCommitted[t]
    BY <1>5 DEF EarlierInColumn
  <2> QED
    BY <1>1, <2>1 DEF SerialInv
<1>6. ASSUME NEW t \in column, NEW u \in column, t # u
      PROVE  txs[t].writes \cap txs[u].writes = {}
  <2>1. t < u \/ u < t
    BY <1>4, <1>6
  <2> QED
    BY <1>5, <2>1
<1>7. ASSUME NEW S \in SUBSET column, S # {}
      PROVE  \E t \in S : \A u \in S : ~A!Precedes(t, u)
  <2> DEFINE reads(t) == \E u \in S : u < t /\ txs[t].reads \cap txs[u].writes # {}
             C == {t \in S : ~reads(t)}
  <2>0. \A t \in column : t \in 0 .. Len(txs)
    BY <1>2, <1>4
  <2>1. S \in SUBSET Nat /\ S \in SUBSET (0 .. Len(txs)) /\ C \in SUBSET (0 .. Len(txs))
    BY <1>4, <2>0
  <2>2. CASE C # {}
    <3>1. PICK m \in C : \A x \in C : x <= m
      BY <1>2, <2>1, <2>2, GreatestOf
    <3>2. ASSUME NEW u \in S, u # m, txs[m].reads \cap txs[u].writes # {}
          PROVE  FALSE
      <4>1. m \in S /\ ~reads(m) /\ m \in Nat /\ u \in Nat
        BY <2>1
      <4>2. m < u
        BY <3>2, <4>1
      <4>3. reads(u)
        BY <3>1, <4>1, <4>2
      <4>4. PICK v \in S : v < u /\ txs[u].reads \cap txs[v].writes # {}
        BY <4>3
      <4>5. txs[u].reads \cap txs[v].writes = {} \/ txs[u].writes \cap txs[m].reads = {}
        BY <1>5, <4>1, <4>2, <4>4
      <4> QED
        BY <3>2, <4>4, <4>5
    <3> QED
      BY <3>2 DEF A!Precedes
  <2>3. CASE C = {}
    <3>1. PICK m \in S : \A x \in S : m <= x
      BY <1>7, <2>1, LeastOf
    <3>2. ~reads(m)
      <4>1. ASSUME NEW u \in S, u < m
            PROVE  FALSE
        BY <2>1, <3>1, <4>1
      <4> QED
        BY <4>1
    <3> QED
      BY <2>3, <3>2
  <2> QED
    BY <2>2, <2>3
<1>8. \A S \in (SUBSET column) \ {{}} : \E t \in S : \A u \in S : ~A!Precedes(t, u)
  <2> TAKE S \in (SUBSET column) \ {{}}
  <2>1. S \in SUBSET column /\ S # {}
    OBVIOUS
  <2> QED
    BY <1>7, <2>1, Zenon
<1> QED
  BY <1>6, <1>8

\* What one column of Aria commits is serializable, whatever the order in which
\* the workers reserved and judged.
THEOREM AriaSerializableCorrect == Spec => []AriaSerializable
<1>1. AriaInv => AriaSerializable
  BY Serializable DEF AriaInv, AriaSerializable
<1> QED
  BY <1>1, AriaInvariance, PTL

-----------------------------------------------------------------------------
(* Harmony: the inductive invariant                                        *)

HarmonyTypeOK ==
    /\ blocks \in HarmonyWorkloads
    /\ FlagConflict \in [H!Txs -> BOOLEAN]
    /\ CommittedFlag \in [H!Txs -> BOOLEAN]
    /\ generation \in Nat
    /\ block \in [H!Workers -> Nat]
    /\ stage \in [H!Workers -> 1 .. 5]
    /\ harmonyAt \in [H!Workers -> {"run", "wait", "end"}]
    /\ next \in [H!Workers -> Nat]
    /\ harmonySeen \in [H!Workers -> Nat]

\* The worker that has a transaction, and where in its list.
WorkerOf(t) == (t[2] - 1) % HarmonyThreads
TurnOf(t) == (t[2] - 1) \div HarmonyThreads + 1

AtBarrier == {w \in H!Workers : harmonyAt[w] = "wait" /\ harmonySeen[w] = generation}

Following(b, s) == IF s = 5 THEN <<b + 1, 1>> ELSE <<b, s + 1>>

\* The workers go through the stages together: those that wait at the barrier
\* are already in the next one.
StageInv(b, s) ==
    /\ b \in 0 .. Len(blocks) /\ s \in 1 .. 5
    /\ b = 0 => s = 5
    /\ current = Cardinality(AtBarrier) /\ current < HarmonyThreads
    /\ \A w \in H!Workers :
           IF w \in AtBarrier
           THEN <<block[w], stage[w]>> = Following(b, s) /\ next[w] = 0 /\ ~(b = Len(blocks) /\ s = 5)
           ELSE block[w] = b /\ stage[w] = s /\ next[w] <= Len(H!Batch(w, b))
    /\ \A w \in H!Workers : harmonyAt[w] = "end" => b = Len(blocks) /\ s = 5

\* The stage has seen to t, a transaction of the block.
SeenTo(t) ==
    \E w \in H!Workers :
        /\ w = WorkerOf(t)
        /\ w \in AtBarrier \/ harmonyAt[w] = "end" \/ TurnOf(t) <= next[w]

Of(b) == {t \in H!Txs : t[1] = b}

\* The tables hold transactions of the block, under the keys they use.
HeldInv(b) ==
    \A k \in H!Keys :
        /\ \A t \in ReservedGetTxs[k] \cup DepsGet[k] : t \in Of(b) /\ k \in H!Reads(t)
        /\ \A t \in ReservedPutTxs[k] \cup DepsPut[k] : t \in Of(b) /\ k \in H!Writes(t)
        /\ Handled[k] => \E t \in Of(b) : k \in H!Writes(t)

\* What has been executed is entered, until it is cleaned up.
EnteredInv(b, s) ==
    \A t \in Of(b), k \in H!Keys :
        /\ s \in {2, 3} \/ (s = 1 /\ SeenTo(t)) =>
               /\ k \in H!Reads(t) => t \in ReservedGetTxs[k]
               /\ k \in H!Writes(t) => t \in ReservedPutTxs[k]
        /\ s = 5 /\ SeenTo(t) /\ k \in H!Reads(t) \cup H!Writes(t) =>
               /\ ReservedGetTxs[k] = {} /\ ReservedPutTxs[k] = {} /\ ~Handled[k]
               /\ k \in H!Reads(t) => DepsGet[k] = {}
               /\ k \in H!Writes(t) => DepsPut[k] = {}

Executed(b, s, t) == t[1] < b \/ (t[1] = b /\ (s > 1 \/ SeenTo(t)))

\* Of two transactions of a block that conflict one is marked, when both have
\* been executed.
MarkedInv(b, s) ==
    \A t, u \in H!Txs :
        (t # u /\ t[1] = u[1] /\ Executed(b, s, t) /\ Executed(b, s, u)) =>
            FlagConflict[t] \/ FlagConflict[u] \/ ~H!Conflict(t, u)

\* What is committed has been executed.
CommittedInv(b, s) ==
    \A t \in H!Txs : CommittedFlag[t] => t[1] < b \/ (t[1] = b /\ s > 2)

\* The writes that are applied.
AppliedInv(b, s) ==
    \A k \in H!Keys :
        /\ s < 3 => ~Handled[k]
        /\ \A t \in Of(b) :
               k \in H!Writes(t) /\ ~FlagConflict[t] =>
                   /\ s = 3 => /\ SeenTo(t) => Handled[k]
                               /\ Handled[k] => Value[k] = t
                   /\ (s = 4 /\ \A u \in Of(b) : FlagConflict[u] => ~CommittedFlag[u]) => Value[k] = t

\* The data of the block, as far as the stage has come.
DataInv(b, s) ==
    HeldInv(b) /\ EnteredInv(b, s) /\ MarkedInv(b, s) /\ CommittedInv(b, s) /\ AppliedInv(b, s)

HarmonyIInv ==
    HarmonyTypeOK /\ \E b \in 0 .. Len(blocks), s \in 1 .. 5 : StageInv(b, s) /\ DataInv(b, s)

-----------------------------------------------------------------------------
(* Harmony: the blocks and the stages                                      *)

LEMMA HarmonyConstants ==
    ASSUME blocks \in HarmonyWorkloads
    PROVE  /\ HarmonyThreads \in Nat \ {0} /\ H!Workers = 0 .. HarmonyThreads - 1
           /\ Len(blocks) \in Nat
           /\ \A b \in 1 .. Len(blocks) : Len(blocks[b]) \in Nat
           /\ \A b \in 1 .. Len(blocks) : \A i \in 1 .. Len(blocks[b]) : <<b, i>> \in H!Txs
           /\ \A t \in H!Txs : /\ t[1] \in 1 .. Len(blocks) /\ t[2] \in 1 .. Len(blocks[t[1]])
                               /\ t = <<t[1], t[2]>>
                               /\ WorkerOf(t) \in H!Workers /\ TurnOf(t) \in Int
           /\ \A t \in H!Txs : H!Reads(t) \subseteq H!Keys /\ H!Writes(t) \subseteq H!Keys
<1>1. HarmonyThreads \in Nat \ {0} /\ H!Workers = 0 .. HarmonyThreads - 1
  BY Assumptions DEF H!HarmonyThreadsAssumption, H!Workers
<1>2. /\ Len(blocks) \in Nat /\ DOMAIN blocks = 1 .. Len(blocks)
      /\ \A b \in 1 .. Len(blocks) : Len(blocks[b]) \in Nat /\ DOMAIN blocks[b] = 1 .. Len(blocks[b])
  BY Assumptions DEF H!HarmonyBlocksAssumption
<1>3. ASSUME NEW b \in 1 .. Len(blocks), NEW i \in 1 .. Len(blocks[b])
      PROVE  <<b, i>> \in H!Txs
  BY <1>2 DEF H!Txs
<1>4. ASSUME NEW t \in H!Txs
      PROVE  /\ t[1] \in 1 .. Len(blocks) /\ t[2] \in 1 .. Len(blocks[t[1]])
             /\ t = <<t[1], t[2]>>
  <2>1. PICK b \in DOMAIN blocks : t \in {<<b, i>> : i \in DOMAIN blocks[b]}
    BY DEF H!Txs
  <2>2. PICK i \in DOMAIN blocks[b] : t = <<b, i>>
    BY <2>1
  <2> QED
    BY <1>2, <2>2
<1>5. ASSUME NEW t \in H!Txs
      PROVE  WorkerOf(t) \in H!Workers /\ TurnOf(t) \in Int
  <2>1. t[2] - 1 \in Int
    BY <1>2, <1>4
  <2>2. (t[2] - 1) \div HarmonyThreads \in Int /\ (t[2] - 1) % HarmonyThreads \in 0 .. HarmonyThreads - 1
    BY <1>1, <2>1, Division
  <2> QED
    BY <1>1, <2>2 DEF WorkerOf, TurnOf
<1>6. ASSUME NEW t \in H!Txs
      PROVE  H!Reads(t) \subseteq H!Keys /\ H!Writes(t) \subseteq H!Keys
  BY DEF H!Keys
<1> QED
  BY <1>1, <1>2, <1>3, <1>4, <1>5, <1>6

LEMMA StageNames ==
    /\ Len(H!Stages) = 5
    /\ H!Stages[1] = "execute" /\ H!Stages[2] = "verify" /\ H!Stages[3] = "commit"
    /\ H!Stages[4] = "fallback" /\ H!Stages[5] = "clean"
BY DEF H!Stages

\* A worker's list has its transactions of the block, each at its turn.
LEMMA BatchFacts ==
    ASSUME blocks \in HarmonyWorkloads, NEW b \in 0 .. Len(blocks), NEW w \in H!Workers
    PROVE  /\ Len(H!Batch(w, b)) \in Nat
           /\ \A j \in 1 .. Len(H!Batch(w, b)) :
                  /\ H!Batch(w, b)[j] \in Of(b)
                  /\ WorkerOf(H!Batch(w, b)[j]) = w
                  /\ TurnOf(H!Batch(w, b)[j]) = j
           /\ \A t \in Of(b) : WorkerOf(t) = w =>
                  /\ TurnOf(t) \in 1 .. Len(H!Batch(w, b))
                  /\ H!Batch(w, b)[TurnOf(t)] = t
<1>1. /\ HarmonyThreads \in Nat \ {0} /\ w \in 0 .. HarmonyThreads - 1
      /\ Len(blocks) \in Nat
      /\ \A c \in 1 .. Len(blocks) : Len(blocks[c]) \in Nat
      /\ \A c \in 1 .. Len(blocks) : \A i \in 1 .. Len(blocks[c]) : <<c, i>> \in H!Txs
      /\ \A t \in H!Txs : /\ t[1] \in 1 .. Len(blocks) /\ t[2] \in 1 .. Len(blocks[t[1]])
                          /\ t = <<t[1], t[2]>>
  BY HarmonyConstants
<1>2. CASE b = 0
  <2>1. H!Batch(w, b) = <<>>
    BY <1>2 DEF H!Batch
  <2>2. Len(H!Batch(w, b)) = 0
    BY <2>1
  <2>3. Of(b) = {}
    BY <1>1, <1>2 DEF Of
  <2> QED
    BY <2>2, <2>3
<1>3. CASE b # 0
  <2> DEFINE n == HarmonyThreads
             len == Len(blocks[b])
             list == DealtTo(n, len, w)
             m == (len + n - 1 - w) \div n
  <2>1. b \in 1 .. Len(blocks) /\ len \in Nat
    BY <1>1, <1>3
  <2>2. /\ list \in Seq(1 .. len)
        /\ \A i \in DOMAIN list : (list[i] - 1) % n = w /\ (list[i] - 1) \div n + 1 = i
        /\ \A t \in 1 .. len : (t - 1) % n = w =>
               (t - 1) \div n + 1 \in DOMAIN list /\ list[(t - 1) \div n + 1] = t
    BY <1>1, <2>1, DealtOut
  <2>3. DOMAIN list = 1 .. m /\ \A j \in 1 .. m : list[j] = (j - 1) * n + w + 1
    BY DEF DealtTo
  <2>4. H!Batch(w, b) = [j \in 1 .. m |-> <<b, (j - 1) * n + w + 1>>]
    BY <1>3 DEF H!Batch
  <2> HIDE DEF m, list
  <2>5. Len(list) \in Nat /\ DOMAIN list = 1 .. Len(list) /\ \A j \in DOMAIN list : list[j] \in 1 .. len
    BY <2>2, LenProperties, ElementOfSeq
  <2>6. H!Batch(w, b) = [j \in 1 .. Len(list) |-> <<b, list[j]>>]
    BY <2>3, <2>4, <2>5
  <2>7. Len(H!Batch(w, b)) = Len(list) /\ \A j \in 1 .. Len(list) : H!Batch(w, b)[j] = <<b, list[j]>>
    BY <2>5, <2>6
  <2>8. ASSUME NEW j \in 1 .. Len(list)
        PROVE  <<b, list[j]>> \in Of(b) /\ WorkerOf(<<b, list[j]>>) = w /\ TurnOf(<<b, list[j]>>) = j
    BY <1>1, <2>1, <2>2, <2>5 DEF Of, WorkerOf, TurnOf
  <2>9. ASSUME NEW t \in Of(b), WorkerOf(t) = w
        PROVE  TurnOf(t) \in 1 .. Len(list) /\ <<b, list[TurnOf(t)]>> = t
    <3>1. t \in H!Txs /\ t[1] = b /\ t[2] \in 1 .. len /\ t = <<b, t[2]>>
      BY <1>1 DEF Of
    <3> QED
      BY <2>2, <2>5, <2>9, <3>1 DEF WorkerOf, TurnOf
  <2> QED
    BY <2>5, <2>7, <2>8, <2>9
<1> QED
  BY <1>2, <1>3

\* Who is not at the barrier is in the stage.
LEMMA InStage ==
    ASSUME HarmonyTypeOK, NEW b, NEW s, StageInv(b, s), NEW w \in H!Workers, harmonyAt[w] = "run"
    PROVE  /\ w \notin AtBarrier /\ block[w] = b /\ stage[w] = s /\ next[w] <= Len(H!Batch(w, b))
           /\ H!Mine(w) = H!Batch(w, b) /\ b \in 0 .. Len(blocks)
           /\ \A t : SeenTo(t) /\ WorkerOf(t) = w => TurnOf(t) <= next[w]
           /\ \A name : H!In(w, name) => H!Stages[s] = name
<1>1. w \notin AtBarrier
  BY DEF AtBarrier
<1> QED
  BY <1>1 DEF StageInv, SeenTo, H!Mine, H!In

LEMMA Barrier ==
    ASSUME HarmonyTypeOK
    PROVE  AtBarrier \subseteq H!Workers /\ IsFiniteSet(AtBarrier) /\ Cardinality(AtBarrier) \in Nat
           /\ IsFiniteSet(H!Workers) /\ Cardinality(H!Workers) = HarmonyThreads
<1>1. HarmonyThreads \in Nat \ {0} /\ H!Workers = 0 .. HarmonyThreads - 1
  BY HarmonyConstants DEF HarmonyTypeOK
<1>2. IsFiniteSet(H!Workers) /\ Cardinality(H!Workers) = HarmonyThreads
  BY <1>1, FS_Interval
<1>3. AtBarrier \subseteq H!Workers
  BY DEF AtBarrier
<1>4. IsFiniteSet(AtBarrier)
  BY <1>2, <1>3, FS_Subset
<1> QED
  BY <1>2, <1>3, <1>4, FS_CardinalityType

-----------------------------------------------------------------------------
(* Harmony: a step of a stage                                              *)

\* A stage sees to the transactions of a worker one after another.
LEMMA WorkStep ==
    ASSUME HarmonyTypeOK, NEW b, NEW s, StageInv(b, s), NEW w \in H!Workers,
           harmonyAt[w] = "run", H!HasMore(w), H!Step(w),
           NEW t, t = H!Tx(w)
    PROVE  /\ t \in Of(b) /\ t \in H!Txs /\ ~SeenTo(t)
           /\ \A u \in Of(b) : SeenTo(u)' <=> SeenTo(u) \/ u = t
           /\ StageInv(b, s)'
           /\ blocks' = blocks /\ H!Txs' = H!Txs /\ H!Keys' = H!Keys /\ Of(b)' = Of(b)
           /\ \A u : H!Reads(u)' = H!Reads(u) /\ H!Writes(u)' = H!Writes(u)
           /\ next' \in [H!Workers -> Nat] /\ block' = block /\ stage' = stage
           /\ harmonyAt' = harmonyAt /\ harmonySeen' = harmonySeen /\ generation' = generation
<1>1. /\ w \notin AtBarrier /\ block[w] = b /\ stage[w] = s /\ next[w] <= Len(H!Batch(w, b))
      /\ H!Mine(w) = H!Batch(w, b) /\ b \in 0 .. Len(blocks)
      /\ \A u : SeenTo(u) /\ WorkerOf(u) = w => TurnOf(u) <= next[w]
  BY InStage
<1>2. /\ next' = [next EXCEPT ![w] = next[w] + 1]
      /\ blocks' = blocks /\ current' = current /\ generation' = generation
      /\ block' = block /\ stage' = stage /\ harmonyAt' = harmonyAt /\ harmonySeen' = harmonySeen
  BY DEF H!Step, H!barrier
<1>3. blocks \in HarmonyWorkloads /\ next[w] \in Nat
  BY DEF HarmonyTypeOK
<1>4. /\ Len(H!Batch(w, b)) \in Nat
      /\ \A j \in 1 .. Len(H!Batch(w, b)) :
             /\ H!Batch(w, b)[j] \in Of(b)
             /\ WorkerOf(H!Batch(w, b)[j]) = w
             /\ TurnOf(H!Batch(w, b)[j]) = j
      /\ \A u \in Of(b) : WorkerOf(u) = w =>
             /\ TurnOf(u) \in 1 .. Len(H!Batch(w, b))
             /\ H!Batch(w, b)[TurnOf(u)] = u
  BY <1>1, <1>3, BatchFacts
<1>5. next[w] + 1 \in 1 .. Len(H!Batch(w, b)) /\ t = H!Batch(w, b)[next[w] + 1]
  BY <1>1, <1>3, <1>4 DEF H!HasMore, H!Tx
<1>6. t \in Of(b) /\ WorkerOf(t) = w /\ TurnOf(t) = next[w] + 1 /\ t \in H!Txs
  BY <1>4, <1>5 DEF Of
<1>7. ~SeenTo(t)
  BY <1>1, <1>3, <1>6
<1>8. /\ H!Txs' = H!Txs /\ H!Keys' = H!Keys /\ Of(b)' = Of(b) /\ H!Workers' = H!Workers
      /\ \A u : H!Reads(u)' = H!Reads(u) /\ H!Writes(u)' = H!Writes(u)
      /\ AtBarrier' = AtBarrier /\ \A v : H!Batch(v, b)' = H!Batch(v, b)
  BY <1>2 DEF H!Txs, H!Keys, Of, H!Reads, H!Writes, H!Workers, AtBarrier, H!Batch
<1>9. /\ next' \in [H!Workers -> Nat] /\ next'[w] = next[w] + 1
      /\ \A v \in H!Workers : v # w => next'[v] = next[v]
  BY <1>2, <1>3 DEF HarmonyTypeOK
<1>10. ASSUME NEW u \in Of(b)
       PROVE  SeenTo(u)' <=> SeenTo(u) \/ u = t
  <2>1. WorkerOf(u) \in H!Workers
    BY <1>3, HarmonyConstants DEF Of
  <2>2. CASE WorkerOf(u) # w
    BY <1>2, <1>6, <1>8, <1>9, <2>1, <2>2 DEF SeenTo
  <2>3. CASE WorkerOf(u) = w
    <3>1. TurnOf(u) \in 1 .. Len(H!Batch(w, b)) /\ H!Batch(w, b)[TurnOf(u)] = u
      BY <1>4, <2>3
    <3>2. SeenTo(u) <=> TurnOf(u) <= next[w]
      BY <1>1, <2>3 DEF SeenTo
    <3>3. SeenTo(u)' <=> TurnOf(u) <= next[w] + 1
      BY <1>1, <1>2, <1>8, <1>9, <2>3 DEF SeenTo
    <3>4. u = t <=> TurnOf(u) = next[w] + 1
      BY <1>5, <1>6, <3>1
    <3>5. TurnOf(u) <= next[w] + 1 <=> TurnOf(u) <= next[w] \/ TurnOf(u) = next[w] + 1
      BY <1>3, <1>4, <3>1
    <3> QED
      BY <3>2, <3>3, <3>4, <3>5
  <2> QED
    BY <2>2, <2>3
<1>11. StageInv(b, s)'
  <2>1. ASSUME NEW v \in H!Workers
        PROVE  IF v \in AtBarrier
               THEN <<block[v], stage[v]>> = Following(b, s) /\ next'[v] = 0 /\ ~(b = Len(blocks) /\ s = 5)
               ELSE block[v] = b /\ stage[v] = s /\ next'[v] <= Len(H!Batch(v, b))
    <3>1. CASE v = w
      BY <1>1, <1>5, <1>9, <3>1
    <3>2. CASE v # w
      BY <1>9, <3>2 DEF StageInv
    <3> QED
      BY <3>1, <3>2
  <2>2. /\ b \in 0 .. Len(blocks) /\ s \in 1 .. 5 /\ (b = 0 => s = 5)
        /\ current = Cardinality(AtBarrier) /\ current < HarmonyThreads
        /\ \A v \in H!Workers : harmonyAt[v] = "end" => b = Len(blocks) /\ s = 5
    BY DEF StageInv
  <2>3. \A v \in H!Workers :
            IF v \in AtBarrier
            THEN <<block[v], stage[v]>> = Following(b, s) /\ next'[v] = 0 /\ ~(b = Len(blocks) /\ s = 5)
            ELSE block[v] = b /\ stage[v] = s /\ next'[v] <= Len(H!Batch(v, b))
    BY <2>1
  <2> QED
    BY <1>2, <1>8, <2>2, <2>3 DEF StageInv, Following
<1> QED
  BY <1>2, <1>6, <1>7, <1>8, <1>9, <1>10, <1>11

\* What the steps of a stage have in common.
Untouched ==
    /\ blocks' = blocks /\ H!Txs' = H!Txs /\ H!Keys' = H!Keys
    /\ \A u : H!Reads(u)' = H!Reads(u) /\ H!Writes(u)' = H!Writes(u)

\* Nothing that the workers do among themselves touches the data.
LEMMA SameData ==
    ASSUME NEW b, NEW s, DataInv(b, s), Untouched,
           \A u \in Of(b) : SeenTo(u)' <=> SeenTo(u),
           FlagConflict' = FlagConflict, CommittedFlag' = CommittedFlag,
           ReservedGetTxs' = ReservedGetTxs, ReservedPutTxs' = ReservedPutTxs,
           DepsGet' = DepsGet, DepsPut' = DepsPut, Handled' = Handled, Value' = Value
    PROVE  DataInv(b, s)'
<1>1. Of(b)' = Of(b)
  BY DEF Untouched, Of
<1>2. HeldInv(b)'
  BY <1>1 DEF DataInv, HeldInv, Untouched
<1>3. EnteredInv(b, s)'
  BY <1>1 DEF DataInv, EnteredInv, Untouched
<1>4. MarkedInv(b, s)'
  <2>1. \A t \in H!Txs : Executed(b, s, t)' <=> Executed(b, s, t)
    BY <1>1 DEF Executed, Of
  <2> QED
    BY <2>1 DEF DataInv, MarkedInv, Untouched, H!Conflict
<1>5. CommittedInv(b, s)'
  BY DEF DataInv, CommittedInv, Untouched
<1>6. AppliedInv(b, s)'
  BY <1>1 DEF DataInv, AppliedInv, Untouched
<1> QED
  BY <1>2, <1>3, <1>4, <1>5, <1>6 DEF DataInv

\* The stage that follows begins with what the last one has done for all.
LEMMA MoveOn ==
    ASSUME HarmonyTypeOK, NEW b, NEW s, b \in 0 .. Len(blocks), s \in 1 .. 5, DataInv(b, s), Untouched,
           \A u \in Of(b) : SeenTo(u),
           NEW c, NEW r, <<c, r>> = Following(b, s),
           \A u \in Of(c) : ~SeenTo(u)',
           FlagConflict' = FlagConflict, CommittedFlag' = CommittedFlag,
           ReservedGetTxs' = ReservedGetTxs, ReservedPutTxs' = ReservedPutTxs,
           DepsGet' = DepsGet, DepsPut' = DepsPut, Handled' = Handled, Value' = Value
    PROVE  DataInv(c, r)'
<1>1. Of(b)' = Of(b) /\ Of(c)' = Of(c)
  BY DEF Untouched, Of
<1>2. \/ s = 5 /\ c = b + 1 /\ r = 1
      \/ s \in 1 .. 4 /\ c = b /\ r = s + 1
  BY DEF Following
<1>3. b \in Nat /\ \A t \in H!Txs : t[1] \in Nat
  <2>1. blocks \in HarmonyWorkloads
    BY DEF HarmonyTypeOK
  <2> QED
    BY <2>1, HarmonyConstants
<1>4. ASSUME s = 5, NEW k \in H!Keys
      PROVE  /\ ReservedGetTxs[k] = {} /\ ReservedPutTxs[k] = {} /\ ~Handled[k]
             /\ DepsGet[k] = {} /\ DepsPut[k] = {}
  <2>1. \A t \in Of(b) :
            /\ k \in H!Reads(t) => ReservedGetTxs[k] = {} /\ DepsGet[k] = {}
            /\ k \in H!Writes(t) => ReservedPutTxs[k] = {} /\ DepsPut[k] = {} /\ ~Handled[k]
    BY <1>4 DEF DataInv, EnteredInv
  <2>2. /\ \A t \in ReservedGetTxs[k] \cup DepsGet[k] : t \in Of(b) /\ k \in H!Reads(t)
        /\ \A t \in ReservedPutTxs[k] \cup DepsPut[k] : t \in Of(b) /\ k \in H!Writes(t)
        /\ Handled[k] => \E t \in Of(b) : k \in H!Writes(t)
    BY DEF DataInv, HeldInv
  <2>3. ReservedGetTxs[k] = {} /\ DepsGet[k] = {}
    BY <2>1, <2>2
  <2>4. ReservedPutTxs[k] = {} /\ DepsPut[k] = {}
    BY <2>1, <2>2
  <2>5. ~Handled[k]
    BY <2>1, <2>2
  <2> QED
    BY <2>3, <2>4, <2>5
<1>5. HeldInv(c)'
  <2>1. CASE s = 5
    BY <1>4, <2>1 DEF HeldInv, Untouched
  <2>2. CASE s # 5
    BY <1>1, <1>2, <2>2 DEF DataInv, HeldInv, Untouched
  <2> QED
    BY <2>1, <2>2
<1>6. EnteredInv(c, r)'
  <2>1. ASSUME NEW t \in Of(c), NEW k \in H!Keys, r \in {2, 3}
        PROVE  /\ k \in H!Reads(t) => t \in ReservedGetTxs[k]
               /\ k \in H!Writes(t) => t \in ReservedPutTxs[k]
    <3>1. c = b /\ s \in {1, 2}
      BY <1>2, <2>1
    <3> QED
      BY <2>1, <3>1 DEF DataInv, EnteredInv
  <2> QED
    BY <1>1, <2>1 DEF EnteredInv, Untouched
<1>7. MarkedInv(c, r)'
  <2>1. ASSUME NEW t \in H!Txs, Executed(c, r, t)'
        PROVE  Executed(b, s, t)
    <3>1. t[1] < c \/ (t[1] = c /\ r > 1)
      BY <2>1 DEF Executed, Of
    <3>2. t[1] < b \/ t[1] = b
      BY <1>2, <1>3, <3>1
    <3> QED
      BY <1>2, <1>3, <3>1, <3>2 DEF Executed, Of
  <2> QED
    BY <2>1 DEF DataInv, MarkedInv, Untouched, H!Conflict
<1>8. CommittedInv(c, r)'
  <2>1. ASSUME NEW t \in H!Txs, CommittedFlag[t]
        PROVE  t[1] < c \/ (t[1] = c /\ r > 2)
    <3>1. t[1] < b \/ (t[1] = b /\ s > 2)
      BY <2>1 DEF DataInv, CommittedInv
    <3> QED
      BY <1>2, <1>3, <3>1
  <2> QED
    BY <2>1 DEF CommittedInv, Untouched
<1>9. AppliedInv(c, r)'
  <2>1. ASSUME NEW k \in H!Keys
        PROVE  /\ r < 3 => ~Handled[k]
               /\ r = 3 => ~Handled[k]
    <3>1. CASE s = 5
      BY <1>2, <1>4, <3>1
    <3>2. CASE s # 5
      BY <1>2, <3>2 DEF DataInv, AppliedInv
    <3> QED
      BY <3>1, <3>2
  <2>2. ASSUME NEW k \in H!Keys, NEW t \in Of(c), k \in H!Writes(t), ~FlagConflict[t], r = 4
        PROVE  Value[k] = t
    <3>1. c = b /\ s = 3
      BY <1>2, <2>2
    <3> QED
      BY <2>2, <3>1 DEF DataInv, AppliedInv
  <2> QED
    BY <1>1, <2>1, <2>2 DEF AppliedInv, Untouched
<1> QED
  BY <1>5, <1>6, <1>7, <1>8, <1>9 DEF DataInv

LEMMA StageOf ==
    ASSUME HarmonyTypeOK, NEW b, NEW s, StageInv(b, s), NEW w \in H!Workers
    PROVE  /\ H!In(w, "execute") => s = 1
           /\ H!In(w, "verify") => s = 2
           /\ H!In(w, "commit") => s = 3
           /\ H!In(w, "fallback") => s = 4
           /\ H!In(w, "clean") => s = 5
<1>1. \A name : H!In(w, name) => H!Stages[s] = name
  BY InStage DEF H!In
<1>2. s \in 1 .. 5
  BY DEF StageInv
<1>3. s = 1 \/ s = 2 \/ s = 3 \/ s = 4 \/ s = 5
  BY <1>2
<1> QED
  BY <1>1, <1>3, StageNames

LEMMA IDs ==
    ASSUME blocks \in HarmonyWorkloads, NEW t \in H!Txs, NEW u \in H!Txs, t[1] = u[1], t # u
    PROVE  H!ID(t) < H!ID(u) \/ H!ID(u) < H!ID(t)
<1>1. /\ t[1] \in Nat /\ t[2] \in Nat /\ u[2] \in Nat /\ t = <<t[1], t[2]>> /\ u = <<u[1], u[2]>>
  BY HarmonyConstants
<1>2. t[2] # u[2]
  BY <1>1
<1> QED
  BY <1>1, <1>2 DEF H!ID, H!BlockSize

\* Of a dependency between t and a transaction found in the tables, the later
\* one is marked.
LEMMA ExecuteStep ==
    ASSUME HarmonyTypeOK, NEW b, NEW s, StageInv(b, s), DataInv(b, s),
           NEW w \in H!Workers, H!Execute(w)
    PROVE  HarmonyTypeOK' /\ StageInv(b, s)' /\ DataInv(b, s)'
<1>1. H!In(w, "execute") /\ H!HasMore(w) /\ H!Step(w) /\ harmonyAt[w] = "run"
  BY DEF H!Execute, H!In
<1>2. s = 1
  BY <1>1, StageOf
<1>3. PICK t : t = H!Tx(w)
  OBVIOUS
<1>4. /\ t \in Of(b) /\ t \in H!Txs /\ ~SeenTo(t)
      /\ \A u \in Of(b) : SeenTo(u)' <=> SeenTo(u) \/ u = t
      /\ StageInv(b, s)'
      /\ blocks' = blocks /\ H!Txs' = H!Txs /\ H!Keys' = H!Keys /\ Of(b)' = Of(b)
      /\ \A u : H!Reads(u)' = H!Reads(u) /\ H!Writes(u)' = H!Writes(u)
      /\ next' \in [H!Workers -> Nat] /\ block' = block /\ stage' = stage
      /\ harmonyAt' = harmonyAt /\ harmonySeen' = harmonySeen /\ generation' = generation
  BY <1>1, <1>3, WorkStep
<1> DEFINE found == H!Outs(t) \cup H!Ins(t)
<1>5. /\ FlagConflict' = [u \in H!Txs |-> FlagConflict[u] \/ u \in H!LaterOf(t, found)]
      /\ ReservedGetTxs' = [k \in H!Keys |-> IF k \in H!Reads(t) THEN ReservedGetTxs[k] \cup {t} ELSE ReservedGetTxs[k]]
      /\ ReservedPutTxs' = [k \in H!Keys |-> IF k \in H!Writes(t) THEN ReservedPutTxs[k] \cup {t} ELSE ReservedPutTxs[k]]
      /\ CommittedFlag' = CommittedFlag /\ Handled' = Handled /\ Value' = Value
      /\ DepsGet' = DepsGet /\ DepsPut' = DepsPut
  BY <1>3 DEF H!Execute, H!lockTable
<1>6. HeldInv(b) /\ EnteredInv(b, s) /\ MarkedInv(b, s) /\ CommittedInv(b, s) /\ AppliedInv(b, s)
  BY DEF DataInv
<1>7. HarmonyTypeOK'
  <2>1. FlagConflict' \in [H!Txs -> BOOLEAN]
    BY <1>5
  <2>2. H!Workers' = H!Workers
    BY DEF H!Workers
  <2> QED
    BY <1>4, <1>5, <2>1, <2>2 DEF HarmonyTypeOK
<1>8. ASSUME NEW u \in Of(b), SeenTo(u), u # t, H!Conflict(t, u)
      PROVE  u \in found
  <2>1. blocks \in HarmonyWorkloads /\ u \in H!Txs
    BY DEF HarmonyTypeOK, Of
  <2>2. \A k \in H!Keys : /\ k \in H!Reads(u) => u \in ReservedGetTxs[k]
                          /\ k \in H!Writes(u) => u \in ReservedPutTxs[k]
    BY <1>2, <1>6, <1>8 DEF EnteredInv
  <2>3. H!Reads(u) \subseteq H!Keys /\ H!Writes(u) \subseteq H!Keys
    BY <2>1, HarmonyConstants
  <2>4. CASE \E k \in H!Writes(t) : k \in H!Reads(u)
    <3>1. PICK k \in H!Writes(t) : k \in H!Reads(u)
      BY <2>4
    <3>2. u \in ReservedGetTxs[k]
      BY <2>2, <2>3, <3>1
    <3>3. u \in UNION {ReservedGetTxs[x] \cup ReservedPutTxs[x] : x \in H!Writes(t)}
      BY <3>1, <3>2
    <3>4. u \in H!Ins(t)
      BY <1>8, <3>3 DEF H!Ins
    <3> QED
      BY <3>4
  <2>5. CASE \E k \in H!Reads(t) \cup H!Writes(t) : k \in H!Writes(u)
    <3>1. PICK k \in H!Reads(t) \cup H!Writes(t) : k \in H!Writes(u)
      BY <2>5
    <3>2. u \in ReservedPutTxs[k]
      BY <2>2, <2>3, <3>1
    <3>3. u \in UNION {ReservedPutTxs[x] : x \in H!Reads(t) \cup H!Writes(t)}
      BY <3>1, <3>2
    <3>4. u \in H!Outs(t)
      BY <1>8, <3>3 DEF H!Outs
    <3> QED
      BY <3>4
  <2> QED
    BY <1>8, <2>4, <2>5 DEF H!Conflict
<1> HIDE DEF found
<1>9. HeldInv(b)'
  BY <1>4, <1>5, <1>6 DEF HeldInv
<1>10. EnteredInv(b, s)'
  BY <1>2, <1>4, <1>5, <1>6 DEF EnteredInv
<1>11. ASSUME NEW u \in Of(b), SeenTo(u), H!Conflict(t, u)
       PROVE  FlagConflict'[t] \/ FlagConflict'[u]
  <2>1. u # t /\ u \in H!Txs /\ u[1] = t[1] /\ blocks \in HarmonyWorkloads
    BY <1>4, <1>11 DEF Of, HarmonyTypeOK
  <2>2. H!ID(t) < H!ID(u) \/ H!ID(u) < H!ID(t)
    BY <1>4, <2>1, IDs
  <2>3. u \in found
    BY <1>8, <1>11, <2>1
  <2>4. t \in H!LaterOf(t, found) \/ u \in H!LaterOf(t, found)
    BY <2>2, <2>3 DEF H!LaterOf
  <2> QED
    BY <1>4, <1>5, <2>1, <2>4
<1>12. MarkedInv(b, s)'
  <2>1. ASSUME NEW u \in H!Txs, NEW v \in H!Txs, u # v, u[1] = v[1],
               Executed(b, s, u)', Executed(b, s, v)', H!Conflict(u, v)
        PROVE  FlagConflict'[u] \/ FlagConflict'[v]
    <3>1. \A x \in H!Txs : FlagConflict[x] => FlagConflict'[x]
      BY <1>5
    <3>2. \A x \in H!Txs : Executed(b, s, x)' => Executed(b, s, x) \/ x = t
      BY <1>4 DEF Executed, Of
    <3>3. CASE Executed(b, s, u) /\ Executed(b, s, v)
      BY <1>6, <2>1, <3>1, <3>3 DEF MarkedInv
    <3>4. CASE u = t
      <4>1. Executed(b, s, v) /\ v \in Of(b)
        BY <1>4, <2>1, <3>2, <3>4 DEF Of
      <4>2. SeenTo(v)
        <5>1. blocks \in HarmonyWorkloads
          BY DEF HarmonyTypeOK
        <5>2. v[1] = b /\ v[1] \in Nat
          BY <4>1, <5>1, HarmonyConstants DEF Of
        <5> QED
          BY <1>2, <4>1, <5>2 DEF Executed
      <4> QED
        BY <1>11, <2>1, <3>4, <4>1, <4>2
    <3>5. CASE v = t
      <4>1. Executed(b, s, u) /\ u \in Of(b)
        BY <1>4, <2>1, <3>2, <3>5 DEF Of
      <4>2. SeenTo(u)
        <5>1. blocks \in HarmonyWorkloads
          BY DEF HarmonyTypeOK
        <5>2. u[1] = b /\ u[1] \in Nat
          BY <4>1, <5>1, HarmonyConstants DEF Of
        <5> QED
          BY <1>2, <4>1, <5>2 DEF Executed
      <4>3. H!Conflict(t, u)
        BY <2>1, <3>5 DEF H!Conflict
      <4> QED
        BY <1>11, <3>5, <4>1, <4>2, <4>3
    <3> QED
      BY <2>1, <3>2, <3>3, <3>4, <3>5
  <2>2. \A u, v : H!Conflict(u, v)' <=> H!Conflict(u, v)
    BY <1>4 DEF H!Conflict
  <2> QED
    BY <1>4, <2>1, <2>2 DEF MarkedInv
<1>13. CommittedInv(b, s)'
  BY <1>4, <1>5, <1>6 DEF CommittedInv
<1>14. AppliedInv(b, s)'
  BY <1>2, <1>4, <1>5, <1>6 DEF AppliedInv
<1> QED
  BY <1>4, <1>7, <1>9, <1>10, <1>12, <1>13, <1>14 DEF DataInv

\* Marks are only ever set: what is marked once stays apart.
LEMMA StillMarked ==
    ASSUME HarmonyTypeOK, NEW b, NEW s, s > 1, MarkedInv(b, s),
           H!Txs' = H!Txs, \A u : H!Reads(u)' = H!Reads(u) /\ H!Writes(u)' = H!Writes(u),
           \A u \in H!Txs : FlagConflict[u] => FlagConflict'[u]
    PROVE  MarkedInv(b, s)'
<1>1. \A t \in H!Txs : Executed(b, s, t)' <=> Executed(b, s, t)
  BY DEF Executed
<1> QED
  BY <1>1 DEF MarkedInv, H!Conflict

LEMMA VerifyAgain ==
    ASSUME HarmonyTypeOK, NEW b, NEW s, StageInv(b, s), DataInv(b, s),
           NEW w \in H!Workers, H!Verify(w)
    PROVE  HarmonyTypeOK' /\ StageInv(b, s)' /\ DataInv(b, s)'
<1>1. H!In(w, "verify") /\ H!HasMore(w) /\ H!Step(w) /\ harmonyAt[w] = "run"
  BY DEF H!Verify, H!In
<1>2. s = 2
  BY <1>1, StageOf
<1>3. PICK t : t = H!Tx(w)
  OBVIOUS
<1>4. /\ t \in Of(b) /\ t \in H!Txs
      /\ StageInv(b, s)'
      /\ blocks' = blocks /\ H!Txs' = H!Txs /\ H!Keys' = H!Keys /\ Of(b)' = Of(b)
      /\ \A u : H!Reads(u)' = H!Reads(u) /\ H!Writes(u)' = H!Writes(u)
      /\ next' \in [H!Workers -> Nat] /\ block' = block /\ stage' = stage
      /\ harmonyAt' = harmonyAt /\ harmonySeen' = harmonySeen /\ generation' = generation
  BY <1>1, <1>3, WorkStep
<1> DEFINE conflict == FlagConflict[t] \/ H!Dangerous(t)
<1>5. /\ FlagConflict' = [FlagConflict EXCEPT ![t] = conflict]
      /\ DepsGet' = [k \in H!Keys |-> IF conflict /\ k \in H!Reads(t) THEN DepsGet[k] \cup {t} ELSE DepsGet[k]]
      /\ DepsPut' = [k \in H!Keys |-> IF conflict /\ k \in H!Writes(t) THEN DepsPut[k] \cup {t} ELSE DepsPut[k]]
      /\ CommittedFlag' = CommittedFlag /\ Handled' = Handled /\ Value' = Value
      /\ ReservedGetTxs' = ReservedGetTxs /\ ReservedPutTxs' = ReservedPutTxs
  BY <1>3 DEF H!Verify, H!table
<1>6. HeldInv(b) /\ EnteredInv(b, s) /\ MarkedInv(b, s) /\ CommittedInv(b, s) /\ AppliedInv(b, s)
  BY DEF DataInv
<1>7. /\ FlagConflict' \in [H!Txs -> BOOLEAN]
      /\ \A u \in H!Txs : FlagConflict[u] => FlagConflict'[u]
  <2>1. FlagConflict \in [H!Txs -> BOOLEAN]
    BY DEF HarmonyTypeOK
  <2>2. conflict \in BOOLEAN
    OBVIOUS
  <2>3. FlagConflict[t] => conflict
    OBVIOUS
  <2> HIDE DEF conflict
  <2> QED
    BY <1>4, <1>5, <2>1, <2>2, <2>3
<1>8. HarmonyTypeOK'
  <2>1. H!Workers' = H!Workers
    BY DEF H!Workers
  <2> QED
    BY <1>4, <1>5, <1>7, <2>1 DEF HarmonyTypeOK
<1> HIDE DEF conflict
<1>9. HeldInv(b)'
  BY <1>4, <1>5, <1>6 DEF HeldInv
<1>10. EnteredInv(b, s)'
  BY <1>2, <1>4, <1>5, <1>6 DEF EnteredInv
<1>11. MarkedInv(b, s)'
  BY <1>2, <1>4, <1>6, <1>7, StillMarked
<1>12. CommittedInv(b, s)'
  BY <1>4, <1>5, <1>6 DEF CommittedInv
<1>13. AppliedInv(b, s)'
  BY <1>2, <1>4, <1>5, <1>6 DEF AppliedInv
<1> QED
  BY <1>4, <1>8, <1>9, <1>10, <1>11, <1>12, <1>13 DEF DataInv

-----------------------------------------------------------------------------
(* Harmony: committing and cleaning                                        *)

\* Of the transactions that are not marked one at most writes a key.
LEMMA OneWriter ==
    ASSUME HarmonyTypeOK, NEW b, NEW s, s > 1, MarkedInv(b, s), NEW k,
           NEW t \in Of(b), k \in H!Writes(t), ~FlagConflict[t],
           NEW u \in Of(b), k \in H!Writes(u), ~FlagConflict[u]
    PROVE  t = u
<1>1. Executed(b, s, t) /\ Executed(b, s, u) /\ t \in H!Txs /\ u \in H!Txs /\ t[1] = u[1]
  BY DEF Executed, Of
<1>2. H!Conflict(t, u)
  BY DEF H!Conflict
<1> QED
  BY <1>1, <1>2 DEF MarkedInv

LEMMA FinalWriter ==
    ASSUME HarmonyTypeOK, NEW b, HeldInv(b), EnteredInv(b, 3), MarkedInv(b, 3),
           NEW k \in H!Keys, NEW t \in Of(b), k \in H!Writes(t), ~FlagConflict[t]
    PROVE  H!Final(k) = t
<1> DEFINE active == {u \in ReservedPutTxs[k] : ~FlagConflict[u]}
           Later(u, v) == MinOut[u] > MinOut[v] \/ (MinOut[u] = MinOut[v] /\ H!ID(u) >= H!ID(v))
<1>1. t \in active
  BY DEF EnteredInv
<1>2. ASSUME NEW u \in active
      PROVE  u = t
  <2>1. u \in Of(b) /\ k \in H!Writes(u) /\ ~FlagConflict[u]
    BY DEF HeldInv
  <2> QED
    BY <2>1, OneWriter
<1>3. active = {t}
  BY <1>1, <1>2
<1>4. H!ID(t) \in Int
  <2>1. t[1] \in Int /\ t[2] \in Int
    BY HarmonyConstants DEF HarmonyTypeOK, Of
  <2> QED
    BY <2>1 DEF H!ID, H!BlockSize
<1>5. Later(t, t)
  BY <1>4
<1>6. H!Final(k) = CHOOSE u \in active : \A v \in active : Later(u, v)
  BY <1>1 DEF H!Final
<1> HIDE DEF active, Later
<1>7. \A v \in active : Later(t, v)
  BY <1>3, <1>5
<1>8. (CHOOSE u \in active : \A v \in active : Later(u, v)) \in active
  BY <1>1, <1>7
<1> QED
  BY <1>3, <1>6, <1>8

LEMMA CommitStep ==
    ASSUME HarmonyTypeOK, NEW b, NEW s, StageInv(b, s), DataInv(b, s),
           NEW w \in H!Workers, H!Commit(w)
    PROVE  HarmonyTypeOK' /\ StageInv(b, s)' /\ DataInv(b, s)'
<1>1. H!In(w, "commit") /\ H!HasMore(w) /\ H!Step(w) /\ harmonyAt[w] = "run"
  BY DEF H!Commit, H!In
<1>2. s = 3
  BY <1>1, StageOf
<1>3. PICK t : t = H!Tx(w)
  OBVIOUS
<1>4. /\ t \in Of(b) /\ t \in H!Txs
      /\ \A u \in Of(b) : SeenTo(u)' <=> SeenTo(u) \/ u = t
      /\ StageInv(b, s)'
      /\ blocks' = blocks /\ H!Txs' = H!Txs /\ H!Keys' = H!Keys /\ Of(b)' = Of(b)
      /\ \A u : H!Reads(u)' = H!Reads(u) /\ H!Writes(u)' = H!Writes(u)
      /\ next' \in [H!Workers -> Nat] /\ block' = block /\ stage' = stage
      /\ harmonyAt' = harmonyAt /\ harmonySeen' = harmonySeen /\ generation' = generation
  BY <1>1, <1>3, WorkStep
<1>5. /\ FlagConflict' = FlagConflict
      /\ ReservedGetTxs' = ReservedGetTxs /\ ReservedPutTxs' = ReservedPutTxs
      /\ DepsGet' = DepsGet /\ DepsPut' = DepsPut
  BY DEF H!Commit, H!lockTable
<1>6. HeldInv(b) /\ EnteredInv(b, 3) /\ MarkedInv(b, 3) /\ CommittedInv(b, 3) /\ AppliedInv(b, 3)
  BY <1>2 DEF DataInv
<1>7. FlagConflict[t] \/ ~FlagConflict[t]
  OBVIOUS
<1>8. /\ CommittedFlag' \in [H!Txs -> BOOLEAN]
      /\ \A u \in H!Txs : CommittedFlag'[u] => CommittedFlag[u] \/ u = t
  <2>1. CommittedFlag \in [H!Txs -> BOOLEAN]
    BY DEF HarmonyTypeOK
  <2>2. CommittedFlag' = CommittedFlag \/ CommittedFlag' = [CommittedFlag EXCEPT ![t] = TRUE]
    BY <1>3 DEF H!Commit
  <2> QED
    BY <1>4, <2>1, <2>2
<1>9. HarmonyTypeOK'
  <2>1. H!Workers' = H!Workers
    BY DEF H!Workers
  <2> QED
    BY <1>4, <1>5, <1>8, <2>1 DEF HarmonyTypeOK
<1>10. ASSUME NEW k \in H!Keys
       PROVE  /\ Handled'[k] => Handled[k] \/ k \in H!Writes(t)
              /\ \A u \in Of(b) : k \in H!Writes(u) /\ ~FlagConflict[u] =>
                     /\ SeenTo(u)' => Handled'[k]
                     /\ Handled'[k] => Value'[k] = u
  <2>1. CASE FlagConflict[t]
    <3>1. Handled' = Handled /\ Value' = Value
      BY <1>3, <2>1 DEF H!Commit
    <3> QED
      BY <1>4, <1>6, <2>1, <3>1 DEF AppliedInv
  <2>2. CASE ~FlagConflict[t]
    <3>1. /\ Handled'[k] <=> Handled[k] \/ k \in H!Writes(t)
          /\ Value'[k] = IF k \in H!Writes(t) /\ ~Handled[k] THEN H!Final(k) ELSE Value[k]
      BY <1>3, <2>2 DEF H!Commit
    <3>2. ASSUME NEW u \in Of(b), k \in H!Writes(u), ~FlagConflict[u]
          PROVE  /\ SeenTo(u)' => Handled'[k]
                 /\ Handled'[k] => Value'[k] = u
      <4>1. SeenTo(u) => Handled[k]
        BY <1>6, <3>2 DEF AppliedInv
      <4>2. Handled[k] => Value[k] = u
        BY <1>6, <3>2 DEF AppliedInv
      <4>3. H!Final(k) = u
        BY <1>6, <3>2, FinalWriter
      <4>4. SeenTo(u)' => SeenTo(u) \/ u = t
        BY <1>4
      <4> QED
        BY <3>1, <3>2, <4>1, <4>2, <4>3, <4>4
    <3> QED
      BY <3>1, <3>2
  <2> QED
    BY <2>1, <2>2
<1>11. HeldInv(b)'
  BY <1>4, <1>5, <1>6, <1>10 DEF HeldInv
<1>12. EnteredInv(b, s)'
  BY <1>2, <1>4, <1>5, <1>6 DEF EnteredInv
<1>13. MarkedInv(b, s)'
  BY <1>2, <1>4, <1>5, <1>6, StillMarked
<1>14. CommittedInv(b, s)'
  <2>1. t[1] = b
    BY <1>4 DEF Of
  <2> QED
    BY <1>2, <1>4, <1>6, <1>8, <2>1 DEF CommittedInv
<1>15. AppliedInv(b, s)'
  BY <1>2, <1>4, <1>5, <1>10 DEF AppliedInv
<1> QED
  BY <1>4, <1>9, <1>11, <1>12, <1>13, <1>14, <1>15 DEF DataInv

LEMMA FallbackStep ==
    ASSUME HarmonyTypeOK, NEW b, NEW s, StageInv(b, s), DataInv(b, s),
           NEW w \in H!Workers, H!Fallback(w)
    PROVE  HarmonyTypeOK' /\ StageInv(b, s)' /\ DataInv(b, s)'
<1>1. H!In(w, "fallback") /\ H!HasMore(w) /\ H!Step(w) /\ harmonyAt[w] = "run"
  BY DEF H!Fallback, H!In
<1>2. s = 4
  BY <1>1, StageOf
<1>3. PICK t : t = H!Tx(w)
  OBVIOUS
<1>4. /\ t \in Of(b) /\ t \in H!Txs
      /\ StageInv(b, s)'
      /\ blocks' = blocks /\ H!Txs' = H!Txs /\ H!Keys' = H!Keys /\ Of(b)' = Of(b)
      /\ \A u : H!Reads(u)' = H!Reads(u) /\ H!Writes(u)' = H!Writes(u)
      /\ next' \in [H!Workers -> Nat] /\ block' = block /\ stage' = stage
      /\ harmonyAt' = harmonyAt /\ harmonySeen' = harmonySeen /\ generation' = generation
  BY <1>1, <1>3, WorkStep
<1>5. /\ FlagConflict' = FlagConflict /\ Handled' = Handled
      /\ ReservedGetTxs' = ReservedGetTxs /\ ReservedPutTxs' = ReservedPutTxs
      /\ DepsGet' = DepsGet /\ DepsPut' = DepsPut
  BY DEF H!Fallback, H!lockTable
<1>6. HeldInv(b) /\ EnteredInv(b, 4) /\ MarkedInv(b, 4) /\ CommittedInv(b, 4) /\ AppliedInv(b, 4)
  BY <1>2 DEF DataInv
<1>7. CommittedFlag \in [H!Txs -> BOOLEAN]
  BY DEF HarmonyTypeOK
<1>8. \/ Value' = Value /\ CommittedFlag' = CommittedFlag
      \/ FlagConflict[t] /\ CommittedFlag' = [CommittedFlag EXCEPT ![t] = TRUE]
  BY <1>3 DEF H!Fallback
<1>9. /\ CommittedFlag' \in [H!Txs -> BOOLEAN]
      /\ \A u \in H!Txs : CommittedFlag'[u] => CommittedFlag[u] \/ u = t
      /\ \/ Value' = Value /\ CommittedFlag' = CommittedFlag
         \/ FlagConflict[t] /\ CommittedFlag'[t]
  BY <1>4, <1>7, <1>8
<1>10. HarmonyTypeOK'
  <2>1. H!Workers' = H!Workers
    BY DEF H!Workers
  <2> QED
    BY <1>4, <1>5, <1>9, <2>1 DEF HarmonyTypeOK
<1>11. HeldInv(b)'
  BY <1>4, <1>5, <1>6 DEF HeldInv
<1>12. EnteredInv(b, s)'
  BY <1>2, <1>4, <1>5, <1>6 DEF EnteredInv
<1>13. MarkedInv(b, s)'
  BY <1>2, <1>4, <1>5, <1>6, StillMarked
<1>14. CommittedInv(b, s)'
  <2>1. t[1] = b
    BY <1>4 DEF Of
  <2> QED
    BY <1>2, <1>4, <1>6, <1>9, <2>1 DEF CommittedInv
<1>15. AppliedInv(b, s)'
  <2>1. CASE Value' = Value /\ CommittedFlag' = CommittedFlag
    BY <1>2, <1>4, <1>5, <1>6, <2>1 DEF AppliedInv
  <2>2. CASE FlagConflict[t] /\ CommittedFlag'[t]
    BY <1>2, <1>4, <1>5, <2>2 DEF AppliedInv
  <2> QED
    BY <1>9, <2>1, <2>2
<1> QED
  BY <1>4, <1>10, <1>11, <1>12, <1>13, <1>14, <1>15 DEF DataInv

LEMMA CleanStep ==
    ASSUME HarmonyTypeOK, NEW b, NEW s, StageInv(b, s), DataInv(b, s),
           NEW w \in H!Workers, H!Clean(w)
    PROVE  HarmonyTypeOK' /\ StageInv(b, s)' /\ DataInv(b, s)'
<1>1. H!In(w, "clean") /\ H!HasMore(w) /\ H!Step(w) /\ harmonyAt[w] = "run"
  BY DEF H!Clean, H!In
<1>2. s = 5
  BY <1>1, StageOf
<1>3. PICK t : t = H!Tx(w)
  OBVIOUS
<1>4. /\ t \in Of(b) /\ t \in H!Txs
      /\ \A u \in Of(b) : SeenTo(u)' <=> SeenTo(u) \/ u = t
      /\ StageInv(b, s)'
      /\ blocks' = blocks /\ H!Txs' = H!Txs /\ H!Keys' = H!Keys /\ Of(b)' = Of(b)
      /\ \A u : H!Reads(u)' = H!Reads(u) /\ H!Writes(u)' = H!Writes(u)
      /\ next' \in [H!Workers -> Nat] /\ block' = block /\ stage' = stage
      /\ harmonyAt' = harmonyAt /\ harmonySeen' = harmonySeen /\ generation' = generation
  BY <1>1, <1>3, WorkStep
<1>5. /\ FlagConflict' = FlagConflict /\ CommittedFlag' = CommittedFlag /\ Value' = Value
      /\ H!ResetEntries(t)
      /\ DepsGet' = [k \in H!Keys |-> IF k \in H!Reads(t) THEN {} ELSE DepsGet[k]]
      /\ DepsPut' = [k \in H!Keys |-> IF k \in H!Writes(t) THEN {} ELSE DepsPut[k]]
  BY <1>3 DEF H!Clean, H!txVars
<1>6. \A k \in H!Keys :
          /\ DepsGet'[k] = IF k \in H!Reads(t) THEN {} ELSE DepsGet[k]
          /\ DepsPut'[k] = IF k \in H!Writes(t) THEN {} ELSE DepsPut[k]
          /\ ReservedGetTxs'[k] = IF k \in H!Reads(t) \cup H!Writes(t) THEN {} ELSE ReservedGetTxs[k]
          /\ ReservedPutTxs'[k] = IF k \in H!Reads(t) \cup H!Writes(t) THEN {} ELSE ReservedPutTxs[k]
          /\ Handled'[k] <=> Handled[k] /\ k \notin H!Reads(t) \cup H!Writes(t)
  BY <1>5 DEF H!ResetEntries
<1>7. HeldInv(b) /\ EnteredInv(b, 5) /\ MarkedInv(b, 5) /\ CommittedInv(b, 5)
  BY <1>2 DEF DataInv
<1>8. HarmonyTypeOK'
  <2>1. H!Workers' = H!Workers
    BY DEF H!Workers
  <2> QED
    BY <1>4, <1>5, <2>1 DEF HarmonyTypeOK
<1>9. HeldInv(b)'
  BY <1>4, <1>6, <1>7 DEF HeldInv
<1>10. EnteredInv(b, s)'
  <2>1. ASSUME NEW u \in Of(b), NEW k \in H!Keys, SeenTo(u)', k \in H!Reads(u) \cup H!Writes(u)
        PROVE  /\ ReservedGetTxs'[k] = {} /\ ReservedPutTxs'[k] = {} /\ ~Handled'[k]
               /\ k \in H!Reads(u) => DepsGet'[k] = {}
               /\ k \in H!Writes(u) => DepsPut'[k] = {}
    <3>1. CASE u = t
      BY <1>6, <2>1, <3>1
    <3>2. CASE u # t
      <4>1. SeenTo(u)
        BY <1>4, <2>1, <3>2
      <4>2. /\ ReservedGetTxs[k] = {} /\ ReservedPutTxs[k] = {} /\ ~Handled[k]
            /\ k \in H!Reads(u) => DepsGet[k] = {}
            /\ k \in H!Writes(u) => DepsPut[k] = {}
        BY <1>7, <2>1, <4>1 DEF EnteredInv
      <4> QED
        BY <1>6, <4>2
    <3> QED
      BY <3>1, <3>2
  <2> QED
    BY <1>2, <1>4, <2>1 DEF EnteredInv
<1>11. MarkedInv(b, s)'
  BY <1>2, <1>4, <1>5, <1>7, StillMarked
<1>12. CommittedInv(b, s)'
  BY <1>2, <1>4, <1>5, <1>7 DEF CommittedInv
<1>13. AppliedInv(b, s)'
  BY <1>2 DEF AppliedInv
<1> QED
  BY <1>4, <1>8, <1>9, <1>10, <1>11, <1>12, <1>13 DEF DataInv

-----------------------------------------------------------------------------
(* Harmony: the barrier                                                    *)

\* What holds of a worker that has no transaction left in the stage.
LEMMA DoneWith ==
    ASSUME HarmonyTypeOK, NEW b, NEW s, StageInv(b, s), NEW w \in H!Workers,
           harmonyAt[w] = "run", ~H!HasMore(w)
    PROVE  /\ w \notin AtBarrier /\ block[w] = b /\ stage[w] = s /\ b \in 0 .. Len(blocks)
           /\ s \in 1 .. 5 /\ Len(blocks) \in Nat
           /\ \A u \in Of(b) : WorkerOf(u) = w => SeenTo(u)
           /\ \A u \in Of(b) : WorkerOf(u) \in H!Workers
           /\ Len(H!Batch(w, b)) \in Nat
<1>1. /\ w \notin AtBarrier /\ block[w] = b /\ stage[w] = s /\ next[w] <= Len(H!Batch(w, b))
      /\ H!Mine(w) = H!Batch(w, b) /\ b \in 0 .. Len(blocks)
  BY InStage
<1>2. blocks \in HarmonyWorkloads /\ next[w] \in Nat
  BY DEF HarmonyTypeOK
<1>3. Len(blocks) \in Nat /\ \A u \in Of(b) : WorkerOf(u) \in H!Workers
  BY <1>2, HarmonyConstants DEF Of
<1>4. /\ Len(H!Batch(w, b)) \in Nat
      /\ \A u \in Of(b) : WorkerOf(u) = w => TurnOf(u) \in 1 .. Len(H!Batch(w, b))
  BY <1>1, <1>2, BatchFacts
<1>5. next[w] = Len(H!Batch(w, b))
  BY <1>1, <1>2, <1>4 DEF H!HasMore
<1>6. ASSUME NEW u \in Of(b), WorkerOf(u) = w
      PROVE  SeenTo(u)
  BY <1>4, <1>5, <1>6 DEF SeenTo
<1>7. s \in 1 .. 5
  BY DEF StageInv
<1> QED
  BY <1>1, <1>3, <1>4, <1>6, <1>7

\* The worker is through with the last block.
LEMMA EndStep ==
    ASSUME HarmonyTypeOK, NEW b, NEW s, StageInv(b, s), DataInv(b, s),
           NEW w \in H!Workers, harmonyAt[w] = "run", ~H!HasMore(w),
           UNCHANGED <<blocks, H!txVars, H!table, H!lockTable>>,
           s = 5, b = Len(blocks),
           next' = [next EXCEPT ![w] = 0],
           harmonyAt' = [harmonyAt EXCEPT ![w] = "end"],
           UNCHANGED <<H!barrier, block, stage, harmonySeen>>
    PROVE  HarmonyTypeOK' /\ StageInv(b, s)' /\ DataInv(b, s)'
<1>1. /\ w \notin AtBarrier /\ block[w] = b /\ stage[w] = s
      /\ \A u \in Of(b) : WorkerOf(u) = w => SeenTo(u)
      /\ \A u \in Of(b) : WorkerOf(u) \in H!Workers
      /\ Len(H!Batch(w, b)) \in Nat
  BY DoneWith
<1>2. /\ blocks' = blocks /\ FlagConflict' = FlagConflict /\ CommittedFlag' = CommittedFlag
      /\ ReservedGetTxs' = ReservedGetTxs /\ ReservedPutTxs' = ReservedPutTxs
      /\ Handled' = Handled /\ Value' = Value /\ DepsGet' = DepsGet /\ DepsPut' = DepsPut
      /\ current' = current /\ generation' = generation /\ block' = block /\ stage' = stage
      /\ harmonySeen' = harmonySeen
  BY DEF H!txVars, H!table, H!lockTable, H!barrier
<1>3. /\ H!Txs' = H!Txs /\ H!Keys' = H!Keys /\ Of(b)' = Of(b) /\ H!Workers' = H!Workers
      /\ \A u : H!Reads(u)' = H!Reads(u) /\ H!Writes(u)' = H!Writes(u)
      /\ \A v : H!Batch(v, b)' = H!Batch(v, b)
  BY <1>2 DEF H!Txs, H!Keys, Of, H!Reads, H!Writes, H!Workers, H!Batch
<1>4. /\ next' \in [H!Workers -> Nat] /\ next'[w] = 0
      /\ harmonyAt' \in [H!Workers -> {"run", "wait", "end"}] /\ harmonyAt'[w] = "end"
      /\ \A v \in H!Workers : v # w => next'[v] = next[v] /\ harmonyAt'[v] = harmonyAt[v]
  BY DEF HarmonyTypeOK
<1>5. AtBarrier' = AtBarrier
  <2>1. \A v \in H!Workers : harmonyAt'[v] = "wait" <=> harmonyAt[v] = "wait"
    BY <1>4
  <2> QED
    BY <1>2, <1>3, <2>1 DEF AtBarrier
<1>6. HarmonyTypeOK'
  BY <1>2, <1>3, <1>4 DEF HarmonyTypeOK
<1>7. StageInv(b, s)'
  <2>1. ASSUME NEW v \in H!Workers
        PROVE  IF v \in AtBarrier
               THEN <<block[v], stage[v]>> = Following(b, s) /\ next'[v] = 0 /\ ~(b = Len(blocks) /\ s = 5)
               ELSE block[v] = b /\ stage[v] = s /\ next'[v] <= Len(H!Batch(v, b))
    <3>1. CASE v = w
      BY <1>1, <1>4, <3>1
    <3>2. CASE v # w
      BY <1>4, <3>2 DEF StageInv
    <3> QED
      BY <3>1, <3>2
  <2>2. /\ b \in 0 .. Len(blocks) /\ s \in 1 .. 5 /\ (b = 0 => s = 5)
        /\ current = Cardinality(AtBarrier) /\ current < HarmonyThreads
    BY DEF StageInv
  <2>3. \A v \in H!Workers :
            IF v \in AtBarrier
            THEN <<block[v], stage[v]>> = Following(b, s) /\ next'[v] = 0 /\ ~(b = Len(blocks) /\ s = 5)
            ELSE block[v] = b /\ stage[v] = s /\ next'[v] <= Len(H!Batch(v, b))
    BY <2>1
  <2> QED
    BY <1>2, <1>3, <1>5, <2>2, <2>3 DEF StageInv, Following
<1>8. ASSUME NEW u \in Of(b)
      PROVE  SeenTo(u)' <=> SeenTo(u)
  <2>1. CASE WorkerOf(u) = w
    BY <1>1, <1>3, <1>4, <2>1 DEF SeenTo
  <2>2. CASE WorkerOf(u) # w
    BY <1>1, <1>3, <1>4, <1>5, <2>2 DEF SeenTo
  <2> QED
    BY <2>1, <2>2
<1>9. Untouched
  BY <1>2, <1>3 DEF Untouched
<1>10. DataInv(b, s)'
  BY <1>2, <1>8, <1>9, SameData
<1> QED
  BY <1>6, <1>7, <1>10

\* The stages and blocks as a worker counts them.
LEMMA FollowingStage ==
    ASSUME NEW b \in Nat, NEW s \in 1 .. 5, NEW blockDone, blockDone = (s = 5)
    PROVE  Following(b, s) = <<IF blockDone THEN b + 1 ELSE b, IF blockDone THEN 1 ELSE s + 1>>
BY DEF Following

\* The worker is not the last at the barrier, and waits.
LEMMA WaitStep ==
    ASSUME HarmonyTypeOK, NEW b, NEW s, StageInv(b, s), DataInv(b, s),
           NEW w \in H!Workers, harmonyAt[w] = "run", ~H!HasMore(w),
           UNCHANGED <<blocks, H!txVars, H!table, H!lockTable>>,
           ~(s = 5 /\ b = Len(blocks)),
           next' = [next EXCEPT ![w] = 0],
           stage' = [stage EXCEPT ![w] = IF s = 5 THEN 1 ELSE @ + 1],
           block' = [block EXCEPT ![w] = IF s = 5 THEN @ + 1 ELSE @],
           ~H!LastToArrive,
           current' = current + 1, generation' = generation,
           harmonySeen' = [harmonySeen EXCEPT ![w] = generation],
           harmonyAt' = [harmonyAt EXCEPT ![w] = "wait"]
    PROVE  HarmonyTypeOK' /\ StageInv(b, s)' /\ DataInv(b, s)'
<1>1. /\ w \notin AtBarrier /\ block[w] = b /\ stage[w] = s /\ b \in 0 .. Len(blocks)
      /\ s \in 1 .. 5 /\ Len(blocks) \in Nat
      /\ \A u \in Of(b) : WorkerOf(u) = w => SeenTo(u)
      /\ \A u \in Of(b) : WorkerOf(u) \in H!Workers
  BY DoneWith
<1>2. /\ blocks' = blocks /\ FlagConflict' = FlagConflict /\ CommittedFlag' = CommittedFlag
      /\ ReservedGetTxs' = ReservedGetTxs /\ ReservedPutTxs' = ReservedPutTxs
      /\ Handled' = Handled /\ Value' = Value /\ DepsGet' = DepsGet /\ DepsPut' = DepsPut
  BY DEF H!txVars, H!table, H!lockTable
<1>3. /\ H!Txs' = H!Txs /\ H!Keys' = H!Keys /\ Of(b)' = Of(b) /\ H!Workers' = H!Workers
      /\ \A u : H!Reads(u)' = H!Reads(u) /\ H!Writes(u)' = H!Writes(u)
      /\ \A v : H!Batch(v, b)' = H!Batch(v, b)
  BY <1>2 DEF H!Txs, H!Keys, Of, H!Reads, H!Writes, H!Workers, H!Batch
<1>4. /\ next' \in [H!Workers -> Nat] /\ next'[w] = 0
      /\ harmonyAt' \in [H!Workers -> {"run", "wait", "end"}] /\ harmonyAt'[w] = "wait"
      /\ harmonySeen' \in [H!Workers -> Nat] /\ harmonySeen'[w] = generation
      /\ \A v \in H!Workers : v # w => /\ next'[v] = next[v] /\ harmonyAt'[v] = harmonyAt[v]
                                       /\ harmonySeen'[v] = harmonySeen[v]
  BY DEF HarmonyTypeOK
<1>5. /\ block' \in [H!Workers -> Nat] /\ stage' \in [H!Workers -> 1 .. 5]
      /\ <<block'[w], stage'[w]>> = Following(b, s)
      /\ \A v \in H!Workers : v # w => block'[v] = block[v] /\ stage'[v] = stage[v]
  BY <1>1 DEF HarmonyTypeOK, Following
<1>6. AtBarrier' = AtBarrier \cup {w}
  BY <1>3, <1>4 DEF AtBarrier
<1>7. /\ current = Cardinality(AtBarrier) /\ current < HarmonyThreads /\ current \in Nat
      /\ HarmonyThreads \in Nat /\ IsFiniteSet(AtBarrier)
  BY Barrier, HarmonyConstants DEF StageInv, HarmonyTypeOK
<1>8. current' = Cardinality(AtBarrier') /\ current' < HarmonyThreads
  <2>1. Cardinality(AtBarrier \cup {w}) = current + 1
    BY <1>1, <1>7, FS_AddElement
  <2>2. current + 1 < HarmonyThreads
    BY <1>7 DEF H!LastToArrive
  <2> QED
    BY <1>6, <2>1, <2>2
<1>9. HarmonyTypeOK'
  BY <1>2, <1>3, <1>4, <1>5 DEF HarmonyTypeOK
<1>10. StageInv(b, s)'
  <2>1. ASSUME NEW v \in H!Workers
        PROVE  IF v \in AtBarrier'
               THEN <<block'[v], stage'[v]>> = Following(b, s) /\ next'[v] = 0 /\ ~(b = Len(blocks) /\ s = 5)
               ELSE block'[v] = b /\ stage'[v] = s /\ next'[v] <= Len(H!Batch(v, b))
    <3>1. CASE v = w
      BY <1>4, <1>5, <1>6, <3>1
    <3>2. CASE v # w
      BY <1>4, <1>5, <1>6, <3>2 DEF StageInv
    <3> QED
      BY <3>1, <3>2
  <2>2. /\ b \in 0 .. Len(blocks) /\ s \in 1 .. 5 /\ (b = 0 => s = 5)
        /\ \A v \in H!Workers : harmonyAt[v] = "end" => b = Len(blocks) /\ s = 5
    BY DEF StageInv
  <2>3. \A v \in H!Workers :
            IF v \in AtBarrier'
            THEN <<block'[v], stage'[v]>> = Following(b, s) /\ next'[v] = 0 /\ ~(b = Len(blocks) /\ s = 5)
            ELSE block'[v] = b /\ stage'[v] = s /\ next'[v] <= Len(H!Batch(v, b))
    BY <2>1
  <2>4. \A v \in H!Workers : harmonyAt'[v] = "end" => b = Len(blocks) /\ s = 5
    BY <1>4, <2>2
  <2> QED
    BY <1>2, <1>3, <1>8, <2>2, <2>3, <2>4 DEF StageInv, Following
<1>11. ASSUME NEW u \in Of(b)
       PROVE  SeenTo(u)' <=> SeenTo(u)
  <2>1. CASE WorkerOf(u) = w
    BY <1>1, <1>3, <1>6, <2>1 DEF SeenTo
  <2>2. CASE WorkerOf(u) # w
    BY <1>1, <1>3, <1>4, <1>6, <2>2 DEF SeenTo
  <2> QED
    BY <2>1, <2>2
<1>12. Untouched
  BY <1>2, <1>3 DEF Untouched
<1>13. DataInv(b, s)'
  BY <1>2, <1>11, <1>12, SameData
<1> QED
  BY <1>9, <1>10, <1>13

\* The last worker at the barrier lets all of them into the next stage.
LEMMA OpenStep ==
    ASSUME HarmonyTypeOK, NEW b, NEW s, StageInv(b, s), DataInv(b, s),
           NEW w \in H!Workers, harmonyAt[w] = "run", ~H!HasMore(w),
           UNCHANGED <<blocks, H!txVars, H!table, H!lockTable>>,
           ~(s = 5 /\ b = Len(blocks)),
           next' = [next EXCEPT ![w] = 0],
           stage' = [stage EXCEPT ![w] = IF s = 5 THEN 1 ELSE @ + 1],
           block' = [block EXCEPT ![w] = IF s = 5 THEN @ + 1 ELSE @],
           H!LastToArrive,
           current' = 0, generation' = generation + 1,
           harmonySeen' = harmonySeen, harmonyAt' = harmonyAt
    PROVE  HarmonyTypeOK' /\ \E c \in 0 .. Len(blocks), r \in 1 .. 5 : StageInv(c, r)' /\ DataInv(c, r)'
<1>1. /\ w \notin AtBarrier /\ block[w] = b /\ stage[w] = s /\ b \in 0 .. Len(blocks)
      /\ s \in 1 .. 5 /\ Len(blocks) \in Nat
      /\ \A u \in Of(b) : WorkerOf(u) = w => SeenTo(u)
      /\ \A u \in Of(b) : WorkerOf(u) \in H!Workers
  BY DoneWith
<1>2. /\ blocks' = blocks /\ FlagConflict' = FlagConflict /\ CommittedFlag' = CommittedFlag
      /\ ReservedGetTxs' = ReservedGetTxs /\ ReservedPutTxs' = ReservedPutTxs
      /\ Handled' = Handled /\ Value' = Value /\ DepsGet' = DepsGet /\ DepsPut' = DepsPut
  BY DEF H!txVars, H!table, H!lockTable
<1>3. /\ H!Txs' = H!Txs /\ H!Keys' = H!Keys /\ H!Workers' = H!Workers
      /\ \A u : H!Reads(u)' = H!Reads(u) /\ H!Writes(u)' = H!Writes(u)
      /\ \A v, x : H!Batch(v, x)' = H!Batch(v, x)
  BY <1>2 DEF H!Txs, H!Keys, H!Reads, H!Writes, H!Workers, H!Batch
<1>4. AtBarrier \cup {w} = H!Workers
  <2>1. /\ current = Cardinality(AtBarrier) /\ current + 1 = HarmonyThreads /\ IsFiniteSet(AtBarrier)
        /\ AtBarrier \subseteq H!Workers /\ IsFiniteSet(H!Workers) /\ Cardinality(H!Workers) = HarmonyThreads
    BY Barrier DEF StageInv, H!LastToArrive
  <2>2. Cardinality(AtBarrier \cup {w}) = HarmonyThreads
    BY <1>1, <2>1, FS_AddElement
  <2> QED
    BY <2>1, <2>2, FS_Subset
<1>5. PICK c, r : <<c, r>> = Following(b, s)
  BY DEF Following
<1>6. c \in 0 .. Len(blocks) /\ r \in 1 .. 5 /\ c # 0
  <2>1. b = 0 => s = 5
    BY DEF StageInv
  <2> QED
    BY <1>1, <1>5, <2>1 DEF Following
<1>7. /\ block' \in [H!Workers -> Nat] /\ stage' \in [H!Workers -> 1 .. 5]
      /\ next' \in [H!Workers -> Nat]
      /\ \A v \in H!Workers : block'[v] = c /\ stage'[v] = r /\ next'[v] = 0
  <2>1. /\ block' \in [H!Workers -> Nat] /\ stage' \in [H!Workers -> 1 .. 5]
        /\ next' \in [H!Workers -> Nat]
        /\ <<block'[w], stage'[w]>> = Following(b, s) /\ next'[w] = 0
        /\ \A v \in H!Workers : v # w => block'[v] = block[v] /\ stage'[v] = stage[v] /\ next'[v] = next[v]
    BY <1>1 DEF HarmonyTypeOK, Following
  <2>2. \A v \in AtBarrier : <<block[v], stage[v]>> = Following(b, s) /\ next[v] = 0 /\ v \in H!Workers
    BY <1>4 DEF StageInv
  <2>3. block'[w] = c /\ stage'[w] = r
    BY <1>5, <2>1
  <2>4. \A v \in AtBarrier : block[v] = c /\ stage[v] = r /\ next[v] = 0
    BY <1>5, <2>2
  <2> QED
    BY <1>4, <2>1, <2>3, <2>4
<1>8. AtBarrier' = {} /\ \A v \in H!Workers : harmonyAt'[v] # "end"
  <2>1. generation \in Nat
    BY DEF HarmonyTypeOK
  <2>2. \A v \in AtBarrier : harmonyAt[v] = "wait" /\ harmonySeen[v] # generation + 1
    BY <2>1 DEF AtBarrier
  <2>3. \A v \in H!Workers : harmonyAt[v] # "end" /\ ~(harmonyAt[v] = "wait" /\ harmonySeen[v] = generation + 1)
    BY <1>4, <2>2
  <2> QED
    BY <1>3, <2>3 DEF AtBarrier
<1>9. HarmonyTypeOK'
  <2>1. generation' \in Nat
    BY DEF HarmonyTypeOK
  <2> QED
    BY <1>2, <1>3, <1>7, <2>1 DEF HarmonyTypeOK
<1>10. StageInv(c, r)'
  <2>1. HarmonyThreads \in Nat \ {0} /\ blocks \in HarmonyWorkloads
    BY HarmonyConstants DEF HarmonyTypeOK
  <2>2. \A v \in H!Workers : Len(H!Batch(v, c)) \in Nat
    BY <1>6, <2>1, BatchFacts
  <2>3. current' = Cardinality(AtBarrier') /\ current' < HarmonyThreads
    BY <1>8, <2>1, FS_EmptySet
  <2>4. \A v \in H!Workers : next'[v] <= Len(H!Batch(v, c))
    BY <1>7, <2>2
  <2> QED
    BY <1>2, <1>3, <1>6, <1>7, <1>8, <2>3, <2>4 DEF StageInv
<1>11. ASSUME NEW u \in Of(b)
       PROVE  SeenTo(u)
  BY <1>1, <1>4 DEF SeenTo
<1>12. ASSUME NEW u \in Of(c)
       PROVE  ~SeenTo(u)'
  <2>1. blocks \in HarmonyWorkloads /\ WorkerOf(u) \in H!Workers
    BY HarmonyConstants DEF HarmonyTypeOK, Of
  <2>2. Len(H!Batch(WorkerOf(u), c)) \in Nat /\ TurnOf(u) \in 1 .. Len(H!Batch(WorkerOf(u), c))
    BY <1>6, <2>1, BatchFacts
  <2>3. ~(TurnOf(u) <= 0)
    BY <2>2
  <2> QED
    BY <1>3, <1>7, <1>8, <2>1, <2>3 DEF SeenTo
<1>13. Untouched
  BY <1>2, <1>3 DEF Untouched
<1>14. DataInv(c, r)'
  BY <1>1, <1>2, <1>5, <1>11, <1>12, <1>13, MoveOn
<1> QED
  BY <1>6, <1>9, <1>10, <1>14

LEMMA HarmonyArriveStep ==
    ASSUME HarmonyIInv, NEW w \in H!Workers, H!Arrive(w)
    PROVE  HarmonyIInv'
<1>1. PICK b \in 0 .. Len(blocks), s \in 1 .. 5 : StageInv(b, s) /\ DataInv(b, s)
  BY DEF HarmonyIInv
<1>2. HarmonyTypeOK
  BY DEF HarmonyIInv
<1>3. /\ harmonyAt[w] = "run" /\ ~H!HasMore(w) /\ next' = [next EXCEPT ![w] = 0]
      /\ blocks' = blocks /\ UNCHANGED <<blocks, H!txVars, H!table, H!lockTable>>
  BY DEF H!Arrive
<1>4. block[w] = b /\ stage[w] = s
  BY <1>1, <1>2, <1>3, DoneWith
<1>5. Len(H!Stages) = 5
  BY StageNames
<1>6. CASE s = 5 /\ b = Len(blocks)
  <2>1. /\ harmonyAt' = [harmonyAt EXCEPT ![w] = "end"]
        /\ UNCHANGED <<H!barrier, block, stage, harmonySeen>>
    BY <1>4, <1>5, <1>6 DEF H!Arrive
  <2>2. HarmonyTypeOK' /\ StageInv(b, s)' /\ DataInv(b, s)'
    BY <1>1, <1>2, <1>3, <1>6, <2>1, EndStep
  <2> QED
    BY <1>1, <1>3, <2>2 DEF HarmonyIInv
<1>7. CASE ~(s = 5 /\ b = Len(blocks))
  <2>1. /\ stage' = [stage EXCEPT ![w] = IF s = 5 THEN 1 ELSE @ + 1]
        /\ block' = [block EXCEPT ![w] = IF s = 5 THEN @ + 1 ELSE @]
        /\ IF H!LastToArrive
           THEN /\ current' = 0
                /\ generation' = generation + 1
                /\ UNCHANGED <<harmonyAt, harmonySeen>>
           ELSE /\ current' = current + 1
                /\ harmonySeen' = [harmonySeen EXCEPT ![w] = generation]
                /\ harmonyAt' = [harmonyAt EXCEPT ![w] = "wait"]
                /\ UNCHANGED generation
    BY <1>4, <1>5, <1>7 DEF H!Arrive
  <2>2. CASE H!LastToArrive
    <3>1. HarmonyTypeOK' /\ \E c \in 0 .. Len(blocks), r \in 1 .. 5 : StageInv(c, r)' /\ DataInv(c, r)'
      BY <1>1, <1>2, <1>3, <1>7, <2>1, <2>2, OpenStep
    <3> QED
      BY <1>3, <3>1 DEF HarmonyIInv
  <2>3. CASE ~H!LastToArrive
    <3>1. HarmonyTypeOK' /\ StageInv(b, s)' /\ DataInv(b, s)'
      BY <1>1, <1>2, <1>3, <1>7, <2>1, <2>3, WaitStep
    <3> QED
      BY <1>1, <1>3, <3>1 DEF HarmonyIInv
  <2> QED
    BY <2>2, <2>3
<1> QED
  BY <1>6, <1>7

\* A worker that has not noticed yet that the barrier opened.
LEMMA HarmonyWakeStep ==
    ASSUME HarmonyTypeOK, NEW b, NEW s, StageInv(b, s), DataInv(b, s),
           NEW w \in H!Workers, H!Wake(w)
    PROVE  HarmonyTypeOK' /\ StageInv(b, s)' /\ DataInv(b, s)'
<1>1. /\ harmonyAt[w] = "wait" /\ harmonySeen[w] # generation
      /\ harmonyAt' = [harmonyAt EXCEPT ![w] = "run"]
      /\ blocks' = blocks /\ FlagConflict' = FlagConflict /\ CommittedFlag' = CommittedFlag
      /\ ReservedGetTxs' = ReservedGetTxs /\ ReservedPutTxs' = ReservedPutTxs
      /\ Handled' = Handled /\ Value' = Value /\ DepsGet' = DepsGet /\ DepsPut' = DepsPut
      /\ current' = current /\ generation' = generation /\ block' = block /\ stage' = stage
      /\ next' = next /\ harmonySeen' = harmonySeen
  BY DEF H!Wake, H!txVars, H!table, H!lockTable, H!barrier
<1>2. /\ H!Txs' = H!Txs /\ H!Keys' = H!Keys /\ Of(b)' = Of(b) /\ H!Workers' = H!Workers
      /\ \A u : H!Reads(u)' = H!Reads(u) /\ H!Writes(u)' = H!Writes(u)
      /\ \A v : H!Batch(v, b)' = H!Batch(v, b)
  BY <1>1 DEF H!Txs, H!Keys, Of, H!Reads, H!Writes, H!Workers, H!Batch
<1>3. /\ harmonyAt' \in [H!Workers -> {"run", "wait", "end"}] /\ harmonyAt'[w] = "run"
      /\ \A v \in H!Workers : v # w => harmonyAt'[v] = harmonyAt[v]
  BY <1>1 DEF HarmonyTypeOK
<1>4. AtBarrier' = AtBarrier
  <2>1. w \notin AtBarrier
    BY <1>1 DEF AtBarrier
  <2> QED
    BY <1>1, <1>2, <1>3, <2>1 DEF AtBarrier
<1>5. \A v \in H!Workers : harmonyAt'[v] = "end" <=> harmonyAt[v] = "end"
  BY <1>1, <1>3
<1>6. HarmonyTypeOK'
  BY <1>1, <1>2, <1>3 DEF HarmonyTypeOK
<1>7. StageInv(b, s)'
  BY <1>1, <1>2, <1>4, <1>5 DEF StageInv, Following
<1>8. \A u \in Of(b) : SeenTo(u)' <=> SeenTo(u)
  BY <1>1, <1>2, <1>4, <1>5 DEF SeenTo
<1>9. Untouched
  BY <1>1, <1>2 DEF Untouched
<1>10. DataInv(b, s)'
  BY <1>1, <1>8, <1>9, SameData
<1> QED
  BY <1>6, <1>7, <1>10

-----------------------------------------------------------------------------
(* Harmony: the beginning, and the invariant                               *)

LEMMA HarmonyInitial ==
    ASSUME H!Init
    PROVE  HarmonyIInv
<1>1. /\ blocks \in HarmonyWorkloads
      /\ FlagConflict = [t \in H!Txs |-> FALSE] /\ CommittedFlag = [t \in H!Txs |-> FALSE]
      /\ ReservedGetTxs = [k \in H!Keys |-> {}] /\ ReservedPutTxs = [k \in H!Keys |-> {}]
      /\ Handled = [k \in H!Keys |-> FALSE]
      /\ DepsGet = [k \in H!Keys |-> {}] /\ DepsPut = [k \in H!Keys |-> {}]
      /\ current = 0 /\ generation = 0
      /\ block = [w \in H!Workers |-> 0] /\ stage = [w \in H!Workers |-> 5]
      /\ harmonyAt = [w \in H!Workers |-> "run"]
      /\ next = [w \in H!Workers |-> 0] /\ harmonySeen = [w \in H!Workers |-> 0]
  BY StageNames DEF H!Init
<1>2. /\ HarmonyThreads \in Nat \ {0} /\ Len(blocks) \in Nat
      /\ \A t \in H!Txs : t[1] \in 1 .. Len(blocks)
  BY <1>1, HarmonyConstants
<1>3. HarmonyTypeOK
  BY <1>1 DEF HarmonyTypeOK
<1>4. AtBarrier = {} /\ \A w \in H!Workers : harmonyAt[w] = "run"
  BY <1>1 DEF AtBarrier
<1>5. Of(0) = {}
  BY <1>2 DEF Of
<1>6. StageInv(0, 5)
  <2>1. \A w \in H!Workers : Len(H!Batch(w, 0)) \in Nat
    BY <1>1, <1>2, BatchFacts
  <2>2. \A w \in H!Workers : block[w] = 0 /\ stage[w] = 5 /\ next[w] <= Len(H!Batch(w, 0))
    BY <1>1, <2>1
  <2> QED
    BY <1>1, <1>2, <1>4, <2>2, FS_EmptySet DEF StageInv
<1>7. DataInv(0, 5)
  <2>1. HeldInv(0)
    BY <1>1 DEF HeldInv
  <2>2. EnteredInv(0, 5) /\ AppliedInv(0, 5)
    BY <1>5 DEF EnteredInv, AppliedInv
  <2>3. \A t \in H!Txs : ~Executed(0, 5, t)
    BY <1>2 DEF Executed
  <2>4. MarkedInv(0, 5) /\ CommittedInv(0, 5)
    BY <1>1, <2>3 DEF MarkedInv, CommittedInv
  <2> QED
    BY <2>1, <2>2, <2>4 DEF DataInv
<1> QED
  BY <1>2, <1>3, <1>6, <1>7 DEF HarmonyIInv

HarmonyInv == engine = "harmony" => HarmonyIInv

LEMMA HarmonyNext ==
    ASSUME HarmonyIInv, H!Next
    PROVE  HarmonyIInv'
<1>1. PICK w \in H!Workers : H!Worker(w)
  BY DEF H!Next
<1>2. PICK b \in 0 .. Len(blocks), s \in 1 .. 5 : StageInv(b, s) /\ DataInv(b, s)
  BY DEF HarmonyIInv
<1>3. HarmonyTypeOK
  BY DEF HarmonyIInv
<1>4. CASE H!Arrive(w)
  BY <1>4, HarmonyArriveStep
<1>5. ASSUME HarmonyTypeOK' /\ StageInv(b, s)' /\ DataInv(b, s)', blocks' = blocks
      PROVE  HarmonyIInv'
  BY <1>2, <1>5 DEF HarmonyIInv
<1>6. CASE H!Wake(w)
  <2>1. blocks' = blocks
    BY <1>6 DEF H!Wake
  <2> QED
    BY <1>2, <1>3, <1>5, <1>6, <2>1, HarmonyWakeStep
<1>7. CASE H!Execute(w)
  <2>1. blocks' = blocks
    BY <1>7 DEF H!Execute, H!Step
  <2> QED
    BY <1>2, <1>3, <1>5, <1>7, <2>1, ExecuteStep
<1>8. CASE H!Verify(w)
  <2>1. blocks' = blocks
    BY <1>8 DEF H!Verify, H!Step
  <2> QED
    BY <1>2, <1>3, <1>5, <1>8, <2>1, VerifyAgain
<1>9. CASE H!Commit(w)
  <2>1. blocks' = blocks
    BY <1>9 DEF H!Commit, H!Step
  <2> QED
    BY <1>2, <1>3, <1>5, <1>9, <2>1, CommitStep
<1>10. CASE H!Fallback(w)
  <2>1. blocks' = blocks
    BY <1>10 DEF H!Fallback, H!Step
  <2> QED
    BY <1>2, <1>3, <1>5, <1>10, <2>1, FallbackStep
<1>11. CASE H!Clean(w)
  <2>1. blocks' = blocks
    BY <1>11 DEF H!Clean, H!Step
  <2> QED
    BY <1>2, <1>3, <1>5, <1>11, <2>1, CleanStep
<1> QED
  BY <1>1, <1>4, <1>6, <1>7, <1>8, <1>9, <1>10, <1>11 DEF H!Worker

LEMMA HarmonyStutter ==
    ASSUME HarmonyIInv, UNCHANGED harmonyVars, UNCHANGED blocks
    PROVE  HarmonyIInv'
<1>1. /\ blocks' = blocks /\ FlagConflict' = FlagConflict /\ CommittedFlag' = CommittedFlag
      /\ ReservedGetTxs' = ReservedGetTxs /\ ReservedPutTxs' = ReservedPutTxs
      /\ Handled' = Handled /\ Value' = Value /\ DepsGet' = DepsGet /\ DepsPut' = DepsPut
      /\ current' = current /\ generation' = generation /\ block' = block /\ stage' = stage
      /\ harmonyAt' = harmonyAt /\ next' = next /\ harmonySeen' = harmonySeen
  BY DEF harmonyVars
<1>2. /\ H!Txs' = H!Txs /\ H!Keys' = H!Keys /\ H!Workers' = H!Workers
      /\ \A u : H!Reads(u)' = H!Reads(u) /\ H!Writes(u)' = H!Writes(u)
      /\ \A v, x : H!Batch(v, x)' = H!Batch(v, x)
  BY <1>1 DEF H!Txs, H!Keys, H!Reads, H!Writes, H!Workers, H!Batch
<1>3. AtBarrier' = AtBarrier
  BY <1>1, <1>2 DEF AtBarrier
<1>4. PICK b \in 0 .. Len(blocks), s \in 1 .. 5 : StageInv(b, s) /\ DataInv(b, s)
  BY DEF HarmonyIInv
<1>5. HarmonyTypeOK'
  BY <1>1, <1>2 DEF HarmonyIInv, HarmonyTypeOK
<1>6. StageInv(b, s)'
  BY <1>1, <1>2, <1>3, <1>4 DEF StageInv, Following
<1>7. \A u \in Of(b) : SeenTo(u)' <=> SeenTo(u)
  BY <1>1, <1>2, <1>3 DEF SeenTo
<1>8. Untouched
  BY <1>1, <1>2 DEF Untouched
<1>9. DataInv(b, s)'
  BY <1>1, <1>4, <1>7, <1>8, SameData
<1> QED
  BY <1>1, <1>4, <1>5, <1>6, <1>9 DEF HarmonyIInv

\* The workers of Harmony go through the stages together, whatever the blocks
\* and however many there are, and each stage finds the tables as the one
\* before it left them.
THEOREM HarmonyInvariance == Spec => []HarmonyInv
<1>1. Init => HarmonyInv
  BY HarmonyInitial DEF Init, HarmonyInv
<1>2. HarmonyInv /\ [Next]_vars => HarmonyInv'
  <2>1. ASSUME HarmonyInv, engine = "harmony", H!Next, engine' = engine
        PROVE  HarmonyInv'
    BY <2>1, HarmonyNext DEF HarmonyInv
  <2>2. ASSUME HarmonyInv, engine' = engine, UNCHANGED harmonyVars, UNCHANGED blocks
        PROVE  HarmonyInv'
    BY <2>2, HarmonyStutter DEF HarmonyInv
  <2>3. ASSUME engine' = engine, engine # "harmony"
        PROVE  HarmonyInv'
    BY <2>3 DEF HarmonyInv
  <2> QED
    BY <2>1, <2>2, <2>3 DEF Next, vars
<1> QED
  BY <1>1, <1>2, PTL DEF Spec

-----------------------------------------------------------------------------
(* Harmony: what follows                                                   *)

LEMMA CommitsApart ==
    ASSUME HarmonyIInv
    PROVE  H!HarmonyCommitsApart
<1>1. HarmonyTypeOK
  BY DEF HarmonyIInv
<1>2. PICK b \in 0 .. Len(blocks), s \in 1 .. 5 : StageInv(b, s) /\ DataInv(b, s)
  BY DEF HarmonyIInv
<1>3. s \in 1 .. 5 /\ MarkedInv(b, s) /\ CommittedInv(b, s)
  BY <1>2 DEF DataInv
<1>4. ASSUME NEW t \in H!Txs, CommittedFlag[t]
      PROVE  Executed(b, s, t)
  BY <1>3, <1>4 DEF CommittedInv, Executed
<1> QED
  BY <1>3, <1>4 DEF MarkedInv, H!HarmonyCommitsApart

\* Of two transactions of a block that conflict one is executed again: however
\* the workers interleave, the one that comes second to a key finds the other
\* in the table and the later of the two is marked before the barrier.
THEOREM HarmonyCommitsApartCorrect == Spec => []HarmonyCommitsApart
<1>1. HarmonyInv => HarmonyCommitsApart
  BY CommitsApart DEF HarmonyInv, HarmonyCommitsApart
<1> QED
  BY <1>1, HarmonyInvariance, PTL

LEMMA AppliesAll ==
    ASSUME HarmonyIInv
    PROVE  H!HarmonyAppliesAll
<1>1. HarmonyTypeOK
  BY DEF HarmonyIInv
<1>2. PICK b \in 0 .. Len(blocks), s \in 1 .. 5 : StageInv(b, s) /\ DataInv(b, s)
  BY DEF HarmonyIInv
<1>3. SUFFICES ASSUME NEW w \in H!Workers, H!In(w, "fallback"),
                      \A u \in H!Txs : (u[1] = block[w] /\ FlagConflict[u]) => ~CommittedFlag[u],
                      NEW t \in H!Txs, t[1] = block[w], CommittedFlag[t],
                      NEW k \in H!Writes(t)
               PROVE  Value[k] = t
  BY DEF H!HarmonyAppliesAll
<1>4. s = 4 /\ block[w] = b
  BY <1>1, <1>2, <1>3, StageOf, InStage DEF H!In
<1>5. k \in H!Keys
  BY <1>1, HarmonyConstants DEF HarmonyTypeOK
<1>6. t \in Of(b) /\ ~FlagConflict[t] /\ \A u \in Of(b) : FlagConflict[u] => ~CommittedFlag[u]
  BY <1>3, <1>4 DEF Of
<1> QED
  BY <1>2, <1>4, <1>5, <1>6 DEF DataInv, AppliedInv

\* When the workers come to the transactions to be executed again, every write
\* of the others is in place.
THEOREM HarmonyAppliesAllCorrect == Spec => []HarmonyAppliesAll
<1>1. HarmonyInv => HarmonyAppliesAll
  BY AppliesAll DEF HarmonyInv, HarmonyAppliesAll
<1> QED
  BY <1>1, HarmonyInvariance, PTL

LEMMA NoLeftovers ==
    ASSUME HarmonyIInv
    PROVE  H!HarmonyNoLeftovers
<1>1. HarmonyTypeOK
  BY DEF HarmonyIInv
<1>2. PICK b \in 0 .. Len(blocks), s \in 1 .. 5 : StageInv(b, s) /\ DataInv(b, s)
  BY DEF HarmonyIInv
<1>3. SUFFICES ASSUME NEW w \in H!Workers, H!In(w, "execute") \/ H!In(w, "verify"), NEW k \in H!Keys
               PROVE  /\ \A u \in ReservedGetTxs[k] \cup ReservedPutTxs[k] \cup DepsGet[k] \cup DepsPut[k] :
                             u[1] = block[w]
                      /\ ~Handled[k]
  BY DEF H!HarmonyNoLeftovers
<1>4. (s = 1 \/ s = 2) /\ block[w] = b
  BY <1>1, <1>2, <1>3, StageOf, InStage DEF H!In
<1>5. \A u \in ReservedGetTxs[k] \cup ReservedPutTxs[k] \cup DepsGet[k] \cup DepsPut[k] : u \in Of(b)
  BY <1>2 DEF DataInv, HeldInv
<1>6. ~Handled[k]
  BY <1>2, <1>4 DEF DataInv, AppliedInv
<1> QED
  BY <1>4, <1>5, <1>6 DEF Of

\* What a block finds in the tables is its own: the one before it has been
\* cleaned out, by all workers, before the first of them executes.
THEOREM HarmonyNoLeftoversCorrect == Spec => []HarmonyNoLeftovers
<1>1. HarmonyInv => HarmonyNoLeftovers
  BY NoLeftovers DEF HarmonyInv, HarmonyNoLeftovers
<1> QED
  BY <1>1, HarmonyInvariance, PTL

-----------------------------------------------------------------------------
(* Induction and recursion on the natural numbers                          *)

LEMMA AllNumbers ==
    ASSUME NEW S \in SUBSET Nat, 0 \in S, \A m \in S : m + 1 \in S
    PROVE  S = Nat
<1>1. SUFFICES ASSUME Nat \ S # {}
               PROVE  FALSE
  OBVIOUS
<1>2. PICK m \in Nat \ S : \A x \in Nat \ S : m <= x
  BY <1>1, LeastOf
<1>3. m - 1 \in Nat /\ m - 1 \in S
  BY <1>2
<1> QED
  BY <1>2, <1>3

\* A list may be defined step by step.
Follows(g, n, start, step) == g[0] = start /\ \A i \in 1 .. n : g[i] = step[<<i, g[i - 1]>>]

LEMMA StepByStep ==
    ASSUME NEW Values, NEW n \in Nat, NEW start \in Values,
           NEW step \in [(1 .. n) \X Values -> Values]
    PROVE  \E g \in [0 .. n -> Values] : Follows(g, n, start, step)
<1> DEFINE Upto(m) == \E g \in [0 .. m -> Values] :
                          g[0] = start /\ \A i \in 1 .. m : g[i] = step[<<i, g[i - 1]>>]
           S == {m \in Nat : m <= n => Upto(m)}
<1>1. 0 \in S
  <2>1. [i \in 0 .. 0 |-> start] \in [0 .. 0 -> Values] /\ [i \in 0 .. 0 |-> start][0] = start
    OBVIOUS
  <2>2. \A i \in 1 .. 0 : FALSE
    OBVIOUS
  <2> QED
    BY <2>1, <2>2
<1>2. ASSUME NEW m \in S
      PROVE  m + 1 \in S
  <2>1. SUFFICES ASSUME m + 1 <= n
                 PROVE  Upto(m + 1)
    BY <1>2
  <2>2. PICK g \in [0 .. m -> Values] : g[0] = start /\ \A i \in 1 .. m : g[i] = step[<<i, g[i - 1]>>]
    BY <2>1
  <2> DEFINE last == step[<<m + 1, g[m]>>]
             h == [i \in 0 .. m + 1 |-> IF i <= m THEN g[i] ELSE last]
  <2>3. <<m + 1, g[m]>> \in (1 .. n) \X Values
    BY <2>1
  <2>4. last \in Values /\ last = step[<<m + 1, g[m]>>]
    BY <2>3
  <2> HIDE DEF last
  <2>5. h \in [0 .. m + 1 -> Values] /\ h[0] = start /\ h[m + 1] = last
        /\ \A i \in 0 .. m : h[i] = g[i]
    BY <2>2, <2>4
  <2> HIDE DEF h
  <2>6. ASSUME NEW i \in 1 .. m + 1
        PROVE  h[i] = step[<<i, h[i - 1]>>]
    <3>1. CASE i = m + 1
      <4>1. i - 1 = m /\ m \in 0 .. m
        BY <3>1
      <4>2. h[i - 1] = g[m] /\ h[i] = last
        BY <2>5, <3>1, <4>1
      <4> QED
        BY <2>4, <3>1, <4>2
    <3>2. CASE i # m + 1
      <4>1. i \in 1 .. m /\ i - 1 \in 0 .. m
        BY <3>2
      <4>2. h[i] = g[i] /\ h[i - 1] = g[i - 1]
        BY <2>5, <4>1
      <4> QED
        BY <2>2, <4>1, <4>2
    <3> QED
      BY <3>1, <3>2
  <2> QED
    BY <2>5, <2>6
<1> HIDE DEF Upto
<1>3. S = Nat
  BY <1>1, <1>2, AllNumbers
<1>4. Upto(n)
  BY <1>3
<1> QED
  BY <1>4 DEF Upto, Follows

-----------------------------------------------------------------------------
(* OptME: the inductive invariant                                          *)

OptMETypeOK ==
    /\ blocks \in OptMEWorkloads
    /\ blockid \in 1 .. Len(blocks)
    /\ phase \in {"simulate", "reorder", "epoch", "end"}
    /\ pending \in SUBSET O!TxsOf(blockid)
    /\ Committed \in [O!Txs -> BOOLEAN]
    /\ BlockIDPut \in [O!Keys -> Nat]
    /\ ReservedPutNum \in [O!Keys -> Nat]
    /\ NextReservedPut \in [O!Keys -> Nat]

\* What is executed at the same time.
Apart(epoch) ==
    \A t, u \in epoch : t # u => O!Writes(t) \cap (O!Reads(u) \cup O!Writes(u)) = {}

ApartEpochs(S) == {epochs \in Seq(SUBSET S) : \A e \in DOMAIN epochs : Apart(epochs[e])}

EpochsInv ==
    /\ phase = "reorder" => pending = {}
    /\ phase = "epoch" => Apart(pending) /\ schedules \in ApartEpochs(O!TxsOf(blockid))

\* The writers of k in block b that have simulated and are not committed.
Open(b, k) ==
    {t \in O!TxsOf(b) : /\ k \in O!Writes(t) /\ ~Committed[t]
                        /\ ~(phase = "simulate" /\ t \in pending)}

\* The counter of a key is exact, and only that of an earlier block lets
\* reservations pile up behind it.
CountInv ==
    \A k \in O!Keys :
        IF BlockIDPut[k] = 0
        THEN ReservedPutNum[k] = 0 /\ NextReservedPut[k] = 0 /\ Open(blockid, k) = {}
        ELSE /\ BlockIDPut[k] <= blockid
             /\ ReservedPutNum[k] = Cardinality(Open(BlockIDPut[k], k)) /\ ReservedPutNum[k] > 0
             /\ BlockIDPut[k] = blockid => NextReservedPut[k] = 0

\* The block is not committed before it has been sorted.
UncommittedInv ==
    \A t \in O!Txs : Committed[t] =>
        t[1] < blockid \/ (t[1] = blockid /\ phase \in {"epoch", "end"})

OptMEIInv == OptMETypeOK /\ EpochsInv /\ CountInv /\ UncommittedInv

-----------------------------------------------------------------------------
(* OptME: the schedule                                                     *)

LEMMA OptMEConstants ==
    ASSUME blocks \in OptMEWorkloads
    PROVE  /\ Len(blocks) \in Nat \ {0}
           /\ \A t \in O!Txs : t[1] \in 1 .. Len(blocks)
           /\ \A b \in 1 .. Len(blocks) : Len(blocks[b]) \in Nat
           /\ \A b \in 1 .. Len(blocks) : \A i \in 1 .. Len(blocks[b]) : <<b, i>> \in O!TxsOf(b)
           /\ \A b \in 1 .. Len(blocks) : \A t \in O!TxsOf(b) :
                  \E i \in 1 .. Len(blocks[b]) : t = <<b, i>>
           /\ \A b : IsFiniteSet(O!TxsOf(b))
           /\ \A t \in O!Txs : O!Reads(t) \subseteq O!Keys /\ O!Writes(t) \subseteq O!Keys
<1>1. /\ Len(blocks) \in Nat \ {0} /\ DOMAIN blocks = 1 .. Len(blocks)
      /\ \A b \in 1 .. Len(blocks) : Len(blocks[b]) \in Nat /\ DOMAIN blocks[b] = 1 .. Len(blocks[b])
  BY Assumptions DEF O!OptMEBlocksAssumption
<1>2. ASSUME NEW t \in O!Txs
      PROVE  \E b \in 1 .. Len(blocks) : \E i \in 1 .. Len(blocks[b]) : t = <<b, i>>
  <2>1. PICK b \in DOMAIN blocks : t \in {<<b, i>> : i \in DOMAIN blocks[b]}
    BY DEF O!Txs
  <2>2. PICK i \in DOMAIN blocks[b] : t = <<b, i>>
    BY <2>1
  <2> QED
    BY <1>1, <2>2
<1>3. ASSUME NEW b \in 1 .. Len(blocks), NEW i \in 1 .. Len(blocks[b])
      PROVE  <<b, i>> \in O!TxsOf(b)
  BY <1>1 DEF O!Txs, O!TxsOf
<1>4. ASSUME NEW b \in 1 .. Len(blocks), NEW t \in O!TxsOf(b)
      PROVE  \E i \in 1 .. Len(blocks[b]) : t = <<b, i>>
  BY <1>2 DEF O!TxsOf
<1>5. ASSUME NEW b
      PROVE  IsFiniteSet(O!TxsOf(b))
  <2>1. CASE b \in 1 .. Len(blocks)
    <3> DEFINE f == [i \in 1 .. Len(blocks[b]) |-> <<b, i>>]
    <3>1. f \in Surjection(1 .. Len(blocks[b]), O!TxsOf(b))
      BY <1>3, <1>4, <2>1 DEF Surjection
    <3>2. IsFiniteSet(1 .. Len(blocks[b]))
      BY <1>1, <2>1, FS_Interval
    <3> QED
      BY <3>1, <3>2, FS_Surjection
  <2>2. CASE b \notin 1 .. Len(blocks)
    <3>1. O!TxsOf(b) = {}
      BY <1>2, <2>2 DEF O!TxsOf
    <3> QED
      BY <3>1, FS_EmptySet
  <2> QED
    BY <2>1, <2>2
<1>6. \A t \in O!Txs : O!Reads(t) \subseteq O!Keys /\ O!Writes(t) \subseteq O!Keys
  BY DEF O!Keys
<1>7. \A t \in O!Txs : t[1] \in 1 .. Len(blocks)
  <2> SUFFICES ASSUME NEW t \in O!Txs PROVE t[1] \in 1 .. Len(blocks)
    OBVIOUS
  <2>1. PICK b \in 1 .. Len(blocks) : \E i \in 1 .. Len(blocks[b]) : t = <<b, i>>
    BY <1>2
  <2> QED
    BY <2>1
<1>8. \A b \in 1 .. Len(blocks) : \A i \in 1 .. Len(blocks[b]) : <<b, i>> \in O!TxsOf(b)
  BY <1>3
<1>9. \A b \in 1 .. Len(blocks) : \A t \in O!TxsOf(b) :
          \E i \in 1 .. Len(blocks[b]) : t = <<b, i>>
  BY <1>4
<1>10. \A b : IsFiniteSet(O!TxsOf(b))
  BY <1>5
<1>11. Len(blocks) \in Nat \ {0} /\ \A b \in 1 .. Len(blocks) : Len(blocks[b]) \in Nat
  BY <1>1
<1> QED
  BY <1>6, <1>7, <1>8, <1>9, <1>10, <1>11

\* A transaction that reads nothing goes into an epoch that it fits, or into a
\* new one.
LEMMA PlaceApart ==
    ASSUME NEW S, \A t \in S : O!Reads(t) = {},
           NEW epochs \in ApartEpochs(S), NEW t \in S
    PROVE  O!Place(t, epochs) \in ApartEpochs(S)
<1> DEFINE fitting == {e \in DOMAIN epochs : O!Fits(t, epochs[e])}
<1>1. /\ epochs \in Seq(SUBSET S) /\ Len(epochs) \in Nat /\ DOMAIN epochs = 1 .. Len(epochs)
      /\ \A e \in DOMAIN epochs : epochs[e] \in SUBSET S /\ Apart(epochs[e])
  BY LenProperties, ElementOfSeq DEF ApartEpochs
<1>2. CASE fitting = {}
  <2>1. O!Place(t, epochs) = Append(epochs, {t})
    BY <1>2 DEF O!Place
  <2>2. Append(epochs, {t}) \in Seq(SUBSET S)
    BY <1>1
  <2>3. /\ DOMAIN Append(epochs, {t}) = 1 .. Len(epochs) + 1
        /\ \A e \in 1 .. Len(epochs) : Append(epochs, {t})[e] = epochs[e]
        /\ Append(epochs, {t})[Len(epochs) + 1] = {t}
    BY <1>1, <2>2
  <2>4. Apart({t})
    BY DEF Apart
  <2>5. ASSUME NEW e \in 1 .. Len(epochs) + 1
        PROVE  Apart(Append(epochs, {t})[e])
    BY <1>1, <2>3, <2>4
  <2> QED
    BY <2>1, <2>2, <2>3, <2>5 DEF ApartEpochs
<1>3. CASE fitting # {}
  <2> DEFINE e == CHOOSE e \in fitting : \A d \in fitting : e <= d
  <2>1. O!Place(t, epochs) = [epochs EXCEPT ![e] = @ \cup {t}]
    BY <1>3 DEF O!Place
  <2>2. fitting \in SUBSET Nat
    BY <1>1
  <2>3. \E d \in fitting : \A x \in fitting : d <= x
    BY <1>3, <2>2, LeastOf
  <2>4. e \in fitting
    BY <2>3
  <2> HIDE DEF e
  <2>5. e \in 1 .. Len(epochs) /\ O!Fits(t, epochs[e])
    BY <1>1, <2>4
  <2>6. Apart(epochs[e] \cup {t})
    <3>1. ASSUME NEW u \in epochs[e]
          PROVE  /\ O!Writes(u) \cap (O!Reads(t) \cup O!Writes(t)) = {}
                 /\ O!Writes(t) \cap (O!Reads(u) \cup O!Writes(u)) = {}
      <4>1. O!Reads(u) = {}
        BY <1>1, <2>5
      <4>2. O!Writes(u) \cap (O!Reads(t) \cup O!Writes(t)) = {}
        BY <2>5 DEF O!Fits
      <4> QED
        BY <4>1, <4>2
    <3>2. Apart(epochs[e])
      BY <1>1, <2>5
    <3> QED
      BY <3>1, <3>2 DEF Apart
  <2> DEFINE new == [epochs EXCEPT ![e] = @ \cup {t}]
  <2>7. new \in Seq(SUBSET S) /\ DOMAIN new = DOMAIN epochs
    BY <1>1, <2>5
  <2>8. \A d \in DOMAIN epochs : new[d] = IF d = e THEN epochs[e] \cup {t} ELSE epochs[d]
    BY <1>1, <2>5
  <2> HIDE DEF new
  <2>9. \A d \in DOMAIN new : Apart(new[d])
    BY <1>1, <2>6, <2>7, <2>8
  <2> QED
    BY <2>1, <2>7, <2>9 DEF ApartEpochs, new
<1> QED
  BY <1>2, <1>3

\* Every epoch of a schedule can be executed at the same time.
LEMMA ScheduleApart ==
    ASSUME blocks \in OptMEWorkloads, blockid \in 1 .. Len(blocks),
           NEW S, \A t \in S : O!Reads(t) = {}
    PROVE  O!Schedule(S) \in ApartEpochs(S)
<1> DEFINE n == Len(blocks[blockid])
           Values == ApartEpochs(S)
           Body(g) == [i \in 0 .. n |-> IF i = 0 THEN <<>>
                                        ELSE IF <<blockid, i>> \in S THEN O!Place(<<blockid, i>>, g[i - 1])
                                        ELSE g[i - 1]]
           f == CHOOSE g : g = Body(g)
           none == <<>>
           step == [x \in (1 .. n) \X Values |->
                       IF <<blockid, x[1]>> \in S THEN O!Place(<<blockid, x[1]>>, x[2]) ELSE x[2]]
<1>1. n \in Nat
  BY OptMEConstants
<1>2. none \in Values
  BY DEF ApartEpochs
<1>3. O!Schedule(S) = f[n]
  BY DEF O!Schedule
<1>4. step \in [(1 .. n) \X Values -> Values]
  <2>1. ASSUME NEW x \in (1 .. n) \X Values
        PROVE  (IF <<blockid, x[1]>> \in S THEN O!Place(<<blockid, x[1]>>, x[2]) ELSE x[2]) \in Values
    BY PlaceApart
  <2> QED
    BY <2>1
<1> HIDE DEF n, Values
<1>5. PICK g \in [0 .. n -> Values] : g[0] = none /\ \A i \in 1 .. n : g[i] = step[<<i, g[i - 1]>>]
  <2> HIDE DEF step, none
  <2>1. PICK g \in [0 .. n -> Values] : Follows(g, n, none, step)
    BY <1>1, <1>2, <1>4, StepByStep
  <2> QED
    BY <2>1 DEF Follows
<1>6. g = Body(g)
  <2>1. ASSUME NEW i \in 0 .. n
        PROVE  g[i] = IF i = 0 THEN <<>>
                      ELSE IF <<blockid, i>> \in S THEN O!Place(<<blockid, i>>, g[i - 1])
                      ELSE g[i - 1]
    <3>1. CASE i = 0
      BY <1>5, <3>1
    <3>2. CASE i # 0
      <4>1. i \in 1 .. n /\ i - 1 \in 0 .. n /\ <<i, g[i - 1]>> \in (1 .. n) \X Values
        BY <1>1, <1>5, <3>2
      <4> QED
        BY <1>5, <3>2, <4>1
    <3> QED
      BY <3>1, <3>2
  <2> QED
    BY <2>1
<1>7. f = Body(f)
  BY <1>6
<1> HIDE DEF f, step
<1> DEFINE Good == {m \in Nat : m <= n => f[m] \in Values}
<1>8. 0 \in Good
  BY <1>1, <1>2, <1>7
<1>9. ASSUME NEW m \in Good
      PROVE  m + 1 \in Good
  <2>1. SUFFICES ASSUME m + 1 <= n
                 PROVE  f[m + 1] \in Values
    BY <1>9
  <2>2. m \in 0 .. n /\ m + 1 \in 0 .. n /\ m + 1 # 0 /\ m + 1 - 1 = m /\ f[m] \in Values
    BY <1>1, <1>9, <2>1
  <2>3. f[m + 1] = IF <<blockid, m + 1>> \in S THEN O!Place(<<blockid, m + 1>>, f[m]) ELSE f[m]
    BY <1>7, <2>2
  <2> QED
    BY <2>2, <2>3, PlaceApart DEF Values
<1> HIDE DEF Good
<1>10. Good = Nat
  <2>1. Good \in SUBSET Nat
    BY DEF Good
  <2> QED
    BY <1>8, <1>9, <2>1, AllNumbers
<1> QED
  BY <1>1, <1>3, <1>10 DEF Good, Values

-----------------------------------------------------------------------------
(* OptME: committing, one action at a time                                 *)

\* The transactions of S, of the current block, are committed: every counter
\* of the block goes down by those of its writers that were not yet.
LEMMA CommitAllStep ==
    ASSUME Assumptions, OptMEIInv, phase \in {"reorder", "epoch"}, phase' \in {"reorder", "epoch", "end"},
           NEW S, S \subseteq O!TxsOf(blockid), O!CommitAll(S),
           UNCHANGED <<blocks, blockid>>
    PROVE  /\ Committed' \in [O!Txs -> BOOLEAN] /\ \A t \in O!Txs : Committed'[t] = (Committed[t] \/ t \in S)
           /\ BlockIDPut' \in [O!Keys -> Nat] /\ ReservedPutNum' \in [O!Keys -> Nat]
           /\ NextReservedPut' \in [O!Keys -> Nat]
           /\ CountInv'
<1> USE DEF OptMEIInv
<1> DEFINE new == {t \in S : ~Committed[t]}
           mine == [k \in O!Keys |-> {t \in new : k \in O!Writes(t) /\ BlockIDPut[k] = t[1]}]
           left == [k \in O!Keys |-> ReservedPutNum[k] - Cardinality(mine[k])]
           over(k) == mine[k] # {} /\ left[k] = 0
           OpenLater(b, k) == {t \in O!TxsOf(b) : k \in O!Writes(t) /\ ~Committed'[t]}
<1>1. /\ Len(blocks) \in Nat \ {0} /\ blockid \in 1 .. Len(blocks)
      /\ \A t \in O!TxsOf(blockid) : t \in O!Txs /\ t[1] = blockid
      /\ \A b : IsFiniteSet(O!TxsOf(b))
  BY OptMEConstants DEF OptMETypeOK, O!TxsOf
<1>2. /\ Committed \in [O!Txs -> BOOLEAN] /\ BlockIDPut \in [O!Keys -> Nat]
      /\ ReservedPutNum \in [O!Keys -> Nat] /\ NextReservedPut \in [O!Keys -> Nat]
  BY DEF OptMETypeOK
<1>3. Committed' = [t \in O!Txs |-> Committed[t] \/ t \in S]
  BY DEF O!CommitAll
<1>4. /\ BlockIDPut' = [k \in O!Keys |-> IF ~over(k) THEN BlockIDPut[k]
                                         ELSE IF NextReservedPut[k] > 0 THEN BlockIDPut[k] + 1
                                         ELSE 0]
      /\ ReservedPutNum' = [k \in O!Keys |-> IF over(k) THEN NextReservedPut[k] ELSE left[k]]
      /\ NextReservedPut' = [k \in O!Keys |-> IF over(k) THEN 0 ELSE NextReservedPut[k]]
  <2>1. O!Finalize(new)
    BY DEF O!CommitAll
  <2> HIDE DEF new
  <2> QED
    BY <2>1 DEF O!Finalize, O!Cardinality, Cardinality
<1>5. O!Txs' = O!Txs /\ O!Keys' = O!Keys /\ (\A t : O!Writes(t)' = O!Writes(t))
      /\ (\A b : O!TxsOf(b)' = O!TxsOf(b))
  BY DEF O!Txs, O!Keys, O!Writes, O!Reads, O!TxsOf
<1>6. \A b, k : Open(b, k)' = OpenLater(b, k)
  BY <1>5 DEF Open
<1>7. \A b, k : Open(b, k) = {t \in O!TxsOf(b) : k \in O!Writes(t) /\ ~Committed[t]}
  BY DEF Open
<1>8. ASSUME NEW k \in O!Keys
      PROVE  /\ mine[k] = IF BlockIDPut[k] = blockid THEN S \cap Open(blockid, k) ELSE {}
             /\ OpenLater(blockid, k) = Open(blockid, k) \ S
             /\ \A b : b # blockid => OpenLater(b, k) = Open(b, k)
  <2>1. \A t \in S : t \in O!TxsOf(blockid) /\ t \in O!Txs /\ t[1] = blockid
    BY <1>1
  <2>2. \A t \in O!Txs : Committed'[t] = (Committed[t] \/ t \in S)
    BY <1>2, <1>3
  <2>3. mine[k] = IF BlockIDPut[k] = blockid THEN S \cap Open(blockid, k) ELSE {}
    BY <1>7, <2>1
  <2>4. OpenLater(blockid, k) = Open(blockid, k) \ S
    BY <1>7, <1>1, <2>2
  <2>5. ASSUME NEW b, b # blockid
        PROVE  OpenLater(b, k) = Open(b, k)
    <3>1. \A t \in O!TxsOf(b) : t \in O!Txs /\ t \notin S
      BY <2>1, <2>5 DEF O!TxsOf
    <3> QED
      BY <1>7, <2>2, <3>1
  <2> QED
    BY <2>3, <2>4, <2>5
<1> HIDE DEF mine, OpenLater
\* What happens to one key.
<1>9. ASSUME NEW k \in O!Keys
      PROVE  /\ BlockIDPut'[k] \in Nat /\ ReservedPutNum'[k] \in Nat /\ NextReservedPut'[k] \in Nat
             /\ IF BlockIDPut'[k] = 0
                THEN ReservedPutNum'[k] = 0 /\ NextReservedPut'[k] = 0 /\ OpenLater(blockid, k) = {}
                ELSE /\ BlockIDPut'[k] <= blockid
                     /\ ReservedPutNum'[k] = Cardinality(OpenLater(BlockIDPut'[k], k)) /\ ReservedPutNum'[k] > 0
                     /\ BlockIDPut'[k] = blockid => NextReservedPut'[k] = 0
  <2>1. /\ BlockIDPut[k] \in Nat /\ ReservedPutNum[k] \in Nat /\ NextReservedPut[k] \in Nat
        /\ left[k] = ReservedPutNum[k] - Cardinality(mine[k])
    BY <1>2
  <2>2. /\ BlockIDPut'[k] = IF ~over(k) THEN BlockIDPut[k]
                            ELSE IF NextReservedPut[k] > 0 THEN BlockIDPut[k] + 1
                            ELSE 0
        /\ ReservedPutNum'[k] = IF over(k) THEN NextReservedPut[k] ELSE left[k]
        /\ NextReservedPut'[k] = IF over(k) THEN 0 ELSE NextReservedPut[k]
    BY <1>4
  <2>3. IF BlockIDPut[k] = 0
        THEN ReservedPutNum[k] = 0 /\ NextReservedPut[k] = 0 /\ Open(blockid, k) = {}
        ELSE /\ BlockIDPut[k] <= blockid
             /\ ReservedPutNum[k] = Cardinality(Open(BlockIDPut[k], k)) /\ ReservedPutNum[k] > 0
             /\ BlockIDPut[k] = blockid => NextReservedPut[k] = 0
    BY DEF CountInv
  <2>4. CASE BlockIDPut[k] = blockid
    <3> DEFINE open == Open(blockid, k)
               gone == S \cap open
    <3>1. /\ mine[k] = gone /\ OpenLater(blockid, k) = open \ gone
      BY <1>8, <2>4
    <3>2. IsFiniteSet(open) /\ IsFiniteSet(gone) /\ IsFiniteSet(open \ gone)
      <4>1. open \subseteq O!TxsOf(blockid) /\ gone \subseteq open /\ open \ gone \subseteq open
        BY <1>7
      <4> HIDE DEF open, gone
      <4> QED
        BY <1>1, <4>1, FS_Subset
    <3>3. /\ Cardinality(gone) \in Nat /\ Cardinality(open) \in Nat /\ Cardinality(open \ gone) \in Nat
          /\ Cardinality(open \ gone) = Cardinality(open) - Cardinality(gone)
      <4>1. Cardinality(open \ gone) = Cardinality(open) - Cardinality(open \cap gone)
        <5> HIDE DEF open, gone
        <5> QED
          BY <3>2, FS_Difference
      <4>2. open \cap gone = gone
        OBVIOUS
      <4> QED
        BY <3>2, <4>1, <4>2, FS_CardinalityType
    <3>4. ReservedPutNum[k] = Cardinality(open) /\ ReservedPutNum[k] > 0 /\ NextReservedPut[k] = 0
      BY <1>1, <2>3, <2>4
    <3> HIDE DEF open, gone
    <3>5. CASE over(k)
      <4>1. Cardinality(open \ gone) = 0
        BY <2>1, <3>1, <3>3, <3>4, <3>5
      <4>2. OpenLater(blockid, k) = {}
        BY <3>1, <3>2, <4>1, FS_EmptySet
      <4> QED
        BY <2>2, <3>4, <3>5, <4>2
    <3>6. CASE ~over(k)
      <4>1. BlockIDPut'[k] = blockid /\ ReservedPutNum'[k] = Cardinality(open \ gone)
            /\ NextReservedPut'[k] = 0
        BY <2>1, <2>2, <2>4, <3>1, <3>3, <3>4, <3>6
      <4>2. Cardinality(open \ gone) # 0
        <5>1. CASE gone = {}
          BY <3>3, <3>4, <5>1, FS_EmptySet
        <5>2. CASE gone # {}
          BY <2>1, <3>1, <3>3, <3>4, <3>6, <5>2
        <5> QED
          BY <5>1, <5>2
      <4>3. OpenLater(BlockIDPut'[k], k) = open \ gone /\ BlockIDPut'[k] # 0 /\ BlockIDPut'[k] <= blockid
        BY <1>1, <3>1, <4>1
      <4>4. ReservedPutNum'[k] \in Nat /\ ReservedPutNum'[k] > 0
        BY <3>3, <4>1, <4>2
      <4>5. BlockIDPut'[k] \in Nat /\ NextReservedPut'[k] \in Nat
        BY <1>1, <4>1
      <4> QED
        BY <4>1, <4>3, <4>4, <4>5
    <3> QED
      BY <3>5, <3>6
  <2>5. CASE BlockIDPut[k] # blockid
    <3>1. mine[k] = {} /\ left[k] = ReservedPutNum[k]
        <4>1. mine[k] = {}
        BY <1>8, <2>5
      <4>2. Cardinality(mine[k]) = 0
        BY <4>1, FS_EmptySet
      <4> QED
        BY <2>1, <4>1, <4>2
    <3>2. BlockIDPut'[k] = BlockIDPut[k] /\ ReservedPutNum'[k] = ReservedPutNum[k]
          /\ NextReservedPut'[k] = NextReservedPut[k]
      BY <2>2, <3>1
    <3>3. OpenLater(blockid, k) = Open(blockid, k) \ S
          /\ OpenLater(BlockIDPut[k], k) = Open(BlockIDPut[k], k)
      BY <1>8, <2>5
    <3> QED
      BY <2>1, <2>3, <2>5, <3>2, <3>3
  <2> QED
    BY <2>4, <2>5
<1> HIDE DEF over, left
<1>10. /\ BlockIDPut' \in [O!Keys -> Nat] /\ ReservedPutNum' \in [O!Keys -> Nat]
       /\ NextReservedPut' \in [O!Keys -> Nat]
  BY <1>4, <1>9
<1>11. CountInv'
  BY <1>5, <1>6, <1>9, UNCHANGED blockid DEF CountInv
<1> QED
  BY <1>2, <1>3, <1>10, <1>11

\* The initial states.
LEMMA OptMEInitInv ==
    ASSUME Assumptions, O!Init
    PROVE  OptMEIInv
<1>1. /\ blocks \in OptMEWorkloads /\ Len(blocks) \in Nat \ {0} /\ blockid = 1
      /\ phase = "simulate" /\ pending = O!TxsOf(1)
      /\ Committed = [t \in O!Txs |-> FALSE] /\ BlockIDPut = [k \in O!Keys |-> 0]
      /\ ReservedPutNum = [k \in O!Keys |-> 0] /\ NextReservedPut = [k \in O!Keys |-> 0]
  BY OptMEConstants DEF O!Init
<1>2. OptMETypeOK
  BY <1>1 DEF OptMETypeOK
<1>3. EpochsInv /\ UncommittedInv
  BY <1>1 DEF EpochsInv, UncommittedInv
<1>4. CountInv
  BY <1>1 DEF CountInv, Open
<1> QED
  BY <1>2, <1>3, <1>4 DEF OptMEIInv

\* A transaction is simulated: it is one more open writer of the keys that it
\* writes, and one more in the counter of those that its block holds.
LEMMA SimulateKeeps ==
    ASSUME Assumptions, OptMEIInv, NEW t \in O!TxsOf(blockid), O!Simulate(t)
    PROVE  OptMEIInv'
<1> USE DEF OptMEIInv
<1>1. /\ phase = "simulate" /\ phase' = "simulate" /\ t \in pending /\ pending' = pending \ {t}
      /\ blocks' = blocks /\ blockid' = blockid /\ schedules' = schedules /\ Committed' = Committed
  BY DEF O!Simulate
<1>2. /\ Len(blocks) \in Nat \ {0} /\ blockid \in 1 .. Len(blocks) /\ blockid # 0
      /\ t \in O!Txs /\ t[1] = blockid
      /\ \A b : IsFiniteSet(O!TxsOf(b))
  <2>1. blocks \in OptMEWorkloads /\ blockid \in 1 .. Len(blocks)
    BY DEF OptMETypeOK
  <2>2. Len(blocks) \in Nat \ {0} /\ \A b : IsFiniteSet(O!TxsOf(b))
    BY <2>1, OptMEConstants
  <2>3. t \in O!Txs /\ t[1] = blockid
    BY DEF O!TxsOf
  <2> QED
    BY <2>1, <2>2, <2>3
<1>3. O!Txs' = O!Txs /\ O!Keys' = O!Keys /\ (\A u : O!Writes(u)' = O!Writes(u))
      /\ (\A b : O!TxsOf(b)' = O!TxsOf(b))
  BY <1>1 DEF O!Txs, O!Keys, O!Writes, O!Reads, O!TxsOf
<1>4. ~Committed[t]
  BY <1>1, <1>2 DEF UncommittedInv, OptMETypeOK
<1>5. /\ BlockIDPut' = [k \in O!Keys |-> IF k \in O!Writes(t) /\ O!Free(k) THEN blockid ELSE BlockIDPut[k]]
      /\ ReservedPutNum' = [k \in O!Keys |-> IF k \in O!Writes(t) /\ (O!Free(k) \/ O!Own(k))
                                             THEN ReservedPutNum[k] + 1 ELSE ReservedPutNum[k]]
      /\ NextReservedPut' = [k \in O!Keys |-> IF k \in O!Writes(t) /\ ~O!Free(k) /\ BlockIDPut[k] < blockid
                                              THEN NextReservedPut[k] + 1 ELSE NextReservedPut[k]]
  BY DEF O!Simulate
<1>6. /\ BlockIDPut \in [O!Keys -> Nat] /\ ReservedPutNum \in [O!Keys -> Nat]
      /\ NextReservedPut \in [O!Keys -> Nat]
  BY DEF OptMETypeOK
<1>7. /\ BlockIDPut' \in [O!Keys -> Nat] /\ ReservedPutNum' \in [O!Keys -> Nat]
      /\ NextReservedPut' \in [O!Keys -> Nat]
  BY <1>2, <1>5, <1>6
<1>8. OptMETypeOK'
  BY <1>1, <1>3, <1>7 DEF OptMETypeOK
\* Who is open for a key.
<1>9. ASSUME NEW b, NEW k
      PROVE  /\ Open(b, k)' = IF b = blockid /\ k \in O!Writes(t) THEN Open(b, k) \cup {t} ELSE Open(b, k)
             /\ t \notin Open(b, k) /\ IsFiniteSet(Open(b, k)) /\ IsFiniteSet(Open(b, k)')
  <2>1. Open(b, k)' = {u \in O!TxsOf(b) : /\ k \in O!Writes(u) /\ ~Committed[u]
                                          /\ ~(u \in pending \ {t})}
    BY <1>1, <1>3 DEF Open
  <2>2. Open(b, k) = {u \in O!TxsOf(b) : /\ k \in O!Writes(u) /\ ~Committed[u]
                                         /\ ~(u \in pending)}
    BY <1>1 DEF Open
  <2>3. t \in O!TxsOf(b) <=> b = blockid
    BY <1>2 DEF O!TxsOf
  <2>4. IsFiniteSet(Open(b, k)) /\ IsFiniteSet(Open(b, k)')
    BY <1>2, <2>1, <2>2, FS_Subset
  <2> QED
    BY <1>1, <1>4, <2>1, <2>2, <2>3, <2>4
<1> DEFINE later(b, k) == IF b = blockid /\ k \in O!Writes(t) THEN Open(b, k) \cup {t} ELSE Open(b, k)
<1>10. ASSUME NEW k \in O!Keys
       PROVE  IF BlockIDPut'[k] = 0
              THEN ReservedPutNum'[k] = 0 /\ NextReservedPut'[k] = 0 /\ later(blockid, k) = {}
              ELSE /\ BlockIDPut'[k] <= blockid
                   /\ ReservedPutNum'[k] = Cardinality(later(BlockIDPut'[k], k)) /\ ReservedPutNum'[k] > 0
                   /\ BlockIDPut'[k] = blockid => NextReservedPut'[k] = 0
  <2>1. /\ BlockIDPut'[k] = IF k \in O!Writes(t) /\ BlockIDPut[k] = 0 THEN blockid ELSE BlockIDPut[k]
        /\ ReservedPutNum'[k] = IF k \in O!Writes(t) /\ BlockIDPut[k] \in {0, blockid}
                                THEN ReservedPutNum[k] + 1 ELSE ReservedPutNum[k]
        /\ NextReservedPut'[k] = IF k \in O!Writes(t) /\ BlockIDPut[k] # 0 /\ BlockIDPut[k] < blockid
                                 THEN NextReservedPut[k] + 1 ELSE NextReservedPut[k]
    BY <1>5 DEF O!Free, O!Own
  <2>2. BlockIDPut[k] \in Nat /\ ReservedPutNum[k] \in Nat /\ NextReservedPut[k] \in Nat
    BY <1>6
  <2>3. IF BlockIDPut[k] = 0
        THEN ReservedPutNum[k] = 0 /\ NextReservedPut[k] = 0 /\ Open(blockid, k) = {}
        ELSE /\ BlockIDPut[k] <= blockid
             /\ ReservedPutNum[k] = Cardinality(Open(BlockIDPut[k], k)) /\ ReservedPutNum[k] > 0
             /\ BlockIDPut[k] = blockid => NextReservedPut[k] = 0
    BY DEF CountInv
  <2>4. CASE k \notin O!Writes(t)
    BY <2>1, <2>3, <2>4
  <2>5. CASE k \in O!Writes(t) /\ BlockIDPut[k] \in {0, blockid}
    <3>1. ReservedPutNum[k] = Cardinality(Open(blockid, k))
      BY <2>3, <2>5, FS_EmptySet
    <3>2. Cardinality(Open(blockid, k) \cup {t}) = Cardinality(Open(blockid, k)) + 1
      BY <1>9, FS_AddElement
    <3>3. BlockIDPut'[k] = blockid /\ ReservedPutNum'[k] = ReservedPutNum[k] + 1
          /\ NextReservedPut'[k] = NextReservedPut[k]
      BY <1>2, <2>1, <2>5
    <3>4. NextReservedPut[k] = 0
      BY <1>2, <2>3, <2>5
    <3>5. later(blockid, k) = Open(blockid, k) \cup {t}
      BY <2>5
    <3> HIDE DEF later
    <3> QED
      BY <1>2, <2>2, <3>1, <3>2, <3>3, <3>4, <3>5
  <2>6. CASE k \in O!Writes(t) /\ BlockIDPut[k] \notin {0, blockid}
    <3>1. BlockIDPut'[k] = BlockIDPut[k] /\ ReservedPutNum'[k] = ReservedPutNum[k]
          /\ later(BlockIDPut[k], k) = Open(BlockIDPut[k], k)
      BY <2>1, <2>6
    <3> HIDE DEF later
    <3> QED
      BY <2>3, <2>6, <3>1
  <2> QED
    BY <2>4, <2>5, <2>6
<1>11. CountInv'
  <2>1. \A b, k : Open(b, k)' = later(b, k)
    BY <1>9
  <2> HIDE DEF later
  <2> QED
    BY <1>1, <1>3, <1>10, <2>1 DEF CountInv
<1> QED
  BY <1>1, <1>3, <1>8, <1>11 DEF EpochsInv, UncommittedInv

\* The blocks do not change, and neither does what is made of them.
LEMMA SameBlocks ==
    ASSUME blocks' = blocks
    PROVE  /\ O!Txs' = O!Txs /\ O!Keys' = O!Keys
           /\ (\A t : O!Writes(t)' = O!Writes(t) /\ O!Reads(t)' = O!Reads(t))
           /\ (\A b : O!TxsOf(b)' = O!TxsOf(b))
BY DEF O!Txs, O!Keys, O!Writes, O!Reads, O!TxsOf

\* The sort: what it lets pass is committed, the rest is made into epochs.
LEMMA ReorderKeeps ==
    ASSUME Assumptions, OptMEIInv, O!ReorderWithACG
    PROVE  OptMEIInv'
<1>1. OptMETypeOK /\ EpochsInv /\ UncommittedInv
  BY DEF OptMEIInv
<1>2. PICK aborted : /\ O!CommitAll(O!TxsOf(blockid) \ aborted)
                     /\ schedules' = O!Schedule(O!Retried(aborted))
  BY DEF O!ReorderWithACG
<1>3. /\ phase = "reorder" /\ phase' = "epoch" /\ pending' = pending /\ pending = {}
      /\ blocks' = blocks /\ blockid' = blockid
      /\ blocks \in OptMEWorkloads /\ blockid \in 1 .. Len(blocks)
  BY <1>1 DEF O!ReorderWithACG, OptMETypeOK, EpochsInv
<1> DEFINE S == O!TxsOf(blockid) \ aborted
<1>4. S \subseteq O!TxsOf(blockid) /\ O!CommitAll(S)
  BY <1>2
<1> HIDE DEF S
<1>5. /\ Committed' \in [O!Txs -> BOOLEAN] /\ \A t \in O!Txs : Committed'[t] = (Committed[t] \/ t \in S)
      /\ BlockIDPut' \in [O!Keys -> Nat] /\ ReservedPutNum' \in [O!Keys -> Nat]
      /\ NextReservedPut' \in [O!Keys -> Nat]
      /\ CountInv'
  BY <1>3, <1>4, CommitAllStep
<1>6. schedules' \in ApartEpochs(O!TxsOf(blockid))
  <2>1. O!Retried(aborted) \subseteq O!TxsOf(blockid) /\ \A t \in O!Retried(aborted) : O!Reads(t) = {}
    BY DEF O!Retried
  <2>2. schedules' \in ApartEpochs(O!Retried(aborted))
    BY <1>2, <1>3, <2>1, ScheduleApart
  <2>3. Seq(SUBSET O!Retried(aborted)) \subseteq Seq(SUBSET O!TxsOf(blockid))
    BY <2>1
  <2> QED
    BY <2>2, <2>3 DEF ApartEpochs
<1>7. OptMETypeOK'
  BY <1>1, <1>3, <1>5, SameBlocks DEF OptMETypeOK
<1>8. EpochsInv'
  <2>1. ApartEpochs(O!TxsOf(blockid))' = ApartEpochs(O!TxsOf(blockid))
    BY <1>3, SameBlocks DEF ApartEpochs, Apart
  <2> QED
    BY <1>3, <1>6, <2>1 DEF EpochsInv, Apart
<1>9. UncommittedInv'
  <2>1. \A t \in S : t[1] = blockid
    BY <1>4 DEF O!TxsOf
  <2> QED
    BY <1>1, <1>3, <1>5, <2>1, SameBlocks DEF UncommittedInv
<1> QED
  BY <1>5, <1>7, <1>8, <1>9 DEF OptMEIInv

\* A transaction is executed again and committed.
LEMMA ReExecuteKeeps ==
    ASSUME Assumptions, OptMEIInv, NEW t \in O!TxsOf(blockid), O!ReExecute(t)
    PROVE  OptMEIInv'
<1>1. OptMETypeOK /\ EpochsInv /\ UncommittedInv
  BY DEF OptMEIInv
<1>2. /\ phase = "epoch" /\ phase' = "epoch" /\ pending' = pending \ {t} /\ schedules' = schedules
      /\ blocks' = blocks /\ blockid' = blockid /\ O!CommitAll({t})
  BY DEF O!ReExecute
<1>3. /\ Committed' \in [O!Txs -> BOOLEAN] /\ \A u \in O!Txs : Committed'[u] = (Committed[u] \/ u \in {t})
      /\ BlockIDPut' \in [O!Keys -> Nat] /\ ReservedPutNum' \in [O!Keys -> Nat]
      /\ NextReservedPut' \in [O!Keys -> Nat]
      /\ CountInv'
  <2>1. {t} \subseteq O!TxsOf(blockid)
    OBVIOUS
  <2> QED
    BY <1>2, <2>1, CommitAllStep
<1>4. OptMETypeOK'
  BY <1>1, <1>2, <1>3, SameBlocks DEF OptMETypeOK
<1>5. EpochsInv'
  <2>1. ApartEpochs(O!TxsOf(blockid))' = ApartEpochs(O!TxsOf(blockid))
    BY <1>2, SameBlocks DEF ApartEpochs, Apart
  <2>2. Apart(pending)'
    BY <1>1, <1>2, SameBlocks DEF EpochsInv, Apart
  <2> QED
    BY <1>1, <1>2, <2>1, <2>2 DEF EpochsInv
<1>6. UncommittedInv'
  <2>1. t[1] = blockid
    BY DEF O!TxsOf
  <2> QED
    BY <1>1, <1>2, <1>3, <2>1, SameBlocks DEF UncommittedInv
<1> QED
  BY <1>3, <1>4, <1>5, <1>6 DEF OptMEIInv

\* While the table and the transactions stay as they are, the counters stay
\* exact: of a new block nobody has simulated.
LEMMA CountKept ==
    ASSUME Assumptions, OptMEIInv, UNCHANGED <<blocks, Committed, BlockIDPut, ReservedPutNum, NextReservedPut>>,
           \/ blockid' = blockid /\ (phase' = "simulate" => phase = "simulate" /\ pending' = pending)
                                 /\ (phase = "simulate" => phase' = "simulate" \/ pending = {})
           \/ blockid' = blockid + 1 /\ pending' = O!TxsOf(blockid + 1) /\ phase # "simulate" /\ phase' = "simulate"
    PROVE  CountInv'
<1>1. OptMETypeOK /\ CountInv
  BY DEF OptMEIInv
<1>2. blockid \in Nat /\ BlockIDPut \in [O!Keys -> Nat]
  BY <1>1, OptMEConstants DEF OptMETypeOK
<1>3. CASE blockid' = blockid /\ (phase' = "simulate" => phase = "simulate" /\ pending' = pending)
                              /\ (phase = "simulate" => phase' = "simulate" \/ pending = {})
  <2>1. \A b, k : Open(b, k)' = Open(b, k)
    BY <1>3, SameBlocks DEF Open
  <2> QED
    BY <1>1, <1>3, <2>1, SameBlocks DEF CountInv
<1>4. CASE blockid' = blockid + 1 /\ pending' = O!TxsOf(blockid + 1) /\ phase # "simulate" /\ phase' = "simulate"
  <2>1. ASSUME NEW b, b = blockid + 1
        PROVE  \A k : Open(b, k)' = {}
    BY <1>4, <2>1, SameBlocks DEF Open
  <2>2. ASSUME NEW b, NEW k, b # blockid + 1
        PROVE  Open(b, k)' = Open(b, k)
    <3>1. O!TxsOf(b) \cap O!TxsOf(blockid + 1) = {}
      BY <2>2 DEF O!TxsOf
    <3> QED
      BY <1>4, <3>1, SameBlocks DEF Open
  <2>3. ASSUME NEW k \in O!Keys
        PROVE  IF BlockIDPut[k] = 0
               THEN ReservedPutNum[k] = 0 /\ NextReservedPut[k] = 0
               ELSE /\ BlockIDPut[k] <= blockid /\ BlockIDPut[k] # blockid + 1
                    /\ ReservedPutNum[k] = Cardinality(Open(BlockIDPut[k], k)) /\ ReservedPutNum[k] > 0
    BY <1>1, <1>2 DEF CountInv
  <2>4. \A k \in O!Keys : BlockIDPut[k] # 0 => Open(BlockIDPut[k], k)' = Open(BlockIDPut[k], k)
    <3>1. ASSUME NEW k \in O!Keys, NEW b, b = BlockIDPut[k], b # 0
          PROVE  Open(b, k)' = Open(b, k)
      BY <2>2, <2>3, <3>1
    <3> QED
      BY <3>1
  <2>5. PICK new : new = blockid' /\ new = blockid + 1
    BY <1>4
  <2>6. \A k : Open(blockid, k)' = {}
    BY <2>1, <2>5
  <2> QED
    BY <1>2, <1>4, <2>3, <2>4, <2>6, SameBlocks DEF CountInv
<1> QED
  BY <1>3, <1>4

LEMMA EndSimulateKeeps ==
    ASSUME Assumptions, OptMEIInv, O!EndSimulate
    PROVE  OptMEIInv'
<1>1. /\ phase = "simulate" /\ phase' = "reorder" /\ pending = {}
      /\ UNCHANGED <<blocks, blockid, pending, schedules, Committed, BlockIDPut, ReservedPutNum, NextReservedPut>>
  BY DEF O!EndSimulate, O!txVars, O!table
<1>2. CountInv'
  BY <1>1, CountKept
<1>3. OptMETypeOK /\ EpochsInv /\ UncommittedInv
  BY DEF OptMEIInv
<1>4. OptMETypeOK'
  BY <1>1, <1>3, SameBlocks DEF OptMETypeOK
<1>5. EpochsInv' /\ UncommittedInv'
  BY <1>1, <1>3, SameBlocks DEF EpochsInv, UncommittedInv
<1> QED
  BY <1>2, <1>4, <1>5 DEF OptMEIInv

LEMMA NextEpochKeeps ==
    ASSUME Assumptions, OptMEIInv, O!NextEpoch
    PROVE  OptMEIInv'
<1>1. OptMETypeOK /\ EpochsInv /\ UncommittedInv
  BY DEF OptMEIInv
<1>2. /\ phase = "epoch"
      /\ UNCHANGED <<blocks, Committed, BlockIDPut, ReservedPutNum, NextReservedPut>>
  BY DEF O!NextEpoch, O!txVars, O!table
<1>3. /\ blocks \in OptMEWorkloads /\ Len(blocks) \in Nat \ {0} /\ blockid \in 1 .. Len(blocks)
      /\ schedules \in ApartEpochs(O!TxsOf(blockid))
  BY <1>1, <1>2, OptMEConstants DEF OptMETypeOK, EpochsInv
<1>4. CASE schedules # <<>>
  <2>1. pending' = Head(schedules) /\ schedules' = Tail(schedules) /\ blockid' = blockid /\ phase' = "epoch"
    BY <1>2, <1>4 DEF O!NextEpoch
  <2>2. /\ schedules \in Seq(SUBSET O!TxsOf(blockid))
        /\ \A e \in DOMAIN schedules : Apart(schedules[e])
    BY <1>3 DEF ApartEpochs
  <2>3. /\ Len(schedules) \in Nat /\ Len(schedules) > 0 /\ DOMAIN schedules = 1 .. Len(schedules)
        /\ Head(schedules) = schedules[1] /\ Head(schedules) \in SUBSET O!TxsOf(blockid)
        /\ Tail(schedules) \in Seq(SUBSET O!TxsOf(blockid))
        /\ DOMAIN Tail(schedules) = 1 .. Len(schedules) - 1
        /\ \A i \in 1 .. Len(schedules) - 1 : Tail(schedules)[i] = schedules[i + 1]
    BY <1>4, <2>2, TailFacts
  <2>4. Apart(Head(schedules))
    BY <2>2, <2>3
  <2>5. Tail(schedules) \in ApartEpochs(O!TxsOf(blockid))
    <3>1. ASSUME NEW e \in DOMAIN Tail(schedules)
          PROVE  Apart(Tail(schedules)[e])
      <4>1. e + 1 \in DOMAIN schedules /\ Tail(schedules)[e] = schedules[e + 1]
        BY <2>3
      <4> QED
        BY <2>2, <4>1
    <3> QED
      BY <2>3, <3>1 DEF ApartEpochs
  <2>6. CountInv'
    BY <1>2, <2>1, CountKept
  <2>7. OptMETypeOK'
    BY <1>1, <1>2, <2>1, <2>3, SameBlocks DEF OptMETypeOK
  <2>8. EpochsInv'
    <3>1. ApartEpochs(O!TxsOf(blockid))' = ApartEpochs(O!TxsOf(blockid))
      BY <1>2, <2>1, SameBlocks DEF ApartEpochs, Apart
    <3>2. Apart(pending)'
      BY <1>2, <2>1, <2>4, SameBlocks DEF Apart
    <3> QED
      BY <2>1, <2>5, <3>1, <3>2 DEF EpochsInv
  <2>9. UncommittedInv'
    BY <1>1, <1>2, <2>1, SameBlocks DEF UncommittedInv
  <2> QED
    BY <2>6, <2>7, <2>8, <2>9 DEF OptMEIInv
<1>5. CASE schedules = <<>> /\ blockid < Len(blocks)
  <2>1. blockid' = blockid + 1 /\ phase' = "simulate" /\ pending' = O!TxsOf(blockid + 1)
    BY <1>5 DEF O!NextEpoch
  <2>2. CountInv'
    BY <1>2, <2>1, CountKept
  <2>3. OptMETypeOK'
    BY <1>1, <1>2, <1>3, <1>5, <2>1, SameBlocks DEF OptMETypeOK
  <2>4. EpochsInv'
    BY <2>1 DEF EpochsInv
  <2>5. UncommittedInv'
    BY <1>1, <1>2, <1>3, <2>1, OptMEConstants, SameBlocks DEF UncommittedInv
  <2> QED
    BY <2>2, <2>3, <2>4, <2>5 DEF OptMEIInv
<1>6. CASE schedules = <<>> /\ ~(blockid < Len(blocks))
  <2>1. phase' = "end" /\ UNCHANGED <<blockid, pending, schedules>>
    BY <1>6 DEF O!NextEpoch
  <2>2. CountInv'
    BY <1>2, <2>1, CountKept
  <2>3. OptMETypeOK'
    BY <1>1, <1>2, <2>1, SameBlocks DEF OptMETypeOK
  <2>4. EpochsInv' /\ UncommittedInv'
    BY <1>1, <1>2, <2>1, SameBlocks DEF EpochsInv, UncommittedInv
  <2> QED
    BY <2>2, <2>3, <2>4 DEF OptMEIInv
<1> QED
  BY <1>4, <1>5, <1>6

\* What is not OptME's does not disturb it.
OptMEInv == engine = "optme" => OptMEIInv

\* The counters of the writers are exact and the epochs conflict-free, whatever
\* the blocks are and however the pool is scheduled.
THEOREM OptMEInvariance == Spec => []OptMEInv
<1>1. Init => OptMEInv
  BY Assumptions, OptMEInitInv DEF Init, OptMEInv
<1>2. ASSUME OptMEInv, [Next]_vars
      PROVE  OptMEInv'
  <2>1. CASE engine = "optme" /\ O!Next /\ UNCHANGED engine
    <3>1. OptMEIInv
      BY <1>2, <2>1 DEF OptMEInv
    <3>2. ASSUME NEW t \in O!TxsOf(blockid), O!Simulate(t)
          PROVE  OptMEIInv'
      BY <3>1, <3>2, Assumptions, SimulateKeeps
    <3>3. ASSUME NEW t \in O!TxsOf(blockid), O!ReExecute(t)
          PROVE  OptMEIInv'
      BY <3>1, <3>3, Assumptions, ReExecuteKeeps
    <3>4. CASE O!EndSimulate
      BY <3>1, <3>4, Assumptions, EndSimulateKeeps DEF OptMEInv
    <3>5. CASE O!ReorderWithACG
      BY <3>1, <3>5, Assumptions, ReorderKeeps DEF OptMEInv
    <3>6. CASE O!NextEpoch
      BY <3>1, <3>6, Assumptions, NextEpochKeeps DEF OptMEInv
    <3> QED
      BY <2>1, <3>2, <3>3, <3>4, <3>5, <3>6 DEF O!Next, OptMEInv
  <2>2. CASE engine # "optme" /\ engine' = engine
    BY <2>2 DEF OptMEInv
  <2>3. CASE UNCHANGED vars
    <3>1. UNCHANGED <<engine, blocks, blockid, phase, pending, schedules, Committed,
                      BlockIDPut, ReservedPutNum, NextReservedPut>>
      BY <2>3 DEF vars, optmeVars
    <3>2. ASSUME OptMEIInv
          PROVE  OptMEIInv'
      <4>1. CountInv'
        BY <3>1, <3>2, Assumptions, CountKept
      <4>2. ApartEpochs(O!TxsOf(blockid))' = ApartEpochs(O!TxsOf(blockid))
        BY <3>1, SameBlocks DEF ApartEpochs, Apart
      <4>3. OptMETypeOK' /\ EpochsInv' /\ UncommittedInv'
        BY <3>1, <3>2, <4>2, SameBlocks DEF OptMEIInv, OptMETypeOK, EpochsInv, UncommittedInv, Apart
      <4> QED
        BY <4>1, <4>3 DEF OptMEIInv
    <3> QED
      BY <1>2, <3>1, <3>2 DEF OptMEInv
  <2> QED
    BY <1>2, <2>1, <2>2, <2>3 DEF Next, vars
<1> QED
  BY <1>1, <1>2, PTL DEF Spec

-----------------------------------------------------------------------------
(* OptME: what follows                                                     *)

LEMMA CountsWriters ==
    ASSUME OptMEIInv
    PROVE  O!OptMECountsWriters
<1>1. \A b, k : Open(b, k) = {t \in O!TxsOf(b) : /\ k \in O!Writes(t) /\ ~Committed[t]
                                                 /\ ~(phase = "simulate" /\ t \in pending)}
  BY DEF Open
<1>2. \A S : O!Cardinality(S) = Cardinality(S)
  BY DEF O!Cardinality, Cardinality
<1> QED
  BY <1>1, <1>2 DEF OptMEIInv, CountInv, O!OptMECountsWriters

\* A counter that reaches 0 stands for the last of the block's writers: none is
\* counted twice, none taken back that another block counts, none is forgotten.
THEOREM OptMECountsWritersCorrect == Spec => []OptMECountsWriters
<1>1. OptMEInv => OptMECountsWriters
  BY CountsWriters DEF OptMEInv, OptMECountsWriters
<1> QED
  BY <1>1, OptMEInvariance, PTL

\* The tasks of an epoch may run in any order: none uses what another writes.
THEOREM OptMEEpochsApartCorrect == Spec => []OptMEEpochsApart
<1>1. OptMEInv => OptMEEpochsApart
  BY DEF OptMEInv, OptMEIInv, EpochsInv, Apart, OptMEEpochsApart, O!OptMEEpochsApart
<1> QED
  BY <1>1, OptMEInvariance, PTL
=============================================================================
