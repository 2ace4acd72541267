------------------------ MODULE OrderedEnginesProofs ------------------------
(***************************************************************************)
(* Theorems about OrderedEngines, for any number of workers and any        *)
(* blocks.                                                                 *)
(*                                                                         *)
(* SChain: a transaction that is granted the lock of a key is next in the  *)
(* key's sequence, so that the granted ones are always the first of it;    *)
(* and no write lock is released before every transaction of its round has *)
(* run, because the dispatcher counts as many signals as it has handed out *)
(* transactions.                                                           *)
(*                                                                         *)
(* Pilotfish, QueCC and Thunderbolt: the edges of each plan lead from every *)
(* writer of a key to every later user of it and from every reader to      *)
(* every later writer, directly or through the transactions between them;  *)
(* and a scheduler that counts the unmet edges of a transaction starts it  *)
(* only when all that come before it are completed.  So they implement     *)
(* ConflictOrder.  For QueCC the completed transactions are then executed  *)
(* in the order of the block, key by key, which makes the notes exact that *)
(* it undoes the writes by.                                                *)
(*                                                                         *)
(* MVSchedO: an operation marked as done has its version in the table, and *)
(* no read of a key has been before an earlier write of it.                *)
(***************************************************************************)
EXTENDS OrderedEngines, FiniteSetTheorems, SequenceTheorems, WellFoundedInduction, TLAPS

-----------------------------------------------------------------------------
(* Numbers, induction and recursion                                        *)

LEMMA DivisionNamed ==
    ASSUME NEW a \in Int, NEW n \in Nat \ {0}, NEW q \in Int, NEW r \in Int,
           q = a \div n, r = a % n
    PROVE  a = q * n + r
OBVIOUS

LEMMA Division ==
    ASSUME NEW a \in Int, NEW n \in Nat \ {0}
    PROVE  /\ a \div n \in Int /\ a % n \in 0 .. n - 1
           /\ a = (a \div n) * n + (a % n)
<1>1. a \div n \in Int
  OBVIOUS
<1>2. a % n \in 0 .. n - 1
  OBVIOUS
<1> QED
  BY <1>1, <1>2, DivisionNamed

LEMMA Multiples ==
    ASSUME NEW x \in Int, NEW y \in Int, NEW n \in Nat \ {0}, x < y
    PROVE  /\ x * n \in Int /\ y * n \in Int /\ x * n + n <= y * n
<1>1. (y - x - 1) * n >= 0
  OBVIOUS
<1>2. (y - x - 1) * n = y * n - x * n - n
  OBVIOUS
<1> QED
  BY <1>1, <1>2

LEMMA DivisionUnique ==
    ASSUME NEW q \in Int, NEW n \in Nat \ {0}, NEW r \in 0 .. n - 1
    PROVE  (q * n + r) \div n = q /\ (q * n + r) % n = r
<1> DEFINE a == q * n + r
           d == a \div n
<1>0. a \in Int
  OBVIOUS
<1>1. d \in Int /\ a % n \in 0 .. n - 1 /\ a = d * n + (a % n)
  BY <1>0, Division
<1> HIDE DEF d
<1>2. ~(q < d)
  BY <1>1, Multiples
<1>3. ~(d < q)
  BY <1>1, Multiples
<1>4. d = q
  BY <1>1, <1>2, <1>3
<1> QED
  BY <1>1, <1>4 DEF d

\* A set of naturals has a least element, and a greatest one if it is bounded.
LEMMA LeastOf ==
    ASSUME NEW U \in SUBSET Nat, U # {}
    PROVE  \E m \in U : \A x \in U : m <= x
<1>1. IsWellFoundedOn(OpToRel(<, Nat), Nat)
  BY NatLessThanWellFounded, Zenon
<1>2. PICK m \in U : \A y \in Nat : <<y, m>> \in OpToRel(<, Nat) => ~(y \in U)
  BY <1>1, WFMin, Zenon
<1>3. ASSUME NEW x \in U
      PROVE  m <= x
  <2>1. x \in Nat /\ m \in Nat
    OBVIOUS
  <2>2. ~(<<x, m>> \in OpToRel(<, Nat))
    BY <1>2, <2>1
  <2>3. ~(x < m)
    BY <2>1, <2>2, Zenon DEF OpToRel
  <2> QED
    BY <2>1, <2>3
<1> QED
  BY <1>3

LEMMA GreatestOf ==
    ASSUME NEW n \in Nat, NEW U \in SUBSET (0 .. n), U # {}
    PROVE  \E m \in U : \A x \in U : x <= m
<1> DEFINE R == {y \in Nat : \E x \in U : y = n - x}
<1>1. PICK x0 \in U : TRUE
  OBVIOUS
<1>2. n - x0 \in R
  OBVIOUS
<1>3. R \in SUBSET Nat /\ R # {}
  BY <1>2
<1> HIDE DEF R
<1>4. PICK m \in R : \A y \in R : m <= y
  BY <1>3, LeastOf
<1>5. PICK x \in U : m = n - x
  BY DEF R
<1>6. ASSUME NEW y \in U
      PROVE  y <= x
  <2>1. n - y \in R
    BY DEF R
  <2>2. n - x <= n - y
    BY <1>4, <1>5, <2>1
  <2> QED
    BY <2>2
<1> QED
  BY <1>6

LEMMA AllNumbers ==
    ASSUME NEW U \in SUBSET Nat, 0 \in U, \A m \in U : m + 1 \in U
    PROVE  U = Nat
<1>1. SUFFICES ASSUME Nat \ U # {}
               PROVE  FALSE
  OBVIOUS
<1>2. PICK m \in Nat \ U : \A x \in Nat \ U : m <= x
  BY <1>1, LeastOf
<1>3. m - 1 \in Nat /\ m - 1 \in U
  BY <1>2
<1> QED
  BY <1>2, <1>3

\* A list may be defined step by step.
Follows(g, n, start, step) == g[0] = start /\ \A i \in 1 .. n : g[i] = step[<<i, g[i - 1]>>]

LEMMA StepByStep ==
    ASSUME NEW Values, NEW n \in Nat, NEW start \in Values,
           NEW step \in [(1 .. n) \X Values -> Values]
    PROVE  \E g \in [0 .. n -> Values] : Follows(g, n, start, step)
<1> DEFINE Upto(m) == \E g \in [0 .. m -> Values] :
                          g[0] = start /\ \A i \in 1 .. m : g[i] = step[<<i, g[i - 1]>>]
           U == {m \in Nat : m <= n => Upto(m)}
<1>1. 0 \in U
  <2>1. [i \in 0 .. 0 |-> start] \in [0 .. 0 -> Values] /\ [i \in 0 .. 0 |-> start][0] = start
    OBVIOUS
  <2>2. \A i \in 1 .. 0 : FALSE
    OBVIOUS
  <2> QED
    BY <2>1, <2>2
<1>2. ASSUME NEW m \in U
      PROVE  m + 1 \in U
  <2>1. SUFFICES ASSUME m + 1 <= n
                 PROVE  Upto(m + 1)
    BY <1>2
  <2>2. PICK g \in [0 .. m -> Values] : g[0] = start /\ \A i \in 1 .. m : g[i] = step[<<i, g[i - 1]>>]
    BY <2>1
  <2> DEFINE last == step[<<m + 1, g[m]>>]
             h == [i \in 0 .. m + 1 |-> IF i <= m THEN g[i] ELSE last]
  <2>3. <<m + 1, g[m]>> \in (1 .. n) \X Values
    BY <2>1
  <2>4. last \in Values /\ last = step[<<m + 1, g[m]>>]
    BY <2>3
  <2> HIDE DEF last
  <2>5. h \in [0 .. m + 1 -> Values] /\ h[0] = start /\ h[m + 1] = last
        /\ \A i \in 0 .. m : h[i] = g[i]
    BY <2>2, <2>4
  <2> HIDE DEF h
  <2>6. ASSUME NEW i \in 1 .. m + 1
        PROVE  h[i] = step[<<i, h[i - 1]>>]
    <3>1. CASE i = m + 1
      <4>1. i - 1 = m /\ m \in 0 .. m
        BY <3>1
      <4>2. h[i - 1] = g[m] /\ h[i] = last
        BY <2>5, <3>1, <4>1
      <4> QED
        BY <2>4, <3>1, <4>2
    <3>2. CASE i # m + 1
      <4>1. i \in 1 .. m /\ i - 1 \in 0 .. m
        BY <3>2
      <4>2. h[i] = g[i] /\ h[i - 1] = g[i - 1]
        BY <2>5, <4>1
      <4> QED
        BY <2>2, <4>1, <4>2
    <3> QED
      BY <3>1, <3>2
  <2> QED
    BY <2>5, <2>6
<1> HIDE DEF Upto
<1>3. U = Nat
  BY <1>1, <1>2, AllNumbers
<1>4. Upto(n)
  BY <1>3
<1> QED
  BY <1>4 DEF Upto, Follows

\* The engines' Cardinality is that of the theorems about finite sets.
LEMMA SameCardinality == \A E : S!Cardinality(E) = Cardinality(E)
BY DEF S!Cardinality, Cardinality

SChainTypeOK ==
    /\ txs \in SChainWorkloads
    /\ lockIndex \in [S!Keys -> Nat]
    /\ isWrite \in [S!Keys -> BOOLEAN]
    /\ dispatcher \in {"grant", "wait", "end"}
    /\ inactiveTxs \in Seq(S!Txs)
    /\ newInactiveTxs \in Seq(S!Txs)
    /\ activeTxs \in Seq(S!Txs)
    /\ activeTxsChan \in Seq(S!Txs)
    /\ finishTxNumber \in Nat
    /\ signals \in Nat
    /\ running \in [S!Workers -> S!Txs \cup {0}]

\* Every transaction is in one place of the two lists, or scheduled.
RoundInv ==
    /\ dispatcher # "grant" => inactiveTxs = <<>>
    /\ \A i, j \in DOMAIN inactiveTxs : inactiveTxs[i] = inactiveTxs[j] => i = j
    /\ \A i, j \in DOMAIN newInactiveTxs : newInactiveTxs[i] = newInactiveTxs[j] => i = j
    /\ S!ToSet(inactiveTxs) \cap S!ToSet(newInactiveTxs) = {}
    /\ S!ToSet(activeTxs) \subseteq S!Scheduled

Busy == {w \in S!Workers : running[w] # 0}

\* A transaction of the round is in the channel, with a worker, or its signal
\* has been sent and, perhaps, counted.
CountInv ==
    /\ finishTxNumber + signals + Len(activeTxsChan) + S!Cardinality(Busy) = Len(activeTxs)
    /\ S!InFlight \subseteq S!ToSet(activeTxs)

\* Who writes a key in this round has its lock, and nobody behind has it.
WriteInv ==
    \A t \in S!ToSet(activeTxs) : \A k \in S!WriteKeys(t) :
        isWrite[k] /\ \A u \in S!sequence(k) \cap S!Scheduled : u <= t

SChainIInv == SChainTypeOK /\ RoundInv /\ CountInv /\ WriteInv /\ S!SChainLocksExact

----------------------------------------------------------------------------
(* Lists and sets *)

Distinct(s) == \A i, j \in DOMAIN s : s[i] = s[j] => i = j

LEMMA TailFacts ==
    ASSUME NEW E, NEW s \in Seq(E), s # <<>>
    PROVE  /\ Head(s) \in E /\ Tail(s) \in Seq(E)
           /\ Len(s) \in Nat \ {0} /\ Len(Tail(s)) = Len(s) - 1
           /\ S!ToSet(s) = {Head(s)} \cup S!ToSet(Tail(s))
           /\ Distinct(s) => Distinct(Tail(s)) /\ Head(s) \notin S!ToSet(Tail(s))
           /\ Len(s) = 1 => Tail(s) = <<>>
<1>1. /\ Head(s) \in E /\ Tail(s) \in Seq(E)
      /\ Len(s) \in Nat \ {0} /\ Len(Tail(s)) = Len(s) - 1
      /\ Head(s) = s[1] /\ \A i \in 1 .. Len(s) - 1 : Tail(s)[i] = s[i + 1]
      /\ DOMAIN s = 1 .. Len(s) /\ DOMAIN Tail(s) = 1 .. Len(s) - 1
  <2>1. Len(s) \in Nat /\ Len(s) # 0 /\ DOMAIN s = 1 .. Len(s)
    BY EmptySeq, LenProperties
  <2>2. Head(s) = s[1] /\ Head(s) \in E
    BY <2>1, ElementOfSeq
  <2>3. /\ Tail(s) \in Seq(E) /\ Len(Tail(s)) = Len(s) - 1
        /\ \A i \in 1 .. Len(s) - 1 : Tail(s)[i] = s[i + 1]
    BY <2>1
  <2>4. DOMAIN Tail(s) = 1 .. Len(s) - 1
    BY <2>3, LenProperties
  <2> QED
    BY <2>1, <2>2, <2>3, <2>4
<1>2. S!ToSet(s) \subseteq {Head(s)} \cup S!ToSet(Tail(s))
  <2>1. ASSUME NEW i \in DOMAIN s
        PROVE  s[i] \in {Head(s)} \cup S!ToSet(Tail(s))
    <3>1. CASE i = 1
      BY <1>1, <3>1
    <3>2. CASE i # 1
      <4>1. i - 1 \in 1 .. Len(s) - 1 /\ s[i] = Tail(s)[i - 1]
        BY <1>1, <3>2
      <4> QED
        BY <1>1, <4>1 DEF S!ToSet
    <3> QED
      BY <3>1, <3>2
  <2> QED
    BY <2>1 DEF S!ToSet
<1>3. {Head(s)} \cup S!ToSet(Tail(s)) \subseteq S!ToSet(s)
  <2>1. Head(s) \in S!ToSet(s)
    BY <1>1 DEF S!ToSet
  <2>2. ASSUME NEW i \in DOMAIN Tail(s)
        PROVE  Tail(s)[i] \in S!ToSet(s)
    <3>1. i + 1 \in DOMAIN s /\ Tail(s)[i] = s[i + 1]
      BY <1>1
    <3> QED
      BY <3>1 DEF S!ToSet
  <2> QED
    BY <2>1, <2>2 DEF S!ToSet
<1>4. ASSUME Distinct(s)
      PROVE  Distinct(Tail(s)) /\ Head(s) \notin S!ToSet(Tail(s))
  <2>1. ASSUME NEW i \in DOMAIN Tail(s), NEW j \in DOMAIN Tail(s), Tail(s)[i] = Tail(s)[j]
        PROVE  i = j
    <3>1. i + 1 \in DOMAIN s /\ j + 1 \in DOMAIN s /\ s[i + 1] = s[j + 1]
      BY <1>1, <2>1
    <3>2. i + 1 = j + 1
      BY <1>4, <3>1 DEF Distinct
    <3> QED
      BY <1>1, <3>2
  <2>2. ASSUME NEW i \in DOMAIN Tail(s), Tail(s)[i] = Head(s)
        PROVE  FALSE
    <3>1. i + 1 \in DOMAIN s /\ 1 \in DOMAIN s /\ s[i + 1] = s[1]
      BY <1>1, <2>2
    <3>2. i + 1 = 1
      BY <1>4, <3>1 DEF Distinct
    <3> QED
      BY <1>1, <3>2
  <2> QED
    BY <2>1, <2>2 DEF Distinct, S!ToSet
<1>5. ASSUME Len(s) = 1
      PROVE  Tail(s) = <<>>
  <2>1. Tail(s) \in Seq(E) /\ Len(Tail(s)) = 0
    BY <1>1, <1>5
  <2> QED
    BY <2>1, EmptySeq
<1> QED
  BY <1>1, <1>2, <1>3, <1>4, <1>5

LEMMA AppendFacts ==
    ASSUME NEW E, NEW s \in Seq(E), NEW e \in E
    PROVE  /\ Append(s, e) \in Seq(E) /\ Len(Append(s, e)) = Len(s) + 1 /\ Len(s) \in Nat
           /\ S!ToSet(Append(s, e)) = S!ToSet(s) \cup {e}
           /\ Distinct(s) /\ e \notin S!ToSet(s) => Distinct(Append(s, e))
<1>1. /\ Append(s, e) \in Seq(E) /\ Len(Append(s, e)) = Len(s) + 1 /\ Len(s) \in Nat
      /\ \A i \in 1 .. Len(s) : Append(s, e)[i] = s[i]
      /\ Append(s, e)[Len(s) + 1] = e
      /\ DOMAIN s = 1 .. Len(s)
  BY LenProperties
<1>2. DOMAIN Append(s, e) = 1 .. Len(s) + 1
  BY <1>1, LenProperties
<1>3. S!ToSet(Append(s, e)) \subseteq S!ToSet(s) \cup {e}
  BY <1>1, <1>2 DEF S!ToSet
<1>4. S!ToSet(s) \cup {e} \subseteq S!ToSet(Append(s, e))
  <2>1. e \in S!ToSet(Append(s, e))
    BY <1>1, <1>2 DEF S!ToSet
  <2>2. ASSUME NEW i \in DOMAIN s
        PROVE  s[i] \in S!ToSet(Append(s, e))
    <3>1. i \in DOMAIN Append(s, e) /\ Append(s, e)[i] = s[i]
      BY <1>1, <1>2
    <3> QED
      BY <3>1 DEF S!ToSet
  <2> QED
    BY <2>1, <2>2 DEF S!ToSet
<1>5. ASSUME Distinct(s), e \notin S!ToSet(s)
      PROVE  Distinct(Append(s, e))
  <2>1. \A i \in DOMAIN s : s[i] # e
    BY <1>5 DEF S!ToSet
  <2> QED
    BY <1>1, <1>2, <1>5, <2>1 DEF Distinct
<1> QED
  BY <1>1, <1>3, <1>4, <1>5

LEMMA EmptyFacts == S!ToSet(<<>>) = {} /\ Distinct(<<>>)
BY DEF S!ToSet, Distinct

LEMMA SChainTxsFacts ==
    ASSUME S!SChainBlocksAssumption, txs \in SChainWorkloads
    PROVE  /\ Len(txs) \in Nat /\ S!Txs = 1 .. Len(txs) /\ 0 \notin S!Txs
           /\ \A U \in SUBSET S!Txs : IsFiniteSet(U) /\ S!Cardinality(U) \in Nat
           /\ \A k : S!sequence(k) \in SUBSET S!Txs
           /\ \A t \in S!Txs : /\ S!UsedKeys(t) \subseteq S!Keys
                             /\ S!WriteKeys(t) \subseteq S!UsedKeys(t)
<1>1. Len(txs) \in Nat /\ S!Txs = 1 .. Len(txs)
  BY DEF S!SChainBlocksAssumption, S!Txs
<1>2. IsFiniteSet(S!Txs)
  BY SameCardinality, <1>1, FS_Interval
<1>3. \A U \in SUBSET S!Txs : IsFiniteSet(U) /\ S!Cardinality(U) \in Nat
  BY SameCardinality, <1>2, FS_Subset, FS_CardinalityType
<1> QED
  BY <1>1, <1>3 DEF S!sequence, S!UsedKeys, S!WriteKeys, S!Keys

LEMMA SameSChainBlock ==
    ASSUME UNCHANGED txs
    PROVE  /\ S!Txs' = S!Txs /\ S!Keys' = S!Keys
           /\ \A t : S!UsedKeys(t)' = S!UsedKeys(t) /\ S!WriteKeys(t)' = S!WriteKeys(t)
           /\ \A k : S!sequence(k)' = S!sequence(k)
BY DEF S!Txs, S!Keys, S!UsedKeys, S!WriteKeys, S!sequence

----------------------------------------------------------------------------
(* Granting *)

\* The two outcomes of Grant.
Schedules(t) ==
    /\ \A k \in S!UsedKeys(t) : ~isWrite[k] /\ lockIndex[k] = S!Place(k, t)
    /\ lockIndex' =
           [k \in S!Keys |-> IF k \in S!UsedKeys(t) THEN lockIndex[k] + 1 ELSE lockIndex[k]]
    /\ isWrite' = [k \in S!Keys |-> isWrite[k] \/ k \in S!WriteKeys(t)]
    /\ activeTxs' = Append(activeTxs, t)
    /\ activeTxsChan' = Append(activeTxsChan, t)
    /\ newInactiveTxs' = newInactiveTxs

Postpones(t) ==
    /\ UNCHANGED <<lockIndex, isWrite, activeTxs, activeTxsChan>>
    /\ newInactiveTxs' = Append(newInactiveTxs, t)

LEMMA GrantCases ==
    ASSUME S!SChainBlocksAssumption, SChainTypeOK, S!Grant
    PROVE  /\ dispatcher = "grant" /\ inactiveTxs # <<>>
           /\ inactiveTxs' = Tail(inactiveTxs)
           /\ dispatcher' = IF Len(inactiveTxs) = 1 THEN "wait" ELSE "grant"
           /\ UNCHANGED <<txs, finishTxNumber, signals, running>>
           /\ Head(inactiveTxs) \in S!Txs
           /\ Schedules(Head(inactiveTxs)) \/ Postpones(Head(inactiveTxs))
<1> DEFINE t == Head(inactiveTxs)
<1>1. /\ dispatcher = "grant" /\ inactiveTxs # <<>>
      /\ inactiveTxs' = Tail(inactiveTxs)
      /\ dispatcher' = IF Len(inactiveTxs) = 1 THEN "wait" ELSE "grant"
      /\ UNCHANGED <<txs, finishTxNumber, signals, running>>
  BY DEF S!Grant
<1>2. t \in S!Txs
  BY <1>1, TailFacts DEF SChainTypeOK
<1>3. S!UsedKeys(t) \subseteq S!Keys /\ S!WriteKeys(t) \subseteq S!UsedKeys(t)
  BY <1>2, SChainTxsFacts DEF SChainTypeOK
<1>4. CASE S!Granted(t) = S!UsedKeys(t)
  <2>1. \A k \in S!UsedKeys(t) : ~isWrite[k] /\ lockIndex[k] = S!Place(k, t)
    BY <1>4 DEF S!Granted, S!CanGrant
  <2>2. S!GrantLock(t, TRUE) /\ activeTxs' = Append(activeTxs, t)
        /\ activeTxsChan' = Append(activeTxsChan, t) /\ newInactiveTxs' = newInactiveTxs
    BY <1>4 DEF S!Grant
  <2>3. S!Granted(t) \cap S!WriteKeys(t) = S!WriteKeys(t)
    BY <1>3, <1>4
  <2>4. /\ lockIndex' = [k \in S!Keys |-> IF k \in S!UsedKeys(t) THEN lockIndex[k] + 1
                                         ELSE lockIndex[k]]
        /\ isWrite' = [k \in S!Keys |-> isWrite[k] \/ k \in S!WriteKeys(t)]
    BY <1>4, <2>2, <2>3 DEF S!GrantLock
  <2>5. Schedules(t)
    BY <2>1, <2>2, <2>4 DEF Schedules
  <2> QED
    BY <1>1, <1>2, <2>5
<1>5. CASE S!Granted(t) # S!UsedKeys(t)
  <2>1. S!GrantLock(t, FALSE) /\ activeTxs' = activeTxs
        /\ activeTxsChan' = activeTxsChan /\ newInactiveTxs' = Append(newInactiveTxs, t)
    BY <1>5 DEF S!Grant
  <2>2. S!Granted(t) \ S!GivenBack(t) = {}
    BY DEF S!GivenBack
  <2>3. /\ lockIndex' = [k \in S!Keys |-> lockIndex[k]]
        /\ isWrite' = [k \in S!Keys |-> isWrite[k]]
    BY <2>1, <2>2 DEF S!GrantLock, SChainTypeOK
  <2>4. lockIndex' = lockIndex /\ isWrite' = isWrite
    BY <2>3 DEF SChainTypeOK
  <2>5. Postpones(t)
    BY <2>1, <2>4 DEF Postpones
  <2> QED
    BY <1>1, <1>2, <2>5
<1> QED
  BY <1>4, <1>5

LEMMA GrantRound ==
    ASSUME S!SChainBlocksAssumption, SChainTypeOK, RoundInv, S!Grant
    PROVE  /\ Head(inactiveTxs) \notin S!Scheduled
           /\ Schedules(Head(inactiveTxs)) => S!Scheduled' = S!Scheduled \cup {Head(inactiveTxs)}
           /\ Postpones(Head(inactiveTxs)) => S!Scheduled' = S!Scheduled
           /\ RoundInv'
<1> DEFINE t == Head(inactiveTxs)
           rest == Tail(inactiveTxs)
<1>1. /\ t \in S!Txs /\ rest \in Seq(S!Txs) /\ inactiveTxs' = rest
      /\ Len(inactiveTxs) = 1 => rest = <<>>
      /\ S!ToSet(inactiveTxs) = {t} \cup S!ToSet(rest)
      /\ Distinct(inactiveTxs) => Distinct(rest) /\ t \notin S!ToSet(rest)
      /\ dispatcher' # "grant" => Len(inactiveTxs) = 1
  BY GrantCases, TailFacts DEF SChainTypeOK
<1>2. Distinct(inactiveTxs) /\ Distinct(newInactiveTxs)
  BY DEF RoundInv, Distinct
<1>3. /\ t \notin S!ToSet(rest) /\ t \notin S!ToSet(newInactiveTxs)
      /\ S!ToSet(rest) \cap S!ToSet(newInactiveTxs) = {}
      /\ t \notin S!Scheduled
  BY <1>1, <1>2 DEF RoundInv, S!Scheduled
<1>4. S!Txs' = S!Txs
  BY GrantCases, SameSChainBlock
<1>5. CASE Schedules(t)
  <2>1. newInactiveTxs' = newInactiveTxs /\ activeTxs' = Append(activeTxs, t)
    BY <1>5 DEF Schedules
  <2>2. S!Scheduled' = S!Scheduled \cup {t}
    BY <1>1, <1>3, <1>4, <2>1 DEF S!Scheduled
  <2>3. S!ToSet(activeTxs)' = S!ToSet(activeTxs) \cup {t}
    BY <1>1, <2>1, AppendFacts DEF SChainTypeOK
  <2>4. RoundInv'
    BY <1>1, <1>2, <1>3, <2>1, <2>2, <2>3 DEF RoundInv, Distinct
  <2>5. ~Postpones(t)
    <3>1. newInactiveTxs \in Seq(S!Txs)
      BY DEF SChainTypeOK
    <3>2. S!ToSet(Append(newInactiveTxs, t)) # S!ToSet(newInactiveTxs)
      BY <1>1, <1>3, <3>1, AppendFacts
    <3> QED
      BY <2>1, <3>2 DEF Postpones
  <2> QED
    BY <1>3, <2>2, <2>4, <2>5
<1>6. CASE Postpones(t)
  <2>1. newInactiveTxs' = Append(newInactiveTxs, t) /\ activeTxs' = activeTxs
    BY <1>6 DEF Postpones
  <2>2. /\ S!ToSet(newInactiveTxs)' = S!ToSet(newInactiveTxs) \cup {t}
        /\ Distinct(newInactiveTxs')
        /\ newInactiveTxs' # newInactiveTxs
    BY <1>1, <1>2, <1>3, <2>1, AppendFacts DEF SChainTypeOK
  <2>3. S!Scheduled' = S!Scheduled
    BY <1>1, <1>3, <1>4, <2>2 DEF S!Scheduled
  <2>4. S!ToSet(activeTxs)' = S!ToSet(activeTxs)
    BY <2>1
  <2>5. RoundInv'
    BY <1>1, <1>2, <1>3, <2>2, <2>3, <2>4 DEF RoundInv, Distinct
  <2>6. ~Schedules(t)
    BY <2>2 DEF Schedules
  <2> QED
    BY <1>3, <2>3, <2>5, <2>6
<1> QED
  BY <1>5, <1>6, GrantCases

\* The first of the sequence that have the lock of a key are those before the
\* one that gets it next.
LEMMA NextInSequence ==
    ASSUME S!SChainBlocksAssumption, SChainTypeOK, S!SChainLocksExact,
           NEW t \in S!Txs \ S!Scheduled,
           NEW k \in S!UsedKeys(t), lockIndex[k] = S!Place(k, t)
    PROVE  /\ S!sequence(k) \cap S!Scheduled = {u \in S!sequence(k) : u < t}
           /\ t \in S!sequence(k)
           /\ S!Cardinality(S!sequence(k) \cap (S!Scheduled \cup {t})) = lockIndex[k] + 1
<1> DEFINE A == S!sequence(k) \cap S!Scheduled
           B == {u \in S!sequence(k) : u < t}
<1>1. /\ k \in S!Keys /\ t \in S!sequence(k)
      /\ S!sequence(k) \in SUBSET S!Txs /\ S!Txs \subseteq Nat
      /\ IsFiniteSet(A) /\ IsFiniteSet(B)
  BY SChainTxsFacts DEF SChainTypeOK, S!sequence
<1>2. S!Cardinality(A) = S!Cardinality(B)
  BY <1>1 DEF S!SChainLocksExact, S!Place
<1>3. A \subseteq B
  <2>1. ASSUME NEW u \in A
        PROVE  u < t
    <3>1. ~(t < u)
      BY <1>1 DEF S!SChainLocksExact
    <3>2. u # t /\ u \in Nat /\ t \in Nat
      BY <1>1
    <3> QED
      BY <3>1, <3>2
  <2> QED
    BY <2>1
<1>4. A = B
  BY SameCardinality, <1>1, <1>2, <1>3, FS_Subset
<1>5. S!Cardinality(A \cup {t}) = S!Cardinality(A) + 1
  BY SameCardinality, <1>1, FS_AddElement
<1>6. S!sequence(k) \cap (S!Scheduled \cup {t}) = A \cup {t}
  BY <1>1
<1> QED
  BY <1>1, <1>4, <1>5, <1>6 DEF S!SChainLocksExact

LEMMA GrantLocks ==
    ASSUME S!SChainBlocksAssumption, SChainTypeOK, RoundInv, WriteInv, S!SChainLocksExact, S!Grant
    PROVE  S!SChainLocksExact' /\ WriteInv'
<1> DEFINE t == Head(inactiveTxs)
<1>0. t \in S!Txs \ S!Scheduled
  BY GrantCases, GrantRound
<1>1. /\ t \in S!Txs \ S!Scheduled
      /\ S!UsedKeys(t) \subseteq S!Keys /\ S!WriteKeys(t) \subseteq S!UsedKeys(t)
      /\ S!Txs \subseteq Nat
      /\ \A k : S!sequence(k) \in SUBSET S!Txs
  <2>1. txs \in SChainWorkloads
    BY DEF SChainTypeOK
  <2> HIDE DEF t
  <2> QED
    BY <1>0, <2>1, SChainTxsFacts
<1>2. /\ S!Txs' = S!Txs /\ S!Keys' = S!Keys
      /\ \A u : S!UsedKeys(u)' = S!UsedKeys(u) /\ S!WriteKeys(u)' = S!WriteKeys(u)
      /\ \A k : S!sequence(k)' = S!sequence(k)
  BY GrantCases, SameSChainBlock
<1>3. CASE Schedules(t)
  <2>1. /\ S!Scheduled' = S!Scheduled \cup {t}
        /\ \A k \in S!UsedKeys(t) : ~isWrite[k] /\ lockIndex[k] = S!Place(k, t)
        /\ \A k \in S!Keys : lockIndex'[k] = IF k \in S!UsedKeys(t) THEN lockIndex[k] + 1
                                           ELSE lockIndex[k]
        /\ \A k \in S!Keys : isWrite'[k] <=> isWrite[k] \/ k \in S!WriteKeys(t)
    BY <1>3, GrantRound DEF Schedules
  <2>2. S!ToSet(activeTxs)' = S!ToSet(activeTxs) \cup {t}
    BY <1>1, <1>3, AppendFacts DEF Schedules, SChainTypeOK
  <2>3. \A k \in S!UsedKeys(t) :
            /\ S!sequence(k) \cap S!Scheduled = {u \in S!sequence(k) : u < t}
            /\ S!Cardinality(S!sequence(k) \cap (S!Scheduled \cup {t})) = lockIndex[k] + 1
    BY <1>1, <2>1, NextInSequence
  <2>4. ASSUME NEW k \in S!Keys, k \in S!UsedKeys(t)
        PROVE  /\ lockIndex'[k] = S!Cardinality(S!sequence(k) \cap S!Scheduled')
               /\ \A v, u \in S!sequence(k) : v < u /\ u \in S!Scheduled' => v \in S!Scheduled'
    <3>1. lockIndex'[k] = S!Cardinality(S!sequence(k) \cap S!Scheduled')
      BY <2>1, <2>3, <2>4
    <3>2. ASSUME NEW v \in S!sequence(k), NEW u \in S!sequence(k), v < u, u \in S!Scheduled'
          PROVE  v \in S!Scheduled'
      <4>1. CASE u = t
        <5>1. v \in {x \in S!sequence(k) : x < t}
          BY <3>2, <4>1
        <5> QED
          BY <2>1, <2>3, <2>4, <5>1
      <4>2. CASE u # t
        BY <2>1, <3>2, <4>2 DEF S!SChainLocksExact
      <4> QED
        BY <4>1, <4>2
    <3> QED
      BY <3>1, <3>2
  <2>5. ASSUME NEW k \in S!Keys, k \notin S!UsedKeys(t)
        PROVE  /\ lockIndex'[k] = S!Cardinality(S!sequence(k) \cap S!Scheduled')
               /\ \A v, u \in S!sequence(k) : v < u /\ u \in S!Scheduled' => v \in S!Scheduled'
    <3>1. t \notin S!sequence(k)
      BY <2>5 DEF S!sequence
    <3>2. S!sequence(k) \cap S!Scheduled' = S!sequence(k) \cap S!Scheduled
      BY <2>1, <3>1
    <3> QED
      BY <2>1, <2>5, <3>1, <3>2 DEF S!SChainLocksExact
  <2>6. S!SChainLocksExact'
    BY <1>2, <2>4, <2>5 DEF S!SChainLocksExact
  <2>7. ASSUME NEW v \in S!ToSet(activeTxs), NEW k \in S!WriteKeys(v)
        PROVE  isWrite'[k] /\ \A u \in S!sequence(k) \cap S!Scheduled' : u <= v
    <3>1. isWrite[k] /\ k \in S!Keys /\ v \in S!Txs
      BY <2>7, SChainTxsFacts DEF WriteInv, RoundInv, S!Scheduled, SChainTypeOK
    <3>2. t \notin S!sequence(k)
      BY <2>1, <3>1 DEF S!sequence
    <3> QED
      BY <2>1, <2>7, <3>1, <3>2 DEF WriteInv
  <2>8. ASSUME NEW k \in S!WriteKeys(t)
        PROVE  isWrite'[k] /\ \A u \in S!sequence(k) \cap S!Scheduled' : u <= t
    <3>1. k \in S!UsedKeys(t) /\ k \in S!Keys
      BY <1>1
    <3>2. ASSUME NEW u \in S!sequence(k), u \in S!Scheduled'
          PROVE  u <= t
      <4>1. u = t \/ u < t
        <5>1. S!sequence(k) \cap S!Scheduled = {x \in S!sequence(k) : x < t}
          BY <2>3, <3>1
        <5>2. u # t => u \in S!sequence(k) \cap S!Scheduled
          BY <2>1, <3>2
        <5> QED
          BY <5>1, <5>2
      <4>2. t \in Nat /\ u \in Nat
        BY <1>1
      <4> QED
        BY <4>1, <4>2
    <3> QED
      BY <2>1, <3>1, <3>2
  <2>9. WriteInv'
    BY <1>2, <2>2, <2>7, <2>8 DEF WriteInv
  <2> QED
    BY <2>6, <2>9
<1>4. CASE Postpones(t)
  <2>1. S!Scheduled' = S!Scheduled /\ UNCHANGED <<lockIndex, isWrite, activeTxs>>
    BY <1>4, GrantRound DEF Postpones
  <2>2. S!ToSet(activeTxs)' = S!ToSet(activeTxs)
    BY <2>1
  <2> QED
    BY <1>2, <2>1, <2>2 DEF S!SChainLocksExact, WriteInv
<1> QED
  BY <1>3, <1>4, GrantCases

----------------------------------------------------------------------------
(* Types and counts *)

LEMMA BusyFacts ==
    ASSUME S!SChainThreadsAssumption
    PROVE  /\ IsFiniteSet(Busy) /\ S!Cardinality(Busy) \in Nat
           /\ S!Cardinality(Busy) = 0 => \A w \in S!Workers : running[w] = 0
           /\ \A w \in S!Workers :
                  /\ w \notin Busy => S!Cardinality(Busy \cup {w}) = S!Cardinality(Busy) + 1
                  /\ w \in Busy => S!Cardinality(Busy \ {w}) = S!Cardinality(Busy) - 1
<1>1. IsFiniteSet(S!Workers)
  BY SameCardinality, FS_Interval DEF S!SChainThreadsAssumption, S!Workers
<1>2. IsFiniteSet(Busy) /\ S!Cardinality(Busy) \in Nat
  BY SameCardinality, <1>1, FS_Subset, FS_CardinalityType DEF Busy
<1>3. S!Cardinality(Busy) = 0 => Busy = {}
  BY SameCardinality, <1>2, FS_EmptySet
<1> QED
  BY SameCardinality, <1>2, <1>3, FS_AddElement, FS_RemoveElement DEF Busy

LEMMA GrantTypes ==
    ASSUME S!SChainBlocksAssumption, S!SChainThreadsAssumption, SChainTypeOK, CountInv, S!Grant
    PROVE  SChainTypeOK' /\ CountInv'
<1> DEFINE t == Head(inactiveTxs)
<1>1. /\ t \in S!Txs /\ Tail(inactiveTxs) \in Seq(S!Txs)
      /\ inactiveTxs' = Tail(inactiveTxs) /\ dispatcher' \in {"grant", "wait"}
      /\ UNCHANGED <<txs, finishTxNumber, signals, running>>
      /\ S!Txs' = S!Txs /\ S!Keys' = S!Keys
  BY GrantCases, TailFacts, SameSChainBlock DEF SChainTypeOK
<1>2. Busy' = Busy /\ S!Cardinality(Busy) \in Nat
  BY <1>1, BusyFacts DEF Busy
<1>3. CASE Schedules(t)
  <2>1. /\ Append(activeTxs, t) \in Seq(S!Txs) /\ Append(activeTxsChan, t) \in Seq(S!Txs)
        /\ Len(Append(activeTxs, t)) = Len(activeTxs) + 1
        /\ Len(Append(activeTxsChan, t)) = Len(activeTxsChan) + 1
        /\ Len(activeTxs) \in Nat /\ Len(activeTxsChan) \in Nat
        /\ S!ToSet(Append(activeTxs, t)) = S!ToSet(activeTxs) \cup {t}
        /\ S!ToSet(Append(activeTxsChan, t)) = S!ToSet(activeTxsChan) \cup {t}
    BY <1>1, AppendFacts DEF SChainTypeOK
  <2>2. /\ lockIndex' \in [S!Keys -> Nat] /\ isWrite' \in [S!Keys -> BOOLEAN]
        /\ activeTxs' = Append(activeTxs, t) /\ activeTxsChan' = Append(activeTxsChan, t)
        /\ newInactiveTxs' = newInactiveTxs
    BY <1>3 DEF Schedules, SChainTypeOK
  <2>3. SChainTypeOK'
    BY <1>1, <2>1, <2>2 DEF SChainTypeOK, S!Workers
  <2>4. S!InFlight' \subseteq S!InFlight \cup {t}
    BY <1>1, <2>1, <2>2 DEF S!InFlight, S!Workers
  <2>5. CountInv'
    BY <1>1, <1>2, <2>1, <2>2, <2>4 DEF CountInv, SChainTypeOK
  <2> QED
    BY <2>3, <2>5
<1>4. CASE Postpones(t)
  <2>1. /\ Append(newInactiveTxs, t) \in Seq(S!Txs) /\ newInactiveTxs' = Append(newInactiveTxs, t)
        /\ UNCHANGED <<lockIndex, isWrite, activeTxs, activeTxsChan>>
    BY <1>1, <1>4, AppendFacts DEF SChainTypeOK, Postpones
  <2>2. SChainTypeOK'
    BY <1>1, <2>1 DEF SChainTypeOK, S!Workers
  <2>3. S!InFlight' = S!InFlight
    BY <1>1, <2>1 DEF S!InFlight, S!Workers
  <2>4. CountInv'
    BY <1>1, <1>2, <2>1, <2>3 DEF CountInv
  <2> QED
    BY <2>2, <2>4
<1> QED
  BY <1>3, <1>4, GrantCases

----------------------------------------------------------------------------
(* The end of a round *)

LEMMA SChainSignalStep ==
    ASSUME S!SChainBlocksAssumption, S!SChainThreadsAssumption, SChainIInv, S!Signal
    PROVE  SChainIInv'
<1>1. /\ dispatcher = "wait" /\ signals \in Nat \ {0} /\ signals' = signals - 1
      /\ UNCHANGED <<txs, lockIndex, activeTxsChan, running>>
      /\ S!Txs' = S!Txs /\ S!Keys' = S!Keys
      /\ \A u : S!UsedKeys(u)' = S!UsedKeys(u) /\ S!WriteKeys(u)' = S!WriteKeys(u)
      /\ \A k : S!sequence(k)' = S!sequence(k)
  BY SameSChainBlock DEF S!Signal, SChainIInv, SChainTypeOK
<1>2. inactiveTxs = <<>> /\ S!ToSet(inactiveTxs) = {}
  BY <1>1, EmptyFacts DEF SChainIInv, RoundInv
<1>3. /\ Busy' = Busy /\ S!Cardinality(Busy) \in Nat /\ S!InFlight' = S!InFlight
      /\ S!Cardinality(Busy) = 0 => \A w \in S!Workers : running[w] = 0
      /\ Len(activeTxsChan) \in Nat /\ Len(activeTxs) \in Nat
      /\ Len(activeTxsChan) = 0 => activeTxsChan = <<>>
      /\ finishTxNumber \in Nat
  BY <1>1, BusyFacts, LenProperties, EmptySeq
     DEF Busy, S!InFlight, SChainIInv, SChainTypeOK, S!Workers
<1>4. CASE finishTxNumber + 1 # Len(activeTxs)
  <2>1. /\ finishTxNumber' = finishTxNumber + 1
        /\ UNCHANGED <<dispatcher, inactiveTxs, newInactiveTxs, activeTxs, isWrite>>
    BY <1>4 DEF S!Signal
  <2>2. S!Scheduled' = S!Scheduled /\ S!ToSet(activeTxs)' = S!ToSet(activeTxs)
    BY <1>1, <2>1 DEF S!Scheduled
  <2>3. SChainTypeOK'
    BY <1>1, <1>3, <2>1 DEF SChainIInv, SChainTypeOK, S!Workers
  <2>4. RoundInv'
    BY <2>1, <2>2 DEF SChainIInv, RoundInv
  <2>5. CountInv'
    BY <1>1, <1>3, <2>1, <2>2 DEF SChainIInv, CountInv
  <2>6. WriteInv' /\ S!SChainLocksExact'
    BY <1>1, <2>1, <2>2 DEF SChainIInv, WriteInv, S!SChainLocksExact
  <2> QED
    BY <2>3, <2>4, <2>5, <2>6 DEF SChainIInv
<1>5. CASE finishTxNumber + 1 = Len(activeTxs)
  <2>1. /\ isWrite' = S!Released(S!ToSet(activeTxs))
        /\ dispatcher' \in {"grant", "end"}
        /\ dispatcher' = "end" => newInactiveTxs = <<>>
        /\ inactiveTxs' = newInactiveTxs /\ newInactiveTxs' = <<>> /\ activeTxs' = <<>>
        /\ finishTxNumber' = 0
    BY <1>5 DEF S!Signal
  <2>2. signals = 1 /\ activeTxsChan = <<>> /\ \A w \in S!Workers : running[w] = 0
    BY <1>1, <1>3, <1>5 DEF SChainIInv, CountInv
  <2>3. S!Scheduled' = S!Scheduled
    BY <1>1, <1>2, <2>1, EmptyFacts DEF S!Scheduled
  <2>4. SChainTypeOK'
    <3>1. isWrite' \in [S!Keys -> BOOLEAN]
      BY <2>1 DEF S!Released
    <3>2. <<>> \in Seq(S!Txs)
      OBVIOUS
    <3> QED
      BY <1>1, <2>1, <3>1, <3>2 DEF SChainIInv, SChainTypeOK, S!Workers
  <2>5. RoundInv'
    BY <1>2, <2>1, <2>3, EmptyFacts DEF SChainIInv, RoundInv
  <2>6. CountInv'
    <3>1. S!InFlight' = {}
      BY <1>1, <2>2, EmptyFacts DEF S!InFlight
    <3>2. Len(<<>>) = 0 /\ S!Cardinality(Busy) = 0
      BY SameCardinality, <2>2, FS_EmptySet DEF Busy
    <3> QED
      BY <1>1, <1>3, <2>1, <2>2, <3>1, <3>2 DEF CountInv
  <2>7. WriteInv'
    BY <2>1, EmptyFacts DEF WriteInv
  <2>8. S!SChainLocksExact'
    BY <1>1, <2>3 DEF SChainIInv, S!SChainLocksExact
  <2> QED
    BY <2>4, <2>5, <2>6, <2>7, <2>8 DEF SChainIInv
<1> QED
  BY <1>4, <1>5

----------------------------------------------------------------------------
(* The workers *)

LEMMA SChainWorkerStep ==
    ASSUME S!SChainBlocksAssumption, S!SChainThreadsAssumption, SChainIInv,
           NEW w \in S!Workers, S!Worker(w)
    PROVE  SChainIInv'
<1>1. /\ UNCHANGED <<txs, lockIndex, isWrite, S!roundVars>>
      /\ S!Txs' = S!Txs /\ S!Keys' = S!Keys
      /\ \A u : S!UsedKeys(u)' = S!UsedKeys(u) /\ S!WriteKeys(u)' = S!WriteKeys(u)
      /\ \A k : S!sequence(k)' = S!sequence(k)
  <2>1. UNCHANGED <<txs, lockIndex, isWrite, S!roundVars>>
    BY DEF S!Worker, S!Take, S!Finish, S!Join, S!locks
  <2> QED
    BY <2>1, SameSChainBlock
<1>2. S!Scheduled' = S!Scheduled /\ S!ToSet(activeTxs)' = S!ToSet(activeTxs)
  BY <1>1 DEF S!Scheduled, S!roundVars
<1>3. RoundInv' /\ WriteInv' /\ S!SChainLocksExact'
  BY <1>1, <1>2 DEF SChainIInv, RoundInv, WriteInv, S!SChainLocksExact, S!roundVars
<1>4. SChainTypeOK' /\ CountInv'
  <2>0. /\ S!Cardinality(Busy) \in Nat /\ 0 \notin S!Txs
        /\ Len(activeTxsChan) \in Nat /\ Len(activeTxs) \in Nat
        /\ w \notin Busy => S!Cardinality(Busy \cup {w}) = S!Cardinality(Busy) + 1
        /\ w \in Busy => S!Cardinality(Busy \ {w}) = S!Cardinality(Busy) - 1
    BY BusyFacts, SChainTxsFacts, LenProperties DEF SChainIInv, SChainTypeOK
  <2>1. CASE S!Take(w)
    <3> DEFINE t == Head(activeTxsChan)
    <3>1. /\ t \in S!Txs /\ Tail(activeTxsChan) \in Seq(S!Txs)
          /\ Len(Tail(activeTxsChan)) = Len(activeTxsChan) - 1
          /\ S!ToSet(activeTxsChan) = {t} \cup S!ToSet(Tail(activeTxsChan))
      BY <2>1, TailFacts DEF S!Take, SChainIInv, SChainTypeOK
    <3>2. /\ running' = [running EXCEPT ![w] = t] /\ running[w] = 0
          /\ activeTxsChan' = Tail(activeTxsChan) /\ signals' = signals
      BY <2>1 DEF S!Take
    <3>3. SChainTypeOK'
      BY <1>1, <3>1, <3>2 DEF SChainIInv, SChainTypeOK, S!Workers, S!roundVars
    <3>4. Busy' = Busy \cup {w} /\ w \notin Busy
      BY <2>0, <3>1, <3>2 DEF Busy, SChainIInv, SChainTypeOK, S!Workers
    <3>5. S!InFlight' \subseteq S!InFlight
      BY <3>1, <3>2, <2>0 DEF S!InFlight, SChainIInv, SChainTypeOK, S!Workers
    <3>6. CountInv'
      BY <1>1, <1>2, <2>0, <3>1, <3>2, <3>4, <3>5
         DEF SChainIInv, CountInv, S!roundVars, SChainTypeOK
    <3> QED
      BY <3>3, <3>6
  <2>2. CASE S!Finish(w)
    <3>1. /\ running' = [running EXCEPT ![w] = 0] /\ running[w] # 0
          /\ activeTxsChan' = activeTxsChan /\ signals' = signals + 1
      BY <2>2 DEF S!Finish
    <3>2. SChainTypeOK'
      BY <1>1, <3>1 DEF SChainIInv, SChainTypeOK, S!Workers, S!roundVars
    <3>3. Busy' = Busy \ {w} /\ w \in Busy
      BY <3>1 DEF Busy, SChainIInv, SChainTypeOK, S!Workers
    <3>4. S!InFlight' \subseteq S!InFlight
      BY <3>1 DEF S!InFlight, SChainIInv, SChainTypeOK, S!Workers
    <3>5. CountInv'
      BY <1>1, <1>2, <2>0, <3>1, <3>3, <3>4 DEF SChainIInv, CountInv, S!roundVars, SChainTypeOK
    <3> QED
      BY <3>2, <3>5
  <2>3. CASE S!Join(w)
    <3>1. UNCHANGED <<running, activeTxsChan, signals>>
      BY <2>3 DEF S!Join, S!channels
    <3> QED
      BY <1>1, <1>2, <3>1
         DEF SChainIInv, SChainTypeOK, CountInv, Busy, S!InFlight, S!Workers, S!roundVars
  <2> QED
    BY <2>1, <2>2, <2>3 DEF S!Worker
<1> QED
  BY <1>3, <1>4 DEF SChainIInv

----------------------------------------------------------------------------
(* The invariant *)

LEMMA SChainInit ==
    ASSUME S!SChainBlocksAssumption, S!SChainThreadsAssumption, S!Init
    PROVE  SChainIInv
<1> DEFINE all == [i \in 1 .. Len(txs) |-> i]
<1>1. /\ Len(txs) \in Nat /\ S!Txs = 1 .. Len(txs)
      /\ \A k : S!sequence(k) \in SUBSET S!Txs
  BY SChainTxsFacts DEF S!Init
<1>2. all \in Seq(S!Txs) /\ DOMAIN all = 1 .. Len(txs) /\ S!ToSet(all) = S!Txs
  BY <1>1 DEF S!ToSet
<1>3. S!Scheduled = {} /\ S!InFlight = {}
  BY <1>2, EmptyFacts DEF S!Init, S!Scheduled, S!InFlight
<1>4. SChainTypeOK
  BY <1>1, <1>2 DEF S!Init, SChainTypeOK
<1>5. RoundInv
  BY <1>2, EmptyFacts DEF S!Init, RoundInv
<1>6. CountInv
  <2>1. Busy = {} /\ S!Cardinality(Busy) = 0
    BY SameCardinality, FS_EmptySet DEF S!Init, Busy
  <2> QED
    BY <1>3, <2>1 DEF S!Init, CountInv
<1>7. WriteInv
  BY EmptyFacts DEF S!Init, WriteInv
<1>8. S!SChainLocksExact
  BY SameCardinality, <1>3, FS_EmptySet DEF S!Init, S!SChainLocksExact
<1> QED
  BY <1>4, <1>5, <1>6, <1>7, <1>8 DEF SChainIInv

LEMMA SChainStutter ==
    ASSUME SChainIInv, UNCHANGED S!vars
    PROVE  SChainIInv'
<1> USE DEF S!vars, S!locks, S!roundVars, S!channels
<1>1. /\ S!Txs' = S!Txs /\ S!Keys' = S!Keys
      /\ \A t : S!UsedKeys(t)' = S!UsedKeys(t) /\ S!WriteKeys(t)' = S!WriteKeys(t)
      /\ \A k : S!sequence(k)' = S!sequence(k)
  BY SameSChainBlock
<1>2. /\ S!Scheduled' = S!Scheduled /\ S!InFlight' = S!InFlight /\ Busy' = Busy
      /\ S!ToSet(activeTxs)' = S!ToSet(activeTxs)
  BY <1>1 DEF S!Scheduled, S!InFlight, Busy, S!Workers
<1>3. SChainTypeOK'
  BY <1>1 DEF SChainIInv, SChainTypeOK, S!Workers
<1>4. RoundInv' /\ CountInv'
  BY <1>2 DEF SChainIInv, RoundInv, CountInv
<1>5. WriteInv' /\ S!SChainLocksExact'
  BY <1>1, <1>2 DEF SChainIInv, WriteInv, S!SChainLocksExact
<1> QED
  BY <1>3, <1>4, <1>5 DEF SChainIInv

LEMMA SChainStep ==
    ASSUME S!SChainBlocksAssumption, S!SChainThreadsAssumption, SChainIInv, S!Next
    PROVE  SChainIInv'
<1>1. S!Grant => SChainIInv'
  BY GrantTypes, GrantRound, GrantLocks DEF SChainIInv
<1> QED
  BY <1>1, SChainSignalStep, SChainWorkerStep DEF S!Next

LEMMA SChainIInvAfterWriters ==
    ASSUME S!SChainBlocksAssumption, SChainIInv
    PROVE  S!SChainAfterWriters
<1> SUFFICES ASSUME NEW t \in S!Txs, NEW u \in S!Txs, t < u, u \in S!Scheduled,
                    NEW k \in S!WriteKeys(t) \cap S!UsedKeys(u)
             PROVE  t \in S!Scheduled \ (S!ToSet(activeTxs) \cup S!InFlight)
  BY DEF S!SChainAfterWriters
<1>1. /\ k \in S!Keys /\ t \in S!sequence(k) /\ u \in S!sequence(k)
      /\ t \in Nat /\ u \in Nat
  BY SChainTxsFacts DEF SChainIInv, SChainTypeOK, S!sequence
<1>2. t \in S!Scheduled
  BY <1>1 DEF SChainIInv, S!SChainLocksExact
<1>3. t \notin S!ToSet(activeTxs)
  BY <1>1 DEF SChainIInv, WriteInv
<1> QED
  BY <1>2, <1>3 DEF SChainIInv, CountInv

-----------------------------------------------------------------------------
(* SChain among the engines                                                *)

\* The inductive invariant of SChain, where it is the engine that runs.
SChainInv == engine = "schain" => SChainIInv

\* SChain keeps its inductive invariant among the engines.
THEOREM SChainInvariance == Spec => []SChainInv
<1>1. Init => SChainInv
  BY Assumptions, SChainInit DEF Init, SChainInv
<1>2. ASSUME SChainInv, [Next]_vars
      PROVE  SChainInv'
  <2>1. CASE UNCHANGED vars
    <3>1. engine' = engine /\ UNCHANGED S!vars
      BY <2>1 DEF vars, schainVars, S!vars, S!locks, S!roundVars, S!channels
    <3> QED
      BY <1>2, <3>1, SChainStutter DEF SChainInv
  <2>2. CASE Next
    <3>1. engine' = engine /\ (engine = "schain" => S!Next)
      BY <2>2 DEF Next
    <3> QED
      BY <1>2, <3>1, Assumptions, SChainStep DEF SChainInv
  <2> QED
    BY <1>2, <2>1, <2>2
<1> QED
  BY <1>1, <1>2, PTL DEF Spec

\* For any number of threads and any block, a transaction is handed to a worker
\* only after every earlier one that writes one of its keys has run.
THEOREM SChainAfterWritersCorrect == Spec => []SChainAfterWriters
<1>1. SChainInv => SChainAfterWriters
  BY Assumptions, SChainIInvAfterWriters DEF SChainInv, SChainAfterWriters
<1> QED
  BY <1>1, SChainInvariance, PTL

\* For any number of threads and any block, a transaction that fails to get all
\* its locks gives back every one it got, so that the locks granted are always
\* those of the transactions handed to the workers.
THEOREM SChainLocksExactCorrect == Spec => []SChainLocksExact
<1>1. SChainInv => SChainLocksExact
  BY DEF SChainInv, SChainIInv, SChainLocksExact
<1> QED
  BY <1>1, SChainInvariance, PTL
-----------------------------------------------------------------------------
(* The scheduler by dependencies, for the workers W                        *)

Members == DOMAIN txs

\* The dependencies of u that are still to be completed.
Unmet(u) == {v \in Members : <<v, u>> \in edges /\ v \notin completed}

Running == {current[w] : w \in DOMAIN current} \ {0}

GraphInv ==
    /\ IsFiniteSet(Members) /\ 0 \notin Members
    /\ edges \subseteq Members \X Members
    /\ indegree \in [Members -> Nat]
    /\ \A u \in Members : indegree[u] = Cardinality(Unmet(u))

ReadyInv(W) ==
    /\ ready \in [W -> SUBSET Members]
    /\ \A q, r \in W : \A t \in Members : (t \in ready[q] /\ t \in ready[r]) => q = r
    /\ \A q \in W : \A t \in ready[q] : t \notin completed \cup Running /\ Unmet(t) = {}

Stages == {"next", "asleep", "run", "complete", "end", "play"}

\* A worker in the stage a may be at the transaction t.
Fits(a, t) ==
    /\ a \in {"next", "asleep", "play"} => t = 0
    /\ a \in {"run", "complete"} => t # 0

RunningInv(W) ==
    /\ at \in [W -> Stages]
    /\ current \in [W -> Members \cup {0}]
    /\ \A w \in W : Fits(at[w], current[w])
    /\ \A w, v \in W : (current[w] = current[v] /\ current[w] # 0) => w = v
    /\ \A t \in Running : t \notin completed /\ Unmet(t) = {}

CompletedInv ==
    /\ completed \subseteq Members
    /\ \A t \in completed : Unmet(t) = {}

\* A set that holds the dependencies of its members holds, with a transaction,
\* every earlier one that conflicts with it.
Closed(D) == \A t \in D : \A u \in Members : <<u, t>> \in edges => u \in D

Chained ==
    \A D \in SUBSET Members : Closed(D) =>
        \A t \in D : \A u \in Members :
            (CO!Before(u, t) /\ CO!Conflict(u, t)) => u \in D /\ u # t

\* Nothing runs before there is an order.
OrderInv(W) ==
    /\ order = <<>> => Running = {} /\ \A q \in W : ready[q] = {}
    /\ order = <<>> \/ CO!IsOrder(order)
    /\ Chained

SchedInv(W) ==
    /\ GraphInv /\ ReadyInv(W) /\ RunningInv(W) /\ CompletedInv /\ OrderInv(W)

\* What is said of the plan stays true while the plan stays.
LEMMA SamePlan ==
    ASSUME UNCHANGED <<txs, order, edges>>
    PROVE  /\ Members' = Members /\ Chained' = Chained
           /\ \A s : CO!IsOrder(s)' = CO!IsOrder(s)
           /\ completed' = completed => \A u : Unmet(u)' = Unmet(u)
<1>1. Members' = Members
  BY DEF Members
<1>2. /\ \A s : CO!IsOrder(s)' = CO!IsOrder(s)
      /\ \A t, u : CO!Before(t, u)' = CO!Before(t, u) /\ CO!Conflict(t, u)' = CO!Conflict(t, u)
  BY DEF CO!IsOrder, CO!Txs, CO!Before, CO!Conflict, CO!Used
<1>3. Chained' = Chained
  BY <1>1, <1>2, Zenon DEF Chained, Closed
<1>4. completed' = completed => \A u : Unmet(u)' = Unmet(u)
  BY <1>1 DEF Unmet
<1> QED
  BY <1>1, <1>2, <1>3, <1>4

\* Workers that only change their stages.
LEMMA StageStep ==
    ASSUME NEW W, SchedInv(W),
           at' \in [W -> Stages],
           \A w \in W : Fits(at'[w], current[w]),
           UNCHANGED <<txs, order, edges, indegree, ready, completed, current>>
    PROVE  SchedInv(W)' /\ UNCHANGED CO!vars
<1>1. /\ Members' = Members /\ Chained' = Chained
      /\ \A s : CO!IsOrder(s)' = CO!IsOrder(s)
      /\ \A u : Unmet(u)' = Unmet(u)
      /\ Running' = Running
  BY SamePlan DEF Running
<1>2. GraphInv' /\ CompletedInv'
  BY <1>1 DEF SchedInv, GraphInv, CompletedInv
<1>3. ReadyInv(W)'
  BY <1>1 DEF SchedInv, ReadyInv
<1>4. RunningInv(W)'
  BY <1>1 DEF SchedInv, RunningInv
<1>5. OrderInv(W)'
  BY <1>1 DEF SchedInv, OrderInv
<1> QED
  BY <1>2, <1>3, <1>4, <1>5 DEF SchedInv, CO!vars

\* A worker is given a ready transaction.
LEMMA TakeStep ==
    ASSUME NEW W, SchedInv(W), NEW w \in W, NEW q \in W, NEW t \in ready[q],
           at[w] = "next",
           ready' = [ready EXCEPT ![q] = @ \ {t}],
           current' = [current EXCEPT ![w] = t],
           at' = [at EXCEPT ![w] = "run"],
           UNCHANGED <<txs, order, edges, indegree, completed>>
    PROVE  SchedInv(W)' /\ CO!Next
<1>1. /\ Members' = Members /\ Chained' = Chained
      /\ \A s : CO!IsOrder(s)' = CO!IsOrder(s)
      /\ \A u : Unmet(u)' = Unmet(u)
  BY SamePlan
<1>2. /\ t \in Members /\ t # 0 /\ t \notin completed \cup Running /\ Unmet(t) = {}
      /\ order # <<>>
  BY DEF SchedInv, GraphInv, ReadyInv, OrderInv
<1>3. current[w] = 0
  BY DEF SchedInv, RunningInv, Fits
<1>4. Running' = Running \cup {t}
  BY <1>2, <1>3 DEF SchedInv, RunningInv, Running
<1>5. GraphInv' /\ CompletedInv'
  BY <1>1 DEF SchedInv, GraphInv, CompletedInv
<1>6. ReadyInv(W)'
  <2>1. ready' \in [W -> SUBSET Members] /\ \A r \in W : ready'[r] = IF r = q THEN ready[q] \ {t} ELSE ready[r]
    BY DEF SchedInv, ReadyInv
  <2>2. \A r \in W : ready'[r] \subseteq ready[r] /\ t \notin ready'[r]
    BY <1>2, <2>1 DEF SchedInv, ReadyInv
  <2>3. \A p, r \in W : \A u \in Members : (u \in ready'[p] /\ u \in ready'[r]) => p = r
    BY <2>2 DEF SchedInv, ReadyInv
  <2>4. \A r \in W : \A u \in ready'[r] : u \notin completed' \cup Running' /\ Unmet(u)' = {}
    BY <1>1, <1>4, <2>2 DEF SchedInv, ReadyInv
  <2> QED
    BY <1>1, <2>1, <2>3, <2>4 DEF ReadyInv
<1>7. RunningInv(W)'
  <2>1. /\ at' \in [W -> Stages] /\ current' \in [W -> Members \cup {0}]
        /\ \A v \in W : /\ at'[v] = IF v = w THEN "run" ELSE at[v]
                        /\ current'[v] = IF v = w THEN t ELSE current[v]
    BY <1>2 DEF SchedInv, RunningInv, Stages
  <2>2. \A v \in W : Fits(at'[v], current'[v])
    BY <1>2, <2>1 DEF SchedInv, RunningInv, Fits
  <2>3. \A v \in W : current[v] # t
    BY <1>2 DEF SchedInv, RunningInv, Running
  <2>4. \A u, v \in W : (current'[u] = current'[v] /\ current'[u] # 0) => u = v
    BY <2>1, <2>3 DEF SchedInv, RunningInv
  <2>5. \A u \in Running' : u \notin completed' /\ Unmet(u)' = {}
    BY <1>1, <1>2, <1>4 DEF SchedInv, RunningInv
  <2> QED
    BY <1>1, <2>1, <2>2, <2>4, <2>5 DEF RunningInv
<1>8. OrderInv(W)'
  BY <1>1, <1>2 DEF SchedInv, OrderInv
<1>9. CO!Start(t)
  <2>1. Closed(completed \cup {t})
    BY <1>2 DEF SchedInv, CompletedInv, Closed, Unmet
  <2>2. completed \cup {t} \in SUBSET Members
    BY <1>2 DEF SchedInv, CompletedInv
  <2>3. \A u \in Members : (CO!Before(u, t) /\ CO!Conflict(u, t)) => u \in completed
    BY <2>1, <2>2 DEF SchedInv, OrderInv, Chained
  <2>4. Running' = {current'[v] : v \in DOMAIN current'} \ {0}
    BY DEF Running
  <2> QED
    BY <1>2, <1>4, <2>3, <2>4 DEF CO!Start, CO!Txs, Members, Running
<1> QED
  BY <1>2, <1>5, <1>6, <1>7, <1>8, <1>9 DEF SchedInv, CO!Next, CO!Txs, Members

\* A worker completes its transaction; queue has the queues of the transactions.
Completes(W, w, queue) ==
    LET t == current[w]
        dependents == {u \in Members : <<t, u>> \in edges}
        freed == {u \in dependents : indegree[u] = 1}
    IN  /\ at[w] = "complete"
        /\ indegree' = [u \in Members |-> IF u \in dependents THEN indegree[u] - 1 ELSE indegree[u]]
        /\ ready' = [q \in W |-> ready[q] \cup {u \in freed : queue[u] = q}]
        /\ at' = [v \in W |-> IF v = w THEN "next" ELSE IF at[v] = "asleep" THEN "next" ELSE at[v]]
        /\ completed' = completed \cup {t}
        /\ current' = [current EXCEPT ![w] = 0]
        /\ UNCHANGED <<txs, order, edges>>

LEMMA CompleteStep ==
    ASSUME NEW W, SchedInv(W), NEW w \in W, NEW queue, Completes(W, w, queue)
    PROVE  SchedInv(W)' /\ CO!Next
<1> DEFINE t == current[w]
           dependents == {u \in Members : <<t, u>> \in edges}
           freed == {u \in dependents : indegree[u] = 1}
<1>0. /\ at[w] = "complete"
      /\ indegree' = [u \in Members |-> IF u \in dependents THEN indegree[u] - 1 ELSE indegree[u]]
      /\ ready' = [q \in W |-> ready[q] \cup {u \in freed : queue[u] = q}]
      /\ at' = [v \in W |-> IF v = w THEN "next" ELSE IF at[v] = "asleep" THEN "next" ELSE at[v]]
      /\ completed' = completed \cup {t}
      /\ current' = [current EXCEPT ![w] = 0]
      /\ UNCHANGED <<txs, order, edges>>
  BY DEF Completes
<1>1. /\ Members' = Members /\ Chained' = Chained
      /\ \A s : CO!IsOrder(s)' = CO!IsOrder(s)
  BY <1>0, SamePlan
<1>2. /\ t \in Members /\ t # 0 /\ t \in Running /\ t \notin completed /\ Unmet(t) = {}
  BY <1>0 DEF SchedInv, RunningInv, Running, Fits
<1>3. \A v \in W : current'[v] = IF v = w THEN 0 ELSE current[v]
  BY <1>0 DEF SchedInv, RunningInv
<1>4. Running' = Running \ {t}
  <2>1. DOMAIN current = W /\ DOMAIN current' = W
    BY <1>0 DEF SchedInv, RunningInv
  <2>2. \A v \in W : v # w => current[v] # t
    BY <1>0, <1>2 DEF SchedInv, RunningInv
  <2> QED
    BY <1>0, <1>3, <2>1, <2>2 DEF Running
<1>5. \A u \in Members : Unmet(u)' = Unmet(u) \ {t}
  BY <1>0, <1>1 DEF Unmet
<1>6. \A u \in Members : t \in Unmet(u) <=> u \in dependents
  BY <1>0, <1>2 DEF Unmet
<1>7. \A u \in Members : IsFiniteSet(Unmet(u)) /\ Cardinality(Unmet(u)) = indegree[u]
  <2>1. \A u : Unmet(u) \in SUBSET Members
    BY <1>0 DEF Unmet
  <2> QED
    BY <1>0, <2>1, FS_Subset DEF SchedInv, GraphInv
<1>8. GraphInv'
  <2>1. ASSUME NEW u \in Members
        PROVE  indegree'[u] = Cardinality(Unmet(u)') /\ indegree'[u] \in Nat
    <3>1. IsFiniteSet(Unmet(u) \ {t}) /\ Cardinality(Unmet(u) \ {t}) = IF t \in Unmet(u) THEN Cardinality(Unmet(u)) - 1 ELSE Cardinality(Unmet(u))
      BY <1>0, <1>7, FS_RemoveElement
    <3>2. Cardinality(Unmet(u) \ {t}) \in Nat
      BY <1>0, <3>1, FS_CardinalityType
    <3> QED
      BY <1>0, <1>5, <1>6, <1>7, <3>1, <3>2
  <2>2. indegree' \in [Members -> Nat]
    BY <1>0, <2>1
  <2> QED
    BY <1>0, <1>1, <2>1, <2>2 DEF SchedInv, GraphInv
<1>9. \A u \in freed : u \in Members /\ Unmet(u) = {t}
  <2>1. SUFFICES ASSUME NEW u \in freed PROVE u \in Members /\ Unmet(u) = {t}
    OBVIOUS
  <2>2. u \in Members /\ t \in Unmet(u) /\ Cardinality(Unmet(u)) = 1 /\ IsFiniteSet(Unmet(u))
    BY <1>0, <1>6, <1>7
  <2>3. PICK x : Unmet(u) = {x}
    BY <1>0, <2>2, FS_Singleton
  <2> QED
    BY <1>0, <2>2, <2>3
<1>10. \A u \in freed : u \notin completed \cup {t} /\ u \notin Running /\ \A q \in W : u \notin ready[q]
  BY <1>0, <1>2, <1>9 DEF SchedInv, CompletedInv, RunningInv, ReadyInv
<1>11. \A q \in W : ready'[q] = ready[q] \cup {u \in freed : queue[u] = q}
  BY <1>0
<1>12. ReadyInv(W)'
  <2>1. ready' \in [W -> SUBSET Members]
    BY <1>0, <1>9 DEF SchedInv, ReadyInv
  <2>2. \A q, r \in W : \A u \in Members : (u \in ready'[q] /\ u \in ready'[r]) => q = r
    BY <1>0, <1>10, <1>11 DEF SchedInv, ReadyInv
  <2>3. \A q \in W : \A u \in ready[q] : u \notin completed' \cup Running' /\ Unmet(u)' = {}
    BY <1>0, <1>2, <1>4, <1>5 DEF SchedInv, ReadyInv
  <2>4. \A u \in freed : u \notin completed' \cup Running' /\ Unmet(u)' = {}
    BY <1>0, <1>4, <1>5, <1>9, <1>10
  <2>5. \A q \in W : \A u \in ready'[q] : u \notin completed' \cup Running' /\ Unmet(u)' = {}
    BY <1>0, <1>11, <2>3, <2>4
  <2> QED
    BY <1>0, <1>1, <2>1, <2>2, <2>5 DEF ReadyInv
<1>13. RunningInv(W)'
  <2>0. at' \in [W -> Stages]
    BY <1>0 DEF SchedInv, RunningInv, Stages
  <2>1. current' \in [W -> Members \cup {0}]
    BY <1>0 DEF SchedInv, RunningInv
  <2>2. \A v \in W : Fits(at'[v], current'[v])
    BY <1>0, <1>3 DEF SchedInv, RunningInv, Fits
  <2>3. \A u, v \in W : (current'[u] = current'[v] /\ current'[u] # 0) => u = v
    BY <1>0, <1>3 DEF SchedInv, RunningInv
  <2>4. \A u \in Running' : u \in Members /\ u \notin completed' /\ Unmet(u)' = {}
    BY <1>0, <1>4, <1>5 DEF SchedInv, RunningInv, Running
  <2> QED
    BY <1>1, <2>0, <2>1, <2>2, <2>3, <2>4 DEF RunningInv
<1>14. CompletedInv'
  BY <1>0, <1>1, <1>2, <1>5 DEF SchedInv, CompletedInv
<1>15. OrderInv(W)'
  BY <1>0, <1>1, <1>2 DEF SchedInv, OrderInv
<1> HIDE DEF t
<1>16. CO!Next
  <2>1. PICK c \in Members : c = t
    BY <1>2
  <2>2. CO!Complete(c)
    BY <1>0, <1>2, <1>4, <2>1 DEF CO!Complete, Running
  <2> QED
    BY <2>2 DEF CO!Next, CO!Txs, Members
<1> QED
  BY <1>8, <1>12, <1>13, <1>14, <1>15, <1>16 DEF SchedInv
\* What the scheduler starts with.
Planned(W, queue) ==
    /\ IsFiniteSet(Members) /\ 0 \notin Members
    /\ edges \subseteq Members \X Members
    /\ indegree = [t \in Members |-> Cardinality({u \in Members : <<u, t>> \in edges})]
    /\ ready = [q \in W |-> {t \in Members : indegree[t] = 0 /\ queue[t] = q}]
    /\ completed = {}
    /\ at = [w \in W |-> "next"]
    /\ current = [w \in W |-> 0]
    /\ CO!IsOrder(order) /\ Chained

LEMMA PlannedFacts == \A W, queue : Planned(W, queue) => SchedInv(W) /\ CO!Init
<1> SUFFICES ASSUME NEW W, NEW queue, Planned(W, queue)
             PROVE  SchedInv(W) /\ CO!Init
  OBVIOUS
<1>1. Running = {}
  BY DEF Planned, Running
<1>2. \A u \in Members : Unmet(u) = {v \in Members : <<v, u>> \in edges}
  BY DEF Planned, Unmet
<1>3. \A u \in Members : IsFiniteSet(Unmet(u)) /\ Cardinality(Unmet(u)) \in Nat
  <2>1. \A u : Unmet(u) \in SUBSET Members
    BY DEF Unmet
  <2> QED
    BY <2>1, FS_Subset, FS_CardinalityType DEF Planned
<1>4. GraphInv
  BY <1>2, <1>3 DEF Planned, GraphInv
<1>5. ReadyInv(W)
  <2>1. ready \in [W -> SUBSET Members]
    BY DEF Planned
  <2>2. \A q, r \in W : \A t \in Members : (t \in ready[q] /\ t \in ready[r]) => q = r
    BY DEF Planned
  <2>3. ASSUME NEW q \in W, NEW t \in ready[q]
        PROVE  t \notin completed \cup Running /\ Unmet(t) = {}
    <3>1. t \in Members /\ indegree[t] = 0
      BY DEF Planned
    <3>2. Cardinality(Unmet(t)) = 0
      BY <3>1, <1>4 DEF GraphInv
    <3>3. Unmet(t) = {}
      BY <3>1, <3>2, <1>3, FS_EmptySet
    <3> QED
      BY <1>1, <3>3 DEF Planned
  <2> QED
    BY <2>1, <2>2, <2>3 DEF ReadyInv
<1>6. RunningInv(W)
  BY <1>1 DEF Planned, RunningInv, Fits, Stages
<1>7. CompletedInv
  BY DEF Planned, CompletedInv
<1>8. order = <<>> => Members = {}
  BY DEF Planned, CO!IsOrder, CO!Txs, Members
<1>9. OrderInv(W)
  BY <1>1, <1>8 DEF Planned, OrderInv
<1>10. CO!Init
  BY <1>1 DEF Planned, CO!Init, Running
<1> QED
  BY <1>4, <1>5, <1>6, <1>7, <1>9, <1>10 DEF SchedInv

\* The same of the state after a step.
LEMMA PlannedNext == (\A W, queue : Planned(W, queue) => SchedInv(W) /\ CO!Init)'
BY PlannedFacts, PTL

-----------------------------------------------------------------------------
(* Pilotfish: the queue of a key                                           *)

Entries == [op : {"read", "write"}, txs : SUBSET Nat]

\* The queue q of the key k after the first i transactions.
QueueInv(q, k, i) ==
    /\ \A h \in DOMAIN q :
           /\ q[h].txs # {}
           /\ \A x \in q[h].txs : x \in 1 .. i /\ k \in P!Used(x)
           /\ q[h].op = "write" => \A x, y \in q[h].txs : x = y
           /\ q[h].op = "read" => \A x \in q[h].txs : k \notin txs[x].writes
    /\ \A x \in 1 .. i : k \in P!Used(x) => \E h \in DOMAIN q : x \in q[h].txs
    /\ \A g, h \in DOMAIN q : g < h => \A x \in q[g].txs : \A y \in q[h].txs : x < y

LEMMA EntryFacts ==
    /\ \A e \in Entries : e.op \in {"read", "write"} /\ e.txs \in SUBSET Nat
    /\ \A o \in {"read", "write"} : \A U \in SUBSET Nat :
           [op |-> o, txs |-> U] \in Entries
    /\ \A e \in Entries : \A U \in SUBSET Nat :
           [e EXCEPT !.txs = U] \in Entries /\ [e EXCEPT !.txs = U].txs = U /\ [e EXCEPT !.txs = U].op = e.op
BY DEF Entries

\* A new entry at the end of a queue.
LEMMA NewEntry ==
    ASSUME NEW q \in Seq(Entries), NEW k, NEW i \in Nat, QueueInv(q, k, i),
           k \in P!Used(i + 1), NEW o \in {"read", "write"},
           o = "read" => k \notin txs[i + 1].writes
    PROVE  LET r == Append(q, [op |-> o, txs |-> {i + 1}])
           IN  r \in Seq(Entries) /\ QueueInv(r, k, i + 1)
<1> DEFINE e == [op |-> o, txs |-> {i + 1}]
           r == Append(q, e)
<1>1. e \in Entries /\ e.op = o /\ e.txs = {i + 1}
  BY EntryFacts
<1> HIDE DEF e
<1>2. Len(q) \in Nat /\ DOMAIN q = 1 .. Len(q)
  BY LenProperties
<1>3. /\ r \in Seq(Entries) /\ DOMAIN r = 1 .. Len(q) + 1
      /\ \A h \in 1 .. Len(q) : r[h] = q[h]
      /\ r[Len(q) + 1] = e
  BY <1>1, <1>2, AppendProperties, LenProperties
<1> HIDE DEF r
<1>4. \A h \in DOMAIN r :
          /\ r[h].txs # {}
          /\ \A x \in r[h].txs : x \in 1 .. i + 1 /\ k \in P!Used(x)
          /\ r[h].op = "write" => \A x, y \in r[h].txs : x = y
          /\ r[h].op = "read" => \A x \in r[h].txs : k \notin txs[x].writes
  <2>1. SUFFICES ASSUME NEW h \in DOMAIN r
                 PROVE  /\ r[h].txs # {}
                        /\ \A x \in r[h].txs : x \in 1 .. i + 1 /\ k \in P!Used(x)
                        /\ r[h].op = "write" => \A x, y \in r[h].txs : x = y
                        /\ r[h].op = "read" => \A x \in r[h].txs : k \notin txs[x].writes
    OBVIOUS
  <2>2. CASE h = Len(q) + 1
    BY <1>1, <1>3, <2>2
  <2>3. CASE h # Len(q) + 1
    <3>1. h \in DOMAIN q /\ r[h] = q[h]
      BY <1>2, <1>3, <2>3
    <3> QED
      BY <3>1 DEF QueueInv
  <2> QED
    BY <2>2, <2>3
<1>5. ASSUME NEW x \in 1 .. i + 1, k \in P!Used(x)
      PROVE  \E h \in DOMAIN r : x \in r[h].txs
  <2>1. CASE x = i + 1
    BY <1>1, <1>2, <1>3, <2>1
  <2>2. CASE x # i + 1
    <3>1. PICK h \in DOMAIN q : x \in q[h].txs
      BY <1>5, <2>2 DEF QueueInv
    <3> QED
      BY <1>2, <1>3, <3>1
  <2> QED
    BY <2>1, <2>2
<1>6. ASSUME NEW g \in DOMAIN r, NEW h \in DOMAIN r, g < h, NEW x \in r[g].txs, NEW y \in r[h].txs
      PROVE  x < y
  <2>1. g \in DOMAIN q /\ r[g] = q[g]
    BY <1>2, <1>3, <1>6
  <2>2. CASE h = Len(q) + 1
    <3>1. y = i + 1
      BY <1>1, <1>3, <2>2
    <3>2. x \in 1 .. i
      BY <2>1 DEF QueueInv
    <3> QED
      BY <3>1, <3>2
  <2>3. CASE h # Len(q) + 1
    <3>1. h \in DOMAIN q /\ r[h] = q[h]
      BY <1>2, <1>3, <2>3
    <3> QED
      BY <1>6, <2>1, <3>1 DEF QueueInv
  <2> QED
    BY <2>2, <2>3
<1>7. QueueInv(r, k, i + 1)
  BY <1>4, <1>5, <1>6 DEF QueueInv
<1> QED
  BY <1>3, <1>7 DEF r, e

\* A reader that joins the last entry.
LEMMA SharedEntry ==
    ASSUME NEW q \in Seq(Entries), NEW k, NEW i \in Nat, QueueInv(q, k, i),
           k \in P!Used(i + 1), k \notin txs[i + 1].writes,
           q # <<>>, q[Len(q)].op = "read"
    PROVE  LET r == [q EXCEPT ![Len(q)].txs = @ \cup {i + 1}]
           IN  r \in Seq(Entries) /\ QueueInv(r, k, i + 1)
<1> DEFINE n == Len(q)
           r == [q EXCEPT ![n].txs = @ \cup {i + 1}]
           e == [q[n] EXCEPT !.txs = @ \cup {i + 1}]
<1>1. n \in Nat /\ DOMAIN q = 1 .. n /\ n \in 1 .. n /\ \A h \in 1 .. n : q[h] \in Entries
  BY LenProperties, EmptySeq, ElementOfSeq
<1> HIDE DEF n
<1>2. e \in Entries /\ e.txs = q[n].txs \cup {i + 1} /\ e.op = "read"
  <2>1. q[n] \in Entries /\ q[n].txs \in SUBSET Nat /\ q[n].txs \cup {i + 1} \in SUBSET Nat
    BY <1>1, EntryFacts
  <2> QED
    BY <2>1, EntryFacts DEF n
<1> HIDE DEF e
<1>3. DOMAIN r = 1 .. n /\ r[n] = e /\ \A h \in 1 .. n : h # n => r[h] = q[h]
  BY <1>1 DEF e
<1>4. r \in Seq(Entries)
  <2>1. r = [q EXCEPT ![n] = e]
    BY DEF e
  <2> QED
    BY <1>1, <1>2, <2>1, ExceptSeq DEF n
<1> HIDE DEF r
<1>5. \A h \in DOMAIN r :
          /\ r[h].txs # {}
          /\ \A x \in r[h].txs : x \in 1 .. i + 1 /\ k \in P!Used(x)
          /\ r[h].op = "write" => \A x, y \in r[h].txs : x = y
          /\ r[h].op = "read" => \A x \in r[h].txs : k \notin txs[x].writes
  <2>1. SUFFICES ASSUME NEW h \in 1 .. n
                 PROVE  /\ r[h].txs # {}
                        /\ \A x \in r[h].txs : x \in 1 .. i + 1 /\ k \in P!Used(x)
                        /\ r[h].op = "write" => \A x, y \in r[h].txs : x = y
                        /\ r[h].op = "read" => \A x \in r[h].txs : k \notin txs[x].writes
    BY <1>3
  <2>0. /\ q[h].txs # {}
        /\ \A x \in q[h].txs : x \in 1 .. i /\ k \in P!Used(x)
        /\ q[h].op = "write" => \A x, y \in q[h].txs : x = y
        /\ q[h].op = "read" => \A x \in q[h].txs : k \notin txs[x].writes
    BY <1>1 DEF QueueInv
  <2>2. CASE h = n
    BY <1>2, <1>3, <2>0, <2>2 DEF n
  <2>3. CASE h # n
    BY <1>3, <2>0, <2>3
  <2> QED
    BY <2>2, <2>3
<1>6. ASSUME NEW x \in 1 .. i + 1, k \in P!Used(x)
      PROVE  \E h \in DOMAIN r : x \in r[h].txs
  <2>1. CASE x = i + 1
    BY <1>1, <1>2, <1>3, <2>1
  <2>2. CASE x # i + 1
    <3>1. PICK h \in DOMAIN q : x \in q[h].txs
      BY <1>6, <2>2 DEF QueueInv
    <3> QED
      BY <1>1, <1>2, <1>3, <3>1
  <2> QED
    BY <2>1, <2>2
<1>7. ASSUME NEW g \in DOMAIN r, NEW h \in DOMAIN r, g < h, NEW x \in r[g].txs, NEW y \in r[h].txs
      PROVE  x < y
  <2>1. g \in DOMAIN q /\ h \in DOMAIN q /\ r[g] = q[g]
    BY <1>1, <1>3, <1>7
  <2>2. CASE y \in q[h].txs
    BY <1>7, <2>1, <2>2 DEF QueueInv
  <2>3. CASE y \notin q[h].txs
    <3>1. y = i + 1
      BY <1>1, <1>2, <1>3, <2>1, <2>3
    <3>2. x \in 1 .. i
      BY <2>1 DEF QueueInv
    <3> QED
      BY <3>1, <3>2
  <2> QED
    BY <2>2, <2>3
<1>8. QueueInv(r, k, i + 1)
  BY <1>5, <1>6, <1>7 DEF QueueInv
<1> QED
  BY <1>4, <1>8 DEF r, n

\* What a transaction does to the queue of k.
QueueNext(q, k, t) ==
    IF k \in txs[t].writes THEN P!AppendWrite(q, t)
    ELSE IF k \in txs[t].reads THEN P!AppendRead(q, t)
    ELSE q

LEMMA QueueNextFacts ==
    ASSUME NEW q \in Seq(Entries), NEW k, NEW i \in Nat
    PROVE  /\ QueueNext(q, k, i + 1) \in Seq(Entries)
           /\ QueueInv(q, k, i) => QueueInv(QueueNext(q, k, i + 1), k, i + 1)
<1>1. CASE k \in txs[i + 1].writes
  <2> DEFINE e == [op |-> "write", txs |-> {i + 1}]
  <2>1. QueueNext(q, k, i + 1) = Append(q, e)
    BY <1>1 DEF QueueNext, P!AppendWrite
  <2>2. k \in P!Used(i + 1)
    BY <1>1 DEF P!Used
  <2>3. e \in Entries
    BY EntryFacts
  <2>4. Append(q, e) \in Seq(Entries)
    BY <2>3, AppendProperties
  <2> QED
    BY <2>1, <2>2, <2>4, NewEntry
<1>2. CASE k \notin txs[i + 1].writes /\ k \in txs[i + 1].reads
  <2> DEFINE e == [op |-> "read", txs |-> {i + 1}]
             joins == q # <<>> /\ q[Len(q)].op = "read"
  <2>1. QueueNext(q, k, i + 1) =
            IF joins THEN [q EXCEPT ![Len(q)].txs = @ \cup {i + 1}] ELSE Append(q, e)
    BY <1>2 DEF QueueNext, P!AppendRead, P!Last
  <2>2. k \in P!Used(i + 1)
    BY <1>2 DEF P!Used
  <2>3. e \in Entries
    BY EntryFacts
  <2>4. Append(q, e) \in Seq(Entries)
    BY <2>3, AppendProperties
  <2>5. CASE joins
    <3>1. QueueNext(q, k, i + 1) = [q EXCEPT ![Len(q)].txs = @ \cup {i + 1}]
      BY <2>1, <2>5
    <3> DEFINE last == [q[Len(q)] EXCEPT !.txs = @ \cup {i + 1}]
               r == [q EXCEPT ![Len(q)].txs = @ \cup {i + 1}]
    <3>2. Len(q) \in 1 .. Len(q) /\ q[Len(q)] \in Entries
      BY <2>5, LenProperties, EmptySeq, ElementOfSeq
    <3>3. q[Len(q)].txs \cup {i + 1} \in SUBSET Nat
      BY <3>2, EntryFacts
    <3>4. last \in Entries
      BY <3>2, <3>3, EntryFacts
    <3>5. r = [q EXCEPT ![Len(q)] = last]
      OBVIOUS
    <3> HIDE DEF last
    <3>6. [q EXCEPT ![Len(q)] = last] \in Seq(Entries)
      BY <3>2, <3>4, ExceptSeq
    <3>7. QueueInv(q, k, i) => QueueInv(r, k, i + 1)
      BY <1>2, <2>2, <2>5, SharedEntry
    <3> HIDE DEF r
    <3>8. r \in Seq(Entries)
      BY <3>5, <3>6
    <3> QED
      BY <3>1, <3>7, <3>8 DEF r
  <2>6. CASE ~joins
    <3>1. QueueNext(q, k, i + 1) = Append(q, e)
      BY <2>1, <2>6
    <3> QED
      BY <1>2, <2>2, <2>4, <3>1, NewEntry
  <2> QED
    BY <2>5, <2>6
<1>3. CASE k \notin txs[i + 1].writes /\ k \notin txs[i + 1].reads
  <2>1. QueueNext(q, k, i + 1) = q
    BY <1>3 DEF QueueNext
  <2>2. k \notin P!Used(i + 1)
    BY <1>3 DEF P!Used
  <2>3. QueueInv(q, k, i) => QueueInv(q, k, i + 1)
    <3>1. \A x \in 1 .. i + 1 : x = i + 1 \/ x \in 1 .. i
      OBVIOUS
    <3>2. \A x \in 1 .. i : x \in 1 .. i + 1
      OBVIOUS
    <3> QED
      BY <2>2, <3>1, <3>2 DEF QueueInv
  <2> QED
    BY <2>1, <2>3
<1> QED
  BY <1>1, <1>2, <1>3

LEMMA QueueFacts ==
    ASSUME Len(txs) \in Nat, NEW k
    PROVE  P!QueueOf(k) \in Seq(Entries) /\ QueueInv(P!QueueOf(k), k, Len(txs))
<1> DEFINE n == Len(txs)
           Values == Seq(Entries)
           Body(g) == [i \in 0 .. n |-> IF i = 0 THEN <<>>
                                        ELSE IF k \in txs[i].writes THEN P!AppendWrite(g[i - 1], i)
                                        ELSE IF k \in txs[i].reads THEN P!AppendRead(g[i - 1], i)
                                        ELSE g[i - 1]]
           f == CHOOSE g : g = Body(g)
           none == <<>>
           step == [x \in (1 .. n) \X Values |-> QueueNext(x[2], k, x[1])]
<1>1. n \in Nat
  OBVIOUS
<1>2. none \in Values
  OBVIOUS
<1>3. P!QueueOf(k) = f[n]
  BY DEF P!QueueOf
<1>4. step \in [(1 .. n) \X Values -> Values]
  <2>1. ASSUME NEW x \in (1 .. n) \X Values
        PROVE  QueueNext(x[2], k, x[1]) \in Values
    <3>1. x[2] \in Seq(Entries) /\ x[1] - 1 \in Nat /\ x[1] - 1 + 1 = x[1]
      OBVIOUS
    <3> QED
      BY <3>1, QueueNextFacts
  <2> QED
    BY <2>1
<1> HIDE DEF n, Values
<1>5. PICK g \in [0 .. n -> Values] : g[0] = none /\ \A i \in 1 .. n : g[i] = step[<<i, g[i - 1]>>]
  <2> HIDE DEF step, none
  <2>1. PICK g \in [0 .. n -> Values] : Follows(g, n, none, step)
    BY <1>1, <1>2, <1>4, StepByStep
  <2> QED
    BY <2>1 DEF Follows
<1>6. g = Body(g)
  <2>1. ASSUME NEW i \in 0 .. n
        PROVE  g[i] = IF i = 0 THEN <<>>
                      ELSE IF k \in txs[i].writes THEN P!AppendWrite(g[i - 1], i)
                      ELSE IF k \in txs[i].reads THEN P!AppendRead(g[i - 1], i)
                      ELSE g[i - 1]
    <3>1. CASE i = 0
      BY <1>5, <3>1
    <3>2. CASE i # 0
      <4>1. i \in 1 .. n /\ i - 1 \in 0 .. n /\ <<i, g[i - 1]>> \in (1 .. n) \X Values
        BY <1>1, <1>5, <3>2
      <4>2. g[i] = QueueNext(g[i - 1], k, i)
        BY <1>5, <4>1
      <4> QED
        BY <3>2, <4>2 DEF QueueNext
    <3> QED
      BY <3>1, <3>2
  <2> QED
    BY <1>5, <2>1
<1>7. f = Body(f)
  BY <1>6
<1> HIDE DEF f, step
<1> DEFINE Good == {m \in Nat : m <= n => f[m] \in Values /\ QueueInv(f[m], k, m)}
<1>8. 0 \in Good
  <2>1. f[0] = <<>>
    BY <1>1, <1>7
  <2>2. QueueInv(<<>>, k, 0)
    <3>1. DOMAIN << >> = {}
      OBVIOUS
    <3> QED
      BY <3>1 DEF QueueInv
  <2> QED
    BY <1>2, <2>1, <2>2
<1>9. ASSUME NEW m \in Good
      PROVE  m + 1 \in Good
  <2>1. SUFFICES ASSUME m + 1 <= n
                 PROVE  f[m + 1] \in Values /\ QueueInv(f[m + 1], k, m + 1)
    BY <1>9
  <2>2. m \in Nat /\ m \in 0 .. n /\ m + 1 \in 0 .. n /\ m + 1 # 0 /\ m + 1 - 1 = m
    BY <1>1, <1>9, <2>1
  <2>3. f[m] \in Values /\ QueueInv(f[m], k, m)
    BY <1>1, <1>9, <2>2
  <2>4. f[m + 1] = QueueNext(f[m], k, m + 1)
    BY <1>7, <2>2 DEF QueueNext
  <2> QED
    BY <2>2, <2>3, <2>4, QueueNextFacts DEF Values
<1> HIDE DEF Good
<1>10. Good = Nat
  <2>1. Good \in SUBSET Nat
    BY DEF Good
  <2> QED
    BY <1>8, <1>9, <2>1, AllNumbers
<1> QED
  BY <1>1, <1>3, <1>10 DEF Good, Values, n

\* The transactions before one in the queue of a key are closed under.
LEMMA PilotfishChained ==
    ASSUME Len(txs) \in Nat, DOMAIN txs = 1 .. Len(txs),
           edges = P!BuildDependencies, order = [i \in 1 .. Len(txs) |-> i]
    PROVE  Chained
<1> SUFFICES ASSUME NEW D \in SUBSET Members, Closed(D), NEW t \in D, NEW u \in Members,
                    CO!Before(u, t), CO!Conflict(u, t)
             PROVE  u \in D /\ u # t
  BY DEF Chained
<1>1. t \in 1 .. Len(txs) /\ u \in 1 .. Len(txs) /\ u < t
  BY DEF Members, CO!Before
<1>2. PICK k : /\ k \in P!Used(t) /\ k \in P!Used(u)
               /\ k \in txs[t].writes \/ k \in txs[u].writes
  BY DEF CO!Conflict, CO!Used, P!Used
<1> DEFINE q == P!QueueOf(k)
<1>3. q \in Seq(Entries) /\ QueueInv(q, k, Len(txs))
  BY QueueFacts
<1>4. k \in P!Keys
  BY <1>1, <1>2 DEF P!Keys, P!Txs
<1>5. \A i \in 1 .. Len(q) - 1 : \A x \in q[i].txs : \A y \in q[i + 1].txs :
          x \in Members /\ y \in Members => <<x, y>> \in edges
  BY <1>4 DEF P!BuildDependencies, P!Txs, Members
<1> HIDE DEF q
<1>6. Len(q) \in Nat /\ DOMAIN q = 1 .. Len(q) /\ \A h \in 1 .. Len(q) : q[h] \in Entries
  BY <1>3, LenProperties, ElementOfSeq
<1>7. \A h \in 1 .. Len(q) : \A x \in q[h].txs : x \in Members
  BY <1>3, <1>6 DEF QueueInv, Members
<1>8. PICK i \in 1 .. Len(q), j \in 1 .. Len(q) : u \in q[i].txs /\ t \in q[j].txs
  BY <1>1, <1>2, <1>3, <1>6 DEF QueueInv
<1>9. i < j
  <2>1. ~(j < i)
    <3>1. ASSUME j < i PROVE t < u
      BY <1>3, <1>6, <1>8, <3>1 DEF QueueInv
    <3> QED
      BY <1>1, <3>1
  <2>2. i # j
    <3>1. ASSUME i = j PROVE FALSE
      <4>1. q[i].op \in {"read", "write"}
        BY <1>6, EntryFacts
      <4>2. q[i].op = "write" => u = t
        BY <1>3, <1>6, <1>8, <3>1 DEF QueueInv
      <4>3. q[i].op = "read" => k \notin txs[u].writes /\ k \notin txs[t].writes
        BY <1>3, <1>6, <1>8, <3>1 DEF QueueInv
      <4> QED
        BY <1>1, <1>2, <4>1, <4>2, <4>3
    <3> QED
      BY <3>1
  <2> QED
    BY <1>8, <2>1, <2>2
<1> DEFINE Missing == {h \in 0 .. j - 1 : i <= h /\ \E x \in q[h].txs : x \notin D}
<1>10. Missing = {}
  <2>1. SUFFICES ASSUME Missing # {} PROVE FALSE
    OBVIOUS
  <2>2. Missing \in SUBSET (0 .. j - 1) /\ j - 1 \in Nat
    BY <1>8
  <2> HIDE DEF Missing
  <2>3. PICK h \in Missing : \A g \in Missing : g <= h
    BY <2>1, <2>2, GreatestOf
  <2>4. h \in 1 .. Len(q) - 1 /\ h + 1 \in 1 .. Len(q) /\ i <= h /\ h <= j - 1
    BY <1>6, <1>8, <1>9, <2>3 DEF Missing
  <2>5. PICK x \in q[h].txs : x \notin D
    BY <2>3 DEF Missing
  <2>6. \E y \in q[h + 1].txs : y \in D
    <3>1. CASE h = j - 1
      BY <1>8, <2>4, <3>1
    <3>2. CASE h # j - 1
      <4>1. h + 1 \in 0 .. j - 1 /\ i <= h + 1 /\ h + 1 \notin Missing
        BY <1>8, <2>2, <2>3, <2>4, <3>2
      <4>2. \A y \in q[h + 1].txs : y \in D
        BY <4>1 DEF Missing
      <4>3. q[h + 1].txs # {}
        BY <1>3, <1>6, <2>4 DEF QueueInv
      <4> QED
        BY <4>2, <4>3
    <3> QED
      BY <3>1, <3>2
  <2>7. PICK y \in q[h + 1].txs : y \in D
    BY <2>6
  <2>8. <<x, y>> \in edges /\ x \in Members
    BY <1>5, <1>6, <1>7, <2>4, <2>5, <2>7
  <2> QED
    BY <2>5, <2>7, <2>8 DEF Closed
<1>11. u \in D
  <2>1. i \in 0 .. j - 1
    BY <1>8, <1>9
  <2> QED
    BY <1>8, <1>10, <2>1
<1> QED
  BY <1>1, <1>11

-----------------------------------------------------------------------------
(* Pilotfish: its steps                                                    *)

LEMMA SchedulerCardinality ==
    \A U : /\ P!Cardinality(U) = Cardinality(U) /\ Q!Cardinality(U) = Cardinality(U)
           /\ T!Cardinality(U) = Cardinality(U)
BY DEF P!Cardinality, Q!Cardinality, T!Cardinality, Cardinality

\* A block in its own order.
LEMMA OwnOrder ==
    ASSUME Len(txs) \in Nat, DOMAIN txs = 1 .. Len(txs), order = [i \in 1 .. Len(txs) |-> i]
    PROVE  CO!IsOrder(order) /\ IsFiniteSet(Members) /\ 0 \notin Members
<1>1. IsFiniteSet(Members) /\ 0 \notin Members
  BY FS_Interval DEF Members
<1>2. order \in Seq(Nat) /\ Len(order) = Len(txs) /\ DOMAIN order = 1 .. Len(txs)
  OBVIOUS
<1> QED
  BY <1>1, <1>2 DEF CO!IsOrder, CO!Txs

LEMMA PilotfishInit ==
    ASSUME P!WorkloadsAssumption, P!Init
    PROVE  SchedInv(P!Workers) /\ CO!Init
<1> DEFINE queue == [t \in Members |-> P!SelectedWorker(t)]
<1>1. Len(txs) \in Nat /\ DOMAIN txs = 1 .. Len(txs)
  BY DEF P!Init, P!InitScheduler, P!WorkloadsAssumption
<1>2. CO!IsOrder(order) /\ IsFiniteSet(Members) /\ 0 \notin Members
  BY <1>1, OwnOrder DEF P!Init
<1>3. Chained
  BY <1>1, PilotfishChained DEF P!Init, P!InitPlan
<1>4. indegree = [t \in Members |-> Cardinality({u \in Members : <<u, t>> \in edges})]
  BY SchedulerCardinality DEF P!Init, P!InitPlan, P!Indegree, P!Txs, Members
<1>5. ready = [q \in P!Workers |-> {t \in Members : indegree[t] = 0 /\ queue[t] = q}]
  BY DEF P!Init, P!InitPlan, P!FirstReady, P!Txs, Members
<1>6. edges \subseteq Members \X Members
  BY DEF P!Init, P!InitPlan, P!BuildDependencies, P!Txs, Members
<1>7. Planned(P!Workers, queue)
  BY <1>2, <1>3, <1>4, <1>5, <1>6 DEF P!Init, P!InitScheduler, Planned
<1> QED
  BY <1>7, PlannedFacts

LEMMA PilotfishStep ==
    ASSUME P!NumWorkersAssumption, SchedInv(P!Workers), P!Next
    PROVE  SchedInv(P!Workers)' /\ (CO!Next \/ UNCHANGED CO!vars)
<1> DEFINE Goal == SchedInv(P!Workers)' /\ (CO!Next \/ UNCHANGED CO!vars)
<1>1. PICK w \in P!Workers : P!Worker(w)
  BY DEF P!Next
<1>2. RunningInv(P!Workers)
  BY DEF SchedInv
<1>3. CASE P!NextTx(w)
  <2>1. UNCHANGED <<txs, order, edges, indegree, completed>> /\ at[w] = "next"
    BY <1>3 DEF P!NextTx, P!NextFrom, P!planVars
  <2>2. CASE remaining = 0 \/ ready[w] = {}
    <3>1. /\ UNCHANGED <<ready, current>>
          /\ at' = [at EXCEPT ![w] = IF remaining = 0 THEN "end" ELSE "asleep"]
      BY <1>3, <2>2 DEF P!NextTx, P!NextFrom
    <3>2. at' \in [P!Workers -> Stages] /\ \A v \in P!Workers : Fits(at'[v], current[v])
      BY <1>2, <2>1, <3>1 DEF RunningInv, Fits, Stages
    <3> QED
      BY <2>1, <3>1, <3>2, StageStep
  <2>3. CASE ~(remaining = 0 \/ ready[w] = {})
    <3>1. PICK t \in ready[w] : /\ ready' = [ready EXCEPT ![w] = @ \ {t}]
                                /\ current' = [current EXCEPT ![w] = t]
                                /\ at' = [at EXCEPT ![w] = "run"]
      BY <1>3, <2>3 DEF P!NextTx, P!NextFrom
    <3> QED
      BY <2>1, <3>1, TakeStep
  <2> QED
    BY <2>2, <2>3
<1>4. CASE P!Execute(w)
  <2>1. /\ UNCHANGED <<txs, order, edges, indegree, ready, completed, current>>
        /\ at[w] = "run" /\ at' = [at EXCEPT ![w] = "complete"]
    BY <1>4 DEF P!Execute, P!planVars, P!schedulerVars
  <2>2. at' \in [P!Workers -> Stages] /\ \A v \in P!Workers : Fits(at'[v], current[v])
    BY <1>2, <2>1 DEF RunningInv, Fits, Stages
  <2> QED
    BY <2>1, <2>2, StageStep
<1>5. CASE P!Complete(w)
  <2> DEFINE queue == [u \in Members |-> P!SelectedWorker(u)]
  <2>1. Completes(P!Workers, w, queue)
    BY <1>5 DEF P!Complete, P!CompleteTx, P!Woken, P!Txs, P!planVars, Members, Completes
  <2> QED
    BY <2>1, CompleteStep
<1> QED
  BY <1>1, <1>3, <1>4, <1>5 DEF P!Worker

-----------------------------------------------------------------------------
(* QueCC: the planners' pieces of the block, and the queues of a range      *)

LEMMA ChunkStarts ==
    ASSUME Q!NumWorkersAssumption, Len(txs) \in Nat \ {0}
    PROVE  /\ Q!PlannerCount \in Nat \ {0}
           /\ \A p \in 0 .. Q!PlannerCount : Q!ChunkStart(p) \in Int
           /\ Q!ChunkStart(0) = 0 /\ Q!ChunkStart(Q!PlannerCount) = Len(txs)
           /\ \A p, q \in 0 .. Q!PlannerCount : p < q => Q!ChunkStart(p) <= Q!ChunkStart(q)
<1> DEFINE n == Len(txs)
           pc == Q!PlannerCount
           Start(p) == (p * n) \div pc
<1>1. pc \in Nat \ {0}
  BY DEF Q!PlannerCount, Q!NumWorkersAssumption
<1>2. \A p : Q!ChunkStart(p) = Start(p)
  BY DEF Q!ChunkStart
<1>3. n \in Nat \ {0}
  OBVIOUS
<1> HIDE DEF n, pc
<1>4. \A p \in 0 .. pc : p * n \in Int /\ Start(p) \in Int
                         /\ \E r \in 0 .. pc - 1 : p * n = Start(p) * pc + r
  <2>1. SUFFICES ASSUME NEW p \in 0 .. pc
                 PROVE  p * n \in Int /\ Start(p) \in Int
                        /\ \E r \in 0 .. pc - 1 : p * n = Start(p) * pc + r
    OBVIOUS
  <2> DEFINE a == p * n
  <2>2. a \in Int
    BY <1>1, <1>3
  <2> HIDE DEF a
  <2>3. a \div pc \in Int /\ a % pc \in 0 .. pc - 1 /\ a = (a \div pc) * pc + (a % pc)
    BY <1>1, <2>2, Division
  <2> QED
    BY <2>2, <2>3 DEF a
<1>5. Start(0) = 0
  <2>1. 0 * n = 0 /\ 0 * pc + 0 = 0 /\ 0 \in 0 .. pc - 1
    BY <1>1, <1>3
  <2>2. (0 * pc + 0) \div pc = 0
    BY <1>1, <2>1, DivisionUnique
  <2> QED
    BY <2>1, <2>2
<1>6. Start(pc) = n
  <2>1. pc * n = n * pc + 0 /\ 0 \in 0 .. pc - 1
    BY <1>1, <1>3
  <2>2. (n * pc + 0) \div pc = n
    BY <1>1, <1>3, <2>1, DivisionUnique
  <2> QED
    BY <2>1, <2>2
<1>7. ASSUME NEW p \in 0 .. pc, NEW q \in 0 .. pc, p < q
      PROVE  Start(p) <= Start(q)
  <2> DEFINE c == Start(p)
             d == Start(q)
             a == p * n
             b == q * n
  <2>1. PICK r \in 0 .. pc - 1, s \in 0 .. pc - 1 :
            a \in Int /\ b \in Int /\ c \in Int /\ d \in Int /\ a = c * pc + r /\ b = d * pc + s
    BY <1>4
  <2>2. a + n <= b
    BY <1>1, <1>3, <1>7, Multiples
  <2> HIDE DEF a, b, c, d
  <2>3. SUFFICES ASSUME d < c PROVE FALSE
    BY <2>1 DEF c, d
  <2>4. d * pc \in Int /\ c * pc \in Int /\ d * pc + pc <= c * pc
    BY <1>1, <2>1, <2>3, Multiples
  <2> QED
    BY <1>1, <1>3, <2>1, <2>2, <2>4
<1> HIDE DEF Start
<1> QED
  BY <1>1, <1>2, <1>4, <1>5, <1>6, <1>7 DEF n, pc

\* Every transaction is in one piece, and the pieces are in the block's order.
LEMMA Chunks ==
    ASSUME Q!NumWorkersAssumption, Len(txs) \in Nat \ {0}
    PROVE  /\ Q!Planners \subseteq Nat
           /\ \A x \in 1 .. Len(txs) : \E p \in Q!Planners : x \in Q!Chunk(p)
           /\ \A p \in Q!Planners : Q!Chunk(p) \subseteq 1 .. Len(txs)
           /\ \A p, q \in Q!Planners : p < q =>
                  \A x \in Q!Chunk(p) : \A y \in Q!Chunk(q) : x < y
<1> DEFINE pc == Q!PlannerCount
           Start(p) == Q!ChunkStart(p)
<1>1. /\ pc \in Nat \ {0}
      /\ \A p \in 0 .. pc : Start(p) \in Int
      /\ Start(0) = 0 /\ Start(pc) = Len(txs)
      /\ \A p, q \in 0 .. pc : p < q => Start(p) <= Start(q)
  BY ChunkStarts
<1>2. \A p : Q!Chunk(p) = Start(p) + 1 .. Start(p + 1)
  BY DEF Q!Chunk
<1>3. Q!Planners = 0 .. pc - 1
  BY DEF Q!Planners
<1> HIDE DEF pc, Start
<1>4. ASSUME NEW x \in 1 .. Len(txs)
      PROVE  \E p \in Q!Planners : x \in Q!Chunk(p)
  <2> DEFINE Behind == {p \in Nat : p \in 1 .. pc /\ x <= Start(p)}
  <2>1. pc \in Behind
    BY <1>1
  <2>2. PICK m \in Behind : \A p \in Behind : m <= p
    BY <2>1, LeastOf
  <2>3. m \in 1 .. pc /\ x <= Start(m) /\ m - 1 \in 0 .. pc - 1 /\ m - 1 + 1 = m
    BY <1>1
  <2>4. Start(m - 1) < x
    <3>1. CASE m - 1 = 0
      BY <1>1, <3>1
    <3>2. CASE m - 1 # 0
      <4>1. m - 1 \in 1 .. pc /\ m - 1 \in Nat /\ m - 1 \notin Behind
        BY <1>1, <2>2, <2>3, <3>2
      <4>2. Start(m - 1) \in Int
        BY <1>1, <4>1
      <4> QED
        BY <4>1, <4>2
    <3> QED
      BY <3>1, <3>2
  <2>5. Start(m - 1) \in Int /\ Start(m) \in Int
    BY <1>1, <2>3
  <2>6. x \in Q!Chunk(m - 1)
    BY <1>2, <2>3, <2>4, <2>5
  <2> QED
    BY <1>3, <2>3, <2>6
<1>5. ASSUME NEW p \in Q!Planners, NEW x \in Q!Chunk(p)
      PROVE  x \in 1 .. Len(txs)
  <2>0. p \in 0 .. pc /\ p + 1 \in 0 .. pc
    BY <1>1, <1>3
  <2>1. x \in Start(p) + 1 .. Start(p + 1)
    BY <1>2
  <2>2. 0 <= Start(p) /\ Start(p + 1) <= Len(txs)
    <3>1. 0 < p => Start(0) <= Start(p)
      BY <1>1, <2>0
    <3>2. p + 1 < pc => Start(p + 1) <= Start(pc)
      BY <1>1, <2>0
    <3> QED
      BY <1>1, <2>0, <3>1, <3>2
  <2> QED
    BY <1>1, <2>0, <2>1, <2>2
<1>6. ASSUME NEW p \in Q!Planners, NEW q \in Q!Planners, p < q,
             NEW x \in Q!Chunk(p), NEW y \in Q!Chunk(q)
      PROVE  x < y
  <2>0. p + 1 \in 0 .. pc /\ q \in 0 .. pc /\ p + 1 <= q /\ q + 1 \in 0 .. pc
    BY <1>1, <1>3, <1>6
  <2>1. x \in Start(p) + 1 .. Start(p + 1) /\ y \in Start(q) + 1 .. Start(q + 1)
    BY <1>2
  <2>2. Start(p + 1) <= Start(q)
    BY <1>1, <2>0
  <2>3. Start(p + 1) \in Int /\ Start(q) \in Int /\ Start(q + 1) \in Int
    BY <1>1, <2>0
  <2> QED
    BY <2>1, <2>2, <2>3
<1>7. Q!Planners \subseteq Nat
  BY <1>1, <1>3
<1> QED
  BY <1>4, <1>5, <1>6, <1>7

\* A transaction depends on the one before it in a range.
LEMMA Neighbours ==
    ASSUME Q!NumWorkersAssumption, Len(txs) \in Nat, DOMAIN txs = 1 .. Len(txs),
           NEW r \in Q!Ranges, NEW x \in Members, NEW y \in Members, y < x,
           r \in Q!RangeIDs(x), r \in Q!RangeIDs(y),
           \A v \in Members : r \in Q!RangeIDs(v) => v <= y \/ x <= v
    PROVE  <<y, x>> \in Q!BuildDependencies
<1>1. Len(txs) \in Nat \ {0} /\ x \in 1 .. Len(txs) /\ y \in 1 .. Len(txs)
  BY DEF Members
<1>2. /\ Q!Planners \subseteq Nat
      /\ \A p \in Q!Planners : Q!Chunk(p) \subseteq 1 .. Len(txs)
      /\ \A p, q \in Q!Planners : p < q => \A a \in Q!Chunk(p) : \A b \in Q!Chunk(q) : a < b
  BY <1>1, Chunks
<1>3. PICK p \in Q!Planners, q \in Q!Planners : y \in Q!Chunk(p) /\ x \in Q!Chunk(q)
  BY <1>1, Chunks
<1>4. y \in Q!Queue(p, r) /\ x \in Q!Queue(q, r)
  BY <1>3 DEF Q!Queue
<1>5. \A o : \A v \in Q!Queue(o, r) : v \in Q!Chunk(o) /\ r \in Q!RangeIDs(v)
  BY DEF Q!Queue
<1>6. \A o \in Q!Planners : \A v \in Q!Queue(o, r) : v \in 1 .. Len(txs) /\ (v <= y \/ x <= v)
  BY <1>2, <1>5 DEF Members
<1>7. ~(q < p)
  <2>1. ASSUME q < p PROVE x < y
    BY <1>2, <1>3, <2>1
  <2> QED
    BY <1>1, <2>1
<1>8. CASE p = q
  <2>1. Q!FollowsIn(p, r, y, x)
    BY <1>4, <1>6, <1>8 DEF Q!FollowsIn
  <2> QED
    BY <1>3, <2>1 DEF Q!BuildDependencies, Q!Txs, Members
<1>9. CASE p < q
  <2>1. \A v \in Q!Queue(q, r) : x <= v
    <3>1. SUFFICES ASSUME NEW v \in Q!Queue(q, r) PROVE x <= v
      OBVIOUS
    <3>2. y < v
      BY <1>2, <1>3, <1>5, <1>9
    <3> QED
      BY <1>1, <1>6, <3>2
  <2>2. \A v \in Q!Queue(p, r) : v <= y
    <3>1. SUFFICES ASSUME NEW v \in Q!Queue(p, r) PROVE v <= y
      OBVIOUS
    <3>2. v < x
      BY <1>2, <1>3, <1>5, <1>9
    <3> QED
      BY <1>1, <1>6, <3>2
  <2>3. p \in Q!Predecessor(q, r)
    <3>1. SUFFICES ASSUME NEW o \in Q!Planners, o < q, Q!Queue(o, r) # {}, ~(o <= p)
                   PROVE  FALSE
      BY <1>4, <1>9 DEF Q!Predecessor
    <3>2. PICK v \in Q!Queue(o, r) : TRUE
      BY <3>1
    <3>3. p < o
      BY <1>2, <3>1
    <3>4. y < v /\ v < x
      BY <1>2, <1>3, <1>5, <3>1, <3>3
    <3> QED
      BY <1>1, <1>6, <3>4
  <2>4. Q!FollowsBetween(q, r, y, x)
    BY <1>4, <2>1, <2>2, <2>3 DEF Q!FollowsBetween
  <2> QED
    BY <1>3, <2>4 DEF Q!BuildDependencies, Q!Txs, Members
<1> QED
  BY <1>2, <1>7, <1>8, <1>9

LEMMA QueCCChained ==
    ASSUME Q!NumWorkersAssumption, Len(txs) \in Nat, DOMAIN txs = 1 .. Len(txs),
           \A t \in DOMAIN txs : Q!Used(t) \subseteq Nat,
           edges = Q!BuildDependencies, order = [i \in 1 .. Len(txs) |-> i]
    PROVE  Chained
<1> SUFFICES ASSUME NEW D \in SUBSET Members, Closed(D), NEW t \in D, NEW u \in Members,
                    CO!Before(u, t), CO!Conflict(u, t)
             PROVE  u \in D /\ u # t
  BY DEF Chained
<1>1. t \in 1 .. Len(txs) /\ u \in 1 .. Len(txs) /\ u < t
  BY DEF Members, CO!Before
<1>2. PICK k : k \in Q!Used(t) /\ k \in Q!Used(u)
  BY DEF CO!Conflict, CO!Used, Q!Used
<1> DEFINE r == Q!KeyToRange(k)
<1>3. r \in Q!Ranges
  <2>1. k \in Nat
    BY <1>1, <1>2
  <2> QED
    BY <2>1 DEF Q!Ranges, Q!Workers, Q!KeyToRange, Q!NumWorkersAssumption
<1>4. r \in Q!RangeIDs(t) /\ r \in Q!RangeIDs(u)
  BY <1>2 DEF Q!RangeIDs
<1> HIDE DEF r
<1> DEFINE Behind == {v \in Nat : v \in D /\ u < v /\ r \in Q!RangeIDs(v)}
<1>5. PICK x \in Behind : \A v \in Behind : x <= v
  <2>1. t \in Behind
    BY <1>1, <1>4
  <2> QED
    BY <2>1, LeastOf
<1> DEFINE Ahead == {v \in 0 .. Len(txs) : v \in Members /\ v < x /\ r \in Q!RangeIDs(v)}
<1>6. PICK y \in Ahead : \A v \in Ahead : v <= y
  <2>1. u \in Ahead
    BY <1>1, <1>4, <1>5
  <2>2. Ahead \in SUBSET (0 .. Len(txs)) /\ Ahead # {}
    BY <2>1
  <2> HIDE DEF Ahead
  <2> QED
    BY <2>2, GreatestOf
<1>7. x \in Members /\ y \in Members /\ y < x /\ u <= y
      /\ x \in 1 .. Len(txs) /\ y \in 1 .. Len(txs)
  <2>1. u \in Ahead
    BY <1>1, <1>4, <1>5
  <2> QED
    BY <1>5, <1>6, <2>1 DEF Members
<1>8. \A v \in Members : r \in Q!RangeIDs(v) => v <= y \/ x <= v
  BY <1>6, <1>7 DEF Members
<1>9. <<y, x>> \in edges
  BY <1>3, <1>5, <1>6, <1>7, <1>8, Neighbours
<1>10. y \in D
  BY <1>5, <1>7, <1>9 DEF Closed
<1>11. y = u
  <2>1. ~(u < y)
    <3>1. ASSUME u < y PROVE y \in Behind
      BY <1>6, <1>7, <1>10, <3>1
    <3> QED
      BY <1>5, <1>7, <3>1
  <2> QED
    BY <1>1, <1>7, <2>1
<1> QED
  BY <1>1, <1>10, <1>11

-----------------------------------------------------------------------------
(* QueCC: its steps                                                        *)

\* The transactions that have been executed.
Executed == completed \cup {current[w] : w \in {v \in DOMAIN current : at[v] = "complete"}}

\* The last writer of a key is the last of those executed.
LastWriterInv ==
    /\ lastWriter \in [Q!Keys -> {0} \cup Members]
    /\ \A k \in Q!Keys :
           /\ lastWriter[k] # 0 => lastWriter[k] \in Executed /\ k \in txs[lastWriter[k]].writes
           /\ \A t \in Executed : k \in txs[t].writes => t <= lastWriter[k]

QueCCIInv ==
    /\ Len(txs) \in Nat /\ DOMAIN txs = 1 .. Len(txs)
    /\ order = [i \in 1 .. Len(txs) |-> i]
    /\ SchedInv(Q!Workers)
    /\ LastWriterInv
    /\ Q!QueCCUndoExact

LEMMA QueCCInit ==
    ASSUME Q!NumWorkersAssumption, Q!WorkloadsAssumption, Q!Init
    PROVE  QueCCIInv /\ CO!Init
<1> DEFINE queue == [t \in Members |-> Q!CommonQueue(t)]
<1>1. /\ Len(txs) \in Nat /\ DOMAIN txs = 1 .. Len(txs)
      /\ order = [i \in 1 .. Len(txs) |-> i]
      /\ \A t \in DOMAIN txs : Q!Used(t) \subseteq Nat
  BY DEF Q!Init, Q!InitScheduler, Q!WorkloadsAssumption, Q!Used
<1>2. CO!IsOrder(order) /\ IsFiniteSet(Members) /\ 0 \notin Members
  BY <1>1, OwnOrder
<1>3. Chained
  BY <1>1, QueCCChained DEF Q!Init, Q!InitPlan
<1>4. indegree = [t \in Members |-> Cardinality({u \in Members : <<u, t>> \in edges})]
  BY SchedulerCardinality DEF Q!Init, Q!InitPlan, Q!Indegree, Q!Txs, Members
<1>5. ready = [q \in Q!Workers |-> {t \in Members : indegree[t] = 0 /\ queue[t] = q}]
  BY DEF Q!Init, Q!InitPlan, Q!FirstReady, Q!Txs, Members
<1>6. edges \subseteq Members \X Members
  BY DEF Q!Init, Q!InitPlan, Q!BuildDependencies, Q!Txs, Members
<1>7. Planned(Q!Workers, queue)
  BY <1>2, <1>3, <1>4, <1>5, <1>6 DEF Q!Init, Q!InitScheduler, Planned
<1>8. SchedInv(Q!Workers) /\ CO!Init
  BY <1>7, PlannedFacts
<1>9. Executed = {}
  BY DEF Q!Init, Q!InitScheduler, Executed
<1>10. LastWriterInv
  BY <1>9 DEF Q!Init, LastWriterInv
<1>11. Q!QueCCUndoExact
  BY DEF Q!Init, Q!QueCCUndoExact
<1> QED
  BY <1>1, <1>8, <1>10, <1>11 DEF QueCCIInv

\* When a transaction runs, of those that conflict with it the earlier ones have
\* completed and the later ones have not been executed.
LEMMA RunsInOrder ==
    ASSUME QueCCIInv, NEW t \in Running, NEW u \in Members, CO!Conflict(u, t) \/ CO!Conflict(t, u)
    PROVE  /\ u < t => u \in completed
           /\ t < u => u \notin completed \cup Running
<1>1. /\ \A x, y \in Members : x < y => CO!Before(x, y)
      /\ CO!Conflict(u, t) /\ CO!Conflict(t, u)
  <2>1. ASSUME NEW x \in Members, NEW y \in Members, x < y
        PROVE  CO!Before(x, y)
    <3>1. x \in DOMAIN order /\ y \in DOMAIN order /\ order[x] = x /\ order[y] = y
      BY DEF QueCCIInv, Members
    <3> QED
      BY <2>1, <3>1 DEF CO!Before
  <2> QED
    BY <2>1 DEF CO!Conflict, CO!Used
<1>2. t \in Members /\ t \notin completed
  BY DEF QueCCIInv, SchedInv, RunningInv, Running
<1>3. Closed(completed) /\ \A x \in Running : Closed(completed \cup {x})
  BY DEF QueCCIInv, SchedInv, RunningInv, CompletedInv, Closed, Unmet
<1>4. completed \in SUBSET Members /\ \A x \in Running : x \in Members
  BY DEF QueCCIInv, SchedInv, RunningInv, CompletedInv, Running
<1>5. Chained
  BY DEF QueCCIInv, SchedInv, OrderInv
<1>6. ASSUME u < t
      PROVE  u \in completed
  <2>1. completed \cup {t} \in SUBSET Members
    BY <1>2, <1>4
  <2>2. CO!Before(u, t)
    BY <1>1, <1>2, <1>6
  <2>3. u \in completed \cup {t} /\ u # t
    BY <1>1, <1>3, <1>5, <2>1, <2>2 DEF Chained
  <2> QED
    BY <2>3
<1>7. ASSUME t < u
      PROVE  u \notin completed \cup Running
  <2>1. CO!Before(t, u)
    BY <1>1, <1>2, <1>7
  <2>2. u \notin completed
    BY <1>1, <1>2, <1>3, <1>4, <1>5, <2>1 DEF Chained
  <2>3. ASSUME u \in Running PROVE FALSE
    <3>1. completed \cup {u} \in SUBSET Members
      BY <1>4
    <3>2. t \in completed \cup {u} /\ t # u
      BY <1>1, <1>2, <1>3, <1>5, <2>1, <2>3, <3>1 DEF Chained
    <3> QED
      BY <1>2, <3>2
  <2> QED
    BY <2>2, <2>3
<1> QED
  BY <1>6, <1>7

LEMMA SameUndo ==
    ASSUME QueCCIInv, SchedInv(Q!Workers)', Executed' = Executed,
           UNCHANGED <<txs, order, lastWriter, undoLog>>
    PROVE  QueCCIInv'
<1>1. Members' = Members /\ Q!Keys' = Q!Keys /\ Q!Txs' = Q!Txs
  BY DEF Members, Q!Keys, Q!Used, Q!Txs
<1>2. LastWriterInv'
  BY <1>1 DEF QueCCIInv, LastWriterInv
<1>3. Q!QueCCUndoExact'
  BY <1>1 DEF QueCCIInv, Q!QueCCUndoExact
<1> QED
  BY <1>2, <1>3 DEF QueCCIInv

LEMMA QueCCExecute ==
    ASSUME QueCCIInv, NEW w \in Q!Workers, Q!Execute(w)
    PROVE  QueCCIInv' /\ UNCHANGED CO!vars
<1>1. /\ UNCHANGED <<txs, order, edges, indegree, ready, completed, current>>
      /\ at[w] = "run" /\ at' = [at EXCEPT ![w] = "complete"]
  BY DEF Q!Execute, Q!planVars, Q!schedulerVars
<1>2. RunningInv(Q!Workers)
  BY DEF QueCCIInv, SchedInv
<1>3. at' \in [Q!Workers -> Stages] /\ \A v \in Q!Workers : Fits(at'[v], current[v])
  BY <1>1, <1>2 DEF RunningInv, Fits, Stages
<1>4. SchedInv(Q!Workers)' /\ UNCHANGED CO!vars
  BY <1>1, <1>3, StageStep DEF QueCCIInv
<1>5. PICK t : t = current[w]
  OBVIOUS
<1>6. /\ lastWriter' = [k \in Q!Keys |-> IF k \in txs[t].writes THEN t ELSE lastWriter[k]]
      /\ undoLog' = undoLog \cup {[tx |-> t, key |-> k, before |-> lastWriter[k]] : k \in txs[t].writes}
  BY <1>5 DEF Q!Execute
<1>7. t \in Members /\ t \in Running /\ t \in Nat
  BY <1>1, <1>2, <1>5 DEF RunningInv, Fits, Running, QueCCIInv, Members
<1>8. Executed' = Executed \cup {t}
  BY <1>1, <1>2, <1>5 DEF RunningInv, Executed
<1>9. Executed \subseteq Members /\ Executed \subseteq completed \cup Running /\ t \notin Executed
  <2>1. \A v \in Q!Workers : at[v] = "complete" => current[v] # 0 /\ current[v] # t
    BY <1>1, <1>2, <1>5 DEF RunningInv, Fits
  <2>2. DOMAIN current = Q!Workers /\ t \notin completed
    BY <1>2, <1>7 DEF RunningInv
  <2>3. completed \cup Running \subseteq Members
    BY <1>2 DEF QueCCIInv, SchedInv, RunningInv, CompletedInv, Running
  <2>4. Executed \subseteq completed \cup Running
    BY <2>1, <2>2 DEF Executed, Running
  <2>5. t \notin Executed
    BY <2>1, <2>2 DEF Executed
  <2> QED
    BY <2>3, <2>4, <2>5
<1>10. \A k \in txs[t].writes : k \in Q!Keys
  BY <1>7 DEF Q!Keys, Q!Used, Q!Txs, Members
<1>11. \A k \in txs[t].writes : \A u \in Members :
           k \in txs[u].writes => CO!Conflict(u, t)
  BY DEF CO!Conflict, CO!Used
<1>12. \A k \in txs[t].writes : \A u \in Executed : k \in txs[u].writes => u < t
  <2>1. SUFFICES ASSUME NEW k \in txs[t].writes, NEW u \in Executed, k \in txs[u].writes
                 PROVE  u < t
    OBVIOUS
  <2>2. u \in Members /\ u # t /\ u \in completed \cup Running /\ u \in Nat
    BY <1>9 DEF QueCCIInv, Members
  <2>3. ~(t < u)
    BY <1>7, <1>11, <2>1, <2>2, RunsInOrder
  <2> QED
    BY <1>7, <2>2, <2>3
<1>13. LastWriterInv'
  <2>1. Members' = Members /\ Q!Keys' = Q!Keys
    BY <1>1 DEF Members, Q!Keys, Q!Used, Q!Txs
  <2>2. lastWriter' \in [Q!Keys -> {0} \cup Members]
    BY <1>6, <1>7 DEF QueCCIInv, LastWriterInv
  <2>3. ASSUME NEW k \in Q!Keys
        PROVE  /\ lastWriter'[k] # 0 => lastWriter'[k] \in Executed' /\ k \in txs[lastWriter'[k]].writes
               /\ \A u \in Executed' : k \in txs[u].writes => u <= lastWriter'[k]
    <3>1. CASE k \in txs[t].writes
      <4>1. lastWriter'[k] = t
        BY <1>6, <3>1
      <4>2. \A u \in Executed' : k \in txs[u].writes => u <= t
        BY <1>7, <1>8, <1>9, <1>12, <3>1 DEF QueCCIInv, Members
      <4> QED
        BY <1>8, <3>1, <4>1, <4>2
    <3>2. CASE k \notin txs[t].writes
      <4>1. lastWriter'[k] = lastWriter[k]
        BY <1>6, <3>2
      <4> QED
        BY <1>8, <3>2, <4>1 DEF QueCCIInv, LastWriterInv
    <3> QED
      BY <3>1, <3>2
  <2> QED
    BY <1>1, <2>1, <2>2, <2>3 DEF LastWriterInv
<1>14. Q!QueCCUndoExact'
  <2>1. Q!Txs' = Q!Txs /\ Q!Txs = Members
    BY <1>1 DEF Q!Txs, Members
  <2>2. SUFFICES ASSUME NEW e \in undoLog'
                 PROVE  LET writers == {0} \cup {u \in Members : u < e.tx /\ e.key \in txs[u].writes}
                        IN  e.before \in writers /\ \A u \in writers : u <= e.before
    BY <1>1, <2>1 DEF Q!QueCCUndoExact
  <2>3. CASE e \in undoLog
    BY <2>1, <2>3 DEF QueCCIInv, Q!QueCCUndoExact
  <2>4. CASE e \notin undoLog
    <3>1. PICK k \in txs[t].writes : e.tx = t /\ e.key = k /\ e.before = lastWriter[k]
      BY <1>6, <2>4
    <3>2. lastWriter[k] \in {0} \cup Members /\ lastWriter[k] \in Nat
      BY <1>10 DEF QueCCIInv, LastWriterInv, Members
    <3>3. lastWriter[k] # 0 => lastWriter[k] < t /\ k \in txs[lastWriter[k]].writes
      BY <1>10, <1>12 DEF QueCCIInv, LastWriterInv
    <3>4. ASSUME NEW u \in Members, u < t, k \in txs[u].writes
          PROVE  u <= lastWriter[k]
      <4>1. u \in completed
        BY <1>7, <1>11, <3>4, RunsInOrder
      <4>2. u \in Executed
        BY <4>1 DEF Executed
      <4> QED
        BY <1>10, <3>4, <4>2 DEF QueCCIInv, LastWriterInv
    <3> QED
      BY <3>1, <3>2, <3>3, <3>4
  <2> QED
    BY <2>3, <2>4
<1>15. UNCHANGED <<txs, order>>
  BY <1>1
<1> QED
  BY <1>4, <1>13, <1>14, <1>15 DEF QueCCIInv

LEMMA QueCCStep ==
    ASSUME Q!NumWorkersAssumption, QueCCIInv, Q!Next
    PROVE  QueCCIInv' /\ (CO!Next \/ UNCHANGED CO!vars)
<1>1. RunningInv(Q!Workers) /\ SchedInv(Q!Workers)
  BY DEF QueCCIInv, SchedInv
<1>2. ASSUME NEW w \in Q!Workers, Q!NextTx(w)
      PROVE  QueCCIInv' /\ (CO!Next \/ UNCHANGED CO!vars)
  <2>1. /\ UNCHANGED <<txs, order, edges, indegree, completed, lastWriter, undoLog>>
        /\ at[w] = "next"
    BY <1>2 DEF Q!NextTx, Q!NextFrom, Q!planVars, Q!runtimeVars
  <2>2. CASE remaining = 0 \/ ready[0] = {}
    <3>1. /\ UNCHANGED <<ready, current>>
          /\ at' = [at EXCEPT ![w] = IF remaining = 0 THEN "end" ELSE "asleep"]
      BY <1>2, <2>2 DEF Q!NextTx, Q!NextFrom
    <3>2. at' \in [Q!Workers -> Stages] /\ \A v \in Q!Workers : Fits(at'[v], current[v])
      BY <1>1, <2>1, <3>1 DEF RunningInv, Fits, Stages
    <3>3. SchedInv(Q!Workers)' /\ UNCHANGED CO!vars
      BY <1>1, <2>1, <3>1, <3>2, StageStep
    <3>4. Executed' = Executed
      BY <1>1, <2>1, <3>1 DEF Executed, RunningInv
    <3> QED
      BY <2>1, <3>3, <3>4, SameUndo
  <2>3. CASE ~(remaining = 0 \/ ready[0] = {})
    <3>1. PICK t \in ready[0] : /\ ready' = [ready EXCEPT ![0] = @ \ {t}]
                                /\ current' = [current EXCEPT ![w] = t]
                                /\ at' = [at EXCEPT ![w] = "run"]
      BY <1>2, <2>3 DEF Q!NextTx, Q!NextFrom
    <3>2. 0 \in Q!Workers
      BY DEF Q!Workers, Q!NumWorkersAssumption
    <3>3. SchedInv(Q!Workers)' /\ CO!Next
      BY <1>1, <2>1, <3>1, <3>2, TakeStep
    <3>4. Executed' = Executed
      BY <1>1, <2>1, <3>1 DEF Executed, RunningInv
    <3> QED
      BY <2>1, <3>3, <3>4, SameUndo
  <2> QED
    BY <2>2, <2>3
<1>3. ASSUME NEW w \in Q!Workers, Q!Complete(w)
      PROVE  QueCCIInv' /\ (CO!Next \/ UNCHANGED CO!vars)
  <2> DEFINE queue == [u \in Members |-> Q!CommonQueue(u)]
  <2>1. Completes(Q!Workers, w, queue)
    BY <1>3 DEF Q!Complete, Q!CompleteTx, Q!Woken, Q!Txs, Q!planVars, Members, Completes
  <2>2. SchedInv(Q!Workers)' /\ CO!Next
    BY <1>1, <2>1, CompleteStep
  <2>3. /\ at[w] = "complete"
        /\ at' = [v \in Q!Workers |-> IF v = w THEN "next" ELSE IF at[v] = "asleep" THEN "next" ELSE at[v]]
        /\ completed' = completed \cup {current[w]}
        /\ current' = [current EXCEPT ![w] = 0]
        /\ UNCHANGED <<txs, order>>
    BY <2>1 DEF Completes
  <2>4. Executed' = Executed
    <3>1. \A v \in Q!Workers : /\ at'[v] = "complete" <=> (v # w /\ at[v] = "complete")
                               /\ v # w => current'[v] = current[v]
      BY <1>1, <2>3 DEF RunningInv
    <3>2. DOMAIN current = Q!Workers /\ DOMAIN current' = Q!Workers
      BY <1>1, <2>3 DEF RunningInv
    <3> QED
      BY <2>3, <3>1, <3>2 DEF Executed
  <2>5. UNCHANGED <<lastWriter, undoLog>>
    BY <1>3 DEF Q!Complete, Q!runtimeVars
  <2> QED
    BY <2>2, <2>3, <2>4, <2>5, SameUndo
<1>4. ASSUME Q!StartCommit \/ Q!Visit
      PROVE  QueCCIInv' /\ (CO!Next \/ UNCHANGED CO!vars)
  <2>1. UNCHANGED <<txs, order, edges, indegree, ready, completed, at, current, lastWriter, undoLog>>
    BY <1>4 DEF Q!StartCommit, Q!Visit, Q!planVars, Q!schedulerVars, Q!workerVars, Q!runtimeVars
  <2>2. SchedInv(Q!Workers)' /\ UNCHANGED CO!vars
    <3>1. at' \in [Q!Workers -> Stages] /\ \A v \in Q!Workers : Fits(at'[v], current[v])
      BY <1>1, <2>1 DEF RunningInv
    <3> QED
      BY <1>1, <2>1, <3>1, StageStep
  <2>3. Executed' = Executed
    BY <2>1 DEF Executed
  <2> QED
    BY <2>1, <2>2, <2>3, SameUndo
<1> QED
  BY <1>2, <1>3, <1>4, QueCCExecute DEF Q!Next, Q!Worker

-----------------------------------------------------------------------------
(* Thunderbolt: the states of the keys                                     *)

KeyState == [latestWriter : [T!Keys -> {0} \cup Members], readers : [T!Keys -> SUBSET Members]]

LEMMA KeyStateFacts ==
    /\ \A c \in KeyState : /\ c.latestWriter \in [T!Keys -> {0} \cup Members]
                           /\ c.readers \in [T!Keys -> SUBSET Members]
    /\ \A f \in [T!Keys -> {0} \cup Members] : \A g \in [T!Keys -> SUBSET Members] :
           [latestWriter |-> f, readers |-> g] \in KeyState
BY DEF KeyState

\* The state c of the key k after the first i transactions of s: the l-th is
\* the last that writes it, and the readers behind it are noted.
KeyStateInv(c, s, k, i) ==
    \E l \in 0 .. i :
        /\ l = 0 => c.latestWriter[k] = 0
        /\ l # 0 => c.latestWriter[k] = s[l] /\ k \in txs[s[l]].writes
        /\ \A j \in l + 1 .. i :
               /\ k \notin txs[s[j]].writes
               /\ k \in txs[s[j]].reads => s[j] \in c.readers[k]

LEMMA KeyStateStep ==
    ASSUME NEW c \in KeyState, NEW s, NEW i \in Nat, s[i + 1] \in Members
    PROVE  LET d == T!AddTransaction(c, s[i + 1])
           IN  /\ d \in KeyState
               /\ \A k \in T!Keys : KeyStateInv(c, s, k, i) => KeyStateInv(d, s, k, i + 1)
<1> DEFINE t == s[i + 1]
           d == T!AddTransaction(c, t)
           f == [k \in T!Keys |-> IF k \in txs[t].writes THEN t ELSE c.latestWriter[k]]
           g == [k \in T!Keys |-> IF k \in txs[t].writes THEN {}
                                  ELSE IF k \in txs[t].reads THEN c.readers[k] \cup {t}
                                  ELSE c.readers[k]]
<1>1. d = [latestWriter |-> f, readers |-> g]
  BY DEF T!AddTransaction
<1>2. /\ c.latestWriter \in [T!Keys -> {0} \cup Members]
      /\ c.readers \in [T!Keys -> SUBSET Members]
  BY KeyStateFacts
<1>3. t \in Members
  OBVIOUS
<1>4. f \in [T!Keys -> {0} \cup Members] /\ g \in [T!Keys -> SUBSET Members]
  BY <1>2, <1>3
<1>5. d \in KeyState
  BY <1>1, <1>4, KeyStateFacts
<1>6. d.latestWriter = f /\ d.readers = g
  BY <1>1
<1>7. ASSUME NEW k \in T!Keys, KeyStateInv(c, s, k, i)
      PROVE  KeyStateInv(d, s, k, i + 1)
  <2>1. /\ d.latestWriter[k] = IF k \in txs[t].writes THEN t ELSE c.latestWriter[k]
        /\ d.readers[k] = IF k \in txs[t].writes THEN {}
                          ELSE IF k \in txs[t].reads THEN c.readers[k] \cup {t}
                          ELSE c.readers[k]
    BY <1>6
  <2> HIDE DEF d, f, g
  <2>2. CASE k \in txs[t].writes
    <3>1. /\ i + 1 \in 0 .. i + 1 /\ i + 1 # 0
          /\ d.latestWriter[k] = s[i + 1] /\ k \in txs[s[i + 1]].writes
      BY <2>1, <2>2
    <3>2. \A j \in (i + 1) + 1 .. i + 1 : FALSE
      OBVIOUS
    <3> QED
      BY <3>1, <3>2 DEF KeyStateInv
  <2>3. CASE k \notin txs[t].writes
    <3>1. PICK l \in 0 .. i :
              /\ l = 0 => c.latestWriter[k] = 0
              /\ l # 0 => c.latestWriter[k] = s[l] /\ k \in txs[s[l]].writes
              /\ \A j \in l + 1 .. i :
                     /\ k \notin txs[s[j]].writes
                     /\ k \in txs[s[j]].reads => s[j] \in c.readers[k]
      BY <1>7 DEF KeyStateInv
    <3>2. l \in 0 .. i + 1
      OBVIOUS
    <3>3. d.latestWriter[k] = c.latestWriter[k]
      BY <2>1, <2>3
    <3>4. ASSUME NEW j \in l + 1 .. i + 1
          PROVE  /\ k \notin txs[s[j]].writes
                 /\ k \in txs[s[j]].reads => s[j] \in d.readers[k]
      <4>1. CASE j = i + 1
        BY <2>1, <2>3, <4>1
      <4>2. CASE j # i + 1
        <5>1. j \in l + 1 .. i
          BY <4>2
        <5>2. k \notin txs[s[j]].writes /\ (k \in txs[s[j]].reads => s[j] \in c.readers[k])
          BY <3>1, <5>1
        <5>3. c.readers[k] \subseteq d.readers[k]
          BY <2>1, <2>3
        <5> QED
          BY <5>2, <5>3
      <4> QED
        BY <4>1, <4>2
    <3> QED
      BY <3>1, <3>2, <3>3, <3>4 DEF KeyStateInv
  <2> QED
    BY <2>2, <2>3
<1> QED
  BY <1>5, <1>7

LEMMA KeyStatesFacts ==
    ASSUME NEW s \in Seq(Members)
    PROVE  \A i \in 0 .. Len(s) : \A k \in T!Keys : KeyStateInv(T!KeyStates(s)[i], s, k, i)
<1> DEFINE n == Len(s)
           none == [latestWriter |-> [k \in T!Keys |-> 0], readers |-> [k \in T!Keys |-> {}]]
           Body(g) == [i \in 0 .. n |-> IF i = 0 THEN none ELSE T!AddTransaction(g[i - 1], s[i])]
           f == CHOOSE g : g = Body(g)
           step == [x \in (1 .. n) \X KeyState |-> T!AddTransaction(x[2], s[x[1]])]
<1>1. n \in Nat /\ \A i \in 1 .. n : s[i] \in Members
  BY LenProperties, ElementOfSeq
<1>2. none \in KeyState
  <2>1. /\ [k \in T!Keys |-> 0] \in [T!Keys -> {0} \cup Members]
        /\ [k \in T!Keys |-> {}] \in [T!Keys -> SUBSET Members]
    OBVIOUS
  <2> QED
    BY <2>1, KeyStateFacts
<1>3. T!KeyStates(s) = f
  BY DEF T!KeyStates
<1>4. none.latestWriter = [k \in T!Keys |-> 0]
  OBVIOUS
<1> HIDE DEF n, none
<1>5. step \in [(1 .. n) \X KeyState -> KeyState]
  <2>1. ASSUME NEW x \in (1 .. n) \X KeyState
        PROVE  T!AddTransaction(x[2], s[x[1]]) \in KeyState
    <3>1. x[2] \in KeyState /\ x[1] - 1 \in Nat /\ x[1] - 1 + 1 = x[1] /\ s[x[1]] \in Members
      BY <1>1
    <3> QED
      BY <3>1, KeyStateStep
  <2> QED
    BY <2>1
<1>6. PICK g \in [0 .. n -> KeyState] : g[0] = none /\ \A i \in 1 .. n : g[i] = step[<<i, g[i - 1]>>]
  <2> HIDE DEF step
  <2>1. PICK g \in [0 .. n -> KeyState] : Follows(g, n, none, step)
    BY <1>1, <1>2, <1>5, StepByStep
  <2> QED
    BY <2>1 DEF Follows
<1>7. g = Body(g)
  <2>1. ASSUME NEW i \in 0 .. n
        PROVE  g[i] = IF i = 0 THEN none ELSE T!AddTransaction(g[i - 1], s[i])
    <3>1. CASE i = 0
      BY <1>6, <3>1
    <3>2. CASE i # 0
      <4>1. i \in 1 .. n /\ i - 1 \in 0 .. n /\ <<i, g[i - 1]>> \in (1 .. n) \X KeyState
        BY <1>1, <1>6, <3>2
      <4>2. g[i] = T!AddTransaction(g[i - 1], s[i])
        BY <1>6, <4>1
      <4> QED
        BY <3>2, <4>2
    <3> QED
      BY <3>1, <3>2
  <2> QED
    BY <1>6, <2>1
<1>8. f = Body(f)
  BY <1>7
<1> HIDE DEF f, step
<1> DEFINE Good == {m \in Nat : m <= n => f[m] \in KeyState /\ \A k \in T!Keys : KeyStateInv(f[m], s, k, m)}
<1>9. 0 \in Good
  <2>1. f[0] = none
    BY <1>1, <1>8
  <2>2. ASSUME NEW k \in T!Keys
        PROVE  KeyStateInv(none, s, k, 0)
    <3>1. none.latestWriter[k] = 0
      BY <1>4
    <3>2. \A j \in 0 + 1 .. 0 : FALSE
      OBVIOUS
    <3>3. 0 \in 0 .. 0
      OBVIOUS
    <3> QED
      BY <3>1, <3>2, <3>3 DEF KeyStateInv
  <2> QED
    BY <1>2, <2>1, <2>2
<1>10. ASSUME NEW m \in Good
       PROVE  m + 1 \in Good
  <2>1. SUFFICES ASSUME m + 1 <= n
                 PROVE  f[m + 1] \in KeyState /\ \A k \in T!Keys : KeyStateInv(f[m + 1], s, k, m + 1)
    BY <1>10
  <2>2. m \in Nat /\ m \in 0 .. n /\ m + 1 \in 1 .. n /\ m + 1 # 0 /\ m + 1 - 1 = m
    BY <1>1, <1>10, <2>1
  <2>3. f[m] \in KeyState /\ \A k \in T!Keys : KeyStateInv(f[m], s, k, m)
    BY <1>1, <1>10, <2>2
  <2>4. f[m + 1] = T!AddTransaction(f[m], s[m + 1]) /\ s[m + 1] \in Members
    BY <1>1, <1>8, <2>2
  <2> QED
    BY <2>2, <2>3, <2>4, KeyStateStep
<1> HIDE DEF Good
<1>11. Good = Nat
  <2>1. Good \in SUBSET Nat
    BY DEF Good
  <2> QED
    BY <1>9, <1>10, <2>1, AllNumbers
<1> QED
  BY <1>1, <1>3, <1>11 DEF Good, n

\* What holds the dependencies of its members by the sequence s holds the
\* earlier transactions that conflict with them.
LEMMA ThunderboltClosed ==
    ASSUME NEW s \in Seq(Members), 0 \notin Members,
           \A x, y \in DOMAIN s : s[x] = s[y] => x = y,
           NEW D \in SUBSET Members,
           \A v \in D : \A u \in Members : <<u, v>> \in T!Dependencies(s) => u \in D,
           NEW i \in DOMAIN s, NEW j \in DOMAIN s, i < j, s[j] \in D,
           CO!Conflict(s[i], s[j])
    PROVE  s[i] \in D
<1> DEFINE after == T!KeyStates(s)
<1>1. DOMAIN s = 1 .. Len(s) /\ Len(s) \in Nat /\ \A x \in 1 .. Len(s) : s[x] \in Members
  BY LenProperties, ElementOfSeq
<1>2. PICK k : /\ k \in T!Used(s[i]) /\ k \in T!Used(s[j])
               /\ k \in txs[s[i]].writes \/ k \in txs[s[j]].writes
  BY DEF CO!Conflict, CO!Used, T!Used
<1>3. k \in T!Keys
  BY <1>1, <1>2 DEF T!Keys, T!Txs, Members
<1>4. ASSUME NEW p \in 1 .. Len(s), s[p] \in D, k \in T!Used(s[p]),
             NEW u \in Members, u \in T!Awaits(after[p - 1], s[p], k)
      PROVE  u \in D
  <2>1. <<u, s[p]>> \in T!Dependencies(s)
    <3>1. s[p] \in T!Txs /\ u \in T!Txs /\ k \in T!Used(s[p]) /\ p \in DOMAIN s
      BY <1>1, <1>4 DEF T!Txs, Members
    <3> QED
      BY <1>4, <3>1 DEF T!Dependencies
  <2> QED
    BY <1>4, <2>1
<1>5. \A p \in 0 .. Len(s) : KeyStateInv(after[p], s, k, p)
  BY <1>3, KeyStatesFacts
<1> HIDE DEF after
<1>6. SUFFICES ASSUME s[i] \notin D PROVE FALSE
  OBVIOUS
<1> DEFINE Behind == {p \in Nat : /\ i < p /\ p <= j /\ s[p] \in D /\ k \in T!Used(s[p])
                                  /\ k \in txs[s[i]].writes \/ k \in txs[s[p]].writes}
<1>7. PICK p \in Behind : \A o \in Behind : p <= o
  <2>1. j \in Behind
    BY <1>1, <1>2
  <2> QED
    BY <2>1, LeastOf
<1>8. /\ p \in 1 .. Len(s) /\ i < p /\ p <= j /\ s[p] \in D /\ k \in T!Used(s[p])
      /\ k \in txs[s[i]].writes \/ k \in txs[s[p]].writes
      /\ p - 1 \in 0 .. Len(s) /\ i \in 1 .. Len(s)
  BY <1>1, <1>7
<1>9. PICK l \in 0 .. p - 1 :
          /\ l # 0 => after[p - 1].latestWriter[k] = s[l] /\ k \in txs[s[l]].writes
          /\ \A o \in l + 1 .. p - 1 :
                 /\ k \notin txs[s[o]].writes
                 /\ k \in txs[s[o]].reads => s[o] \in after[p - 1].readers[k]
  BY <1>5, <1>8 DEF KeyStateInv
<1>10. l # 0 => s[l] \in D /\ l \in 1 .. Len(s)
  <2>1. SUFFICES ASSUME l # 0 PROVE s[l] \in D /\ l \in 1 .. Len(s)
    OBVIOUS
  <2>2. l \in 1 .. Len(s) /\ s[l] \in Members
    BY <1>1, <1>8, <2>1
  <2>3. s[l] \in T!Awaits(after[p - 1], s[p], k)
    BY <1>9, <2>1, <2>2 DEF T!Awaits
  <2> QED
    BY <1>4, <1>8, <2>2, <2>3
<1>11. l < i
  <2>1. l # i
    BY <1>6, <1>8, <1>10
  <2>2. ~(i < l)
    <3>1. ASSUME i < l PROVE l \in Behind
      <4>1. l # 0 /\ l \in Nat /\ l <= j
        BY <1>8, <3>1
      <4>2. k \in txs[s[l]].writes /\ k \in T!Used(s[l])
        BY <1>9, <4>1 DEF T!Used
      <4> QED
        BY <1>10, <3>1, <4>1, <4>2
    <3> QED
      BY <1>7, <1>8, <3>1
  <2> QED
    BY <1>8, <2>1, <2>2
<1>12. k \notin txs[s[i]].writes /\ (k \in txs[s[i]].reads => s[i] \in after[p - 1].readers[k])
  <2>1. i \in l + 1 .. p - 1
    BY <1>8, <1>11
  <2> QED
    BY <1>9, <2>1
<1>13. s[i] \in T!Awaits(after[p - 1], s[p], k)
  <2>1. k \in txs[s[i]].reads /\ k \in txs[s[p]].writes
    BY <1>2, <1>8, <1>12 DEF T!Used
  <2> QED
    BY <1>12, <2>1 DEF T!Awaits
<1> QED
  BY <1>1, <1>4, <1>6, <1>8, <1>13

-----------------------------------------------------------------------------
(* Thunderbolt: its steps                                                  *)

\* While the block is played nothing is scheduled; every transaction handed out
\* is being played or has its place in the order.
PlayInv ==
    /\ order = <<>> /\ completed = {} /\ current = [w \in T!Workers |-> 0]
    /\ jobs \in 0 .. Len(txs)
    /\ playing \in [T!Workers -> 0 .. jobs]
    /\ preplayed \in Seq(Members)
    /\ \A i, j \in DOMAIN preplayed : preplayed[i] = preplayed[j] => i = j
    /\ \A i \in DOMAIN preplayed : preplayed[i] <= jobs /\ \A w \in T!Workers : playing[w] # preplayed[i]
    /\ \A w, v \in T!Workers : (playing[w] = playing[v] /\ playing[w] # 0) => w = v
    /\ \A x \in 1 .. jobs : \/ \E i \in DOMAIN preplayed : preplayed[i] = x
                            \/ \E w \in T!Workers : playing[w] = x
    /\ \A w \in T!Workers :
           /\ at[w] \in {"play", "end"}
           /\ at[w] = "end" => playing[w] = 0 /\ jobs = Len(txs)

ThunderboltIInv ==
    /\ Len(txs) \in Nat /\ DOMAIN txs = 1 .. Len(txs)
    /\ SchedInv(T!Workers)
    /\ phase = "preplay" => PlayInv

LEMMA ThunderboltInit ==
    ASSUME T!WorkloadsAssumption, T!Init
    PROVE  ThunderboltIInv /\ CO!Init
<1>1. Len(txs) \in Nat /\ DOMAIN txs = 1 .. Len(txs) /\ Members = 1 .. Len(txs)
  BY DEF T!Init, T!InitScheduler, T!WorkloadsAssumption, Members
<1>2. Running = {}
  BY DEF T!Init, T!InitScheduler, Running
<1>3. \A u \in Members : Unmet(u) = {}
  BY DEF T!Init, Unmet
<1>4. GraphInv
  <2>1. IsFiniteSet(Members) /\ 0 \notin Members
    BY <1>1, FS_Interval
  <2>2. \A u \in Members : indegree[u] = Cardinality(Unmet(u))
    BY <1>1, <1>3, FS_EmptySet DEF T!Init, T!Txs
  <2>3. edges \subseteq Members \X Members /\ indegree \in [Members -> Nat]
    BY <1>1 DEF T!Init, T!Txs, Members
  <2> QED
    BY <2>1, <2>2, <2>3 DEF GraphInv
<1>5. ReadyInv(T!Workers)
  BY DEF T!Init, ReadyInv
<1>6. RunningInv(T!Workers)
  BY <1>2 DEF T!Init, T!InitScheduler, RunningInv, Fits, Stages
<1>7. CompletedInv
  BY DEF T!Init, T!InitScheduler, CompletedInv
<1>8. OrderInv(T!Workers)
  <2>1. \A t, u : ~CO!Before(u, t)
    BY DEF T!Init, CO!Before
  <2>2. Chained
    BY <2>1 DEF Chained
  <2> QED
    BY <1>2, <2>2 DEF T!Init, OrderInv
<1>9. PlayInv
  <2>1. << >> \in Seq(Members) /\ DOMAIN << >> = {}
    OBVIOUS
  <2>2. \A x \in 1 .. 0 : FALSE
    OBVIOUS
  <2> QED
    BY <1>1, <2>1, <2>2 DEF T!Init, T!InitScheduler, PlayInv
<1>10. CO!Init
  BY <1>2 DEF T!Init, T!InitScheduler, CO!Init, Running
<1> QED
  BY <1>1, <1>4, <1>5, <1>6, <1>7, <1>8, <1>9, <1>10 DEF ThunderboltIInv, SchedInv

\* A list of the numbers up to n, each of them once.
LEMMA Permutation ==
    ASSUME NEW n \in Nat, NEW s \in Seq(1 .. n),
           \A i, j \in DOMAIN s : s[i] = s[j] => i = j,
           \A x \in 1 .. n : \E i \in DOMAIN s : s[i] = x
    PROVE  Len(s) = n /\ {s[i] : i \in DOMAIN s} = 1 .. n
<1>1. Len(s) \in Nat /\ DOMAIN s = 1 .. Len(s) /\ s \in [1 .. Len(s) -> 1 .. n]
  BY LenProperties
<1>2. s \in Surjection(1 .. Len(s), 1 .. n) /\ s \in Injection(1 .. Len(s), 1 .. n)
  BY <1>1 DEF Surjection, Injection, IsInjective
<1>0. \A m \in Nat : IsFiniteSet(1 .. m) /\ Cardinality(1 .. m) = m
  BY FS_Interval
<1>3. /\ IsFiniteSet(1 .. Len(s))
      /\ Cardinality(1 .. Len(s)) = Len(s) /\ Cardinality(1 .. n) = n
  BY <1>0, <1>1
<1>4. Cardinality(1 .. n) = Cardinality(1 .. Len(s))
  BY <1>2, <1>3, FS_Surjection
<1>5. {s[i] : i \in DOMAIN s} = 1 .. n
  BY <1>1
<1> QED
  BY <1>3, <1>4, <1>5

\* The block has been played and gets its order.
LEMMA PlanStep ==
    ASSUME T!NumWorkersAssumption, ThunderboltIInv, T!Plan
    PROVE  ThunderboltIInv' /\ CO!Next
<1> DEFINE queue == [t \in Members |-> T!CommonQueue(t)]
<1>1. /\ order' = preplayed /\ edges' = T!Dependencies(preplayed)
      /\ phase' # "preplay" /\ at' = [w \in T!Workers |-> "next"]
      /\ UNCHANGED <<txs, completed, current>>
  BY DEF T!Plan
<1>2. PlayInv /\ Len(txs) \in Nat /\ Members = 1 .. Len(txs) /\ DOMAIN txs = 1 .. Len(txs)
  BY DEF T!Plan, ThunderboltIInv, Members
<1>3. jobs = Len(txs) /\ \A w \in T!Workers : playing[w] = 0
  <2>1. 0 \in T!Workers
    BY DEF T!Workers, T!NumWorkersAssumption
  <2> QED
    BY <1>2, <2>1 DEF T!Plan, T!AllEnded, PlayInv
<1>4. PICK s : s = preplayed
  OBVIOUS
<1>5. /\ s \in Seq(1 .. Len(txs))
      /\ \A i, j \in DOMAIN s : s[i] = s[j] => i = j
      /\ \A x \in 1 .. Len(txs) : \E i \in DOMAIN s : s[i] = x
  BY <1>2, <1>3, <1>4 DEF PlayInv
<1>6. CO!IsOrder(order') /\ CO!IsOrder(order)'
  <2>1. Len(s) = Len(txs) /\ {s[i] : i \in DOMAIN s} = 1 .. Len(txs)
    BY <1>2, <1>5, Permutation
  <2> QED
    BY <1>1, <1>2, <1>4, <2>1 DEF CO!IsOrder, CO!Txs
<1>7. IsFiniteSet(Members) /\ 0 \notin Members /\ Members' = Members
  BY <1>1, <1>2, FS_Interval DEF Members
<1>8. Chained'
  <2>1. SUFFICES ASSUME NEW D \in SUBSET Members, Closed(D)', NEW t \in D, NEW u \in Members,
                        CO!Before(u, t)', CO!Conflict(u, t)'
                 PROVE  u \in D /\ u # t
    BY <1>7 DEF Chained
  <2>2. \A v \in D : \A x \in Members : <<x, v>> \in T!Dependencies(s) => x \in D
    BY <1>1, <1>4, <1>7, <2>1 DEF Closed
  <2>3. PICK i \in DOMAIN s, j \in DOMAIN s : i < j /\ s[i] = u /\ s[j] = t
    BY <1>1, <1>4, <2>1 DEF CO!Before
  <2>4. CO!Conflict(s[i], s[j])
    BY <1>1, <2>1, <2>3 DEF CO!Conflict, CO!Used
  <2>5. s[i] \in D
    BY <1>2, <1>5, <1>7, <2>2, <2>3, <2>4, ThunderboltClosed
  <2>6. i # j
    BY <1>5, <2>3, LenProperties
  <2> QED
    BY <1>5, <2>3, <2>5, <2>6
<1>9. indegree' = [t \in Members |-> Cardinality({u \in Members : <<u, t>> \in edges'})]
  BY SchedulerCardinality DEF T!Plan, T!Indegree, T!Txs, Members
<1>10. ready' = [q \in T!Workers |-> {t \in Members : indegree'[t] = 0 /\ queue[t] = q}]
  BY DEF T!Plan, T!FirstReady, T!Txs, Members
<1>11. edges' \subseteq Members \X Members
  BY <1>1 DEF T!Dependencies, T!Txs, Members
<1>12. completed' = {} /\ current' = [w \in T!Workers |-> 0]
  BY <1>1, <1>2 DEF PlayInv
<1>13. SchedInv(T!Workers)'
  <2>1. PICK assigned : assigned = queue
    OBVIOUS
  <2>2. Planned(T!Workers, assigned)'
    <3> HIDE DEF queue
    <3>1. ready' = [q \in T!Workers |-> {t \in Members' : indegree'[t] = 0 /\ assigned[t] = q}]
      BY <1>7, <1>10, <2>1
    <3>2. indegree' = [t \in Members' |-> Cardinality({u \in Members' : <<u, t>> \in edges'})]
      BY <1>7, <1>9
    <3>3. edges' \subseteq Members' \X Members' /\ IsFiniteSet(Members') /\ 0 \notin Members'
      BY <1>7, <1>11
    <3> QED
      BY <1>1, <1>6, <1>8, <1>12, <3>1, <3>2, <3>3 DEF Planned
  <2> QED
    BY <2>2, PlannedNext
<1>14. CO!Arrange
  <2>1. order = <<>>
    BY <1>2 DEF PlayInv
  <2> QED
    BY <1>1, <1>6, <2>1 DEF CO!Arrange
<1> QED
  BY <1>1, <1>2, <1>13, <1>14 DEF ThunderboltIInv, CO!Next

LEMMA PlayingStep ==
    ASSUME ThunderboltIInv, NEW w \in T!Workers, T!Play(w)
    PROVE  ThunderboltIInv' /\ UNCHANGED CO!vars
<1>1. /\ UNCHANGED <<txs, order, edges, indegree, ready, completed, current, phase, preplayed>>
      /\ at[w] = "play" /\ playing[w] = 0
  BY DEF T!Play, T!planVars, T!schedulerVars
<1>2. RunningInv(T!Workers) /\ SchedInv(T!Workers)
  BY DEF ThunderboltIInv, SchedInv
<1>3. \/ /\ jobs < Len(txs) /\ jobs' = jobs + 1
         /\ playing' = [playing EXCEPT ![w] = jobs + 1] /\ UNCHANGED at
      \/ /\ ~(jobs < Len(txs)) /\ at' = [at EXCEPT ![w] = "end"]
         /\ UNCHANGED <<jobs, playing>>
  BY DEF T!Play
<1>4. at' \in [T!Workers -> Stages] /\ \A v \in T!Workers : Fits(at'[v], current[v])
  BY <1>1, <1>2, <1>3 DEF RunningInv, Fits, Stages
<1>5. SchedInv(T!Workers)' /\ UNCHANGED CO!vars
  BY <1>1, <1>2, <1>4, StageStep
<1>6. ASSUME phase = "preplay" PROVE PlayInv'
  <2>1. PlayInv /\ Members' = Members /\ Len(txs) \in Nat /\ Members = 1 .. Len(txs)
    BY <1>1, <1>6 DEF ThunderboltIInv, Members
  <2>2. CASE /\ jobs < Len(txs) /\ jobs' = jobs + 1
             /\ playing' = [playing EXCEPT ![w] = jobs + 1] /\ UNCHANGED at
    <3>1. jobs' \in 0 .. Len(txs) /\ playing' \in [T!Workers -> 0 .. jobs']
      BY <2>1, <2>2 DEF PlayInv
    <3>2. \A v \in T!Workers : playing'[v] = IF v = w THEN jobs + 1 ELSE playing[v]
      BY <2>1, <2>2 DEF PlayInv
    <3>3. \A v \in T!Workers : playing[v] \in 0 .. jobs
      BY <2>1 DEF PlayInv
    <3>4. jobs \in Nat /\ \A i \in DOMAIN preplayed : preplayed[i] \in Nat /\ preplayed[i] <= jobs
      <4>1. \A i \in DOMAIN preplayed : preplayed[i] \in Members
        BY <2>1, LenProperties, ElementOfSeq DEF PlayInv
      <4> QED
        BY <2>1, <4>1 DEF PlayInv
    <3>5. \A i \in DOMAIN preplayed : preplayed[i] <= jobs' /\ \A v \in T!Workers : playing'[v] # preplayed[i]
      BY <2>1, <2>2, <3>2, <3>4 DEF PlayInv
    <3>6. \A v, x \in T!Workers : (playing'[v] = playing'[x] /\ playing'[v] # 0) => v = x
      BY <2>1, <3>2, <3>3, <3>4 DEF PlayInv
    <3>7. ASSUME NEW x \in 1 .. jobs'
          PROVE  \/ \E i \in DOMAIN preplayed : preplayed[i] = x
                 \/ \E v \in T!Workers : playing'[v] = x
      <4>1. CASE x = jobs + 1
        BY <3>2, <4>1
      <4>2. CASE x # jobs + 1
        <5>1. x \in 1 .. jobs
          BY <2>2, <3>4, <4>2
        <5>2. CASE \E i \in DOMAIN preplayed : preplayed[i] = x
          BY <5>2
        <5>3. CASE \E v \in T!Workers : playing[v] = x
          <6>1. PICK v \in T!Workers : playing[v] = x
            BY <5>3
          <6>2. v # w
            BY <1>1, <5>1, <6>1
          <6> QED
            BY <3>2, <6>1, <6>2
        <5> QED
          BY <2>1, <5>1, <5>2, <5>3 DEF PlayInv
      <4> QED
        BY <4>1, <4>2
    <3>8. \A v \in T!Workers : /\ at'[v] \in {"play", "end"}
                               /\ at'[v] = "end" => playing'[v] = 0 /\ jobs' = Len(txs)
      BY <1>1, <2>1, <2>2, <3>2 DEF PlayInv
    <3> QED
      BY <1>1, <2>1, <3>1, <3>5, <3>6, <3>7, <3>8 DEF PlayInv
  <2>3. CASE /\ ~(jobs < Len(txs)) /\ at' = [at EXCEPT ![w] = "end"]
             /\ UNCHANGED <<jobs, playing>>
    <3>1. \A v \in T!Workers : /\ at'[v] \in {"play", "end"}
                               /\ at'[v] = "end" => playing[v] = 0 /\ jobs = Len(txs)
      BY <1>1, <1>2, <2>1, <2>3 DEF PlayInv, RunningInv
    <3> QED
      BY <1>1, <2>1, <2>3, <3>1 DEF PlayInv
  <2> QED
    BY <1>3, <2>2, <2>3
<1> QED
  BY <1>1, <1>5, <1>6 DEF ThunderboltIInv

LEMMA PlayedStep ==
    ASSUME ThunderboltIInv, NEW w \in T!Workers, T!Played(w)
    PROVE  ThunderboltIInv' /\ UNCHANGED CO!vars
<1> DEFINE t == playing[w]
<1>1. /\ UNCHANGED <<txs, order, edges, indegree, ready, completed, at, current, phase, jobs>>
      /\ t # 0 /\ preplayed' = Append(preplayed, t) /\ playing' = [playing EXCEPT ![w] = 0]
  BY DEF T!Played, T!planVars, T!schedulerVars, T!workerVars
<1>2. RunningInv(T!Workers) /\ SchedInv(T!Workers)
  BY DEF ThunderboltIInv, SchedInv
<1>3. at' \in [T!Workers -> Stages] /\ \A v \in T!Workers : Fits(at'[v], current[v])
  BY <1>1, <1>2 DEF RunningInv
<1>4. SchedInv(T!Workers)' /\ UNCHANGED CO!vars
  BY <1>1, <1>2, <1>3, StageStep
<1>5. ASSUME phase = "preplay" PROVE PlayInv'
  <2>1. PlayInv /\ Members' = Members /\ Len(txs) \in Nat /\ Members = 1 .. Len(txs)
    BY <1>1, <1>5 DEF ThunderboltIInv, Members
  <2>2. t \in Members /\ t <= jobs /\ t # 0
    BY <1>1, <2>1 DEF PlayInv
  <2>3. \A v \in T!Workers : playing'[v] = IF v = w THEN 0 ELSE playing[v]
    BY <1>1, <2>1 DEF PlayInv
  <2>4. playing' \in [T!Workers -> 0 .. jobs]
    BY <1>1, <2>1 DEF PlayInv
  <2>5. \A v \in T!Workers : v # w => playing[v] # t
    BY <2>1, <2>2 DEF PlayInv
  <2> HIDE DEF t
  <2> DEFINE n == Len(preplayed)
  <2>6. n \in Nat /\ DOMAIN preplayed = 1 .. n /\ \A i \in 1 .. n : preplayed[i] \in Members
    BY <2>1, LenProperties, ElementOfSeq DEF PlayInv
  <2>7. /\ preplayed' \in Seq(Members) /\ DOMAIN preplayed' = 1 .. n + 1
        /\ \A i \in 1 .. n : preplayed'[i] = preplayed[i]
        /\ preplayed'[n + 1] = t
    BY <1>1, <2>1, <2>2, <2>6, AppendProperties, LenProperties DEF PlayInv
  <2> HIDE DEF n
  <2>8. \A i \in 1 .. n : preplayed[i] # t /\ preplayed[i] <= jobs
                          /\ preplayed[i] # 0 /\ \A v \in T!Workers : playing[v] # preplayed[i]
    <3>1. \A i \in 1 .. n : preplayed[i] <= jobs /\ \A v \in T!Workers : playing[v] # preplayed[i]
      BY <2>1, <2>6 DEF PlayInv
    <3>2. \A i \in 1 .. n : preplayed[i] # 0
      BY <2>1, <2>6
    <3>3. \A i \in 1 .. n : preplayed[i] # t
      BY <3>1 DEF t
    <3> QED
      BY <3>1, <3>2, <3>3
  <2>9. \A i, j \in DOMAIN preplayed' : preplayed'[i] = preplayed'[j] => i = j
    <3>1. SUFFICES ASSUME NEW i \in 1 .. n + 1, NEW j \in 1 .. n + 1, preplayed'[i] = preplayed'[j]
                   PROVE  i = j
      BY <2>7
    <3>2. i \in 1 .. n \/ i = n + 1
      BY <2>6
    <3>3. j \in 1 .. n \/ j = n + 1
      BY <2>6
    <3>4. \A a, b \in 1 .. n : preplayed[a] = preplayed[b] => a = b
      BY <2>1, <2>6 DEF PlayInv
    <3>5. CASE i \in 1 .. n /\ j \in 1 .. n
      BY <2>7, <3>1, <3>4, <3>5
    <3>6. CASE i \in 1 .. n /\ j = n + 1
      BY <2>7, <2>8, <3>1, <3>6
    <3>7. CASE i = n + 1 /\ j \in 1 .. n
      BY <2>7, <2>8, <3>1, <3>7
    <3> QED
      BY <3>2, <3>3, <3>5, <3>6, <3>7
  <2>10. \A i \in DOMAIN preplayed' : preplayed'[i] <= jobs /\ \A v \in T!Workers : playing'[v] # preplayed'[i]
    <3>1. SUFFICES ASSUME NEW i \in 1 .. n + 1
                   PROVE  preplayed'[i] <= jobs /\ \A v \in T!Workers : playing'[v] # preplayed'[i]
      BY <2>7
    <3>2. CASE i = n + 1
      BY <2>2, <2>3, <2>5, <2>7, <3>2
    <3>3. CASE i # n + 1
      <4>1. i \in 1 .. n
        BY <2>6, <3>3
      <4> QED
        BY <2>3, <2>7, <2>8, <4>1
    <3> QED
      BY <3>2, <3>3
  <2>11. \A v, x \in T!Workers : (playing'[v] = playing'[x] /\ playing'[v] # 0) => v = x
    BY <2>1, <2>3 DEF PlayInv
  <2>12. ASSUME NEW x \in 1 .. jobs
         PROVE  \/ \E i \in DOMAIN preplayed' : preplayed'[i] = x
                \/ \E v \in T!Workers : playing'[v] = x
    <3>1. CASE x = t
      <4>1. n + 1 \in DOMAIN preplayed'
        BY <2>6, <2>7
      <4> QED
        BY <2>7, <3>1, <4>1
    <3>2. CASE x # t /\ \E i \in DOMAIN preplayed : preplayed[i] = x
      <4>1. PICK i \in 1 .. n : preplayed[i] = x
        BY <2>6, <3>2
      <4>2. i \in DOMAIN preplayed' /\ preplayed'[i] = x
        BY <2>6, <2>7, <4>1
      <4> QED
        BY <4>2
    <3>3. CASE x # t /\ \E v \in T!Workers : playing[v] = x
      BY <2>3, <3>3 DEF t
    <3> QED
      BY <2>1, <3>1, <3>2, <3>3 DEF PlayInv
  <2>13. \A v \in T!Workers : /\ at'[v] \in {"play", "end"}
                              /\ at'[v] = "end" => playing'[v] = 0 /\ jobs = Len(txs)
    BY <1>1, <2>1, <2>3 DEF PlayInv
  <2> QED
    BY <1>1, <2>1, <2>4, <2>7, <2>9, <2>10, <2>11, <2>12, <2>13 DEF PlayInv
<1> QED
  BY <1>1, <1>4, <1>5 DEF ThunderboltIInv

LEMMA ValidatorStep ==
    ASSUME T!NumWorkersAssumption, ThunderboltIInv, NEW w \in T!Workers,
           T!NextTx(w) \/ T!Validate(w) \/ T!Complete(w)
    PROVE  ThunderboltIInv' /\ (CO!Next \/ UNCHANGED CO!vars)
<1>1. RunningInv(T!Workers) /\ SchedInv(T!Workers)
  BY DEF ThunderboltIInv, SchedInv
<1>2. phase' = phase /\ phase # "preplay" /\ txs' = txs
  <2>1. at[w] \in {"next", "run", "complete"}
    BY DEF T!NextTx, T!NextFrom, T!Validate, T!Complete, T!CompleteTx
  <2>2. phase # "preplay"
    BY <2>1 DEF ThunderboltIInv, PlayInv
  <2> QED
    BY <2>2 DEF T!NextTx, T!NextFrom, T!Validate, T!Complete, T!CompleteTx
<1>3. SUFFICES SchedInv(T!Workers)' /\ (CO!Next \/ UNCHANGED CO!vars)
  BY <1>2 DEF ThunderboltIInv
<1>4. CASE T!NextTx(w)
  <2>1. /\ UNCHANGED <<txs, order, edges, indegree, completed>>
        /\ at[w] = "next"
    BY <1>4 DEF T!NextTx, T!NextFrom, T!planVars
  <2> DEFINE over == failed \/ remaining = 0
  <2>2. CASE over \/ ready[0] = {}
    <3>1. /\ UNCHANGED <<ready, current>>
          /\ at' = [at EXCEPT ![w] = IF over THEN "end" ELSE "asleep"]
      BY <1>4, <2>2 DEF T!NextTx, T!NextFrom
    <3> HIDE DEF over
    <3>2. at' \in [T!Workers -> Stages] /\ \A v \in T!Workers : Fits(at'[v], current[v])
      BY <1>1, <2>1, <3>1 DEF RunningInv, Fits, Stages
    <3> QED
      BY <1>1, <2>1, <3>1, <3>2, StageStep
  <2>3. CASE ~(over \/ ready[0] = {})
    <3>1. PICK t \in ready[0] : /\ ready' = [ready EXCEPT ![0] = @ \ {t}]
                                /\ current' = [current EXCEPT ![w] = t]
                                /\ at' = [at EXCEPT ![w] = "run"]
      BY <1>4, <2>3 DEF T!NextTx, T!NextFrom
    <3>2. 0 \in T!Workers
      BY DEF T!Workers, T!NumWorkersAssumption
    <3> QED
      BY <1>1, <2>1, <3>1, <3>2, TakeStep
  <2> QED
    BY <2>2, <2>3
<1>5. CASE T!Validate(w)
  <2>1. /\ UNCHANGED <<txs, order, edges, indegree, ready, completed, current>>
        /\ at[w] = "run"
    BY <1>5 DEF T!Validate, T!planVars, T!schedulerVars
  <2>2. \/ at' = [at EXCEPT ![w] = "complete"]
        \/ at' = [v \in T!Workers |-> IF v = w THEN "end" ELSE IF at[v] = "asleep" THEN "next" ELSE at[v]]
    BY <1>5 DEF T!Validate, T!Woken
  <2>3. at' \in [T!Workers -> Stages] /\ \A v \in T!Workers : Fits(at'[v], current[v])
    BY <1>1, <2>1, <2>2 DEF RunningInv, Fits, Stages
  <2> QED
    BY <1>1, <2>1, <2>3, StageStep
<1>6. CASE T!Complete(w)
  <2> DEFINE queue == [u \in Members |-> T!CommonQueue(u)]
  <2>1. Completes(T!Workers, w, queue)
    BY <1>6 DEF T!Complete, T!CompleteTx, T!Woken, T!Txs, T!planVars, Members, Completes
  <2> QED
    BY <1>1, <2>1, CompleteStep
<1> QED
  BY <1>4, <1>5, <1>6

LEMMA ThunderboltStep ==
    ASSUME T!NumWorkersAssumption, ThunderboltIInv, T!Next
    PROVE  ThunderboltIInv' /\ (CO!Next \/ UNCHANGED CO!vars)
<1>1. ASSUME T!Commit
      PROVE  ThunderboltIInv' /\ UNCHANGED CO!vars
  <2>1. /\ UNCHANGED <<txs, order, edges, indegree, ready, completed, at, current>>
        /\ phase' # "preplay"
    BY <1>1 DEF T!Commit, T!planVars, T!schedulerVars, T!workerVars
  <2>2. RunningInv(T!Workers) /\ SchedInv(T!Workers)
    BY DEF ThunderboltIInv, SchedInv
  <2>3. at' \in [T!Workers -> Stages] /\ \A v \in T!Workers : Fits(at'[v], current[v])
    BY <2>1, <2>2 DEF RunningInv
  <2>4. SchedInv(T!Workers)' /\ UNCHANGED CO!vars
    BY <2>1, <2>2, <2>3, StageStep
  <2> QED
    BY <2>1, <2>4 DEF ThunderboltIInv
<1> QED
  BY <1>1, PlanStep, PlayingStep, PlayedStep, ValidatorStep DEF T!Next, T!Worker

-----------------------------------------------------------------------------
(* The engines by dependencies, and what they implement                    *)

\* The inductive invariant of the engine by dependencies that runs.
DependenciesInv ==
    /\ engine = "pilotfish" => SchedInv(P!Workers)
    /\ engine = "quecc" => QueCCIInv
    /\ engine = "thunderbolt" => ThunderboltIInv

LEMMA DependenciesInit ==
    ASSUME Init
    PROVE  DependenciesInv /\ CO!Init
<1>1. CASE engine = "pilotfish" /\ P!Init
  BY <1>1, Assumptions, PilotfishInit DEF DependenciesInv
<1>2. CASE engine = "quecc" /\ Q!Init
  <2>1. QueCCIInv /\ CO!Init
    BY <1>2, Assumptions, QueCCInit DEF P!NumWorkersAssumption, Q!NumWorkersAssumption
  <2> QED
    BY <1>2, <2>1 DEF DependenciesInv
<1>3. CASE engine = "thunderbolt" /\ T!Init
  BY <1>3, Assumptions, ThunderboltInit DEF DependenciesInv
<1>4. CASE engine \in {"mvschedo", "schain"} /\ NoScheduler
  BY <1>4 DEF NoScheduler, DependenciesInv, CO!Init
<1> QED
  BY <1>1, <1>2, <1>3, <1>4 DEF Init

LEMMA DependenciesStep ==
    ASSUME DependenciesInv, [Next]_vars
    PROVE  DependenciesInv' /\ (CO!Next \/ UNCHANGED CO!vars)
<1>1. CASE engine = "pilotfish" /\ engine' = engine /\ P!Next
  BY <1>1, Assumptions, PilotfishStep DEF DependenciesInv
<1>2. CASE engine = "quecc" /\ engine' = engine /\ Q!Next
  <2>1. QueCCIInv' /\ (CO!Next \/ UNCHANGED CO!vars)
    BY <1>2, Assumptions, QueCCStep DEF DependenciesInv, P!NumWorkersAssumption, Q!NumWorkersAssumption
  <2> QED
    BY <1>2, <2>1 DEF DependenciesInv
<1>3. CASE engine = "thunderbolt" /\ engine' = engine /\ T!Next
  BY <1>3, Assumptions, ThunderboltStep DEF DependenciesInv
<1>4. CASE engine \in {"mvschedo", "schain"} /\ UNCHANGED <<engine, txs, schedulerVars>>
  BY <1>4 DEF schedulerVars, DependenciesInv, CO!vars
<1>5. CASE UNCHANGED vars
  <2>1. UNCHANGED <<engine, txs, order, edges, indegree, ready, completed, at, current>>
        /\ UNCHANGED <<lastWriter, undoLog, phase, jobs, playing, preplayed>>
    BY <1>5 DEF vars, schedulerVars, queccVars, thunderboltVars, endVars
  <2>2. \A W : SchedInv(W) => SchedInv(W)' /\ UNCHANGED CO!vars
    <3>1. SUFFICES ASSUME NEW W, SchedInv(W)
                   PROVE  SchedInv(W)' /\ UNCHANGED CO!vars
      OBVIOUS
    <3>2. at' \in [W -> Stages] /\ \A w \in W : Fits(at'[w], current[w])
      BY <2>1, <3>1 DEF SchedInv, RunningInv
    <3> QED
      BY <2>1, <3>1, <3>2, StageStep
  <2>3. QueCCIInv => QueCCIInv'
    <3>1. Executed' = Executed
      BY <2>1 DEF Executed
    <3> QED
      BY <2>1, <2>2, <3>1, SameUndo DEF QueCCIInv
  <2>4. ThunderboltIInv => ThunderboltIInv'
    <3>1. PlayInv => PlayInv'
      BY <2>1 DEF PlayInv, Members
    <3> QED
      BY <2>1, <2>2, <3>1 DEF ThunderboltIInv
  <2>5. UNCHANGED CO!vars
    BY <2>1 DEF CO!vars
  <2> QED
    BY <2>1, <2>2, <2>3, <2>4, <2>5 DEF DependenciesInv
<1>6. ASSUME engine = "mvschedo", M!Next PROVE txs' = txs
  BY <1>6 DEF M!Next, M!Worker, M!Access, M!Mark, M!Finish, M!SerialFallback
<1>7. ASSUME engine = "schain", S!Next PROVE txs' = txs
  BY <1>7 DEF S!Next, S!Grant, S!Signal, S!Worker, S!Take, S!Finish, S!Join
<1>8. CASE Next
  BY <1>1, <1>2, <1>3, <1>4, <1>6, <1>7, <1>8 DEF Next
<1> QED
  BY <1>5, <1>8

\* The engines by dependencies keep their inductive invariants.
THEOREM DependenciesInvariance == Spec => []DependenciesInv
<1>1. Init => DependenciesInv
  BY DependenciesInit
<1>2. DependenciesInv /\ [Next]_vars => DependenciesInv'
  BY DependenciesStep
<1> QED
  BY <1>1, <1>2, PTL DEF Spec

\* For any number of workers and any blocks, Pilotfish, QueCC and Thunderbolt
\* implement the order of conflicts: a transaction is given to a worker only
\* after every earlier one that conflicts with it has been completed.
THEOREM ImplementsConflictOrderCorrect == Spec => ImplementsConflictOrder
<1>1. Init => CO!Init
  BY DependenciesInit
<1>2. DependenciesInv /\ [Next]_vars => [CO!Next]_(CO!vars)
  BY DependenciesStep
<1> QED
  BY <1>1, <1>2, DependenciesInvariance, PTL DEF Spec, ImplementsConflictOrder, CO!Spec

\* For any number of workers and any blocks, what QueCC notes as replaced by a
\* write is what the last writer of the key before it in the block wrote,
\* whatever order the workers executed the block in.
THEOREM QueCCUndoExactCorrect == Spec => []QueCCUndoExact
<1>1. DependenciesInv => QueCCUndoExact
  BY DEF DependenciesInv, QueCCIInv, QueCCUndoExact
<1> QED
  BY <1>1, DependenciesInvariance, PTL

-----------------------------------------------------------------------------
(* MVSchedO: the operations of a transaction                               *)

LEMMA MVSets ==
    \A U : M!Cardinality(U) = Cardinality(U) /\ M!IsFiniteSet(U) = IsFiniteSet(U)
BY DEF M!Cardinality, Cardinality, M!IsFiniteSet, IsFiniteSet

LEMMA SortedKeys ==
    ASSUME NEW E \in SUBSET Nat, IsFiniteSet(E)
    PROVE  /\ Cardinality(E) \in Nat
           /\ \A i \in 1 .. Cardinality(E) : M!SortedKey(E, i) \in E
           /\ \A k \in E : \E i \in 1 .. Cardinality(E) : M!SortedKey(E, i) = k
<1> DEFINE n == Cardinality(E)
           Upto(k) == {j \in E : j <= k}
           rank == [k \in E |-> Cardinality(Upto(k))]
<1>1. n \in Nat
  BY FS_CardinalityType
<1>2. ASSUME NEW k \in E
      PROVE  /\ IsFiniteSet(Upto(k)) /\ Cardinality(Upto(k)) \in 1 .. n
  <2>1. Upto(k) \in SUBSET E /\ k \in Upto(k)
    OBVIOUS
  <2> HIDE DEF Upto
  <2>2. IsFiniteSet(Upto(k)) /\ Cardinality(Upto(k)) <= n
    BY <2>1, FS_Subset
  <2>3. Cardinality(Upto(k)) \in Nat
    BY <2>2, FS_CardinalityType
  <2>4. Cardinality(Upto(k)) # 0
    BY <2>1, <2>2, FS_EmptySet
  <2> QED
    BY <1>1, <2>2, <2>3, <2>4
<1>3. ASSUME NEW j \in E, NEW k \in E, j < k
      PROVE  Cardinality(Upto(j)) # Cardinality(Upto(k))
  <2>0. j \in Nat /\ k \in Nat
    OBVIOUS
  <2>1. Upto(j) \in SUBSET Upto(k) /\ k \in Upto(k) /\ k \notin Upto(j)
    <3>1. ASSUME NEW x \in Upto(j) PROVE x \in Upto(k)
      <4>1. x \in E /\ x \in Nat /\ x <= j
        OBVIOUS
      <4>2. x <= k
        BY <1>3, <2>0, <4>1
      <4> QED
        BY <4>1, <4>2
    <3>2. k <= k /\ ~(k <= j)
      BY <1>3, <2>0
    <3> QED
      BY <3>1, <3>2
  <2> HIDE DEF Upto
  <2> QED
    BY <1>2, <2>1, FS_Subset
<1>4. \A j, k \in E : rank[j] = rank[k] => j = k
  <2>1. SUFFICES ASSUME NEW j \in E, NEW k \in E, rank[j] = rank[k] PROVE j = k
    OBVIOUS
  <2>2. Cardinality(Upto(j)) = Cardinality(Upto(k))
    BY <2>1
  <2> HIDE DEF Upto
  <2> QED
    BY <1>3, <2>2
<1>5. rank \in [E -> 1 .. n]
  BY <1>2
<1>6. \A k \in E : rank[k] = Cardinality(Upto(k))
  OBVIOUS
<1> HIDE DEF rank, n
<1>7. \A i \in 1 .. n : \E k \in E : rank[k] = i
  <2>1. rank \in Injection(E, 1 .. n)
    BY <1>4, <1>5 DEF Injection, IsInjective
  <2>2. IsFiniteSet(1 .. n) /\ Cardinality(1 .. n) = n
    BY <1>1, FS_Interval
  <2>3. rank \in Surjection(E, 1 .. n)
    BY <2>1, <2>2, FS_Injection DEF n
  <2> QED
    BY <2>3 DEF Surjection
<1>8. \A i : M!SortedKey(E, i) = CHOOSE k \in E : Cardinality(Upto(k)) = i
  BY MVSets DEF M!SortedKey
<1> HIDE DEF Upto
<1>9. ASSUME NEW i \in 1 .. n
      PROVE  M!SortedKey(E, i) \in E /\ rank[M!SortedKey(E, i)] = i
  <2>1. \E k \in E : Cardinality(Upto(k)) = i
    BY <1>6, <1>7
  <2> QED
    BY <1>6, <1>8, <2>1
<1>10. ASSUME NEW k \in E
       PROVE  \E i \in 1 .. n : M!SortedKey(E, i) = k
  <2>1. rank[k] \in 1 .. n
    BY <1>5
  <2> QED
    BY <1>4, <1>9, <2>1
<1> QED
  BY <1>1, <1>9, <1>10 DEF n

\* The operations: the reads come before the writes.
IsBlock(block) ==
    /\ DOMAIN block \in SUBSET (Nat \ {0})
    /\ \A t \in DOMAIN block :
           /\ block[t].reads \in SUBSET Nat /\ IsFiniteSet(block[t].reads)
           /\ block[t].writes \in SUBSET Nat /\ IsFiniteSet(block[t].writes)

LEMMA OpsFacts ==
    ASSUME IsBlock(txs), NEW t \in M!Txs
    PROVE  /\ Len(M!Ops(t)) \in Nat /\ DOMAIN M!Ops(t) = 1 .. Len(M!Ops(t))
           /\ \A i \in DOMAIN M!Ops(t) :
                  LET o == M!Ops(t)[i]
                  IN  \/ o.Type = "read" /\ o.Key \in txs[t].reads
                      \/ o.Type = "write" /\ o.Key \in txs[t].writes
           /\ \A k \in txs[t].writes : \E i \in DOMAIN M!Ops(t) :
                  M!Ops(t)[i].Type = "write" /\ M!Ops(t)[i].Key = k
           /\ \A i, j \in DOMAIN M!Ops(t) :
                  (M!Ops(t)[i].Type = "read" /\ M!Ops(t)[j].Type = "write") => i < j
<1> DEFINE R == txs[t].reads
           V == txs[t].writes
           r == Cardinality(R)
           v == Cardinality(V)
           ops == M!Ops(t)
<1>1. t \in DOMAIN txs /\ R \in SUBSET Nat /\ IsFiniteSet(R) /\ V \in SUBSET Nat /\ IsFiniteSet(V)
  BY DEF M!Txs, IsBlock
<1>2. ops = [i \in 1 .. r + v |->
                IF i <= r THEN [Key |-> M!SortedKey(R, i), Type |-> "read"]
                ELSE [Key |-> M!SortedKey(V, i - r), Type |-> "write"]]
  BY MVSets DEF M!Ops, M!OpsOf, M!ReadOperation, M!WriteOperation
<1> HIDE DEF R, V, r, v, ops
<1>3. /\ r \in Nat /\ \A i \in 1 .. r : M!SortedKey(R, i) \in R
      /\ v \in Nat /\ \A i \in 1 .. v : M!SortedKey(V, i) \in V
      /\ \A k \in V : \E i \in 1 .. v : M!SortedKey(V, i) = k
  BY <1>1, SortedKeys DEF r, v
<1>4. DOMAIN ops = 1 .. r + v /\ Len(ops) = r + v
  BY <1>2, <1>3
<1>5. ASSUME NEW i \in 1 .. r + v, i <= r
      PROVE  ops[i].Type = "read" /\ ops[i].Key \in R
  BY <1>2, <1>3, <1>5
<1>6. ASSUME NEW i \in 1 .. r + v, ~(i <= r)
      PROVE  ops[i].Type = "write" /\ ops[i].Key = M!SortedKey(V, i - r) /\ i - r \in 1 .. v
  BY <1>2, <1>3, <1>6
<1>7. ASSUME NEW k \in V
      PROVE  \E i \in 1 .. r + v : ops[i].Type = "write" /\ ops[i].Key = k
  <2>1. PICK i \in 1 .. v : M!SortedKey(V, i) = k
    BY <1>3
  <2>2. PICK j \in 1 .. r + v : ~(j <= r) /\ j - r = i
    <3>1. PICK j \in Int : j = i + r
      BY <1>3
    <3>2. j \in 1 .. r + v /\ ~(j <= r) /\ j - r = i
      BY <1>3, <3>1
    <3> QED
      BY <3>2
  <2>3. ops[j].Type = "write" /\ ops[j].Key = M!SortedKey(V, j - r)
    BY <1>6, <2>2
  <2> QED
    BY <2>1, <2>2, <2>3
<1>8. ASSUME NEW i \in 1 .. r + v, NEW j \in 1 .. r + v, ops[i].Type = "read", ops[j].Type = "write"
      PROVE  i < j
  <2>1. i <= r
    BY <1>6, <1>8
  <2>2. ~(j <= r)
    BY <1>5, <1>8
  <2> QED
    BY <1>3, <2>1, <2>2
<1>9. ASSUME NEW i \in 1 .. r + v
      PROVE  \/ ops[i].Type = "read" /\ ops[i].Key \in R
             \/ ops[i].Type = "write" /\ ops[i].Key \in V
  BY <1>3, <1>5, <1>6
<1>10. Len(ops) \in Nat /\ DOMAIN ops = 1 .. Len(ops)
  BY <1>3, <1>4
<1> QED
  BY <1>4, <1>7, <1>8, <1>9, <1>10 DEF R, V, ops

-----------------------------------------------------------------------------
(* MVSchedO: the hot keys                                                  *)

LEMMA FinitePairs ==
    ASSUME NEW D, IsFiniteSet(D), NEW rows, \A b \in D : IsFiniteSet(DOMAIN rows[b])
    PROVE  IsFiniteSet(UNION {{<<b, i>> : i \in DOMAIN rows[b]} : b \in D})
<1> DEFINE Row(b) == {<<b, i>> : i \in DOMAIN rows[b]}
           family == {Row(b) : b \in D}
<1>1. ASSUME NEW b \in D PROVE IsFiniteSet(Row(b))
  <2> DEFINE f == [i \in DOMAIN rows[b] |-> <<b, i>>]
  <2>1. f \in Surjection(DOMAIN rows[b], Row(b))
    BY DEF Surjection
  <2> HIDE DEF f, Row
  <2> QED
    BY <2>1, FS_Surjection
<1>2. IsFiniteSet(family)
  <2> DEFINE f == [b \in D |-> Row(b)]
  <2> HIDE DEF Row
  <2>1. f \in Surjection(D, family)
    BY DEF Surjection
  <2> HIDE DEF f, family
  <2> QED
    BY <2>1, FS_Surjection
<1>3. \A U \in family : IsFiniteSet(U)
  <2> HIDE DEF Row
  <2> QED
    BY <1>1
<1>4. IsFiniteSet(UNION family)
  <2> HIDE DEF family
  <2> QED
    BY <1>2, <1>3, FS_UNION
<1> QED
  BY <1>4

LEMMA TwoElements ==
    ASSUME NEW U, IsFiniteSet(U), NEW x \in U, NEW y \in U, x # y
    PROVE  Cardinality(U) > 1
<1>1. Cardinality(U) \in Nat
  BY FS_CardinalityType
<1>2. Cardinality(U) # 0
  BY FS_EmptySet
<1>3. Cardinality(U) # 1
  <2>1. SUFFICES ASSUME Cardinality(U) = 1 PROVE FALSE
    OBVIOUS
  <2>2. PICK z : U = {z}
    BY <2>1, FS_Singleton
  <2> QED
    BY <2>2
<1> QED
  BY <1>1, <1>2, <1>3

\* A key that one transaction writes and another one uses is hot.
HotInv ==
    \A t, u \in M!Txs : \A k :
        (t # u /\ k \in txs[t].writes /\ k \in txs[u].reads \cup txs[u].writes) => k \in hotKeys

LEMMA HotPair ==
    ASSUME M!MVWorkloadsAssumption, NEW blocks \in MVWorkloads, NEW b \in DOMAIN blocks,
           NEW i \in DOMAIN blocks[b], NEW j \in DOMAIN blocks[b], i # j,
           NEW k, k \in blocks[b][i].writes, k \in blocks[b][j].reads \cup blocks[b][j].writes
    PROVE  k \in M!HotKeys(blocks)
<1> DEFINE all == UNION {{<<c, m>> : m \in DOMAIN blocks[c]} : c \in DOMAIN blocks}
           Users == {p \in all : k \in blocks[p[1]][p[2]].reads \cup blocks[p[1]][p[2]].writes}
           written == UNION {blocks[p[1]][p[2]].writes : p \in all}
<1>1. IsFiniteSet(all)
  <2>1. Len(blocks) \in Nat /\ DOMAIN blocks = 1 .. Len(blocks)
    BY DEF M!MVWorkloadsAssumption
  <2>2. IsFiniteSet(DOMAIN blocks)
    BY <2>1, FS_Interval
  <2>3. ASSUME NEW c \in DOMAIN blocks PROVE IsFiniteSet(DOMAIN blocks[c])
    <3>1. Len(blocks[c]) \in Nat /\ DOMAIN blocks[c] = 1 .. Len(blocks[c])
      BY DEF M!MVWorkloadsAssumption
    <3> QED
      BY <3>1, FS_Interval
  <2> QED
    BY <2>2, <2>3, FinitePairs
<1>2. <<b, i>> \in all /\ <<b, j>> \in all /\ <<b, i>> # <<b, j>>
  OBVIOUS
<1>3. k \in written
  <2> HIDE DEF all
  <2>1. <<b, i>>[1] = b /\ <<b, i>>[2] = i
    OBVIOUS
  <2> QED
    BY <1>2, <2>1
<1>4. <<b, i>> \in Users /\ <<b, j>> \in Users
  <2> HIDE DEF all
  <2>1. <<b, i>>[1] = b /\ <<b, i>>[2] = i /\ <<b, j>>[1] = b /\ <<b, j>>[2] = j
    OBVIOUS
  <2> QED
    BY <1>2, <2>1
<1>5. Users \in SUBSET all
  OBVIOUS
<1>6. M!HotKeys(blocks) = {n \in written :
          Cardinality({p \in all : n \in blocks[p[1]][p[2]].reads \cup blocks[p[1]][p[2]].writes}) > 1}
  BY MVSets DEF M!HotKeys, M!Contended
<1>7. Cardinality(Users) > 1
  <2> HIDE DEF all, Users
  <2>1. IsFiniteSet(Users)
    BY <1>1, <1>5, FS_Subset
  <2> QED
    BY <1>2, <1>4, <2>1, TwoElements
<1> HIDE DEF all, written
<1> QED
  BY <1>3, <1>6, <1>7

LEMMA MVBlock ==
    ASSUME M!MVWorkloadsAssumption, M!Init
    PROVE  IsBlock(txs) /\ HotInv
<1>1. PICK blocks \in MVWorkloads : \E b \in DOMAIN blocks :
          /\ hotKeys = M!HotKeys(blocks)
          /\ \E schedule \in M!Schedules(blocks[b], M!HotKeys(blocks)) :
                 txs = [i \in DOMAIN schedule |-> blocks[b][schedule[i]]]
  BY DEF M!Init
<1>2. PICK b \in DOMAIN blocks :
          /\ hotKeys = M!HotKeys(blocks)
          /\ \E schedule \in M!Schedules(blocks[b], M!HotKeys(blocks)) :
                 txs = [i \in DOMAIN schedule |-> blocks[b][schedule[i]]]
  BY <1>1
<1> DEFINE block == blocks[b]
<1>3. PICK schedule \in M!Schedules(block, M!HotKeys(blocks)) :
          txs = [i \in DOMAIN schedule |-> block[schedule[i]]]
  BY <1>2
<1>4. /\ DOMAIN schedule = DOMAIN block
      /\ \A i \in DOMAIN block : schedule[i] \in DOMAIN block
      /\ \A i, j \in DOMAIN block : schedule[i] = schedule[j] => i = j
  <2> HIDE DEF block
  <2>1. CASE Len(block) <= 1 \/ M!HotKeys(blocks) = {}
    <3>1. schedule = [i \in DOMAIN block |-> i]
      BY <2>1 DEF M!Schedules
    <3> QED
      BY <3>1
  <2>2. CASE ~(Len(block) <= 1 \/ M!HotKeys(blocks) = {})
    <3>1. schedule \in {s \in [DOMAIN block -> DOMAIN block] :
              /\ \A m, n \in DOMAIN block : s[m] = s[n] => m = n
              /\ \A n \in 2 .. Len(block) : M!BestOfSample(block, s, M!HotKeys(blocks), n)}
      BY <2>2 DEF M!Schedules
    <3>2. /\ schedule \in [DOMAIN block -> DOMAIN block]
          /\ \A m, n \in DOMAIN block : schedule[m] = schedule[n] => m = n
      BY <3>1
    <3> QED
      BY <3>2
  <2> QED
    BY <2>1, <2>2
<1>5. DOMAIN txs = DOMAIN block /\ \A i \in DOMAIN block : txs[i] = block[schedule[i]]
  <2> HIDE DEF block
  <2> QED
    BY <1>3, <1>4
<1>6. /\ DOMAIN block = 1 .. Len(block) /\ Len(block) \in Nat
      /\ \A i \in DOMAIN block :
             /\ block[i].reads \cup block[i].writes \subseteq Nat
             /\ IsFiniteSet(block[i].reads) /\ IsFiniteSet(block[i].writes)
  BY MVSets DEF M!MVWorkloadsAssumption
<1>7. IsBlock(txs)
  <2> HIDE DEF block
  <2>1. DOMAIN txs \in SUBSET (Nat \ {0})
    BY <1>5, <1>6
  <2>2. ASSUME NEW i \in DOMAIN txs
        PROVE  /\ txs[i].reads \in SUBSET Nat /\ IsFiniteSet(txs[i].reads)
               /\ txs[i].writes \in SUBSET Nat /\ IsFiniteSet(txs[i].writes)
    BY <1>4, <1>5, <1>6
  <2> QED
    BY <2>1, <2>2 DEF IsBlock
<1>8. HotInv
  <2>1. SUFFICES ASSUME NEW t \in DOMAIN txs, NEW u \in DOMAIN txs, NEW k, t # u,
                        k \in txs[t].writes, k \in txs[u].reads \cup txs[u].writes
                 PROVE  k \in hotKeys
    BY DEF HotInv, M!Txs
  <2>2. /\ schedule[t] \in DOMAIN block /\ schedule[u] \in DOMAIN block /\ schedule[t] # schedule[u]
        /\ txs[t] = block[schedule[t]] /\ txs[u] = block[schedule[u]]
    <3> HIDE DEF block
    <3> QED
      BY <1>4, <1>5, <2>1
  <2>3. PICK i \in DOMAIN blocks[b] : i = schedule[t]
    BY <2>2
  <2>4. PICK j \in DOMAIN blocks[b] : j = schedule[u]
    BY <2>2
  <2>5. k \in blocks[b][i].writes /\ k \in blocks[b][j].reads \cup blocks[b][j].writes /\ i # j
    BY <2>1, <2>2, <2>3, <2>4
  <2> HIDE DEF block
  <2>6. k \in M!HotKeys(blocks)
    BY <2>5, HotPair
  <2> QED
    BY <1>2, <2>6
<1> QED
  BY <1>7, <1>8

-----------------------------------------------------------------------------
(* MVSchedO: the inductive invariant                                       *)

\* The places of the writes of k.
WritePlaces(t, k) == {j \in DOMAIN M!Ops(t) : M!Ops(t)[j].Type = "write" /\ M!Ops(t)[j].Key = k}

\* The worker w takes the transaction t.
Mine(w, t) == \E n \in Nat : t = w + n * MVThreads

\* The operation has been accessed, and marked.
Marked(w, t, j) == t < tx[w] \/ (t = tx[w] /\ j < op[w])
Accessed(w, t, j) == Marked(w, t, j) \/ (t = tx[w] /\ j = op[w] /\ mvAt[w] = "mark")

MVTypeOK ==
    /\ tx \in [M!Workers -> Nat] /\ \A w \in M!Workers : Mine(w, tx[w])
    /\ op \in [M!Workers -> Nat \ {0}]
    /\ mvAt \in [M!Workers -> {"access", "mark"}]
    /\ maxReadTS \in [M!Keys -> Nat]
    /\ DOMAIN LocalGet = M!Txs /\ \A t \in M!Txs : DOMAIN LocalGet[t] = txs[t].reads
    /\ dependencies \in [M!Txs -> SUBSET M!Txs]
    /\ DOMAIN status = M!Txs

\* A version comes from a write that has been accessed.
VersionInv ==
    /\ DOMAIN versions = M!Keys
    /\ \A k \in M!Keys :
           /\ 0 \in versions[k] /\ versions[k] \subseteq {0} \cup M!Txs
           /\ \A t \in M!Txs : t \in versions[k] =>
                  /\ k \in txs[t].writes
                  /\ \A w \in M!Workers : Mine(w, t) => \E j \in WritePlaces(t, k) : Accessed(w, t, j)

\* What is in the queues as done has been marked, and its version is there.
DoneInv ==
    /\ \A w \in M!Workers, t \in M!Txs, j \in Nat :
           (Mine(w, t) /\ <<t, j>> \in done) => Marked(w, t, j)
    /\ \A t \in M!Txs, k \in M!Keys : \A j \in WritePlaces(t, k) :
           <<t, j>> \in done => t \in versions[k]

MarkInv ==
    \A w \in M!Workers, t \in M!Txs : (t = tx[w] /\ mvAt[w] = "mark") =>
        \A k \in M!Keys : op[w] \in WritePlaces(t, k) => t \in versions[k]

\* A read of k has found all the earlier writes of it done.
MaxReadInv ==
    \A k \in M!Keys, t \in M!Txs : \A j \in WritePlaces(t, k) :
        t < maxReadTS[k] => <<t, j>> \in done

AtMark == \A w \in M!Workers : mvAt[w] = "mark" => tx[w] \in M!Txs

MVIInv ==
    /\ IsBlock(txs) /\ HotInv /\ MVTypeOK
    /\ VersionInv /\ DoneInv /\ MarkInv /\ MaxReadInv /\ AtMark
    /\ M!MVTimestampOrder

LEMMA MVInit ==
    ASSUME M!MVThreadsAssumption, M!MVWorkloadsAssumption, M!Init
    PROVE  MVIInv
<1>1. IsBlock(txs) /\ HotInv
  BY MVBlock
<1>2. /\ maxReadTS = [k \in M!Keys |-> 0]
      /\ versions = [k \in M!Keys |-> {0}]
      /\ status = [t \in M!Txs |-> "pending"]
      /\ LocalGet = [t \in M!Txs |-> [k \in txs[t].reads |-> -1]]
      /\ dependencies = [t \in M!Txs |-> {}]
      /\ done = {}
      /\ tx = [w \in M!Workers |-> w]
      /\ op = [w \in M!Workers |-> 1]
      /\ mvAt = [w \in M!Workers |-> "access"]
  BY DEF M!Init
<1>3. MVTypeOK
  <2>1. ASSUME NEW w \in M!Workers PROVE w \in Nat /\ Mine(w, w)
    <3>1. w \in Nat /\ 0 \in Nat /\ w = w + 0 * MVThreads
      BY DEF M!Workers, M!MVThreadsAssumption
    <3> QED
      BY <3>1 DEF Mine
  <2> QED
    BY <1>2, <2>1 DEF MVTypeOK
<1>4. \A t \in M!Txs : t \in Nat \ {0}
  BY <1>1 DEF IsBlock, M!Txs
<1>5. VersionInv
  BY <1>2, <1>4 DEF VersionInv
<1>6. DoneInv
  BY <1>2 DEF DoneInv
<1>7. MarkInv /\ AtMark
  BY <1>2 DEF MarkInv, AtMark
<1>8. MaxReadInv
  BY <1>2, <1>4 DEF MaxReadInv
<1>9. M!MVTimestampOrder
  BY <1>2 DEF M!MVTimestampOrder, M!ReadsLatest, M!NeverAborts
<1> QED
  BY <1>1, <1>3, <1>5, <1>6, <1>7, <1>8, <1>9 DEF MVIInv

LEMMA MineUnique ==
    ASSUME M!MVThreadsAssumption, NEW t, NEW w \in M!Workers, NEW v \in M!Workers, Mine(w, t), Mine(v, t)
    PROVE  w = v
<1>1. PICK n \in Nat : t = w + n * MVThreads
  BY DEF Mine
<1>2. PICK m \in Nat : t = v + m * MVThreads
  BY DEF Mine
<1>3. MVThreads \in Nat \ {0} /\ w \in 1 .. MVThreads /\ v \in 1 .. MVThreads
  BY DEF M!Workers, M!MVThreadsAssumption
<1>4. n * MVThreads \in Int /\ m * MVThreads \in Int
  BY <1>3
<1>5. ~(n < m)
  <2>1. SUFFICES ASSUME n < m PROVE FALSE
    OBVIOUS
  <2>2. n * MVThreads + MVThreads <= m * MVThreads
    BY <1>3, <2>1, Multiples
  <2> QED
    BY <1>1, <1>2, <1>3, <1>4, <2>2
<1>6. ~(m < n)
  <2>1. SUFFICES ASSUME m < n PROVE FALSE
    OBVIOUS
  <2>2. m * MVThreads + MVThreads <= n * MVThreads
    BY <1>3, <2>1, Multiples
  <2> QED
    BY <1>1, <1>2, <1>3, <1>4, <2>2
<1>7. n = m
  BY <1>5, <1>6
<1> QED
  BY <1>1, <1>2, <1>3, <1>4, <1>7

LEMMA MineNext ==
    ASSUME M!MVThreadsAssumption, NEW t, NEW w \in M!Workers, Mine(w, t)
    PROVE  t \in Nat /\ t + MVThreads \in Nat /\ t < t + MVThreads /\ Mine(w, t + MVThreads)
<1>1. PICK n \in Nat : t = w + n * MVThreads
  BY DEF Mine
<1>2. MVThreads \in Nat \ {0} /\ w \in Nat
  BY DEF M!Workers, M!MVThreadsAssumption
<1>3. n * MVThreads \in Nat /\ (n + 1) * MVThreads = n * MVThreads + MVThreads
  BY <1>2
<1>4. t + MVThreads = w + (n + 1) * MVThreads
  BY <1>1, <1>2, <1>3
<1>5. n + 1 \in Nat
  OBVIOUS
<1> QED
  BY <1>1, <1>2, <1>3, <1>4, <1>5 DEF Mine

\* An operation of t on k whose turn it is finds the earlier writes done.
Turn(t, k) == \A u \in M!Txs : \A j \in WritePlaces(u, k) : u < t => <<u, j>> \in done

LEMMA TurnComes ==
    ASSUME IsBlock(txs), HotInv, NEW t \in M!Txs, NEW i \in DOMAIN M!Ops(t),
           M!WaitTurn(t, M!Ops(t)[i])
    PROVE  /\ M!Ops(t)[i].Key \in M!Keys
           /\ \/ M!Ops(t)[i].Type = "read" /\ M!Ops(t)[i].Key \in txs[t].reads
              \/ M!Ops(t)[i].Type = "write" /\ M!Ops(t)[i].Key \in txs[t].writes
           /\ Turn(t, M!Ops(t)[i].Key)
<1> DEFINE o == M!Ops(t)[i]
           k == o.Key
<1>1. /\ \/ o.Type = "read" /\ k \in txs[t].reads
         \/ o.Type = "write" /\ k \in txs[t].writes
  BY OpsFacts
<1>2. k \in M!Keys
  BY <1>1 DEF M!Keys
<1>3. ASSUME NEW u \in M!Txs, NEW j \in WritePlaces(u, k), u < t
      PROVE  <<u, j>> \in done
  <2>1. j \in DOMAIN M!Ops(u) /\ M!Ops(u)[j].Type = "write" /\ M!Ops(u)[j].Key = k
    BY DEF WritePlaces
  <2>2. k \in txs[u].writes
    BY <2>1, OpsFacts
  <2>3. t \in Nat /\ u \in Nat
    BY DEF IsBlock, M!Txs
  <2>4. k \in hotKeys
    BY <1>1, <1>3, <2>2, <2>3 DEF HotInv
  <2>5. M!MyTurn(t, o)
    BY <2>4 DEF M!WaitTurn
  <2>6. M!conflictsWith(M!Ops(u)[j], o)
    BY <2>1 DEF M!conflictsWith, M!WriteOperation
  <2> QED
    BY <1>3, <2>1, <2>5, <2>6 DEF M!MyTurn, M!Smaller
<1> QED
  BY <1>1, <1>2, <1>3 DEF Turn

SameBlock ==
    /\ txs' = txs /\ hotKeys' = hotKeys
    /\ IsBlock(txs)' = IsBlock(txs) /\ HotInv' = HotInv
    /\ M!Txs' = M!Txs /\ M!Keys' = M!Keys
    /\ \A t : M!Ops(t)' = M!Ops(t)
    /\ \A t, k : WritePlaces(t, k)' = WritePlaces(t, k)

LEMMA BlockStays ==
    ASSUME txs' = txs, hotKeys' = hotKeys
    PROVE  SameBlock
<1>1. M!Txs' = M!Txs /\ M!Keys' = M!Keys /\ \A t : M!Ops(t)' = M!Ops(t)
  BY DEF M!Txs, M!Keys, M!Ops
<1>2. \A t, k : WritePlaces(t, k)' = WritePlaces(t, k)
  BY <1>1 DEF WritePlaces
<1>3. HotInv' = HotInv
  BY <1>1 DEF HotInv
<1>4. IsBlock(txs)' = IsBlock(txs)
  BY DEF IsBlock
<1> QED
  BY <1>1, <1>2, <1>3, <1>4 DEF SameBlock

\* The operation in which w is.
Inside(w, t, i) ==
    /\ w \in M!Workers /\ t \in M!Txs /\ i \in DOMAIN M!Ops(t)
    /\ tx[w] = t /\ op[w] = i /\ mvAt[w] = "access"

WritersBefore(t, k) == {0} \cup {u \in M!Txs : u < t /\ k \in txs[u].writes}

LEMMA ReadFinds ==
    ASSUME MVIInv, NEW w, NEW t, NEW i, Inside(w, t, i),
           NEW k \in M!Keys, M!Ops(t)[i].Type = "read", Turn(t, k)
    PROVE  /\ {v \in versions[k] : v <= t /\ (v # 0 => status[v] # "aborted")} = WritersBefore(t, k)
           /\ M!Latest(WritersBefore(t, k)) \in WritersBefore(t, k)
<1>1. /\ w \in M!Workers /\ t \in M!Txs /\ i \in DOMAIN M!Ops(t)
      /\ tx[w] = t /\ op[w] = i /\ mvAt[w] = "access"
  BY DEF Inside
<1>2. \A u \in M!Txs : u \in Nat \ {0}
  BY DEF MVIInv, IsBlock, M!Txs
<1>3. /\ IsBlock(txs) /\ VersionInv /\ DoneInv /\ MVTypeOK /\ M!NeverAborts
  BY DEF MVIInv, M!MVTimestampOrder
<1>4. t \notin versions[k]
  <2>1. SUFFICES ASSUME t \in versions[k] PROVE FALSE
    OBVIOUS
  <2>2. Mine(w, t)
    BY <1>1, <1>3 DEF MVTypeOK
  <2>3. PICK j \in WritePlaces(t, k) : Accessed(w, t, j)
    BY <1>1, <1>3, <2>1, <2>2 DEF VersionInv
  <2>4. j \in DOMAIN M!Ops(t) /\ M!Ops(t)[j].Type = "write"
    BY DEF WritePlaces
  <2>5. Len(M!Ops(t)) \in Nat /\ DOMAIN M!Ops(t) = 1 .. Len(M!Ops(t)) /\ i < j
    BY <1>1, <1>3, <2>4, OpsFacts
  <2>6. j < i
    BY <1>1, <1>2, <2>3 DEF Accessed, Marked
  <2> QED
    BY <1>1, <2>4, <2>5, <2>6
<1>5. ASSUME NEW v \in versions[k], v <= t, v # 0
      PROVE  v \in M!Txs /\ v < t /\ k \in txs[v].writes
  <2>1. v \in M!Txs /\ k \in txs[v].writes
    BY <1>3, <1>5 DEF VersionInv
  <2>2. v # t
    BY <1>4
  <2> QED
    BY <1>1, <1>2, <1>5, <2>1, <2>2
<1>6. ASSUME NEW u \in M!Txs, u < t, k \in txs[u].writes
      PROVE  u \in versions[k] /\ u <= t /\ status[u] # "aborted"
  <2>1. PICK j \in DOMAIN M!Ops(u) : M!Ops(u)[j].Type = "write" /\ M!Ops(u)[j].Key = k
    BY <1>3, <1>6, OpsFacts
  <2>2. j \in WritePlaces(u, k)
    BY <2>1 DEF WritePlaces
  <2>3. u \in versions[k]
    BY <1>3, <1>6, <2>2 DEF Turn, DoneInv
  <2> QED
    BY <1>1, <1>2, <1>3, <1>6, <2>3 DEF M!NeverAborts
<1>7. 0 \in versions[k] /\ 0 <= t
  BY <1>1, <1>2, <1>3 DEF VersionInv
<1>8. {v \in versions[k] : v <= t /\ (v # 0 => status[v] # "aborted")} = WritersBefore(t, k)
  BY <1>5, <1>6, <1>7 DEF WritersBefore
<1>9. M!Latest(WritersBefore(t, k)) \in WritersBefore(t, k)
  <2> DEFINE E == WritersBefore(t, k)
  <2>1. t \in Nat /\ E \in SUBSET (0 .. t) /\ E # {}
    BY <1>1, <1>2 DEF WritersBefore
  <2> HIDE DEF E
  <2>2. \E m \in E : \A x \in E : x <= m
    BY <2>1, GreatestOf
  <2>3. M!Latest(E) \in E
    BY <2>2 DEF M!Latest
  <2> QED
    BY <2>3 DEF E
<1> QED
  BY <1>8, <1>9

LEMMA ReadStep ==
    ASSUME MVIInv, M!MVThreadsAssumption, NEW w, NEW t, NEW i, Inside(w, t, i),
           NEW k \in M!Keys, M!Ops(t)[i].Type = "read", M!Ops(t)[i].Key = k, k \in txs[t].reads,
           Turn(t, k), M!Read(t, k), mvAt' = [mvAt EXCEPT ![w] = "mark"],
           UNCHANGED <<txs, hotKeys, status, done, tx, op>>
    PROVE  MVIInv'
<1>1. /\ w \in M!Workers /\ t \in M!Txs /\ i \in DOMAIN M!Ops(t)
      /\ tx[w] = t /\ op[w] = i /\ mvAt[w] = "access"
  BY DEF Inside
<1>2. \A u \in M!Txs : u \in Nat \ {0}
  BY DEF MVIInv, IsBlock, M!Txs
<1>3. /\ IsBlock(txs) /\ VersionInv /\ DoneInv /\ MarkInv /\ MaxReadInv /\ AtMark /\ HotInv /\ MVTypeOK
      /\ M!NeverAborts /\ M!ReadsLatest
  BY DEF MVIInv, M!MVTimestampOrder
<1>4. SameBlock
  BY BlockStays
<1> DEFINE version == M!Latest(WritersBefore(t, k))
<1>0. /\ {v \in versions[k] : v <= t /\ (v # 0 => status[v] # "aborted")} = WritersBefore(t, k)
      /\ M!Latest(WritersBefore(t, k)) \in WritersBefore(t, k)
  BY ReadFinds
<1>5. /\ maxReadTS' = [maxReadTS EXCEPT ![k] = M!Longer(@, t)]
      /\ LocalGet' = [LocalGet EXCEPT ![t][k] = version]
      /\ dependencies' = IF version # 0 /\ status[version] # "committed" /\ version # t
                         THEN [dependencies EXCEPT ![t] = @ \cup {version}] ELSE dependencies
      /\ versions' = versions
  BY <1>0 DEF M!Read
<1>6. version \in {0} \cup M!Txs
  BY <1>0 DEF WritersBefore
<1> HIDE DEF version
<1>7. MVTypeOK'
  <2>1. maxReadTS' \in [M!Keys -> Nat]
    BY <1>1, <1>2, <1>3, <1>5 DEF MVTypeOK, M!Longer
  <2>2. dependencies' \in [M!Txs -> SUBSET M!Txs]
    BY <1>1, <1>3, <1>5, <1>6 DEF MVTypeOK
  <2>3. mvAt' \in [M!Workers -> {"access", "mark"}]
    BY <1>3 DEF MVTypeOK
  <2>4. /\ DOMAIN LocalGet' = M!Txs /\ \A u \in M!Txs : DOMAIN LocalGet'[u] = txs[u].reads
    BY <1>3, <1>5 DEF MVTypeOK
  <2>5. M!Workers' = M!Workers
    BY DEF M!Workers
  <2>6. /\ tx' \in [M!Workers -> Nat] /\ \A v \in M!Workers : Mine(v, tx[v])'
        /\ op' \in [M!Workers -> Nat \ {0}] /\ DOMAIN status' = M!Txs
    BY <1>3 DEF MVTypeOK, Mine
  <2> QED
    BY <1>4, <2>1, <2>2, <2>3, <2>4, <2>5, <2>6 DEF MVTypeOK, SameBlock
<1>8. \A v \in M!Workers : v # w => mvAt'[v] = mvAt[v]
  BY <1>3 DEF MVTypeOK
<1>9. mvAt'[w] = "mark"
  BY <1>1, <1>3 DEF MVTypeOK
<1>10. \A v \in M!Workers : \A u, j : Marked(v, u, j)' = Marked(v, u, j)
  BY DEF Marked
<1>11. \A v \in M!Workers : \A u, j : Accessed(v, u, j) => Accessed(v, u, j)'
  BY <1>1, <1>8, <1>10 DEF Accessed
<1>12. \A v, u : Mine(v, u)' = Mine(v, u)
  BY DEF Mine
<1>13. M!Workers' = M!Workers
  BY DEF M!Workers
<1>14. VersionInv'
  BY <1>3, <1>4, <1>5, <1>11, <1>12, <1>13 DEF VersionInv, SameBlock
<1>15. DoneInv'
  BY <1>3, <1>4, <1>5, <1>10, <1>12, <1>13 DEF DoneInv, SameBlock
<1>16. MarkInv'
  <2>1. SUFFICES ASSUME NEW v \in M!Workers, NEW u \in M!Txs, u = tx[v], mvAt'[v] = "mark",
                        NEW n \in M!Keys, op[v] \in WritePlaces(u, n)
                 PROVE  u \in versions[n]
    BY <1>4, <1>5, <1>13 DEF MarkInv, SameBlock
  <2>2. CASE v = w
    BY <1>1, <2>1, <2>2 DEF WritePlaces
  <2>3. CASE v # w
    BY <1>3, <1>8, <2>1, <2>3 DEF MarkInv
  <2> QED
    BY <2>2, <2>3
<1>17. MaxReadInv'
  <2>1. SUFFICES ASSUME NEW n \in M!Keys, NEW u \in M!Txs, NEW j \in WritePlaces(u, n), u < maxReadTS'[n]
                 PROVE  <<u, j>> \in done
    BY <1>4 DEF MaxReadInv, SameBlock
  <2>2. maxReadTS'[n] = maxReadTS[n] \/ (n = k /\ maxReadTS'[n] = t)
    BY <1>3, <1>5 DEF MVTypeOK, M!Longer
  <2> QED
    BY <1>3, <2>1, <2>2 DEF MaxReadInv, Turn
<1>18. AtMark'
  BY <1>1, <1>3, <1>4, <1>8, <1>13 DEF AtMark, SameBlock
<1>19. M!ReadsLatest'
  <2>1. SUFFICES ASSUME NEW u \in M!Txs, NEW n \in txs[u].reads, LocalGet'[u][n] # -1
                 PROVE  LocalGet'[u][n] = M!Latest(WritersBefore(u, n))
    <3>1. \A W : M!Latest(W)' = M!Latest(W)
      BY DEF M!Latest
    <3>2. \A u, n : WritersBefore(u, n)' = WritersBefore(u, n)
      BY <1>4 DEF WritersBefore, SameBlock
    <3> QED
      BY <1>4, <2>1 DEF M!ReadsLatest, SameBlock, WritersBefore
  <2>2. CASE u = t /\ n = k
    BY <1>1, <1>3, <1>5, <2>2 DEF MVTypeOK, version
  <2>3. CASE ~(u = t /\ n = k)
    <3>1. LocalGet'[u][n] = LocalGet[u][n]
      BY <1>1, <1>3, <1>5, <2>3 DEF MVTypeOK
    <3> QED
      BY <1>3, <2>1, <3>1 DEF M!ReadsLatest, WritersBefore
  <2> QED
    BY <2>2, <2>3
<1>20. M!NeverAborts'
  BY <1>3, <1>4 DEF M!NeverAborts, SameBlock
<1> QED
  BY <1>3, <1>4, <1>7, <1>14, <1>15, <1>16, <1>17, <1>18, <1>19, <1>20
     DEF MVIInv, SameBlock, M!MVTimestampOrder

LEMMA ReadsStay ==
    ASSUME SameBlock, LocalGet' = LocalGet, M!ReadsLatest
    PROVE  M!ReadsLatest'
<1>1. \A W : M!Latest(W)' = M!Latest(W)
  BY DEF M!Latest
<1>2. \A u, n : WritersBefore(u, n)' = WritersBefore(u, n)
  BY DEF WritersBefore, SameBlock
<1>3. ASSUME NEW u \in M!Txs, NEW n \in txs[u].reads, LocalGet'[u][n] # -1
      PROVE  LocalGet'[u][n] = M!Latest(WritersBefore(u, n))'
  <2>1. LocalGet[u][n] = M!Latest(WritersBefore(u, n))
    BY <1>3 DEF M!ReadsLatest, WritersBefore
  <2>2. M!Latest(WritersBefore(u, n)') = M!Latest(WritersBefore(u, n))
    BY <1>2
  <2>3. M!Latest(WritersBefore(u, n))' = M!Latest(WritersBefore(u, n)')
    BY DEF M!Latest
  <2> QED
    BY <2>1, <2>2, <2>3
<1>4. M!Txs' = M!Txs /\ txs' = txs
  BY DEF SameBlock
<1> QED
  BY <1>3, <1>4 DEF M!ReadsLatest, WritersBefore

\* No write comes after the read of a later transaction.
LEMMA NeverTooLate ==
    ASSUME MVIInv, NEW w, NEW t, NEW i, Inside(w, t, i), NEW k \in M!Keys,
           M!Ops(t)[i].Type = "write", M!Ops(t)[i].Key = k
    PROVE  ~M!TooLate(t, k) /\ i \in WritePlaces(t, k)
<1>1. /\ w \in M!Workers /\ t \in M!Txs /\ i \in DOMAIN M!Ops(t) /\ tx[w] = t /\ op[w] = i
  BY DEF Inside
<1>2. IsBlock(txs) /\ MaxReadInv /\ DoneInv /\ MVTypeOK
  BY DEF MVIInv
<1>3. i \in WritePlaces(t, k)
  BY <1>1 DEF WritePlaces
<1>4. t \in Nat /\ i \in Nat
  BY <1>1, <1>2, OpsFacts DEF IsBlock, M!Txs
<1>5. SUFFICES ASSUME t < maxReadTS[k] PROVE FALSE
  BY <1>3 DEF M!TooLate
<1>6. <<t, i>> \in done
  BY <1>1, <1>2, <1>3, <1>5 DEF MaxReadInv
<1>7. Mine(w, t)
  BY <1>1, <1>2 DEF MVTypeOK
<1>8. Marked(w, t, i)
  BY <1>1, <1>2, <1>4, <1>6, <1>7 DEF DoneInv
<1> QED
  BY <1>1, <1>4, <1>8 DEF Marked

LEMMA WriteStep ==
    ASSUME MVIInv, M!MVThreadsAssumption, NEW w, NEW t, NEW i, Inside(w, t, i),
           NEW k \in M!Keys, i \in WritePlaces(t, k), k \in txs[t].writes,
           versions' = [versions EXCEPT ![k] = @ \cup {t}], mvAt' = [mvAt EXCEPT ![w] = "mark"],
           UNCHANGED <<txs, hotKeys, status, done, tx, op, maxReadTS, LocalGet, dependencies>>
    PROVE  MVIInv'
<1>1. /\ w \in M!Workers /\ t \in M!Txs /\ i \in DOMAIN M!Ops(t)
      /\ tx[w] = t /\ op[w] = i /\ mvAt[w] = "access"
  BY DEF Inside
<1>2. \A u \in M!Txs : u \in Nat \ {0}
  BY DEF MVIInv, IsBlock, M!Txs
<1>3. /\ IsBlock(txs) /\ VersionInv /\ DoneInv /\ MarkInv /\ MaxReadInv /\ AtMark /\ HotInv /\ MVTypeOK
      /\ M!NeverAborts /\ M!ReadsLatest
  BY DEF MVIInv, M!MVTimestampOrder
<1>4. SameBlock
  BY BlockStays
<1>5. M!Workers' = M!Workers
  BY DEF M!Workers
<1>6. MVTypeOK'
  <2>1. mvAt' \in [M!Workers -> {"access", "mark"}]
    BY <1>3 DEF MVTypeOK
  <2>2. \A v : Mine(v, tx[v])' = Mine(v, tx[v])
    BY DEF Mine
  <2> QED
    BY <1>3, <1>4, <1>5, <2>1, <2>2 DEF MVTypeOK, SameBlock
<1>7. \A v \in M!Workers : v # w => mvAt'[v] = mvAt[v]
  BY <1>3 DEF MVTypeOK
<1>8. mvAt'[w] = "mark"
  BY <1>1, <1>3 DEF MVTypeOK
<1>9. \A v \in M!Workers : \A u, j : Marked(v, u, j)' = Marked(v, u, j)
  BY DEF Marked
<1>10. \A v \in M!Workers : \A u, j : Accessed(v, u, j) => Accessed(v, u, j)'
  BY <1>1, <1>7, <1>9 DEF Accessed
<1>11. \A v, u : Mine(v, u)' = Mine(v, u)
  BY DEF Mine
<1>12. /\ DOMAIN versions' = M!Keys
       /\ \A n \in M!Keys : \A u : u \in versions'[n] <=> (u \in versions[n] \/ (n = k /\ u = t))
  BY <1>3 DEF VersionInv
<1>13. VersionInv'
  <2>1. ASSUME NEW n \in M!Keys PROVE 0 \in versions'[n] /\ versions'[n] \subseteq {0} \cup M!Txs
    BY <1>1, <1>3, <1>12 DEF VersionInv
  <2>2. ASSUME NEW n \in M!Keys, NEW u \in M!Txs, u \in versions'[n]
        PROVE  /\ n \in txs[u].writes
               /\ \A v \in M!Workers : Mine(v, u) => \E j \in WritePlaces(u, n) : Accessed(v, u, j)'
    <3>1. CASE u \in versions[n]
      BY <1>3, <1>10, <3>1 DEF VersionInv
    <3>2. CASE n = k /\ u = t
      <4>1. ASSUME NEW v \in M!Workers, Mine(v, u) PROVE v = w
        <5>1. Mine(w, u)
          BY <1>1, <1>3, <3>2 DEF MVTypeOK
        <5> QED
          BY <1>1, <4>1, <5>1, MineUnique
      <4>2. Accessed(w, t, i)'
        BY <1>1, <1>8 DEF Accessed
      <4> QED
        BY <3>2, <4>1, <4>2
    <3> QED
      BY <1>12, <2>2, <3>1, <3>2
  <2> QED
    BY <1>4, <1>5, <1>11, <1>12, <2>1, <2>2 DEF VersionInv, SameBlock
<1>14. DoneInv'
  BY <1>3, <1>4, <1>5, <1>9, <1>11, <1>12 DEF DoneInv, SameBlock
<1>15. MarkInv'
  <2>1. SUFFICES ASSUME NEW v \in M!Workers, NEW u \in M!Txs, u = tx[v], mvAt'[v] = "mark",
                        NEW n \in M!Keys, op[v] \in WritePlaces(u, n)
                 PROVE  u \in versions'[n]
    BY <1>4, <1>5 DEF MarkInv, SameBlock
  <2>2. CASE v = w
    <3>1. n = k
      BY <1>1, <2>1, <2>2 DEF WritePlaces
    <3> QED
      BY <1>1, <1>12, <2>1, <2>2, <3>1
  <2>3. CASE v # w
    BY <1>3, <1>7, <1>12, <2>1, <2>3 DEF MarkInv
  <2> QED
    BY <2>2, <2>3
<1>16. MaxReadInv'
  BY <1>3, <1>4 DEF MaxReadInv, SameBlock
<1>17. AtMark'
  BY <1>1, <1>3, <1>4, <1>5, <1>7 DEF AtMark, SameBlock
<1>18. M!ReadsLatest'
  BY <1>3, <1>4, ReadsStay
<1>19. M!NeverAborts'
  BY <1>3, <1>4 DEF M!NeverAborts, SameBlock
<1> QED
  BY <1>3, <1>4, <1>6, <1>13, <1>14, <1>15, <1>16, <1>17, <1>18, <1>19
     DEF MVIInv, SameBlock, M!MVTimestampOrder

\* What changes neither the table nor what has been read keeps the invariant if
\* the workers only go on.
LEMMA GoesOn ==
    ASSUME MVIInv, UNCHANGED <<txs, hotKeys, maxReadTS, versions, LocalGet, dependencies>>,
           MVTypeOK', M!NeverAborts', DoneInv', MarkInv', AtMark', done \subseteq done',
           \A v \in M!Workers, u \in M!Txs : \A j \in DOMAIN M!Ops(u) :
               Accessed(v, u, j) => Accessed(v, u, j)'
    PROVE  MVIInv'
<1>1. /\ IsBlock(txs) /\ VersionInv /\ DoneInv /\ MaxReadInv /\ HotInv /\ M!ReadsLatest
  BY DEF MVIInv, M!MVTimestampOrder
<1>2. SameBlock
  BY BlockStays
<1>3. M!Workers' = M!Workers /\ \A v, u : Mine(v, u)' = Mine(v, u)
  BY DEF M!Workers, Mine
<1>4. VersionInv'
  <2>1. ASSUME NEW n \in M!Keys, NEW u \in M!Txs, u \in versions[n], NEW v \in M!Workers, Mine(v, u)
        PROVE  \E j \in WritePlaces(u, n) : Accessed(v, u, j)'
    <3>1. PICK j \in WritePlaces(u, n) : Accessed(v, u, j)
      BY <1>1, <2>1 DEF VersionInv
    <3>2. j \in DOMAIN M!Ops(u)
      BY DEF WritePlaces
    <3> QED
      BY <3>1, <3>2
  <2> QED
    BY <1>1, <1>2, <1>3, <2>1 DEF VersionInv, SameBlock
<1>5. MaxReadInv'
  BY <1>1, <1>2 DEF MaxReadInv, SameBlock
<1>6. M!ReadsLatest'
  BY <1>1, <1>2, ReadsStay
<1> QED
  BY <1>1, <1>2, <1>4, <1>5, <1>6 DEF MVIInv, SameBlock, M!MVTimestampOrder

-----------------------------------------------------------------------------
(* MVSchedO: its steps                                                     *)

LEMMA AccessStep ==
    ASSUME MVIInv, M!MVThreadsAssumption, NEW w \in M!Workers, M!Access(w)
    PROVE  MVIInv'
<1>1. PICK t \in M!Txs : t = tx[w]
  BY DEF M!Access
<1>2. PICK i \in DOMAIN M!Ops(t) : i = op[w]
  BY <1>1 DEF M!Access
<1> DEFINE o == M!Ops(t)[i]
<1>3. /\ M!WaitTurn(t, o)
      /\ IF o.Type = "read" THEN M!Read(t, o.Key) ELSE M!Write(t, o.Key)
      /\ mvAt' = [mvAt EXCEPT ![w] = IF o.Type = "write" /\ M!TooLate(t, o.Key) THEN "failed" ELSE "mark"]
      /\ UNCHANGED <<txs, hotKeys, status, done, tx, op>>
  BY <1>1, <1>2 DEF M!Access, M!ReadOperation, M!WriteOperation
<1>4. Inside(w, t, i)
  BY <1>1, <1>2 DEF M!Access, Inside
<1>5. IsBlock(txs) /\ HotInv
  BY DEF MVIInv
<1>6. /\ o.Key \in M!Keys
      /\ \/ o.Type = "read" /\ o.Key \in txs[t].reads
         \/ o.Type = "write" /\ o.Key \in txs[t].writes
      /\ Turn(t, o.Key)
  BY <1>3, <1>5, TurnComes
<1>7. PICK k \in M!Keys : k = o.Key
  BY <1>6
<1>8. Turn(t, k)
  BY <1>6, <1>7
<1>9. CASE o.Type = "read"
  <2>1. M!Read(t, k)
    BY <1>3, <1>7, <1>9
  <2>2. mvAt' = [mvAt EXCEPT ![w] = "mark"]
    BY <1>3, <1>9
  <2> QED
    BY <1>3, <1>4, <1>6, <1>7, <1>8, <1>9, <2>1, <2>2, ReadStep
<1>10. CASE o.Type = "write"
  <2>1. ~M!TooLate(t, k) /\ i \in WritePlaces(t, k)
    BY <1>4, <1>7, <1>10, NeverTooLate
  <2>2. M!Write(t, k)
    BY <1>3, <1>7, <1>10
  <2>3. /\ versions' = [versions EXCEPT ![k] = @ \cup {t}]
        /\ UNCHANGED <<maxReadTS, LocalGet, dependencies>>
    BY <2>1, <2>2 DEF M!Write
  <2>4. mvAt' = [mvAt EXCEPT ![w] = "mark"]
    BY <1>3, <1>7, <2>1
  <2>5. k \in txs[t].writes
    BY <1>6, <1>7, <1>10
  <2> QED
    BY <1>3, <1>4, <2>1, <2>3, <2>4, <2>5, WriteStep
<1> QED
  BY <1>6, <1>9, <1>10

LEMMA MarkStep ==
    ASSUME MVIInv, M!MVThreadsAssumption, NEW w \in M!Workers, M!Mark(w)
    PROVE  MVIInv'
<1>1. /\ VersionInv /\ DoneInv /\ MarkInv /\ AtMark /\ MVTypeOK /\ M!NeverAborts /\ IsBlock(txs)
  BY DEF MVIInv, M!MVTimestampOrder
<1>2. mvAt[w] = "mark"
  BY <1>1 DEF M!Mark, MVTypeOK
<1>3. /\ done' = done \cup {<<tx[w], op[w]>>}
      /\ op' = [op EXCEPT ![w] = @ + 1]
      /\ mvAt' = [mvAt EXCEPT ![w] = "access"]
      /\ UNCHANGED <<status, tx, txs, hotKeys, maxReadTS, versions, LocalGet, dependencies>>
  BY <1>2 DEF M!Mark
<1>4. PICK t \in M!Txs : t = tx[w]
  BY <1>1, <1>2 DEF AtMark
<1>5. PICK i \in Nat : i = op[w]
  BY <1>1 DEF MVTypeOK
<1>6. SameBlock
  BY <1>3, BlockStays
<1>7. M!Workers' = M!Workers /\ \A v, u : Mine(v, u)' = Mine(v, u)
  BY DEF M!Workers, Mine
<1>8. MVTypeOK'
  <2>1. op' \in [M!Workers -> Nat \ {0}] /\ mvAt' \in [M!Workers -> {"access", "mark"}]
    BY <1>1, <1>3 DEF MVTypeOK
  <2>2. \A v : Mine(v, tx[v])' = Mine(v, tx[v])
    BY <1>3 DEF Mine
  <2> QED
    BY <1>1, <1>3, <1>6, <1>7, <2>1, <2>2 DEF MVTypeOK, SameBlock
<1>9. /\ op'[w] = i + 1 /\ mvAt'[w] = "access"
      /\ \A v \in M!Workers : v # w => op'[v] = op[v] /\ mvAt'[v] = mvAt[v]
  BY <1>1, <1>3, <1>5 DEF MVTypeOK
<1>10. ASSUME NEW v \in M!Workers, NEW u \in M!Txs, NEW j \in Nat
       PROVE  /\ Marked(v, u, j) => Marked(v, u, j)'
              /\ Accessed(v, u, j) => Accessed(v, u, j)'
  <2>1. CASE v = w
    BY <1>3, <1>5, <1>9, <2>1 DEF Marked, Accessed
  <2>2. CASE v # w
    BY <1>3, <1>9, <2>2 DEF Marked, Accessed
  <2> QED
    BY <2>1, <2>2
<1>11. DoneInv'
  <2>1. ASSUME NEW v \in M!Workers, NEW u \in M!Txs, NEW j \in Nat, Mine(v, u), <<u, j>> \in done'
        PROVE  Marked(v, u, j)'
    <3>1. CASE <<u, j>> \in done
      BY <1>1, <1>10, <2>1, <3>1 DEF DoneInv
    <3>2. CASE <<u, j>> = <<t, i>>
      <4>1. u = t /\ j = i
        BY <3>2
      <4>2. Mine(w, u)
        BY <1>1, <1>4, <4>1 DEF MVTypeOK
      <4>3. v = w
        BY <2>1, <4>2, MineUnique
      <4> QED
        BY <1>3, <1>4, <1>9, <4>1, <4>3 DEF Marked
    <3> QED
      BY <1>3, <1>4, <1>5, <2>1, <3>1, <3>2
  <2>2. ASSUME NEW u \in M!Txs, NEW k \in M!Keys, NEW j \in WritePlaces(u, k), <<u, j>> \in done'
        PROVE  u \in versions[k]
    <3>1. CASE <<u, j>> \in done
      BY <1>1, <3>1 DEF DoneInv
    <3>2. CASE <<u, j>> = <<t, i>>
      BY <1>1, <1>2, <1>4, <1>5, <3>2 DEF MarkInv
    <3> QED
      BY <1>3, <1>4, <1>5, <2>2, <3>1, <3>2
  <2> QED
    BY <1>3, <1>6, <1>7, <2>1, <2>2 DEF DoneInv, SameBlock
<1>12. MarkInv'
  <2>1. SUFFICES ASSUME NEW v \in M!Workers, NEW u \in M!Txs, u = tx[v], mvAt'[v] = "mark",
                        NEW n \in M!Keys, op'[v] \in WritePlaces(u, n)
                 PROVE  u \in versions[n]
    BY <1>3, <1>6, <1>7 DEF MarkInv, SameBlock
  <2>2. v # w
    BY <1>9, <2>1
  <2> QED
    BY <1>1, <1>9, <2>1, <2>2 DEF MarkInv
<1>13. AtMark'
  BY <1>1, <1>3, <1>6, <1>7, <1>9 DEF AtMark, SameBlock
<1>14. M!NeverAborts'
  BY <1>1, <1>3, <1>6 DEF M!NeverAborts, SameBlock
<1>15. \A v \in M!Workers, u \in M!Txs : \A j \in DOMAIN M!Ops(u) : Accessed(v, u, j) => Accessed(v, u, j)'
  <2>1. \A u \in M!Txs : \A j \in DOMAIN M!Ops(u) : j \in Nat
    BY <1>1, OpsFacts
  <2> QED
    BY <1>10, <2>1
<1> QED
  BY <1>3, <1>8, <1>11, <1>12, <1>13, <1>14, <1>15, GoesOn

LEMMA FinishStep ==
    ASSUME MVIInv, M!MVThreadsAssumption, NEW w \in M!Workers, M!Finish(w)
    PROVE  MVIInv'
<1>1. /\ VersionInv /\ DoneInv /\ MarkInv /\ AtMark /\ MVTypeOK /\ M!NeverAborts /\ IsBlock(txs)
  BY DEF MVIInv, M!MVTimestampOrder
<1>2. PICK t \in M!Txs : t = tx[w]
  BY DEF M!Finish
<1>3. \A d \in dependencies[t] : status[d] # "aborted"
  BY <1>1 DEF MVTypeOK, M!NeverAborts
<1>4. /\ mvAt[w] = "access"
      /\ status' = [status EXCEPT ![t] = "committed"]
      /\ tx' = [tx EXCEPT ![w] = @ + MVThreads]
      /\ op' = [op EXCEPT ![w] = 1]
      /\ UNCHANGED <<txs, hotKeys, maxReadTS, versions, LocalGet, dependencies, done, mvAt>>
  BY <1>2, <1>3 DEF M!Finish, M!NextTx
<1>5. SameBlock
  BY <1>4, BlockStays
<1>6. M!Workers' = M!Workers /\ \A v, u : Mine(v, u)' = Mine(v, u)
  BY DEF M!Workers, Mine
<1>7. t \in Nat /\ t + MVThreads \in Nat /\ t < t + MVThreads /\ Mine(w, t + MVThreads)
  <2>1. Mine(w, t)
    BY <1>1, <1>2 DEF MVTypeOK
  <2> QED
    BY <2>1, MineNext
<1>8. /\ tx'[w] = t + MVThreads
      /\ \A v \in M!Workers : v # w => tx'[v] = tx[v] /\ op'[v] = op[v]
  BY <1>1, <1>2, <1>4 DEF MVTypeOK
<1>9. MVTypeOK'
  <2>1. tx' \in [M!Workers -> Nat]
    BY <1>1, <1>2, <1>4, <1>7 DEF MVTypeOK
  <2>2. op' \in [M!Workers -> Nat \ {0}]
    BY <1>1, <1>4 DEF MVTypeOK
  <2>3. ASSUME NEW v \in M!Workers PROVE Mine(v, tx'[v])
    BY <1>1, <1>7, <1>8 DEF MVTypeOK
  <2>4. \A v : Mine(v, tx[v])' <=> Mine(v, tx'[v])
    BY DEF Mine
  <2>5. DOMAIN status' = M!Txs
    BY <1>1, <1>4 DEF MVTypeOK
  <2> QED
    BY <1>1, <1>4, <1>5, <1>6, <2>1, <2>2, <2>3, <2>4, <2>5 DEF MVTypeOK, SameBlock
<1>10. ASSUME NEW v \in M!Workers, NEW u \in M!Txs, NEW j
       PROVE  /\ Marked(v, u, j) => Marked(v, u, j)'
              /\ Accessed(v, u, j) => Accessed(v, u, j)'
  <2>1. CASE v = w
    <3>1. u \in Nat
      BY <1>1 DEF IsBlock, M!Txs
    <3>2. Marked(w, u, j) => u < tx'[w]
      BY <1>2, <1>7, <1>8, <3>1 DEF Marked
    <3> QED
      BY <1>4, <2>1, <3>2 DEF Marked, Accessed
  <2>2. CASE v # w
    BY <1>4, <1>8, <2>2 DEF Marked, Accessed
  <2> QED
    BY <2>1, <2>2
<1>11. DoneInv'
  BY <1>1, <1>4, <1>5, <1>6, <1>10 DEF DoneInv, SameBlock
<1>12. MarkInv'
  BY <1>1, <1>4, <1>5, <1>6, <1>8 DEF MarkInv, SameBlock
<1>13. AtMark'
  BY <1>1, <1>4, <1>5, <1>6, <1>8 DEF AtMark, SameBlock
<1>14. M!NeverAborts'
  BY <1>1, <1>4, <1>5 DEF M!NeverAborts, MVTypeOK, SameBlock
<1> QED
  BY <1>4, <1>9, <1>10, <1>11, <1>12, <1>13, <1>14, GoesOn

LEMMA FallbackStep ==
    ASSUME MVIInv, M!SerialFallback
    PROVE  MVIInv'
<1>1. /\ VersionInv /\ DoneInv /\ MarkInv /\ AtMark /\ MVTypeOK
  BY DEF MVIInv
<1>2. /\ status' = [t \in M!Txs |-> "committed"]
      /\ UNCHANGED <<txs, hotKeys, maxReadTS, versions, LocalGet, dependencies, done, tx, op, mvAt>>
  BY DEF M!SerialFallback
<1>3. SameBlock
  BY <1>2, BlockStays
<1>4. M!Workers' = M!Workers /\ \A v, u : Mine(v, u)' = Mine(v, u)
  BY DEF M!Workers, Mine
<1>5. \A v, u, j : Marked(v, u, j)' = Marked(v, u, j) /\ Accessed(v, u, j)' = Accessed(v, u, j)
  BY <1>2 DEF Marked, Accessed
<1>6. \A v : Mine(v, tx[v])' = Mine(v, tx[v])
  BY <1>2 DEF Mine
<1>7. MVTypeOK' /\ M!NeverAborts'
  BY <1>1, <1>2, <1>3, <1>4, <1>6 DEF MVTypeOK, M!NeverAborts, SameBlock
<1>8. DoneInv' /\ MarkInv' /\ AtMark'
  BY <1>1, <1>2, <1>3, <1>4, <1>5 DEF DoneInv, MarkInv, AtMark, SameBlock
<1> QED
  BY <1>2, <1>5, <1>7, <1>8, GoesOn

LEMMA MVStays ==
    ASSUME MVIInv, UNCHANGED <<txs, mvVars>>
    PROVE  MVIInv'
<1>1. /\ VersionInv /\ DoneInv /\ MarkInv /\ AtMark /\ MVTypeOK /\ M!NeverAborts
  BY DEF MVIInv, M!MVTimestampOrder
<1>2. UNCHANGED <<txs, hotKeys, maxReadTS, versions, status, LocalGet, dependencies, done, tx, op, mvAt>>
  BY DEF mvVars
<1>3. SameBlock
  BY <1>2, BlockStays
<1>4. M!Workers' = M!Workers /\ \A v, u : Mine(v, u)' = Mine(v, u)
  BY DEF M!Workers, Mine
<1>5. \A v, u, j : Marked(v, u, j)' = Marked(v, u, j) /\ Accessed(v, u, j)' = Accessed(v, u, j)
  BY <1>2 DEF Marked, Accessed
<1>6. \A v : Mine(v, tx[v])' = Mine(v, tx[v])
  BY <1>2 DEF Mine
<1>7. MVTypeOK' /\ M!NeverAborts'
  BY <1>1, <1>2, <1>3, <1>4, <1>6 DEF MVTypeOK, M!NeverAborts, SameBlock
<1>8. DoneInv' /\ MarkInv' /\ AtMark'
  BY <1>1, <1>2, <1>3, <1>4, <1>5 DEF DoneInv, MarkInv, AtMark, SameBlock
<1> QED
  BY <1>2, <1>5, <1>7, <1>8, GoesOn

MVInv == engine = "mvschedo" => MVIInv

\* MVSchedO keeps its inductive invariant.
THEOREM MVInvariance == Spec => []MVInv
<1>1. Init => MVInv
  <2>1. ASSUME Init, engine = "mvschedo" PROVE M!Init
    BY <2>1 DEF Init
  <2> QED
    BY <2>1, Assumptions, MVInit DEF MVInv
<1>2. MVInv /\ [Next]_vars => MVInv'
  <2>1. ASSUME MVInv, UNCHANGED vars PROVE MVInv'
    <3>1. engine' = engine /\ UNCHANGED <<txs, mvVars>>
      BY <2>1 DEF vars
    <3> QED
      BY <2>1, <3>1, MVStays DEF MVInv
  <2>2. ASSUME MVInv, Next PROVE MVInv'
    <3>1. engine' = engine /\ (engine = "mvschedo" => M!Next)
      BY <2>2 DEF Next
    <3>2. ASSUME engine = "mvschedo" PROVE MVIInv'
      <4>1. MVIInv /\ M!Next
        BY <2>2, <3>1, <3>2 DEF MVInv
      <4>2. ASSUME NEW w \in M!Workers, M!Worker(w) PROVE MVIInv'
        BY <4>1, <4>2, Assumptions, AccessStep, MarkStep, FinishStep DEF M!Worker
      <4> QED
        BY <4>1, <4>2, FallbackStep DEF M!Next
    <3> QED
      BY <3>1, <3>2 DEF MVInv
  <2> QED
    BY <2>1, <2>2
<1> QED
  BY <1>1, <1>2, PTL DEF Spec

\* For any number of threads, any blocks and any sampling, MVSchedO executes a
\* block as if in the order of its timestamps: every read finds the version of
\* the last earlier writer, whatever the order of the workers, and no
\* transaction is aborted.
THEOREM MVTimestampOrderCorrect == Spec => []MVTimestampOrder
<1>1. MVInv => MVTimestampOrder
  BY DEF MVInv, MVIInv, MVTimestampOrder
<1> QED
  BY <1>1, MVInvariance, PTL
=============================================================================
