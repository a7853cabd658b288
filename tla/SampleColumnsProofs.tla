------------------------- MODULE SampleColumnsProofs -------------------------
(***************************************************************************)
(* Theorems about SampleColumns, for files, monitor lists, installations   *)
(* and scripts of any size: lists of any length are flattened, so there    *)
(* is an induction over the naturals under most of them, in the form       *)
(* that a set of naturals which is not empty has a least member.           *)
(***************************************************************************)
EXTENDS SampleColumns, TLAPS, WellFoundedInduction

Lines == [mod : STRING, ix : Seq(STRING), ok : BOOLEAN]
Values == [ix : STRING \cup {"error"}, at : Nat]
Texts == Seq(STRING) \cup {BadLine}
Positions == 1..Len(file)

InputType ==
  /\ file \in Seq(Lines) /\ monitor \in Seq(STRING)
  /\ \A p \in Positions : ScriptLines(file[p].mod) \subseteq Seq(STRING)

\* No two lines of base_index.conf have the same module.
Distinct == \A p, q \in Positions : p # q => file[p].mod # file[q].mod

\* The lines the first k names of the monitor list stand for, and all of them.
MonitoredBy(k) == {p \in Positions : \E a \in DOMAIN monitor : a <= k /\ monitor[a] = file[p].mod}
Monitored == {p \in Positions : \E a \in DOMAIN monitor : monitor[a] = file[p].mod}

\* While base_index.conf is read its list grows at the end.
Parsing ==
  /\ info \in Seq(Lines) /\ Len(info) <= Len(file)
  /\ \A p \in 1..Len(info) : info[p] = file[p]
  /\ \A p, q \in 1..Len(info) : p # q => info[p].mod # info[q].mod
  /\ nxt = [p \in M..Len(file) |-> IF p \in 0..(Len(info) - 1) THEN p + 1 ELSE Null]
  /\ hm = M /\ j = 1

\* Then it is complete.
Parsed == info = file /\ Distinct

\* The lines monitor_data has linked so far.
Linked == MonitoredBy(j - 1) \cup ({hm} \ {M})

\* Linked lines lead to the next linked one, up to hm; all others, and hm, to the
\* next line of the file.
Relinked ==
  /\ nxt \in [M..Len(file) -> Positions \cup {Null}]
  /\ hm = M => Linked = {}
  /\ hm # M => hm \in MonitoredBy(j) /\ \A q \in Linked : q <= hm
  /\ \A p \in Linked \cup {M}, q \in Linked :
       p < q /\ (\A r \in Linked : ~(p < r /\ r < q)) => nxt[p] = q
  /\ \A p \in 0..Len(file) :
       p \notin Linked \/ p >= hm => nxt[p] = IF p = Len(file) THEN Null ELSE p + 1

\* The line of the name in hand is still ahead of the walk, or was linked last.
Ahead ==
  /\ j \in 1..(Len(monitor) + 1) /\ head \in Positions \cup {Null}
  /\ j <= Len(monitor) =>
       \A p \in Positions : file[p].mod = monitor[j] =>
         IF p = hm THEN head = Null \/ head > hm ELSE head # Null /\ head <= p

\* After monitor_data: the list behind monitor_mod_info_head has the monitored
\* lines and no other, in the order of the file.
ChainedBy(next) ==
  \A p \in Monitored \cup {M} :
    \/ next[p] = Null /\ \A q \in Monitored : q <= p
    \/ /\ next[p] \in Monitored /\ next[p] > p
       /\ \A q \in Monitored : ~(p < q /\ q < next[p])
Chained == ChainedBy(nxt)

\* The part of the file a walk that has reached x is through with, and the part
\* up to p.
Before(x) == IF x = Null THEN Len(file) ELSE x - 1
UpToLine(p) == IF p = M THEN 0 ELSE p
Done == Before(t)

\* The first k of a list of sequences, one after another.
Flat(e, k) == FlattenSeq([q \in 1..k |-> e[q]])

Names == [p \in Positions |-> IF p \in Monitored THEN file[p].ix ELSE <<>>]
Scripts == [p \in Positions |->
              IF p \in Monitored /\ Flag(file[p].mod) = "SCRIPT" THEN <<file[p].mod>> ELSE <<>>]

\* What load_modules has loaded of the first k lines, and of all.
Flags == {Flag(file[p].mod) : p \in Positions}
LoadedUpTo(k) ==
  /\ \A p \in Monitored : p <= k => \E q \in DOMAIN mods : mods[q].name = file[p].mod
  /\ \A q \in DOMAIN mods : mods[q].flag = Flag(mods[q].name)
  /\ mods \in Seq([name : STRING, flag : Flags])
  /\ script_path = Flat(Scripts, k)
  /\ buffer \in Seq(Texts) /\ Len(buffer) = Len(script_path)
LoadedAll == LoadedUpTo(Len(file))

\* Values that belong to these columns, one by one.
Agree(v, c) == Len(v) = Len(c) /\ \A p \in 1..Len(c) : v[p].ix \in {c[p], "error"}

Walking == t \in Monitored \cup {Null}

\* The sample has the columns of the first k lines, or of all.
SampleUpTo(k) ==
  /\ sample \in Seq(Values)
  /\ ScriptsComplete => Agree(sample, Flat(Names, k))
SampleAll == SampleUpTo(Len(file))

ReadType == index_data \in [Indexes(file) -> Nat] /\ round \in Nat

\* The daemon, from the reading of its configuration to the sample.
CInv ==
  /\ InputType /\ ReadType
  /\ pc \in {"parse", "exit", "monitor", "load", "collect", "complete", "sent"}
  /\ pc = "parse" => Parsing
  /\ pc \notin {"parse", "exit"} => Parsed
  /\ pc # "complete" => script_j = 0
  /\ pc \in {"parse", "monitor"} => mods = <<>> /\ script_path = <<>> /\ buffer = <<>>
  /\ InOrder =>
       /\ pc = "monitor" => Relinked /\ Ahead
       /\ pc \in {"load", "collect", "complete", "sent"} => Chained
       /\ pc = "load" => Walking /\ LoadedUpTo(Done)
       /\ pc \in {"collect", "complete", "sent"} => LoadedAll
       /\ pc = "complete" => /\ Walking /\ SampleUpTo(Done)
                             /\ script_j = Len(Flat(Scripts, Done))
       /\ pc = "sent" => SampleAll

-----------------------------------------------------------------------------
(* Naturals and flattened lists.                                            *)

\* A set of naturals that is not empty has a least member.
LEMMA LeastNat ==
  ASSUME NEW T \in SUBSET Nat, T # {} PROVE \E x \in T : \A y \in T : x <= y
<1>1. PICK x \in T : \A y \in T : ~ (<<y, x>> \in OpToRel(<, Nat))
  BY NatLessThanWellFounded, WFMin
<1>2. \A y \in T : ~ (y < x)
  BY <1>1 DEF OpToRel
<1>3. QED BY <1>2

\* So a set that has 0, and the successor of each of its members below n, has
\* every natural up to n.
LEMMA UpTo ==
  ASSUME NEW n \in Nat, NEW T, 0 \in T, \A k \in 0..(n - 1) : k \in T => k + 1 \in T
  PROVE  \A k \in 0..n : k \in T
<1> DEFINE U == {k \in 0..n : k \notin T}
<1>1. SUFFICES ASSUME U # {} PROVE FALSE
  OBVIOUS
<1>2. PICK x \in U : \A y \in U : x <= y
  <2>1. U \in SUBSET Nat
    OBVIOUS
  <2>2. QED BY <1>1, <2>1, LeastNat
<1>3. x \in 1..n
  BY <1>2
<1>4. x - 1 \in T
  BY <1>2, <1>3
<1>5. x - 1 \in 0..(n - 1) /\ (x - 1) + 1 = x
  BY <1>3
<1>6. QED BY <1>2, <1>4, <1>5

\* What FlattenSeq computes step by step.
FlatSteps(f, s, n) ==
  f = [u \in 1..n |-> IF u = 1 THEN s[u] ELSE f[u - 1] \o s[u]]

\* One of them.
LEMMA FlatAt ==
  ASSUME NEW s, NEW n, NEW f, FlatSteps(f, s, n), NEW u \in 1..n
  PROVE  f[u] = IF u = 1 THEN s[u] ELSE f[u - 1] \o s[u]
<1> DEFINE rhs(x) == IF x = 1 THEN s[x] ELSE f[x - 1] \o s[x]
<1>1. f = [x \in 1..n |-> rhs(x)]
  BY DEF FlatSteps
<1> HIDE DEF rhs
<1>2. f[u] = rhs(u)
  BY <1>1
<1>3. QED BY <1>2 DEF rhs

\* There is such a function for every length,
LEMMA FlatExists == ASSUME NEW s, NEW n \in Nat PROVE \E f : FlatSteps(f, s, n)
<1> DEFINE T == {k \in 0..n : \E f : FlatSteps(f, s, k)}
<1>1. 0 \in T
  <2> DEFINE g == [u \in 1..0 |-> s[u]]
  <2>1. g = [u \in 1..0 |-> IF u = 1 THEN s[u] ELSE g[u - 1] \o s[u]]
    OBVIOUS
  <2>2. FlatSteps(g, s, 0)
    BY <2>1 DEF FlatSteps
  <2>3. QED BY <2>2
<1>2. ASSUME NEW k \in 0..(n - 1), k \in T PROVE k + 1 \in T
  <2>1. PICK f : FlatSteps(f, s, k)
    BY <1>2
  <2> DEFINE g == [u \in 1..(k + 1) |->
                     IF u <= k THEN f[u] ELSE IF k = 0 THEN s[u] ELSE f[k] \o s[u]]
  <2>2. ASSUME NEW u \in 1..(k + 1)
        PROVE  g[u] = IF u = 1 THEN s[u] ELSE g[u - 1] \o s[u]
    <3>1. CASE u <= k
      <4>1. g[u] = f[u] /\ (u # 1 => g[u - 1] = f[u - 1])
        BY <3>1
      <4>2. f[u] = IF u = 1 THEN s[u] ELSE f[u - 1] \o s[u]
        BY <2>1, <3>1, FlatAt
      <4>3. QED BY <4>1, <4>2
    <3>2. CASE u = k + 1
      <4>1. g[u] = IF k = 0 THEN s[u] ELSE f[k] \o s[u]
        BY <3>2
      <4>2. k # 0 => g[u - 1] = f[k]
        BY <3>2
      <4>3. QED BY <3>2, <4>1, <4>2
    <3>3. QED BY <3>1, <3>2
  <2>3. g = [u \in 1..(k + 1) |-> g[u]]
    OBVIOUS
  <2> HIDE DEF g
  <2>4. FlatSteps(g, s, k + 1)
    BY <2>2, <2>3 DEF FlatSteps
  <2>5. QED BY <2>4
<1> HIDE DEF T
<1>3. \A k \in 0..n : k \in T
  BY <1>1, <1>2, UpTo
<1>4. QED BY <1>3 DEF T

\* The same element by element.
StepsOf(f, s, n) ==
  \A u \in 1..n : /\ u = 1 => f[u] = s[u]
                  /\ u # 1 => f[u] = f[u - 1] \o s[u]

\* What the steps of a flattening are, position by position.
LEMMA StepsAt == \A f, s, n : FlatSteps(f, s, n) => StepsOf(f, s, n)
<1>1. SUFFICES ASSUME NEW f, NEW s, NEW n, FlatSteps(f, s, n) PROVE StepsOf(f, s, n)
  OBVIOUS
<1>2. ASSUME NEW u \in 1..n
      PROVE  (u = 1 => f[u] = s[u]) /\ (u # 1 => f[u] = f[u - 1] \o s[u])
  <2>1. f[u] = IF u = 1 THEN s[u] ELSE f[u - 1] \o s[u]
    BY <1>1, FlatAt
  <2>2. QED BY <2>1
<1>3. QED BY <1>2, Zenon DEF StepsOf

\* and it depends on the sequences flattened only.
LEMMA FlatUnique ==
  \A f, g, s, r : \A k \in Nat :
    StepsOf(f, s, k) /\ StepsOf(g, r, k) /\ (\A u \in 1..k : s[u] = r[u])
      => \A u \in 1..k : f[u] = g[u]
<1>1. SUFFICES ASSUME NEW f, NEW g, NEW s, NEW r, NEW k \in Nat,
                      StepsOf(f, s, k), StepsOf(g, r, k), \A u \in 1..k : s[u] = r[u]
               PROVE  \A u \in 1..k : f[u] = g[u]
  OBVIOUS
<1> DEFINE T == {u \in 0..k : u = 0 \/ f[u] = g[u]}
<1>2. 0 \in T
  OBVIOUS
<1>3. ASSUME NEW u \in 0..(k - 1), u \in T PROVE u + 1 \in T
  <2>0. u + 1 \in 1..k /\ (u + 1) - 1 = u
    OBVIOUS
  <2>1. /\ u + 1 = 1 => f[u + 1] = s[u + 1] /\ g[u + 1] = r[u + 1]
        /\ u + 1 # 1 => f[u + 1] = f[u] \o s[u + 1] /\ g[u + 1] = g[u] \o r[u + 1]
    BY <1>1, <2>0 DEF StepsOf
  <2>2. s[u + 1] = r[u + 1]
    BY <1>1, <2>0
  <2>3. u = 0 => f[u + 1] = g[u + 1]
    BY <2>1, <2>2
  <2>4. u # 0 => f[u] = g[u] /\ u + 1 # 1
    BY <1>3
  <2>5. u # 0 => f[u + 1] = g[u + 1]
    BY <2>1, <2>2, <2>4, Zenon
  <2>6. f[u + 1] = g[u + 1] /\ u + 1 \in 0..k
    BY <2>3, <2>5
  <2>7. QED BY <2>6, Zenon
<1> HIDE DEF T
<1>4. \A u \in 0..k : u \in T
  BY <1>2, <1>3, UpTo
<1>5. QED BY <1>4 DEF T

\* FlattenSeq by way of these steps.
LEMMA FlattenIs ==
  ASSUME NEW s, Len(s) \in Nat, Len(s) # 0
  PROVE  \E f : StepsOf(f, s, Len(s)) /\ FlattenSeq(s) = f[Len(s)]
<1> DEFINE f == CHOOSE g : g = [u \in 1..Len(s) |-> IF u = 1 THEN s[u] ELSE g[u - 1] \o s[u]]
<1>1. FlattenSeq(s) = f[Len(s)]
  BY DEF FlattenSeq
<1>2. \E g : g = [u \in 1..Len(s) |-> IF u = 1 THEN s[u] ELSE g[u - 1] \o s[u]]
  BY FlatExists DEF FlatSteps
<1>3. f = [u \in 1..Len(s) |-> IF u = 1 THEN s[u] ELSE f[u - 1] \o s[u]]
  BY <1>2
<1> HIDE DEF f
<1>4. FlatSteps(f, s, Len(s))
  BY <1>3 DEF FlatSteps
<1>5. QED BY <1>1, <1>4, StepsAt, Zenon

\* The steps of a prefix of e.
LEMMA FlatIs ==
  \A e : \A k \in Nat \ {0} : \E f : StepsOf(f, e, k) /\ Flat(e, k) = f[k]
<1>1. SUFFICES ASSUME NEW e, NEW k \in Nat \ {0} PROVE \E f : StepsOf(f, e, k) /\ Flat(e, k) = f[k]
  OBVIOUS
<1> DEFINE s == [q \in 1..k |-> e[q]]
<1>2. Len(s) = k /\ \A q \in 1..k : s[q] = e[q]
  OBVIOUS
<1>3. Flat(e, k) = FlattenSeq(s)
  BY DEF Flat
<1> HIDE DEF s
<1>4. PICK f : StepsOf(f, s, k) /\ FlattenSeq(s) = f[k]
  BY <1>2, FlattenIs
<1>5. StepsOf(f, e, k)
  BY <1>2, <1>4 DEF StepsOf
<1>6. QED BY <1>3, <1>4, <1>5

\* Flattening one sequence more, from the second one on.
LEMMA FlatSucc == \A e : \A k \in Nat \ {0} : Flat(e, k + 1) = Flat(e, k) \o e[k + 1]
<1>1. SUFFICES ASSUME NEW e, NEW k \in Nat \ {0} PROVE Flat(e, k + 1) = Flat(e, k) \o e[k + 1]
  OBVIOUS
<1>2. PICK f : StepsOf(f, e, k + 1) /\ Flat(e, k + 1) = f[k + 1]
  <2>1. k + 1 \in Nat \ {0}
    OBVIOUS
  <2>2. QED BY <2>1, FlatIs, Zenon
<1>3. PICK g : StepsOf(g, e, k) /\ Flat(e, k) = g[k]
  BY FlatIs, Zenon
<1>4. StepsOf(f, e, k)
  <2>1. \A x \in 1..k : x \in 1..(k + 1)
    OBVIOUS
  <2>2. QED BY <1>2, <2>1, Zenon DEF StepsOf
<1>5. \A x \in 1..k : f[x] = g[x]
  <2>1. k \in Nat
    OBVIOUS
  <2>2. QED BY <1>3, <1>4, <2>1, FlatUnique, Zenon
<1>6. k \in 1..k /\ k + 1 \in 1..(k + 1) /\ k + 1 # 1 /\ (k + 1) - 1 = k
  OBVIOUS
<1>7. f[k + 1] = f[(k + 1) - 1] \o e[k + 1]
  BY <1>2, <1>6, Zenon DEF StepsOf
<1>8. f[k] = g[k]
  BY <1>5, <1>6, Zenon
<1>9. QED BY <1>2, <1>3, <1>6, <1>7, <1>8, Zenon

\* And the first one.
LEMMA FlatOne == \A e : Flat(e, 0) = <<>> /\ Flat(e, 1) = e[1]
<1>1. SUFFICES ASSUME NEW e PROVE Flat(e, 0) = <<>> /\ Flat(e, 1) = e[1]
  OBVIOUS
<1>2. Flat(e, 0) = <<>>
  BY DEF Flat, FlattenSeq
<1>3. PICK f : StepsOf(f, e, 1) /\ Flat(e, 1) = f[1]
  <2>1. 1 \in Nat \ {0}
    OBVIOUS
  <2>2. QED BY <2>1, FlatIs, Zenon
<1>4. f[1] = e[1]
  BY <1>3 DEF StepsOf
<1>5. QED BY <1>2, <1>3, <1>4, Zenon

\* Flattening sequences over S.
LEMMA FlatNext ==
  ASSUME NEW e, NEW S, NEW n \in Nat, \A q \in 1..n : e[q] \in Seq(S)
  PROVE  /\ Flat(e, 0) = <<>>
         /\ \A k \in 0..(n - 1) : Flat(e, k + 1) = Flat(e, k) \o e[k + 1]
         /\ \A k \in 0..n : Flat(e, k) \in Seq(S)
<1>1. Flat(e, 0) = <<>> /\ Flat(e, 1) = e[1]
  BY FlatOne, Zenon
<1>2. ASSUME NEW k \in 0..(n - 1) PROVE Flat(e, k + 1) = Flat(e, k) \o e[k + 1]
  <2>1. CASE k = 0
    <3>1. e[1] \in Seq(S)
      BY <2>1
    <3>2. <<>> \o e[1] = e[1]
      BY <3>1
    <3>3. k + 1 = 1
      BY <2>1
    <3>4. QED BY <1>1, <2>1, <3>2, <3>3, Zenon
  <2>2. CASE k # 0
    <3>1. k \in Nat \ {0}
      BY <2>2
    <3>2. QED BY <3>1, FlatSucc, Zenon
  <2>3. QED BY <2>1, <2>2, Zenon
<1> DEFINE T == {k \in 0..n : Flat(e, k) \in Seq(S)}
<1>4. 0 \in T
  <2>1. <<>> \in Seq(S)
    OBVIOUS
  <2>2. 0 \in 0..n
    OBVIOUS
  <2>3. Flat(e, 0) \in Seq(S)
    BY <1>1, <2>1, Zenon
  <2>4. QED BY <2>2, <2>3, Zenon
<1>5. ASSUME NEW k \in 0..(n - 1), k \in T PROVE k + 1 \in T
  <2>1. e[k + 1] \in Seq(S) /\ Flat(e, k) \in Seq(S) /\ k + 1 \in 0..n
    BY <1>5
  <2>2. Flat(e, k) \o e[k + 1] \in Seq(S)
    BY <2>1
  <2>3. QED BY <1>2, <2>1, <2>2
<1> HIDE DEF T
<1>6. \A k \in 0..n : k \in T
  BY <1>4, <1>5, UpTo
<1>7. \A k \in 0..n : Flat(e, k) \in Seq(S)
  BY <1>6, Zenon DEF T
<1>8. QED BY <1>1, <1>2, <1>7, Zenon

\* Nothing changes over a stretch of empty sequences.
LEMMA FlatGap ==
  ASSUME NEW e, NEW S, NEW n \in Nat, \A q \in 1..n : e[q] \in Seq(S),
         NEW a \in 0..n, NEW b \in a..n, \A q \in (a + 1)..b : e[q] = <<>>
  PROVE  Flat(e, b) = Flat(e, a)
<1> DEFINE T == {d \in 0..(b - a) : Flat(e, a + d) = Flat(e, a)}
<1>1. 0 \in T /\ b - a \in Nat
  OBVIOUS
<1>2. ASSUME NEW d \in 0..(b - a - 1), d \in T PROVE d + 1 \in T
  <2>1. a + d \in 0..(n - 1) /\ a + d + 1 \in (a + 1)..b /\ a + (d + 1) = (a + d) + 1
    OBVIOUS
  <2>2. /\ \A k \in 0..(n - 1) : Flat(e, k + 1) = Flat(e, k) \o e[k + 1]
        /\ \A k \in 0..n : Flat(e, k) \in Seq(S)
    BY FlatNext
  <2>a. Flat(e, (a + d) + 1) = Flat(e, a + d) \o e[(a + d) + 1]
    BY <2>1, <2>2, Zenon
  <2>b. a + d \in 0..n
    OBVIOUS
  <2>c. Flat(e, a + d) \in Seq(S)
    BY <2>b, <2>2, Zenon
  <2>3. /\ Flat(e, (a + d) + 1) = Flat(e, a + d) \o e[(a + d) + 1] /\ Flat(e, a + d) \in Seq(S)
        /\ e[(a + d) + 1] = <<>>
    BY <2>1, <2>a, <2>c
  <2>4. \A x \in Seq(S) : x \o <<>> = x
    OBVIOUS
  <2>5. QED BY <1>2, <2>1, <2>3, <2>4
<1> HIDE DEF T
<1>3. \A d \in 0..(b - a) : d \in T
  BY <1>1, <1>2, UpTo
<1>4. b - a \in T
  BY <1>1, <1>3
<1>5. QED BY <1>4 DEF T

\* The sequences that count are those up to k.
LEMMA FlatSame ==
  ASSUME NEW e, NEW f, NEW k \in Nat, \A q \in 1..k : e[q] = f[q]
  PROVE  Flat(e, k) = Flat(f, k)
<1>1. [q \in 1..k |-> e[q]] = [q \in 1..k |-> f[q]]
  OBVIOUS
<1>2. QED BY <1>1 DEF Flat

\* What is flattened first stays in front.
LEMMA FlatPrefix ==
  ASSUME NEW e, NEW S, NEW n \in Nat, \A q \in 1..n : e[q] \in Seq(S), NEW a \in 0..n
  PROVE  /\ Len(Flat(e, n)) \in Nat /\ Len(Flat(e, a)) \in Nat
         /\ Len(Flat(e, a)) <= Len(Flat(e, n))
         /\ \A u \in 1..Len(Flat(e, a)) : Flat(e, n)[u] = Flat(e, a)[u]
<1> DEFINE T == {d \in 0..(n - a) :
                   /\ Len(Flat(e, a)) <= Len(Flat(e, a + d))
                   /\ \A u \in 1..Len(Flat(e, a)) : Flat(e, a + d)[u] = Flat(e, a)[u]}
<1>1. \A k \in 0..n : Flat(e, k) \in Seq(S) /\ Len(Flat(e, k)) \in Nat
  <2>1. \A k \in 0..n : Flat(e, k) \in Seq(S)
    BY FlatNext
  <2>2. QED BY <2>1
<1>2. 0 \in T /\ n - a \in Nat /\ n \in 0..n
  BY <1>1
<1>3. ASSUME NEW d \in 0..(n - a - 1), d \in T PROVE d + 1 \in T
  <2>1. a + d \in 0..(n - 1) /\ a + d + 1 \in 1..n /\ a + (d + 1) = (a + d) + 1 /\ a + d \in 0..n
    OBVIOUS
  <2>2. Flat(e, (a + d) + 1) = Flat(e, a + d) \o e[(a + d) + 1]
    BY <2>1, FlatNext
  <2>3. Flat(e, a + d) \in Seq(S) /\ e[(a + d) + 1] \in Seq(S) /\ Len(Flat(e, a)) \in Nat
    BY <1>1, <2>1
  <2>4. \A x, y \in Seq(S) : /\ Len(x) \in Nat /\ Len(x \o y) \in Nat /\ Len(x \o y) >= Len(x)
                             /\ \A u \in 1..Len(x) : (x \o y)[u] = x[u]
    OBVIOUS
  <2>5. /\ Len(Flat(e, a + d)) \in Nat /\ Len(Flat(e, (a + d) + 1)) \in Nat
        /\ Len(Flat(e, (a + d) + 1)) >= Len(Flat(e, a + d))
        /\ \A u \in 1..Len(Flat(e, a + d)) : Flat(e, (a + d) + 1)[u] = Flat(e, a + d)[u]
    BY <2>2, <2>3, <2>4
  <2>6. QED BY <1>3, <2>1, <2>3, <2>5
<1> HIDE DEF T
<1>4. \A d \in 0..(n - a) : d \in T
  BY <1>2, <1>3, UpTo
<1>5. n - a \in T /\ a + (n - a) = n
  BY <1>2, <1>4
<1>6. QED BY <1>1, <1>2, <1>5 DEF T

\* One sequence among empty ones is all there is.
LEMMA FlatSingle ==
  ASSUME NEW e, NEW S, NEW n \in Nat, \A q \in 1..n : e[q] \in Seq(S),
         NEW p \in 1..n, \A q \in 1..n : q # p => e[q] = <<>>
  PROVE  Flat(e, n) = e[p]
<1>1. p - 1 \in 0..n /\ p \in 0..n /\ 0 \in 0..n /\ p - 1 \in 0..(n - 1) /\ (p - 1) + 1 = p
  OBVIOUS
<1>2. p - 1 \in 0..n /\ n \in p..n
  OBVIOUS
<1>3. \A q \in (0 + 1)..(p - 1) : e[q] = <<>>
  OBVIOUS
<1>4. \A q \in (p + 1)..n : e[q] = <<>>
  OBVIOUS
<1>5. Flat(e, p - 1) = Flat(e, 0)
  BY <1>1, <1>3, FlatGap
<1>6. Flat(e, n) = Flat(e, p)
  BY <1>1, <1>2, <1>4, FlatGap
<1>7. Flat(e, (p - 1) + 1) = Flat(e, p - 1) \o e[(p - 1) + 1] /\ Flat(e, 0) = <<>>
  BY <1>1, FlatNext
<1>8. <<>> \o e[p] = e[p]
  <2>1. e[p] \in Seq(S)
    OBVIOUS
  <2>2. \A x \in Seq(S) : <<>> \o x = x
    OBVIOUS
  <2>3. QED BY <2>1, <2>2, Zenon
<1>9. Flat(e, p) = <<>> \o e[p]
  BY <1>1, <1>5, <1>7, Zenon
<1>10. QED BY <1>6, <1>8, <1>9, Zenon

\* Nothing but empty sequences.
LEMMA FlatNone ==
  ASSUME NEW e, NEW n \in Nat, \A q \in 1..n : e[q] = <<>>
  PROVE  Flat(e, n) = <<>>
<1>0. <<>> \in Seq({})
  OBVIOUS
<1>1. \A q \in 1..n : e[q] \in Seq({})
  BY <1>0
<1>2. 0 \in 0..n /\ n \in 0..n /\ \A q \in (0 + 1)..n : e[q] = <<>>
  OBVIOUS
<1>3. Flat(e, n) = Flat(e, 0)
  BY <1>1, <1>2, FlatGap
<1>4. QED BY <1>3, FlatOne, Zenon

\* A sequence that is flattened is flattened to its end.
LEMMA FlattenAll ==
  \A s : \A n \in Nat : s = [q \in 1..n |-> s[q]] => FlattenSeq(s) = Flat(s, n)
BY DEF Flat

-----------------------------------------------------------------------------
(* The columns the server looks for.                                        *)

\* The lines and names of the inputs.
LEMMA Inputs ==
  ASSUME InputType
  PROVE  /\ Len(file) \in Nat /\ DOMAIN file = Positions
         /\ Len(monitor) \in Nat /\ DOMAIN monitor = 1..Len(monitor)
         /\ \A p \in Positions : /\ file[p] \in Lines /\ file[p].mod \in STRING
                                 /\ file[p].ix \in Seq(STRING)
<1>1. /\ Len(file) \in Nat /\ DOMAIN file = Positions
      /\ Len(monitor) \in Nat /\ DOMAIN monitor = 1..Len(monitor)
      /\ \A p \in Positions : file[p] \in Lines
  BY DEF InputType, Positions
<1>2. QED BY <1>1 DEF Lines

\* InOrder, position by position.
LEMMA Ordered ==
  ASSUME InputType, InOrder,
         NEW a \in DOMAIN monitor, NEW b \in DOMAIN monitor, a < b,
         NEW p \in Positions, file[p].mod = monitor[a],
         NEW q \in Positions, file[q].mod = monitor[b]
  PROVE  p < q
BY Inputs DEF InOrder

\* One name more.
LEMMA MonitoredMore ==
  ASSUME InputType, NEW k \in 0..(Len(monitor) - 1)
  PROVE  /\ MonitoredBy(k + 1) =
              MonitoredBy(k) \cup {p \in Positions : file[p].mod = monitor[k + 1]}
         /\ InOrder => \A p \in MonitoredBy(k) : \A q \in Positions :
                         file[q].mod = monitor[k + 1] => p < q
<1>1. Len(monitor) \in Nat /\ k + 1 \in DOMAIN monitor
  BY Inputs
<1>2. \A a \in DOMAIN monitor : a <= k + 1 <=> a <= k \/ a = k + 1
  BY <1>1, Inputs
<1>3. MonitoredBy(k + 1) =
        MonitoredBy(k) \cup {p \in Positions : file[p].mod = monitor[k + 1]}
  BY <1>1, <1>2, Zenon DEF MonitoredBy
<1>4. ASSUME InOrder, NEW p \in MonitoredBy(k), NEW q \in Positions,
             file[q].mod = monitor[k + 1]
      PROVE  p < q
  <2>1. PICK a \in DOMAIN monitor : a <= k /\ monitor[a] = file[p].mod
    BY DEF MonitoredBy
  <2>2. p \in Positions
    BY DEF MonitoredBy
  <2>3. a < k + 1
    BY <1>1, <2>1, Inputs
  <2>4. QED BY <1>1, <1>4, <2>1, <2>2, <2>3, Ordered
<1>5. QED BY <1>3, <1>4

\* All names, and none.
LEMMA MonitoredEnds ==
  ASSUME InputType
  PROVE  /\ MonitoredBy(0) = {} /\ \A k \in Nat : k >= Len(monitor) => MonitoredBy(k) = Monitored
         /\ Monitored \subseteq Positions
BY Inputs DEF MonitoredBy, Monitored

\* What base_index.conf has for a module.
LEMMA IndexNamesIs ==
  ASSUME InputType, Distinct, NEW m
  PROVE  /\ \A p \in Positions : file[p].mod = m => IndexNames(m) = file[p].ix
         /\ (\A p \in Positions : file[p].mod # m) => IndexNames(m) = <<>>
         /\ IndexNames(m) \in Seq(STRING)
<1> DEFINE e == [p \in DOMAIN file |-> IF file[p].mod = m THEN file[p].ix ELSE <<>>]
           n == Len(file)
<1>1. n \in Nat /\ DOMAIN file = 1..n /\ Positions = 1..n
  BY Inputs DEF Positions
<1>2. \A q \in 1..n : e[q] = IF file[q].mod = m THEN file[q].ix ELSE <<>>
  BY <1>1
<1>3. e = [q \in 1..n |-> e[q]]
  BY <1>1
<1>4. IndexNames(m) = FlattenSeq(e)
  BY DEF IndexNames
<1> HIDE DEF e
<1>5. FlattenSeq(e) = Flat(e, n)
  BY <1>1, <1>3, FlattenAll, Zenon
<1>6. \A q \in 1..n : e[q] \in Seq(STRING)
  <2>1. <<>> \in Seq(STRING)
    OBVIOUS
  <2>2. \A q \in 1..n : file[q].ix \in Seq(STRING)
    BY <1>1, Inputs
  <2>3. QED BY <1>2, <2>1, <2>2
<1> HIDE DEF n
<1>7. ASSUME NEW p \in 1..n, file[p].mod = m PROVE Flat(e, n) = file[p].ix
  <2>1. \A q \in 1..n : q # p => e[q] = <<>>
    <3>1. \A q \in 1..n : q # p => file[q].mod # m
      BY <1>1, <1>7 DEF Distinct
    <3>2. QED BY <1>2, <3>1
  <2>2. Flat(e, n) = e[p]
    BY <1>1, <1>6, <2>1, FlatSingle
  <2>3. QED BY <1>2, <1>7, <2>2
<1>8. ASSUME \A p \in 1..n : file[p].mod # m PROVE Flat(e, n) = <<>>
  <2>1. \A q \in 1..n : e[q] = <<>>
    BY <1>2, <1>8
  <2>2. QED BY <1>1, <2>1, FlatNone
<1>9. Flat(e, n) \in Seq(STRING)
  <2>1. n \in 0..n
    BY <1>1
  <2>2. QED BY <1>1, <1>6, <2>1, FlatNext
<1>10. QED BY <1>1, <1>4, <1>5, <1>7, <1>8, <1>9, Zenon

\* The columns of the lines the first k names stand for.
NamesBy(k) == [p \in Positions |-> IF p \in MonitoredBy(k) THEN file[p].ix ELSE <<>>]

\* The types of the columns' list.
LEMMA NamesTypes ==
  ASSUME InputType
  PROVE  /\ \A k : \A p \in 1..Len(file) : NamesBy(k)[p] \in Seq(STRING)
         /\ \A p \in 1..Len(file) : Names[p] \in Seq(STRING)
<1>1. <<>> \in Seq(STRING)
  OBVIOUS
<1>2. \A p \in Positions : file[p].ix \in Seq(STRING)
  BY Inputs
<1>3. QED BY <1>1, <1>2 DEF NamesBy, Names, Positions

\* One name of the monitor list more: its columns come last.
LEMMA NamesMore ==
  ASSUME InputType, Distinct, InOrder, NEW k \in 0..(Len(monitor) - 1)
  PROVE  Flat(NamesBy(k + 1), Len(file)) =
           Flat(NamesBy(k), Len(file)) \o IndexNames(monitor[k + 1])
<1> DEFINE n == Len(file)
           e == NamesBy(k)
           f == NamesBy(k + 1)
           m == monitor[k + 1]
<1>1. n \in Nat /\ Positions = 1..n
  BY Inputs DEF Positions
<1>2. /\ \A q \in 1..n : e[q] \in Seq(STRING) /\ f[q] \in Seq(STRING)
      /\ \A q \in 1..n : e[q] = IF q \in MonitoredBy(k) THEN file[q].ix ELSE <<>>
      /\ \A q \in 1..n : f[q] = IF q \in MonitoredBy(k + 1) THEN file[q].ix ELSE <<>>
  BY <1>1, NamesTypes DEF NamesBy
<1>3. MonitoredBy(k + 1) = MonitoredBy(k) \cup {p \in 1..n : file[p].mod = m}
  BY <1>1, MonitoredMore
<1>4. Flat(e, n) \in Seq(STRING)
  <2>1. n \in 0..n
    BY <1>1
  <2> HIDE DEF n, e, f
  <2>2. QED BY <1>1, <1>2, <2>1, FlatNext
<1>5. CASE \E p \in 1..n : file[p].mod = m
  <2>1. PICK p \in 1..n : file[p].mod = m
    BY <1>5
  <2>2. IndexNames(m) = file[p].ix
    BY <1>1, <2>1, IndexNamesIs
  <2>3. \A q \in MonitoredBy(k) : q < p
    BY <1>1, <2>1, MonitoredMore
  <2>4. {q \in 1..n : file[q].mod = m} = {p}
    BY <1>1, <2>1 DEF Distinct
  <2>5. /\ \A q \in 1..(p - 1) : e[q] = f[q]
        /\ \A q \in p..n : e[q] = <<>>
        /\ \A q \in (p + 1)..n : f[q] = <<>>
        /\ f[p] = file[p].ix
    <3>1. \A q \in 1..(p - 1) : q \in 1..n /\ (q \in MonitoredBy(k + 1) <=> q \in MonitoredBy(k))
      BY <1>3, <2>4, <1>1
    <3>2. \A q \in p..n : q \in 1..n /\ q \notin MonitoredBy(k)
      BY <2>3, <1>1
    <3>3. \A q \in (p + 1)..n : q \in p..n /\ q \notin MonitoredBy(k + 1)
      BY <1>1, <1>3, <2>4, <3>2
    <3>4. p \in MonitoredBy(k + 1)
      BY <1>3, <2>1
    <3> HIDE DEF e, f, n, m
    <3>5. \A q \in 1..(p - 1) : e[q] = f[q]
      BY <1>2, <3>1
    <3>6. \A q \in p..n : e[q] = <<>>
      BY <1>2, <3>2
    <3>7. \A q \in (p + 1)..n : f[q] = <<>>
      BY <1>1, <1>2, <3>3
    <3>8. f[p] = file[p].ix
      BY <1>2, <3>4
    <3>9. QED BY <3>5, <3>6, <3>7, <3>8
  <2> HIDE DEF e, f, n, m
  <2>6. /\ p - 1 \in 0..n /\ n \in (p - 1)..n /\ p \in 0..n /\ n \in p..n /\ (p - 1) + 1 = p
        /\ p - 1 \in Nat /\ p - 1 \in 0..(n - 1)
    BY <1>1
  <2>7. Flat(e, n) = Flat(e, p - 1)
    <3>1. \A q \in ((p - 1) + 1)..n : e[q] = <<>>
      BY <2>5, <2>6
    <3>2. \A q \in 1..n : e[q] \in Seq(STRING)
      BY <1>2
    <3>3. QED BY <1>1, <2>6, <3>1, <3>2, FlatGap, Zenon
  <2>8. Flat(f, n) = Flat(f, p)
    <3>1. \A q \in 1..n : f[q] \in Seq(STRING)
      BY <1>2
    <3>2. QED BY <1>1, <2>5, <2>6, <3>1, FlatGap, Zenon
  <2>9. Flat(f, (p - 1) + 1) = Flat(f, p - 1) \o f[(p - 1) + 1]
    BY <1>1, <1>2, <2>6, FlatNext
  <2>10. Flat(e, p - 1) = Flat(f, p - 1)
    BY <2>5, <2>6, FlatSame
  <2>11. Flat(f, n) = Flat(e, n) \o IndexNames(m)
    BY <2>2, <2>5, <2>6, <2>7, <2>8, <2>9, <2>10
  <2>12. QED BY <2>11 DEF e, f, n, m
<1>6. CASE ~ \E p \in 1..n : file[p].mod = m
  <2>1. IndexNames(m) = <<>>
    BY <1>1, <1>6, IndexNamesIs
  <2>2. MonitoredBy(k + 1) = MonitoredBy(k)
    BY <1>3, <1>6
  <2>3. f = e
    BY <2>2 DEF NamesBy
  <2> HIDE DEF e, f, n, m
  <2>4. \A x \in Seq(STRING) : x \o <<>> = x
    OBVIOUS
  <2>5. Flat(e, n) \o <<>> = Flat(e, n)
    BY <1>4, <2>4, Zenon
  <2>6. Flat(f, n) = Flat(e, n) \o IndexNames(m)
    BY <2>1, <2>3, <2>5, Zenon
  <2>7. QED BY <2>6 DEF e, f, n, m
<1>7. QED BY <1>5, <1>6

\* The columns of the INSERT are those of base_index.conf that are monitored, in
\* the order of base_index.conf.
LEMMA RowNames ==
  ASSUME InputType, Distinct, InOrder
  PROVE  generate_index_name_sql = Flat(Names, Len(file))
<1> DEFINE g == [k \in DOMAIN monitor |-> IndexNames(monitor[k])]
           l == Len(monitor)
           n == Len(file)
<1>1. l \in Nat /\ DOMAIN monitor = 1..l /\ n \in Nat
  BY Inputs
<1>2. \A k \in 1..l : g[k] = IndexNames(monitor[k])
  BY <1>1
<1>3. g = [k \in 1..l |-> g[k]]
  BY <1>1
<1>4. generate_index_name_sql = FlattenSeq(g)
  BY DEF generate_index_name_sql
<1>5. \A k \in 1..l : g[k] \in Seq(STRING)
  <2> HIDE DEF g, l
  <2>1. QED BY <1>2, IndexNamesIs
<1> HIDE DEF g
<1>6. FlattenSeq(g) = Flat(g, l)
  BY <1>1, <1>3, FlattenAll, Zenon
<1> DEFINE T == {k \in 0..l : Flat(g, k) = Flat(NamesBy(k), n)}
<1>7. 0 \in T
  <2>1. \A q \in 1..n : NamesBy(0)[q] = <<>>
    BY MonitoredEnds DEF NamesBy, Positions
  <2> HIDE DEF l, n
  <2>2. Flat(NamesBy(0), n) = <<>>
    BY <1>1, <2>1, FlatNone
  <2>3. Flat(g, 0) = <<>> /\ 0 \in 0..l
    BY <1>1, FlatOne
  <2>4. QED BY <2>2, <2>3, Zenon
<1>8. ASSUME NEW k \in 0..(l - 1), k \in T PROVE k + 1 \in T
  <2>1. Flat(NamesBy(k + 1), n) = Flat(NamesBy(k), n) \o IndexNames(monitor[k + 1])
    BY NamesMore
  <2> HIDE DEF n
  <2>2. k + 1 \in 1..l /\ k + 1 \in 0..l
    BY <1>1
  <2>3. Flat(g, k + 1) = Flat(g, k) \o g[k + 1]
    <3> HIDE DEF l
    <3>1. QED BY <1>1, <1>5, FlatNext
  <2>4. Flat(g, k) = Flat(NamesBy(k), n)
    BY <1>8, Zenon
  <2>5. g[k + 1] = IndexNames(monitor[k + 1])
    BY <1>2, <2>2, Zenon
  <2>6. Flat(g, k + 1) = Flat(NamesBy(k + 1), n)
    BY <2>1, <2>3, <2>4, <2>5, Zenon
  <2>7. QED BY <2>2, <2>6, Zenon
<1> HIDE DEF T
<1>9. \A k \in 0..l : k \in T
  <2> HIDE DEF l
  <2>1. QED BY <1>1, <1>7, <1>8, UpTo
<1>10. Flat(g, l) = Flat(NamesBy(l), n)
  <2>1. l \in 0..l
    BY <1>1
  <2> HIDE DEF l, n
  <2>2. QED BY <1>9, <2>1, Zenon DEF T
<1>11. NamesBy(l) = Names
  <2>1. MonitoredBy(l) = Monitored
    BY <1>1, MonitoredEnds
  <2>2. QED BY <2>1, Zenon DEF NamesBy, Names
<1>12. QED BY <1>4, <1>6, <1>10, <1>11, Zenon

\* Real-time queries count the same columns.
LEMMA QueryNames ==
  ASSUME InputType, InOrder
  PROVE  QueryOrder = Flat(Names, Len(file))
<1> DEFINE r(p) == [k \in DOMAIN monitor |->
                      IF file[p].mod = monitor[k] THEN file[p].ix ELSE <<>>]
           l == Len(monitor)
           n == Len(file)
           e == [p \in DOMAIN file |-> FlattenSeq(r(p))]
<1>1. l \in Nat /\ DOMAIN monitor = 1..l /\ n \in Nat /\ Positions = 1..n /\ DOMAIN file = 1..n
  BY Inputs DEF Positions
<1>2. QueryOrder = FlattenSeq(e)
  BY DEF QueryOrder
<1>3. e = [p \in 1..n |-> e[p]]
  BY <1>1
<1>4. \A p \in 1..n : e[p] = FlattenSeq(r(p))
  BY <1>1
<1> HIDE DEF e
<1>5. FlattenSeq(e) = Flat(e, n)
  BY <1>1, <1>3, FlattenAll, Zenon
<1>6. ASSUME NEW p \in 1..n PROVE FlattenSeq(r(p)) = Names[p]
  <2> DEFINE s == r(p)
  <2>1. \A k \in 1..l : s[k] = IF file[p].mod = monitor[k] THEN file[p].ix ELSE <<>>
    BY <1>1
  <2>2. s = [k \in 1..l |-> s[k]]
    BY <1>1
  <2> HIDE DEF s
  <2>3. FlattenSeq(s) = Flat(s, l)
    BY <1>1, <2>2, FlattenAll, Zenon
  <2>4. Names[p] = IF p \in Monitored THEN file[p].ix ELSE <<>>
    BY <1>1 DEF Names
  <2>5. \A k \in 1..l : s[k] \in Seq(STRING)
    <3>1. <<>> \in Seq(STRING)
      OBVIOUS
    <3>2. file[p].ix \in Seq(STRING)
      BY <1>1, Inputs
    <3>3. QED BY <2>1, <3>1, <3>2
  <2> HIDE DEF l, n
  <2>6. ASSUME p \in Monitored PROVE Flat(s, l) = file[p].ix
    <3>1. PICK a \in 1..l : monitor[a] = file[p].mod
      BY <1>1, <2>6 DEF Monitored
    <3>2. \A b \in 1..l : b # a => monitor[b] # file[p].mod
      <4>1. SUFFICES ASSUME NEW b \in 1..l, b # a, monitor[b] = file[p].mod PROVE FALSE
        OBVIOUS
      <4>2. p \in Positions /\ p \in 1..n /\ ~ (p < p)
        BY <1>1
      <4>3. CASE a < b
        BY <1>1, <3>1, <4>1, <4>2, <4>3, Ordered
      <4>4. CASE b < a
        BY <1>1, <3>1, <4>1, <4>2, <4>4, Ordered
      <4>5. QED BY <1>1, <4>1, <4>3, <4>4
    <3>3. \A b \in 1..l : b # a => s[b] = <<>>
      BY <2>1, <3>2
    <3>4. Flat(s, l) = s[a]
      BY <1>1, <2>5, <3>3, FlatSingle
    <3>5. QED BY <2>1, <3>1, <3>4
  <2>7. ASSUME p \notin Monitored PROVE Flat(s, l) = <<>>
    <3>1. \A k \in 1..l : s[k] = <<>>
      BY <1>1, <2>1, <2>7 DEF Monitored
    <3>2. QED BY <1>1, <3>1, FlatNone
  <2>8. QED BY <2>3, <2>4, <2>6, <2>7, Zenon DEF s
<1> HIDE DEF r
<1>7. \A p \in 1..n : e[p] = Names[p]
  BY <1>4, <1>6
<1>8. Flat(e, n) = Flat(Names, n)
  BY <1>1, <1>7, FlatSame
<1>9. QED BY <1>2, <1>5, <1>8, Zenon

-----------------------------------------------------------------------------
(* The values of a sample.                                                  *)

\* Values and columns are put together in step.
LEMMA AgreeNext ==
  ASSUME NEW v \in Seq(Values), NEW c \in Seq(STRING), NEW w \in Seq(Values), NEW d \in Seq(STRING),
         Agree(v, c), Agree(w, d)
  PROVE  Agree(v \o w, c \o d)
<1>a. Len(v) = Len(c) /\ Len(w) = Len(d)
  BY Zenon DEF Agree
<1>b. /\ Len(v) \in Nat /\ Len(w) \in Nat
      /\ Len(v \o w) = Len(v) + Len(w) /\ Len(c \o d) = Len(c) + Len(d)
  OBVIOUS
<1>1. /\ Len(v) \in Nat /\ Len(w) \in Nat /\ Len(v) = Len(c) /\ Len(w) = Len(d)
      /\ Len(v \o w) = Len(v) + Len(w) /\ Len(c \o d) = Len(c) + Len(d)
  BY <1>a, <1>b, Zenon
<1>2. ASSUME NEW p \in 1..Len(c \o d) PROVE (v \o w)[p].ix \in {(c \o d)[p], "error"}
  <2>1. CASE p <= Len(c)
    <3>1. (v \o w)[p] = v[p] /\ (c \o d)[p] = c[p] /\ p \in 1..Len(c)
      BY <1>1, <2>1
    <3>2. v[p].ix \in {c[p], "error"}
      BY <3>1 DEF Agree
    <3>3. QED BY <3>1, <3>2
  <2>2. CASE p > Len(c)
    <3>1. (v \o w)[p] = w[p - Len(v)] /\ (c \o d)[p] = d[p - Len(c)]
      BY <1>1, <2>2
    <3>2. p - Len(c) \in 1..Len(d)
      BY <1>1, <2>2
    <3>3. w[p - Len(c)].ix \in {d[p - Len(c)], "error"}
      BY <3>2 DEF Agree
    <3>4. QED BY <1>1, <3>1, <3>3
  <2>3. QED BY <1>1, <2>1, <2>2
<1>3. Len(v \o w) = Len(c \o d)
  BY <1>1
<1>4. QED BY <1>2, <1>3, Zenon DEF Agree

\* A sequence flattened from singletons is the sequence itself.
LEMMA FlatSingletons ==
  ASSUME NEW s \in Seq(Values), NEW e, \A q \in 1..Len(s) : e[q] = <<s[q]>>
  PROVE  Flat(e, Len(s)) = s
<1> DEFINE n == Len(s)
           T == {k \in 0..n : /\ Flat(e, k) \in Seq(Values) /\ Len(Flat(e, k)) = k
                              /\ \A u \in 1..k : Flat(e, k)[u] = s[u]}
<1>1. n \in Nat
  OBVIOUS
<1>2. \A q \in 1..n : e[q] = <<s[q]>> /\ s[q] \in Values
  OBVIOUS
<1>3. \A q \in 1..n : e[q] \in Seq(Values)
  <2>1. \A x \in Values : <<x>> \in Seq(Values)
    OBVIOUS
  <2>2. QED BY <1>2, <2>1, Zenon
<1> HIDE DEF n
<1>4. 0 \in T
  <2>1. <<>> \in Seq(Values) /\ Len(<<>>) = 0 /\ \A u \in 1..0 : <<>>[u] = s[u]
    OBVIOUS
  <2>2. Flat(e, 0) = <<>> /\ 0 \in 0..n
    BY <1>1, FlatOne
  <2>3. QED BY <2>1, <2>2, Zenon
<1>5. ASSUME NEW k \in 0..(n - 1), k \in T PROVE k + 1 \in T
  <2>1. k + 1 \in 1..n /\ k + 1 \in 0..n /\ k \in Nat
    BY <1>1
  <2>2. Flat(e, k + 1) = Flat(e, k) \o e[k + 1]
    BY <1>1, <1>3, FlatNext
  <2>3. e[k + 1] = <<s[k + 1]>> /\ s[k + 1] \in Values
    BY <1>2, <2>1
  <2>4. Flat(e, k + 1) = Append(Flat(e, k), s[k + 1]) /\ Flat(e, k) \in Seq(Values)
    <3>1. Flat(e, k) \in Seq(Values)
      BY <1>5
    <3>2. \A x \in Seq(Values) : \A y \in Values : x \o <<y>> = Append(x, y)
      OBVIOUS
    <3>3. QED BY <2>2, <2>3, <3>1, <3>2, Zenon
  <2>5. Len(Flat(e, k)) = k /\ \A u \in 1..k : Flat(e, k)[u] = s[u]
    BY <1>5
  <2> DEFINE x == Flat(e, k)
             y == s[k + 1]
  <2>6. Len(x) = k /\ (\A u \in 1..k : x[u] = s[u]) /\ x \in Seq(Values) /\ y \in Values
    BY <2>3, <2>4, <2>5
  <2>7. y = s[k + 1]
    OBVIOUS
  <2>8. Flat(e, k + 1) = Append(x, y)
    BY <2>4
  <2> HIDE DEF x, y
  <2>9. /\ Append(x, y) \in Seq(Values) /\ Len(Append(x, y)) = k + 1
        /\ \A u \in 1..(k + 1) : Append(x, y)[u] = s[u]
    BY <2>1, <2>6, <2>7
  <2>10. QED BY <2>1, <2>8, <2>9, Zenon
<1> HIDE DEF T
<1>6. \A k \in 0..n : k \in T
  BY <1>1, <1>4, <1>5, UpTo
<1>7. n \in T
  <2>1. n \in 0..n
    BY <1>1
  <2>2. QED BY <1>6, <2>1
<1> DEFINE z == Flat(e, n)
<1>8. z \in Seq(Values) /\ Len(z) = n /\ \A u \in 1..n : z[u] = s[u]
  BY <1>7 DEF T
<1> HIDE DEF z
<1>9. z = s
  BY <1>8 DEF n
<1>10. QED BY <1>9 DEF z, n

\* strtok_r splits a sample without empty values into its values.
LEMMA SplitWhole ==
  ASSUME sample \in Seq(Values), ValuesSet
  PROVE  split_index_data(sample) = sample
<1> DEFINE e == [p \in DOMAIN sample |->
                   IF sample[p].ix = "error" \/ sample[p].at > 0 THEN <<sample[p]>> ELSE <<>>]
           n == Len(sample)
<1>1. n \in Nat /\ DOMAIN sample = 1..n
  OBVIOUS
<1>2. \A p \in 1..n : e[p] = <<sample[p]>>
  <2>1. ASSUME NEW p \in 1..n PROVE sample[p].ix = "error" \/ sample[p].at > 0
    <3>1. sample[p] = Mask \/ sample[p].at > 0
      BY <1>1 DEF ValuesSet
    <3>2. sample[p] = Mask => sample[p].ix = "error"
      BY DEF Mask
    <3>3. QED BY <3>1, <3>2
  <2>2. QED BY <1>1, <2>1
<1>3. e = [q \in 1..n |-> e[q]]
  BY <1>1
<1>4. split_index_data(sample) = FlattenSeq(e)
  BY DEF split_index_data
<1> HIDE DEF e
<1>5. FlattenSeq(e) = Flat(e, n)
  BY <1>1, <1>3, FlattenAll, Zenon
<1>6. Flat(e, n) = sample
  BY <1>2, FlatSingletons
<1>7. QED BY <1>4, <1>5, <1>6, Zenon

\* The database writer's columns are the sample's.
LEMMA RowsFromSample ==
  ASSUME CInv PROVE RowColumnsAgree
<1>1. SUFFICES ASSUME pc = "sent", InOrder, ScriptsComplete, ValuesSet
               PROVE  /\ Len(split_index_data(sample)) = Len(generate_index_name_sql)
                      /\ \A p \in DOMAIN generate_index_name_sql :
                           split_index_data(sample)[p].ix \in {generate_index_name_sql[p], "error"}
  BY DEF RowColumnsAgree
<1>2. InputType /\ Parsed /\ SampleUpTo(Len(file))
  BY <1>1 DEF CInv, SampleAll
<1>3. split_index_data(sample) = sample /\ generate_index_name_sql = Flat(Names, Len(file))
  BY <1>1, <1>2, SplitWhole, RowNames DEF SampleUpTo, Parsed
<1>4. Agree(sample, Flat(Names, Len(file)))
  BY <1>1, <1>2 DEF SampleUpTo
<1>5. DOMAIN Flat(Names, Len(file)) = 1..Len(Flat(Names, Len(file)))
  <2>1. Len(file) \in 0..Len(file) /\ Len(file) \in Nat
    BY <1>2, Inputs
  <2>2. Flat(Names, Len(file)) \in Seq(STRING)
    BY <1>2, <2>1, NamesTypes, FlatNext
  <2>3. QED BY <2>2
<1>6. QED BY <1>3, <1>4, <1>5, Zenon DEF Agree

\* So are a query's.
LEMMA QueriesFromSample ==
  ASSUME CInv PROVE QueryColumnsAgree
<1> DEFINE c == Flat(Names, Len(file))
<1>1. SUFFICES ASSUME pc = "sent", InOrder, ScriptsComplete, ValuesSet, NEW x \in ToSet(QueryOrder)
               PROVE  split_index_data(sample)[get_index_ix_by_name(x)].ix \in {x, "error"}
  BY DEF QueryColumnsAgree
<1>2. InputType /\ Parsed /\ SampleUpTo(Len(file))
  BY <1>1 DEF CInv, SampleAll
<1>3. split_index_data(sample) = sample /\ QueryOrder = c
  BY <1>1, <1>2, SplitWhole, QueryNames DEF SampleUpTo
<1>4. Agree(sample, c)
  BY <1>1, <1>2 DEF SampleUpTo
<1>5. DOMAIN c = 1..Len(c) /\ Len(c) \in Nat
  <2>1. Len(file) \in 0..Len(file) /\ Len(file) \in Nat
    BY <1>2, Inputs
  <2>2. Flat(Names, Len(file)) \in Seq(STRING)
    BY <1>2, <2>1, NamesTypes, FlatNext
  <2>3. QED BY <2>2
<1> HIDE DEF c
<1> DEFINE I == {p \in 1..Len(c) : c[p] = x}
<1>6. get_index_ix_by_name(x) = IF I # {} THEN Min(I) ELSE 0
  BY <1>3 DEF get_index_ix_by_name, SelectInSeq
<1>7. I # {}
  BY <1>1, <1>3, <1>5 DEF ToSet
<1>8. Min(I) \in I
  <2>1. I \in SUBSET Nat
    BY <1>5
  <2> HIDE DEF I
  <2>2. \E p \in I : \A q \in I : p <= q
    BY <1>7, <2>1, LeastNat
  <2>3. QED BY <2>2 DEF Min
<1>9. get_index_ix_by_name(x) \in I
  BY <1>6, <1>7, <1>8
<1>10. QED BY <1>3, <1>4, <1>9 DEF Agree

-----------------------------------------------------------------------------
(* The daemon reads its configuration.                                      *)

\* The files, the monitor list and the installation never change.
LEMMA InputFrame ==
  ASSUME UNCHANGED inputs
  PROVE  /\ file' = file /\ monitor' = monitor /\ installed' = installed
         /\ (InputType' <=> InputType) /\ (Distinct' <=> Distinct) /\ (InOrder' <=> InOrder)
         /\ Positions' = Positions /\ Monitored' = Monitored /\ Names' = Names
         /\ Scripts' = Scripts
<1>1. file' = file /\ monitor' = monitor /\ installed' = installed
  BY DEF inputs
<1>2. Positions' = Positions /\ Monitored' = Monitored
  BY <1>1 DEF Positions, Monitored
<1>3. Names' = Names
  BY <1>1, <1>2 DEF Names
<1>5. Scripts' = Scripts
  BY <1>1, <1>2 DEF Scripts, Flag
<1>6. (InputType' <=> InputType) /\ (Distinct' <=> Distinct)
  BY <1>1, <1>2 DEF InputType, Distinct
<1>7. InOrder' <=> InOrder
  BY <1>1 DEF InOrder
<1>8. QED BY <1>1, <1>2, <1>3, <1>5, <1>6, <1>7, Zenon

\* The values the plug-ins hold change in the rounds only.
LEMMA ReadFrame ==
  ASSUME UNCHANGED inputs, index_data' = index_data, round' = round, ReadType PROVE ReadType'
<1>1. Indexes(file') = Indexes(file)
  BY DEF inputs
<1>2. QED BY <1>1 DEF ReadType

\* Which lines are linked depends on the name in hand and on hm.
LEMMA LinkedFrame ==
  ASSUME UNCHANGED inputs
  PROVE  /\ \A k : j' = k => /\ MonitoredBy(j - 1)' = MonitoredBy(k - 1)
                             /\ MonitoredBy(j)' = MonitoredBy(k)
         /\ Linked' = MonitoredBy(j - 1)' \cup ({hm'} \ {M})
BY DEF MonitoredBy, Linked, Positions, inputs

\* A line of base_index.conf is appended.
LEMMA ParseStep == ASSUME CInv, analyse_index_info_config PROVE CInv'
<1> DEFINE p == file[Len(info) + 1]
           n == Len(file)
<1>1. /\ pc = "parse" /\ Parsing /\ InputType /\ ReadType /\ script_j = 0
      /\ mods = <<>> /\ script_path = <<>> /\ buffer = <<>>
  BY DEF CInv, analyse_index_info_config
<1>2. UNCHANGED <<inputs, walk, t, loaded, readings, script_j, sample>>
  BY DEF analyse_index_info_config
<1>3. /\ InputType' /\ ReadType' /\ script_j' = 0
      /\ mods' = <<>> /\ script_path' = <<>> /\ buffer' = <<>>
  <2>1. InputType'
    BY <1>1, <1>2, InputFrame, Zenon
  <2>2. ReadType'
    BY <1>1, <1>2, ReadFrame, Zenon DEF readings
  <2>3. script_j' = 0 /\ mods' = <<>> /\ script_path' = <<>> /\ buffer' = <<>>
    BY <1>1, <1>2 DEF readings, loaded
  <2>4. QED BY <2>1, <2>2, <2>3, Zenon
<1>4. CASE check_modinfo(p, info) /\ p.ok
  <2>1. /\ info' = Append(info, p) /\ nxt' = [nxt EXCEPT ![Len(info)] = Len(info) + 1]
        /\ pc' = "parse" /\ Len(info) < n
    BY <1>1, <1>4 DEF analyse_index_info_config
  <2>2. n \in Nat /\ file' = file /\ hm' = hm /\ j' = j
    BY <1>1, <1>2, Inputs DEF inputs, walk
  <2>3. info \in Seq(Lines) /\ Len(info) \in Nat /\ p \in Lines
    <3>1. info \in Seq(Lines)
      BY <1>1 DEF Parsing
    <3>2. Len(info) \in Nat /\ Len(info) + 1 \in Positions
      BY <2>1, <2>2, <3>1 DEF Positions
    <3>3. QED BY <1>1, <3>1, <3>2, Inputs
  <2>4. info' \in Seq(Lines) /\ Len(info') = Len(info) + 1
    BY <2>1, <2>3
  <2>5. \A q \in 1..Len(info') : info'[q] = IF q = Len(info) + 1 THEN p ELSE info[q]
    BY <2>1, <2>3
  <2>6. \A q \in 1..Len(info) : p.mod # info[q].mod
    <3>1. \A q \in 1..Len(info) : info[q] \in ToSet(info)
      BY <2>3 DEF ToSet
    <3>2. QED BY <1>4, <3>1 DEF check_modinfo
  <2>7. \A q \in 1..Len(info) : info[q] = file[q]
    BY <1>1 DEF Parsing
  <2>8. \A q \in 1..Len(info') : info'[q] = file'[q]
    BY <2>2, <2>3, <2>4, <2>5, <2>7
  <2>9. \A q, r \in 1..Len(info') : q # r => info'[q].mod # info'[r].mod
    <3>1. \A q, r \in 1..Len(info) : q # r => info[q].mod # info[r].mod
      BY <1>1 DEF Parsing
    <3>2. SUFFICES ASSUME NEW q \in 1..Len(info'), NEW r \in 1..Len(info'), q # r
                   PROVE  info'[q].mod # info'[r].mod
      OBVIOUS
    <3> HIDE DEF p, n
    <3>3. CASE q = Len(info) + 1
      <4>1. r \in 1..Len(info) /\ r # Len(info) + 1
        BY <2>3, <2>4, <3>2, <3>3
      <4>2. info'[q] = p /\ info'[r] = info[r]
        BY <2>5, <3>2, <3>3, <4>1
      <4>3. QED BY <2>6, <4>1, <4>2
    <3>4. CASE r = Len(info) + 1
      <4>1. q \in 1..Len(info) /\ q # Len(info) + 1
        BY <2>3, <2>4, <3>2, <3>4
      <4>2. info'[r] = p /\ info'[q] = info[q]
        BY <2>5, <3>2, <3>4, <4>1
      <4>3. QED BY <2>6, <4>1, <4>2
    <3>5. CASE q # Len(info) + 1 /\ r # Len(info) + 1
      <4>1. q \in 1..Len(info) /\ r \in 1..Len(info)
        BY <2>3, <2>4, <3>2, <3>5
      <4>2. info'[r] = info[r] /\ info'[q] = info[q]
        BY <2>5, <3>2, <3>5
      <4>3. QED BY <3>1, <3>2, <4>1, <4>2
    <3>6. QED BY <3>3, <3>4, <3>5
  <2>10. nxt' = [q \in M..n |-> IF q \in 0..(Len(info') - 1) THEN q + 1 ELSE Null]
    <3>1. nxt = [q \in M..n |-> IF q \in 0..(Len(info) - 1) THEN q + 1 ELSE Null]
      BY <1>1 DEF Parsing
    <3>2. nxt' = [q \in M..n |-> IF q = Len(info) THEN Len(info) + 1 ELSE nxt[q]]
      BY <2>1, <3>1
    <3>3. \A q \in M..n : nxt[q] = IF q \in 0..(Len(info) - 1) THEN q + 1 ELSE Null
      BY <3>1
    <3>4. \A q \in M..n : (IF q = Len(info) THEN Len(info) + 1 ELSE nxt[q])
                            = IF q \in 0..(Len(info') - 1) THEN q + 1 ELSE Null
      BY <2>2, <2>3, <2>4, <3>3 DEF M, Null
    <3>5. QED BY <3>2, <3>4
  <2>11. hm = M /\ j = 1
    BY <1>1 DEF Parsing
  <2>12. Len(info') <= n
    BY <2>1, <2>2, <2>3, <2>4
  <2> HIDE DEF p
  <2>13. Parsing'
    BY <2>2, <2>4, <2>8, <2>9, <2>10, <2>11, <2>12 DEF Parsing
  <2>14. QED BY <1>3, <2>1, <2>13 DEF CInv
<1>5. CASE ~ (check_modinfo(p, info) /\ p.ok)
  <2>1. pc' = "exit"
    BY <1>5 DEF analyse_index_info_config
  <2>2. QED BY <1>3, <2>1 DEF CInv
<1>6. QED BY <1>4, <1>5

\* The list is complete, and monitor_data starts to walk it.
LEMMA ParseEndsStep == ASSUME CInv, ParseEnds PROVE CInv'
<1> DEFINE n == Len(file)
<1>1. /\ pc = "parse" /\ Parsing /\ InputType /\ ReadType /\ script_j = 0
      /\ mods = <<>> /\ script_path = <<>> /\ buffer = <<>>
  BY DEF CInv, ParseEnds
<1>2. /\ UNCHANGED <<inputs, lists, j, hm, t, loaded, readings, script_j, sample>>
      /\ Len(info) = n /\ pc' = "monitor" /\ head' = nxt[H]
  BY DEF ParseEnds
<1>3. /\ InputType' /\ ReadType' /\ script_j' = 0
      /\ mods' = <<>> /\ script_path' = <<>> /\ buffer' = <<>>
  <2>1. InputType'
    BY <1>1, <1>2, InputFrame, Zenon
  <2>2. ReadType'
    BY <1>1, <1>2, ReadFrame, Zenon DEF readings
  <2>3. script_j' = 0 /\ mods' = <<>> /\ script_path' = <<>> /\ buffer' = <<>>
    BY <1>1, <1>2 DEF readings, loaded
  <2>4. QED BY <2>1, <2>2, <2>3, Zenon
<1>4. n \in Nat /\ Len(monitor) \in Nat /\ Positions = 1..n /\ Positions' = Positions
      /\ file' = file /\ monitor' = monitor /\ hm' = M /\ j' = 1 /\ nxt' = nxt /\ info' = info
  <2>1. n \in Nat /\ Len(monitor) \in Nat /\ Positions = 1..n
    BY <1>1, Inputs DEF Positions
  <2>2. hm = M /\ j = 1
    BY <1>1 DEF Parsing
  <2>3. file' = file /\ monitor' = monitor /\ hm' = hm /\ j' = j /\ nxt' = nxt /\ info' = info
    BY <1>2 DEF inputs, lists
  <2>4. Positions' = Positions
    BY <2>3 DEF Positions
  <2>5. QED BY <2>1, <2>2, <2>3, <2>4
<1>5. info = file /\ Distinct
  <2>1. /\ info \in Seq(Lines) /\ file \in Seq(Lines) /\ \A p \in 1..Len(info) : info[p] = file[p]
        /\ \A p, q \in 1..Len(info) : p # q => info[p].mod # info[q].mod
    BY <1>1 DEF Parsing, InputType
  <2>2. info = file
    BY <1>2, <2>1
  <2>3. QED BY <1>2, <1>4, <2>1, <2>2 DEF Distinct
<1>6. Parsed'
  <2>1. Distinct'
    BY <1>2, <1>5, InputFrame, Zenon
  <2>2. info' = file'
    BY <1>4, <1>5, Zenon
  <2>3. QED BY <2>1, <2>2, Zenon DEF Parsed
<1>7. nxt = [p \in M..n |-> IF p \in 0..(n - 1) THEN p + 1 ELSE Null]
  BY <1>1, <1>2 DEF Parsing
<1>8. \A p \in 0..n : nxt[p] = IF p = n THEN Null ELSE p + 1
  BY <1>4, <1>7 DEF M
<1>9. nxt \in [M..n -> Positions \cup {Null}]
  BY <1>4, <1>7 DEF M, Null
<1>10. Linked' = {}
  <2>1. MonitoredBy(j - 1)' = {}
    <3>1. MonitoredBy(j - 1)' = MonitoredBy(1 - 1)
      BY <1>2, <1>4, LinkedFrame
    <3>2. QED BY <1>1, <3>1, MonitoredEnds
  <2>2. QED BY <1>2, <1>4, <2>1, LinkedFrame
<1>11. Relinked'
  BY <1>4, <1>8, <1>9, <1>10 DEF Relinked
<1>12. head' = IF n = 0 THEN Null ELSE 1
  BY <1>2, <1>4, <1>8 DEF H
<1>13. Ahead'
  BY <1>4, <1>12 DEF Ahead, M, Null
<1>14. QED BY <1>2, <1>3, <1>6, <1>11, <1>13 DEF CInv

-----------------------------------------------------------------------------
(* monitor_data relinks the list.                                           *)

\* The types of the list while monitor_data walks it.
LEMMA WalkTypes ==
  ASSUME InputType, Relinked, Ahead
  PROVE  /\ Len(file) \in Nat /\ Len(monitor) \in Nat /\ Positions = 1..Len(file)
         /\ j \in 1..(Len(monitor) + 1) /\ head \in Positions \cup {Null}
         /\ hm \in Positions \cup {M} /\ (hm # M => hm \in MonitoredBy(j))
         /\ nxt \in [M..Len(file) -> Positions \cup {Null}]
         /\ \A k : MonitoredBy(k) \subseteq Positions
         /\ Linked \subseteq Positions
<1>1. Len(file) \in Nat /\ Len(monitor) \in Nat /\ Positions = 1..Len(file)
  BY Inputs DEF Positions
<1>2. j \in 1..(Len(monitor) + 1) /\ head \in Positions \cup {Null}
  BY DEF Ahead
<1>3. \A k : MonitoredBy(k) \subseteq Positions
  BY DEF MonitoredBy
<1>4. (hm # M => hm \in MonitoredBy(j)) /\ nxt \in [M..Len(file) -> Positions \cup {Null}]
  BY DEF Relinked
<1>5. hm \in Positions \cup {M}
  BY <1>3, <1>4
<1>6. Linked \subseteq Positions
  BY <1>3, <1>5 DEF Linked
<1>7. QED BY <1>1, <1>2, <1>3, <1>4, <1>5, <1>6

\* The line of the name in hand comes after every line linked for an earlier name.
LEMMA HandLast ==
  ASSUME InputType, Distinct, InOrder, Relinked, Ahead, j <= Len(monitor),
         NEW p \in Positions, file[p].mod = monitor[j]
  PROVE  /\ MonitoredBy(j) = MonitoredBy(j - 1) \cup {p}
         /\ \A q \in MonitoredBy(j - 1) : q < p
         /\ hm # M /\ hm # p => hm \in MonitoredBy(j - 1)
         /\ hm # p => Linked = MonitoredBy(j - 1)
         /\ hm = p => Linked = MonitoredBy(j)
         /\ \A q \in Linked : q # p => q < p
<1>1. j - 1 \in 0..(Len(monitor) - 1) /\ (j - 1) + 1 = j
  BY WalkTypes
<1>2. {q \in Positions : file[q].mod = monitor[j]} = {p}
  BY DEF Distinct
<1>3. /\ MonitoredBy((j - 1) + 1) =
           MonitoredBy(j - 1) \cup {q \in Positions : file[q].mod = monitor[(j - 1) + 1]}
      /\ \A r \in MonitoredBy(j - 1) : \A q \in Positions :
           file[q].mod = monitor[(j - 1) + 1] => r < q
  BY <1>1, MonitoredMore
<1>4. MonitoredBy(j) = MonitoredBy(j - 1) \cup {p} /\ \A q \in MonitoredBy(j - 1) : q < p
  BY <1>1, <1>2, <1>3
<1>5. hm # M => hm \in MonitoredBy(j)
  BY WalkTypes
<1>6. (hm # M /\ hm # p => hm \in MonitoredBy(j - 1)) /\ p # M
  BY <1>4, <1>5, WalkTypes DEF M
<1>7. hm # p => Linked = MonitoredBy(j - 1)
  BY <1>6 DEF Linked
<1>8. hm = p => Linked = MonitoredBy(j)
  BY <1>4, <1>6 DEF Linked
<1>9. \A q \in Linked : q # p => q < p
  BY <1>4, <1>7, <1>8
<1>10. QED BY <1>4, <1>6, <1>7, <1>8, <1>9

\* From a line in front of the one in hand, the list does not skip that one.
LEMMA WalkAhead ==
  ASSUME InputType, Distinct, InOrder, Relinked, Ahead, j <= Len(monitor), head # Null,
         NEW p \in Positions, file[p].mod = monitor[j], head # p
  PROVE  IF p = hm THEN nxt[head] = Null \/ nxt[head] > hm ELSE nxt[head] # Null /\ nxt[head] <= p
<1> DEFINE n == Len(file)
<1>1. /\ n \in Nat /\ Positions = 1..n /\ head \in 1..n /\ hm \in (1..n) \cup {M}
      /\ p \in 1..n /\ Linked \subseteq 1..n
  BY WalkTypes
<1>2. head \notin Linked \/ head >= hm => nxt[head] = IF head = n THEN Null ELSE head + 1
  BY <1>1 DEF Relinked
<1>3. IF p = hm THEN head > hm ELSE head <= p
  BY DEF Ahead
<1>4. CASE p = hm
  BY <1>1, <1>2, <1>3, <1>4
<1>5. CASE p # hm /\ (head \notin Linked \/ head >= hm)
  BY <1>1, <1>2, <1>3, <1>5 DEF Null
<1>6. CASE p # hm /\ head \in Linked /\ head < hm
  <2>1. hm # M /\ hm \in Linked
    BY <1>1, <1>6 DEF M, Linked
  <2> DEFINE Q == {q \in Linked : head < q}
  <2>2. PICK q \in Q : \A r \in Q : q <= r
    <3>1. Q \in SUBSET Nat
      <4>1. \A q \in 1..n : q \in Nat
        OBVIOUS
      <4>2. QED BY <1>1, <4>1, Zenon
    <3>2. hm \in Q
      BY <1>6, <2>1
    <3> HIDE DEF Q
    <3>3. QED BY <3>1, <3>2, LeastNat
  <2>3. \A r \in Linked : ~(head < r /\ r < q)
    BY <1>1, <2>2
  <2>4. nxt[head] = q
    BY <1>6, <2>2, <2>3 DEF Relinked
  <2>5. q <= hm /\ hm < p
    <3>1. hm \in Q
      BY <1>6, <2>1
    <3>2. q <= hm
      BY <2>2, <3>1
    <3>3. hm < p
      BY <1>6, <2>1, HandLast
    <3>4. QED BY <3>2, <3>3
  <2>6. QED BY <1>1, <1>6, <2>2, <2>4, <2>5 DEF Null
<1>7. QED BY <1>1, <1>4, <1>5, <1>6

\* A match: hm leads to head, which is now the line linked last.
LEMMA MatchLinks ==
  ASSUME InputType, Distinct, InOrder, Relinked, Ahead, j <= Len(monitor), head # Null,
         file[head].mod = monitor[j], UNCHANGED inputs, j' = j,
         nxt' = [nxt EXCEPT ![hm] = head], hm' = head, head' = nxt'[head]
  PROVE  Relinked' /\ Ahead'
<1> DEFINE n == Len(file)
<1>1. /\ n \in Nat /\ Positions = 1..n /\ head \in 1..n /\ hm \in (1..n) \cup {M}
      /\ Linked \subseteq 1..n /\ nxt \in [M..n -> (1..n) \cup {Null}]
      /\ Len(monitor) \in Nat /\ j \in 1..(Len(monitor) + 1)
  BY WalkTypes
<1>2. hm # head
  BY <1>1 DEF Ahead
<1>3. /\ MonitoredBy(j) = MonitoredBy(j - 1) \cup {head}
      /\ Linked = MonitoredBy(j - 1)
      /\ \A q \in Linked : q < head
  BY <1>1, <1>2, HandLast
<1>4. Linked' = Linked \cup {head} /\ MonitoredBy(j)' = Linked \cup {head}
  <2>1. MonitoredBy(j - 1)' = MonitoredBy(j - 1) /\ MonitoredBy(j)' = MonitoredBy(j)
    BY LinkedFrame
  <2>2. Linked' = MonitoredBy(j - 1)' \cup ({hm'} \ {M})
    BY LinkedFrame
  <2>3. head # M
    BY <1>1 DEF M
  <2>4. QED BY <1>3, <2>1, <2>2, <2>3
<1>5. hm # M => hm \in Linked /\ hm < head
  BY <1>3 DEF Linked
<1>6. /\ \A q \in M..n : nxt'[q] = IF q = hm THEN head ELSE nxt[q]
      /\ nxt' \in [M..n -> (1..n) \cup {Null}] /\ Linked \subseteq M..n /\ M \in M..n
  BY <1>1 DEF M
<1>7. file' = file /\ monitor' = monitor /\ Positions' = 1..n
  BY <1>1, InputFrame
<1>8. \A q \in 0..n : q \notin Linked' \/ q >= hm' => nxt'[q] = IF q = n THEN Null ELSE q + 1
  <2>1. ASSUME NEW q \in 0..n, q \notin Linked' \/ q >= head
        PROVE  nxt'[q] = IF q = n THEN Null ELSE q + 1
    <3>1. q # hm
      BY <1>1, <1>4, <1>5, <2>1 DEF M
    <3>2. nxt'[q] = nxt[q]
      BY <1>6, <3>1, <1>1 DEF M
    <3>3. q \notin Linked \/ q >= hm
      BY <1>1, <1>4, <1>5, <2>1 DEF M
    <3>4. nxt[q] = IF q = n THEN Null ELSE q + 1
      BY <3>3 DEF Relinked
    <3>5. QED BY <3>2, <3>4
  <2>2. QED BY <2>1
<1>9. \A q \in Linked' \cup {M}, s \in Linked' :
        q < s /\ (\A r \in Linked' : ~(q < r /\ r < s)) => nxt'[q] = s
  <2>1. SUFFICES ASSUME NEW q \in Linked' \cup {M}, NEW s \in Linked', q < s,
                        \A r \in Linked' : ~(q < r /\ r < s)
                 PROVE  nxt'[q] = s
    OBVIOUS
  <2>2. q \in Linked \cup {M} /\ q \in M..n
    BY <1>1, <1>3, <1>4, <1>6, <2>1
  <2>3. CASE s = head
    <3>1. q = hm
      <4>1. CASE hm = M
        <5>1. Linked = {}
          BY <4>1 DEF Relinked
        <5>2. QED BY <2>2, <4>1, <5>1
      <4>2. CASE hm # M
        <5>1. hm \in Linked' /\ hm < head /\ ~(q < hm /\ hm < s) /\ hm \in 1..n
          BY <1>4, <1>5, <2>1, <4>2, <1>1
        <5>2. ~(q < hm)
          BY <2>3, <5>1
        <5>3. q # M
          BY <5>1, <5>2 DEF M
        <5>4. q <= hm
          BY <2>2, <4>2, <5>3 DEF Relinked
        <5>5. QED BY <2>2, <5>1, <5>2, <5>4
      <4>3. QED BY <4>1, <4>2
    <3>2. QED BY <1>6, <2>2, <2>3, <3>1
  <2>4. CASE s # head
    <3>1. s \in Linked /\ s \in 1..n
      BY <1>1, <1>4, <2>1, <2>4
    <3>2. hm # M
      BY <3>1 DEF Relinked
    <3>3. s <= hm
      BY <3>1, <3>2 DEF Relinked
    <3>4. q # hm
      BY <2>1, <2>2, <3>1, <3>3, <1>1
    <3>5. \A r \in Linked : ~(q < r /\ r < s)
      BY <1>4, <2>1
    <3>6. nxt[q] = s
      BY <2>1, <2>2, <3>1, <3>5 DEF Relinked
    <3>7. QED BY <1>6, <2>2, <3>4, <3>6
  <2>5. QED BY <2>3, <2>4
<1>10. /\ hm' = M => Linked' = {}
       /\ hm' # M => hm' \in MonitoredBy(j)' /\ \A q \in Linked' : q <= hm'
  <2>1. head # M /\ \A q \in Linked \cup {head} : q <= head
    BY <1>1, <1>3 DEF M
  <2>2. QED BY <1>4, <2>1
<1>11. Relinked'
  BY <1>6, <1>7, <1>8, <1>9, <1>10 DEF Relinked
<1>12. nxt'[head] = IF head = n THEN Null ELSE head + 1
  BY <1>1, <1>4, <1>8
<1>13. Ahead'
  <2>1. head' = IF head = n THEN Null ELSE head + 1
    BY <1>12
  <2>2. head' \in Positions' \cup {Null} /\ (head' = Null \/ head' > hm')
    BY <1>1, <1>7, <2>1
  <2>3. \A p \in Positions' : file'[p].mod = monitor'[j'] => p = hm'
    BY <1>1, <1>7 DEF Distinct
  <2>4. QED BY <1>1, <1>7, <2>2, <2>3 DEF Ahead
<1>14. QED BY <1>11, <1>13

\* What stays while monitor_data walks the list.
LEMMA MonitorFrame ==
  ASSUME CInv, pc = "monitor", pc' = "monitor",
         UNCHANGED <<inputs, info, t, loaded, readings, script_j, sample>>,
         InOrder => Relinked' /\ Ahead'
  PROVE  CInv'
<1>1. /\ InputType /\ ReadType /\ Parsed /\ script_j = 0
      /\ mods = <<>> /\ script_path = <<>> /\ buffer = <<>>
  BY DEF CInv
<1>2. InputType' /\ (InOrder' <=> InOrder) /\ (Distinct' <=> Distinct) /\ file' = file
  BY <1>1, InputFrame, Zenon
<1>3. ReadType'
  BY <1>1, ReadFrame, Zenon DEF readings
<1>4. /\ script_j' = 0 /\ mods' = <<>> /\ script_path' = <<>> /\ buffer' = <<>> /\ info' = info
  BY <1>1 DEF readings, loaded
<1>5. Parsed'
  BY <1>1, <1>2, <1>4, Zenon DEF Parsed
<1>6. QED BY <1>2, <1>3, <1>4, <1>5 DEF CInv

\* A line is matched, or passed by.
LEMMA MonitorStep == ASSUME CInv, monitor_data_step PROVE CInv'
<1>1. /\ pc = "monitor" /\ pc' = "monitor" /\ j <= Len(monitor) /\ head # Null
      /\ UNCHANGED <<inputs, info, t, loaded, readings, script_j, sample>> /\ j' = j
      /\ head' = nxt'[head]
  BY DEF monitor_data_step
<1>2. InputType /\ Parsed /\ info = file /\ Distinct /\ (InOrder => Relinked /\ Ahead)
  BY <1>1 DEF CInv, Parsed
<1>3. ASSUME InOrder PROVE Relinked' /\ Ahead'
  <2>1. Relinked /\ Ahead
    BY <1>2, <1>3
  <2>2. CASE file[head].mod = monitor[j]
    <3>1. nxt' = [nxt EXCEPT ![hm] = head] /\ hm' = head
      BY <1>2, <2>2 DEF monitor_data_step
    <3>2. QED BY <1>1, <1>2, <1>3, <2>1, <2>2, <3>1, MatchLinks
  <2>3. CASE file[head].mod # monitor[j]
    <3>1. nxt' = nxt /\ hm' = hm
      BY <1>2, <2>3 DEF monitor_data_step
    <3>2. Relinked'
      BY <1>1, <2>1, <3>1 DEF Relinked, Linked, MonitoredBy, Positions, inputs
    <3>3. \A p \in Positions : file[p].mod = monitor[j] =>
            IF p = hm THEN nxt[head] = Null \/ nxt[head] > hm
            ELSE nxt[head] # Null /\ nxt[head] <= p
      BY <1>1, <1>2, <1>3, <2>1, <2>3, WalkAhead
    <3>4. file' = file /\ monitor' = monitor /\ Positions' = Positions
      BY <1>1, InputFrame
    <3>5. /\ j \in 1..(Len(monitor) + 1) /\ nxt[head] \in Positions \cup {Null}
      <4>1. /\ head \in M..Len(file) /\ nxt \in [M..Len(file) -> Positions \cup {Null}]
            /\ j \in 1..(Len(monitor) + 1)
        BY <1>1, <1>2, <2>1, WalkTypes DEF M
      <4>2. QED BY <4>1
    <3>6. Ahead'
      BY <1>1, <3>1, <3>3, <3>4, <3>5 DEF Ahead
    <3>7. QED BY <3>2, <3>6
  <2>4. QED BY <2>2, <2>3
<1>4. QED BY <1>1, <1>3, MonitorFrame

\* The next name: its line comes after all that are linked.
LEMMA MonitorNext == ASSUME CInv, monitor_data_next PROVE CInv'
<1> DEFINE n == Len(file)
<1>1. /\ pc = "monitor" /\ pc' = "monitor" /\ j <= Len(monitor) /\ head = Null
      /\ UNCHANGED <<inputs, info, t, loaded, readings, script_j, sample>> /\ j' = j + 1
      /\ head' = nxt[H] /\ nxt' = nxt /\ hm' = hm
  BY DEF monitor_data_next, lists
<1>2. InputType /\ Parsed /\ info = file /\ Distinct /\ (InOrder => Relinked /\ Ahead)
  BY <1>1 DEF CInv, Parsed
<1>3. ASSUME InOrder PROVE Relinked' /\ Ahead'
  <2>1. Relinked /\ Ahead
    BY <1>2, <1>3
  <2>2. /\ n \in Nat /\ Positions = 1..n /\ hm \in (1..n) \cup {M}
        /\ nxt \in [M..n -> (1..n) \cup {Null}] /\ Linked \subseteq 1..n
        /\ Len(monitor) \in Nat /\ j \in 1..(Len(monitor) + 1)
    BY <1>2, <2>1, WalkTypes
  <2>3. file' = file /\ monitor' = monitor /\ Positions' = 1..n
    BY <1>1, <2>2, InputFrame
  <2>4. Linked = MonitoredBy(j) /\ MonitoredBy(j) \subseteq 1..n
    <3>1. MonitoredBy(j) \subseteq 1..n /\ (hm # M => hm \in MonitoredBy(j))
      BY <1>2, <2>1, <2>2, WalkTypes
    <3>2. CASE \E p \in Positions : file[p].mod = monitor[j]
      <4>1. PICK p \in Positions : file[p].mod = monitor[j]
        BY <3>2
      <4>2. hm = p
        BY <1>1, <2>1, <4>1 DEF Ahead
      <4>3. Linked = MonitoredBy(j)
        BY <1>1, <1>2, <1>3, <2>1, <4>1, <4>2, HandLast
      <4>4. QED BY <3>1, <4>3
    <3>3. CASE ~ \E p \in Positions : file[p].mod = monitor[j]
      <4>1. j - 1 \in 0..(Len(monitor) - 1) /\ (j - 1) + 1 = j
        BY <1>1, <2>2
      <4>2. MonitoredBy((j - 1) + 1) =
              MonitoredBy(j - 1) \cup {q \in Positions : file[q].mod = monitor[(j - 1) + 1]}
        BY <1>2, <4>1, MonitoredMore
      <4>3. MonitoredBy(j) = MonitoredBy(j - 1)
        BY <3>3, <4>1, <4>2
      <4>4. QED BY <3>1, <4>3 DEF Linked
    <3>4. QED BY <3>2, <3>3
  <2>5. Linked' = Linked /\ MonitoredBy(j)' = MonitoredBy(j + 1)
    <3>1. MonitoredBy(j - 1)' = MonitoredBy((j + 1) - 1) /\ MonitoredBy(j)' = MonitoredBy(j + 1)
      BY <1>1, LinkedFrame
    <3>2. Linked' = MonitoredBy(j - 1)' \cup ({hm'} \ {M})
      BY <1>1, LinkedFrame
    <3>3. (j + 1) - 1 = j
      BY <2>2
    <3>4. hm # M => hm \in Linked
      BY DEF Linked
    <3>5. QED BY <1>1, <2>4, <3>1, <3>2, <3>3, <3>4
  <2>6. MonitoredBy(j) \subseteq MonitoredBy(j + 1)
    <3>1. DOMAIN monitor = 1..Len(monitor)
      BY <1>2, Inputs
    <3>2. QED BY <2>2, <3>1 DEF MonitoredBy
  <2>7. Relinked'
    <3>1. /\ hm = M => Linked' = {}
          /\ hm # M => hm \in MonitoredBy(j)' /\ \A q \in Linked' : q <= hm
      <4>1. /\ hm = M => Linked = {}
            /\ hm # M => hm \in MonitoredBy(j) /\ \A q \in Linked : q <= hm
        BY <2>1 DEF Relinked
      <4>2. QED BY <2>5, <2>6, <4>1
    <3>2. \A p \in Linked' \cup {M}, q \in Linked' :
            p < q /\ (\A r \in Linked' : ~(p < r /\ r < q)) => nxt[p] = q
      BY <2>1, <2>5 DEF Relinked
    <3>3. \A p \in 0..n : p \notin Linked' \/ p >= hm => nxt[p] = IF p = n THEN Null ELSE p + 1
      BY <2>1, <2>5 DEF Relinked
    <3>4. QED BY <1>1, <2>2, <2>3, <3>1, <3>2, <3>3 DEF Relinked
  <2>8. nxt[H] = IF n = 0 THEN Null ELSE 1
    <3>1. 0 \in 0..n /\ 0 \notin Linked
      BY <2>2
    <3>2. nxt[0] = IF 0 = n THEN Null ELSE 0 + 1
      BY <2>1, <3>1 DEF Relinked
    <3>3. QED BY <2>2, <3>2 DEF H
  <2>9. Ahead'
    <3>1. j + 1 \in 1..(Len(monitor) + 1) /\ nxt[H] \in (1..n) \cup {Null}
      BY <1>1, <2>2, <2>8
    <3>2. ASSUME j + 1 <= Len(monitor), NEW p \in 1..n, file[p].mod = monitor[j + 1]
          PROVE  p # hm /\ nxt[H] # Null /\ nxt[H] <= p
      <4>1. j \in 0..(Len(monitor) - 1)
        BY <2>2, <3>2
      <4>2. \A q \in MonitoredBy(j) : q < p
        BY <1>2, <1>3, <2>2, <3>2, <4>1, MonitoredMore
      <4>3. p # hm
        BY <2>2, <2>4, <4>2 DEF M, Linked
      <4>4. QED BY <2>2, <2>8, <3>2, <4>3 DEF Null
    <3>3. QED BY <1>1, <2>3, <3>1, <3>2 DEF Ahead
  <2>10. QED BY <2>7, <2>9
<1>4. QED BY <1>1, <1>3, MonitorFrame

-----------------------------------------------------------------------------
(* The list of monitored modules, when it is complete.                      *)

\* The list ends at hm.
LEMMA ChainEnds ==
  ASSUME InputType, Relinked, Ahead, j > Len(monitor)
  PROVE  ChainedBy([nxt EXCEPT ![hm] = Null])
<1> DEFINE n == Len(file)
           next == [nxt EXCEPT ![hm] = Null]
<1>1. /\ n \in Nat /\ Positions = 1..n /\ hm \in (1..n) \cup {M}
      /\ nxt \in [M..n -> (1..n) \cup {Null}] /\ Len(monitor) \in Nat /\ j \in 1..(Len(monitor) + 1)
  BY WalkTypes
<1>2. Linked = Monitored /\ Monitored \subseteq 1..n
  <2>1. j \in Nat /\ j >= Len(monitor) /\ j - 1 \in Nat /\ j - 1 >= Len(monitor)
    BY <1>1
  <2>2. MonitoredBy(j) = Monitored /\ MonitoredBy(j - 1) = Monitored /\ Monitored \subseteq 1..n
    BY <1>1, <2>1, MonitoredEnds
  <2>3. hm # M => hm \in Monitored
    BY <2>2, WalkTypes
  <2>4. QED BY <2>2, <2>3 DEF Linked
<1>3. \A q \in M..n : next[q] = IF q = hm THEN Null ELSE nxt[q]
  BY <1>1
<1>4. ASSUME NEW p \in Monitored \cup {M}
      PROVE  \/ next[p] = Null /\ \A q \in Monitored : q <= p
             \/ /\ next[p] \in Monitored /\ next[p] > p
                /\ \A q \in Monitored : ~(p < q /\ q < next[p])
  <2>1. p \in M..n
    BY <1>1, <1>2 DEF M
  <2>2. CASE p = hm
    <3>1. next[p] = Null
      BY <1>3, <2>1, <2>2
    <3>2. \A q \in Monitored : q <= p
      BY <1>2, <2>2 DEF Relinked
    <3>3. QED BY <3>1, <3>2
  <2>3. CASE p # hm
    <3>1. hm # M /\ hm \in Monitored /\ p < hm
      <4>1. hm # M
        BY <1>2, <2>3 DEF Relinked
      <4>2. hm \in Monitored /\ \A q \in Monitored : q <= hm
        BY <1>2, <4>1 DEF Relinked, Linked
      <4>3. QED BY <1>1, <1>2, <2>3, <4>1, <4>2 DEF M
    <3> DEFINE Q == {q \in Monitored : p < q}
    <3>2. Q \in SUBSET Nat
      <4>1. \A q \in 1..n : q \in Nat
        OBVIOUS
      <4>2. QED BY <1>2, <4>1, Zenon
    <3>3. PICK q \in Q : \A r \in Q : q <= r
      <4>1. hm \in Q
        BY <3>1
      <4> HIDE DEF Q
      <4>2. QED BY <3>2, <4>1, LeastNat
    <3>4. \A r \in Monitored : ~(p < r /\ r < q)
      BY <1>2, <3>2, <3>3
    <3>5. nxt[p] = q
      BY <1>2, <3>3, <3>4 DEF Relinked
    <3>6. next[p] = q
      BY <1>3, <2>1, <2>3, <3>5
    <3>7. QED BY <3>3, <3>4, <3>6
  <2>4. QED BY <2>2, <2>3
<1> HIDE DEF next
<1>5. ChainedBy(next)
  BY <1>4, Zenon DEF ChainedBy
<1>6. QED BY <1>5 DEF next

\* The lines of the file between two in the list are not monitored.
LEMMA ChainGap ==
  ASSUME InputType, NEW next, ChainedBy(next), NEW p \in Monitored \cup {M}
  PROVE  /\ UpToLine(p) \in 0..Len(file) /\ Before(next[p]) \in UpToLine(p)..Len(file)
         /\ next[p] \in Monitored \cup {Null}
         /\ \A q \in (UpToLine(p) + 1)..Before(next[p]) : q \in Positions /\ q \notin Monitored
<1> DEFINE n == Len(file)
           x == next[p]
           a == UpToLine(p)
           b == Before(x)
<1>1. n \in Nat /\ Positions = 1..n /\ Monitored \subseteq 1..n
  BY Inputs, MonitoredEnds DEF Positions
<1>2. \/ x = Null /\ \A q \in Monitored : q <= p
      \/ x \in Monitored /\ x > p /\ \A q \in Monitored : ~(p < q /\ q < x)
  BY DEF ChainedBy
<1>3. a = IF p = M THEN 0 ELSE p
  BY DEF UpToLine
<1>4. b = IF x = Null THEN n ELSE x - 1
  BY DEF Before
<1> HIDE DEF x, a, b
<1>5. a \in 0..n
  BY <1>1, <1>3 DEF M
<1>6. CASE x = Null /\ \A q \in Monitored : q <= p
  <2>1. b = n
    BY <1>4, <1>6
  <2>2. \A q \in Monitored : q <= a
    BY <1>1, <1>3, <1>6 DEF M
  <2>3. b \in a..n /\ x \in Monitored \cup {Null}
    BY <1>1, <1>5, <1>6, <2>1
  <2>4. \A q \in (a + 1)..b : q \in 1..n /\ q \notin Monitored
    BY <1>1, <1>5, <2>1, <2>2
  <2>5. QED BY <1>1, <1>5, <2>3, <2>4 DEF x, a, b
<1>7. CASE x \in Monitored /\ x > p /\ \A q \in Monitored : ~(p < q /\ q < x)
  <2>1. x \in 1..n /\ x # Null
    BY <1>1, <1>7 DEF Null
  <2>2. b = x - 1
    BY <1>4, <2>1
  <2>3. b \in a..n
    BY <1>1, <1>3, <1>5, <1>7, <2>1, <2>2 DEF M
  <2>4. \A q \in (a + 1)..b : q \in 1..n /\ p < q /\ q < x
    BY <1>1, <1>3, <1>5, <2>1, <2>2, <2>3 DEF M
  <2>5. \A q \in (a + 1)..b : q \in 1..n /\ q \notin Monitored
    BY <1>7, <2>4
  <2>6. QED BY <1>1, <1>5, <1>7, <2>3, <2>5 DEF x, a, b
<1>8. QED BY <1>2, <1>6, <1>7

\* The modules of base_index.conf.
Mods == {file[p].mod : p \in Positions}

\* The types of the scripts' list.
LEMMA ScriptsTypes ==
  ASSUME InputType
  PROVE  /\ \A p \in 1..Len(file) : Scripts[p] \in Seq(Mods)
         /\ \A k \in 0..Len(file) : Flat(Scripts, k) \in Seq(Mods)
         /\ \A k \in 0..Len(file) : Flat(Names, k) \in Seq(STRING)
<1>1. \A p \in 1..Len(file) : Scripts[p] \in Seq(Mods)
  <2>1. <<>> \in Seq(Mods)
    OBVIOUS
  <2>2. \A p \in Positions : file[p].mod \in Mods
    BY DEF Mods
  <2>3. \A x \in Mods : <<x>> \in Seq(Mods)
    OBVIOUS
  <2>4. \A p \in Positions : <<file[p].mod>> \in Seq(Mods)
    BY <2>2, <2>3, Zenon
  <2>5. QED BY <2>1, <2>4 DEF Scripts, Positions
<1>2. Len(file) \in Nat
  BY Inputs
<1>3. QED BY <1>1, <1>2, NamesTypes, FlatNext

\* So they add nothing to the columns nor to the scripts.
LEMMA ChainFlat ==
  ASSUME InputType, NEW next, ChainedBy(next), NEW p \in Monitored \cup {M}
  PROVE  /\ Flat(Names, Before(next[p])) = Flat(Names, UpToLine(p))
         /\ Flat(Scripts, Before(next[p])) = Flat(Scripts, UpToLine(p))
<1> DEFINE a == UpToLine(p)
           b == Before(next[p])
           n == Len(file)
<1>1. /\ a \in 0..n /\ b \in a..n
      /\ \A q \in (a + 1)..b : q \in Positions /\ q \notin Monitored
  BY ChainGap, Zenon
<1> HIDE DEF a, b
<1>2. \A q \in (a + 1)..b : Names[q] = <<>> /\ Scripts[q] = <<>>
  BY <1>1 DEF Names, Scripts
<1>3. n \in Nat
  BY Inputs
<1>4. Flat(Names, b) = Flat(Names, a)
  <2>1. \A q \in 1..n : Names[q] \in Seq(STRING)
    BY NamesTypes
  <2>2. \A q \in (a + 1)..b : Names[q] = <<>>
    BY <1>2
  <2> HIDE DEF n
  <2>3. QED BY <1>1, <1>3, <2>1, <2>2, FlatGap, Zenon
<1>5. Flat(Scripts, b) = Flat(Scripts, a)
  <2>1. \A q \in 1..n : Scripts[q] \in Seq(Mods)
    BY ScriptsTypes
  <2>2. \A q \in (a + 1)..b : Scripts[q] = <<>>
    BY <1>2
  <2> HIDE DEF n
  <2>3. QED BY <1>1, <1>3, <2>1, <2>2, FlatGap, Zenon
<1>6. QED BY <1>4, <1>5 DEF a, b

\* Nothing is monitored in front of the list's first line,
LEMMA ChainFirst ==
  ASSUME InputType, NEW next, ChainedBy(next)
  PROVE  /\ next[M] \in Monitored \cup {Null}
         /\ Before(next[M]) \in 0..Len(file)
         /\ \A q \in Monitored : ~(q <= Before(next[M]))
         /\ Flat(Names, Before(next[M])) = <<>> /\ Flat(Scripts, Before(next[M])) = <<>>
<1> DEFINE b == Before(next[M])
<1>1. M \in Monitored \cup {M} /\ UpToLine(M) = 0
  BY DEF UpToLine
<1>2. /\ b \in 0..Len(file) /\ next[M] \in Monitored \cup {Null}
      /\ \A q \in (0 + 1)..b : q \in Positions /\ q \notin Monitored
  BY <1>1, ChainGap
<1>3. Flat(Names, b) = Flat(Names, 0) /\ Flat(Scripts, b) = Flat(Scripts, 0)
  BY <1>1, ChainFlat
<1> HIDE DEF b
<1>4. \A q \in Monitored : ~(q <= b)
  <2>1. Len(file) \in Nat /\ Monitored \subseteq 1..Len(file)
    BY Inputs, MonitoredEnds DEF Positions
  <2>2. QED BY <1>2, <2>1
<1>5. QED BY <1>2, <1>3, <1>4, FlatOne DEF b

\* and of one line more there are its columns and its script.
LEMMA ChainNext ==
  ASSUME InputType, Chained, t \in Monitored
  PROVE  /\ t \in Positions /\ Done = t - 1 /\ t - 1 \in 0..Len(file)
         /\ Before(nxt[t]) \in t..Len(file)
         /\ nxt[t] \in Monitored \cup {Null}
         /\ \A q \in Monitored : q <= Before(nxt[t]) => q <= t - 1 \/ q = t
         /\ Flat(Names, Before(nxt[t])) = Flat(Names, t - 1) \o file[t].ix
         /\ Flat(Scripts, Before(nxt[t])) = Flat(Scripts, t - 1) \o
              (IF Flag(file[t].mod) = "SCRIPT" THEN <<file[t].mod>> ELSE <<>>)
<1> DEFINE n == Len(file)
           b == Before(nxt[t])
<1>1. n \in Nat /\ Positions = 1..n /\ Monitored \subseteq 1..n
  BY Inputs, MonitoredEnds DEF Positions
<1>2. t \in 1..n /\ t # M /\ t # Null
  BY <1>1 DEF M, Null
<1>3. Done = t - 1 /\ UpToLine(t) = t
  BY <1>2 DEF Done, Before, UpToLine
<1>4. ChainedBy(nxt) /\ t \in Monitored \cup {M}
  BY DEF Chained
<1>5. /\ b \in t..n /\ nxt[t] \in Monitored \cup {Null}
      /\ \A q \in (t + 1)..b : q \in Positions /\ q \notin Monitored
  BY <1>3, <1>4, ChainGap
<1>6. Flat(Names, b) = Flat(Names, t) /\ Flat(Scripts, b) = Flat(Scripts, t)
  BY <1>3, <1>4, ChainFlat
<1> HIDE DEF b
<1>7. t - 1 \in 0..(n - 1) /\ (t - 1) + 1 = t
  BY <1>1, <1>2
<1>8. Flat(Names, t) = Flat(Names, t - 1) \o Names[t]
  <2>1. \A k \in 0..(n - 1) : Flat(Names, k + 1) = Flat(Names, k) \o Names[k + 1]
    BY <1>1, NamesTypes, FlatNext
  <2>2. QED BY <1>7, <2>1
<1>9. Flat(Scripts, t) = Flat(Scripts, t - 1) \o Scripts[t]
  <2>1. \A k \in 0..(n - 1) : Flat(Scripts, k + 1) = Flat(Scripts, k) \o Scripts[k + 1]
    BY <1>1, ScriptsTypes, FlatNext
  <2>2. QED BY <1>7, <2>1
<1>10. /\ Names[t] = file[t].ix
       /\ Scripts[t] = IF Flag(file[t].mod) = "SCRIPT" THEN <<file[t].mod>> ELSE <<>>
  BY <1>1, <1>2 DEF Names, Scripts
<1>11. \A q \in Monitored : q <= b => q <= t - 1 \/ q = t
  BY <1>1, <1>2, <1>5
<1>12. t - 1 \in 0..n
  BY <1>1, <1>2
<1>13. QED
  BY <1>1, <1>2, <1>3, <1>5, <1>6, <1>8, <1>9, <1>10, <1>11, <1>12, Zenon DEF b

-----------------------------------------------------------------------------
(* The daemon loads its modules.                                            *)

\* What depends on the configuration only.
LEMMA ChainFrame ==
  ASSUME UNCHANGED inputs
  PROVE  /\ \A x : nxt' = x /\ ChainedBy(x) => Chained'
         /\ \A x : t' = x => Done' = Before(x)
         /\ Flags' = Flags /\ (ScriptsComplete' <=> \A k \in DOMAIN script_path' :
                                 Len(buffer'[k]) = Len(IndexNames(script_path'[k])))
<1>1. file' = file /\ Monitored' = Monitored /\ Positions' = Positions /\ installed' = installed
  BY InputFrame
<1>2. \A x : nxt' = x /\ ChainedBy(x) => Chained'
  BY <1>1 DEF ChainedBy, Chained
<1>3. \A x : t' = x => Done' = Before(x)
  BY <1>1 DEF Done, Before
<1>4. Flags' = Flags
  BY <1>1 DEF Flags, Flag
<1>5. ScriptsComplete' <=> \A k \in DOMAIN script_path' :
                              Len(buffer'[k]) = Len(IndexNames(script_path'[k]))
  BY <1>1 DEF ScriptsComplete, IndexNames
<1>6. QED BY <1>2, <1>3, <1>4, <1>5, Zenon

\* What is loaded stays loaded when only the values of the scripts change.
LEMMA LoadedFrame ==
  ASSUME UNCHANGED <<inputs, mods, script_path>>, LoadedAll,
         buffer' \in Seq(Texts), Len(buffer') = Len(buffer)
  PROVE  LoadedAll'
<1>1. /\ file' = file /\ Monitored' = Monitored /\ installed' = installed /\ Scripts' = Scripts
      /\ Flags' = Flags
  BY InputFrame, ChainFrame
<1>2. \A q \in DOMAIN mods' : mods'[q].flag = Flag(mods[q].name)'
  BY <1>1 DEF LoadedAll, LoadedUpTo, Flag
<1>3. /\ \A p \in Monitored' :
           p <= Len(file') => \E q \in DOMAIN mods' : mods'[q].name = file'[p].mod
      /\ mods' \in Seq([name : STRING, flag : Flags']) /\ script_path' = Flat(Scripts', Len(file'))
      /\ Len(buffer') = Len(script_path')
  BY <1>1 DEF LoadedAll, LoadedUpTo
<1>4. QED BY <1>2, <1>3 DEF LoadedAll, LoadedUpTo

\* What holds in every state after the list has been read.
LEMMA LaterFrame ==
  ASSUME CInv, pc \notin {"parse", "exit"}, UNCHANGED inputs, info' = info
  PROVE  InputType' /\ Parsed' /\ InputType /\ Parsed /\ info = file /\ (InOrder' <=> InOrder)
<1>1. InputType /\ Parsed
  BY DEF CInv
<1>2. info = file /\ Distinct
  BY <1>1 DEF Parsed
<1>3. InputType' /\ Distinct' /\ file' = file /\ (InOrder' <=> InOrder)
  BY <1>1, <1>2, InputFrame, Zenon
<1>4. info' = file'
  BY <1>2, <1>3
<1>5. Parsed'
  BY <1>3, <1>4, Zenon DEF Parsed
<1>6. QED BY <1>1, <1>2, <1>3, <1>5, Zenon

\* The list is closed.
LEMMA MonitorEnd == ASSUME CInv, monitor_data_end PROVE CInv'
<1>1. /\ pc = "monitor" /\ pc' = "load" /\ j > Len(monitor)
      /\ nxt' = [nxt EXCEPT ![hm] = Null] /\ t' = nxt'[M]
      /\ UNCHANGED <<inputs, info, walk, loaded, readings, script_j, sample>>
  BY DEF monitor_data_end
<1>2. /\ InputType' /\ Parsed' /\ InputType /\ Parsed /\ info = file /\ (InOrder' <=> InOrder)
  BY <1>1, LaterFrame
<1>3. /\ ReadType /\ script_j = 0 /\ mods = <<>> /\ script_path = <<>> /\ buffer = <<>>
      /\ (InOrder => Relinked /\ Ahead)
  BY <1>1 DEF CInv
<1>4. ReadType'
  BY <1>1, <1>3, ReadFrame, Zenon DEF readings
<1>5. script_j' = 0 /\ mods' = <<>> /\ script_path' = <<>> /\ buffer' = <<>>
  BY <1>1, <1>3 DEF readings, loaded
<1>6. ASSUME InOrder PROVE Chained' /\ Walking' /\ LoadedUpTo(Done)'
  <2> DEFINE next == [nxt EXCEPT ![hm] = Null]
             b == Before(next[M])
  <2>1. ChainedBy(next)
    BY <1>1, <1>2, <1>3, <1>6, ChainEnds
  <2>2. nxt' = next /\ t' = next[M]
    BY <1>1
  <2> HIDE DEF next
  <2>3. Chained'
    BY <1>1, <2>1, <2>2, ChainFrame, Zenon
  <2>4. /\ next[M] \in Monitored \cup {Null}
        /\ \A q \in Monitored : ~(q <= b) /\ Flat(Scripts, b) = <<>>
    BY <1>2, <2>1, ChainFirst, Zenon
  <2>5. Done' = b
    BY <1>1, <2>2, ChainFrame, Zenon
  <2> HIDE DEF b
  <2>6. Monitored' = Monitored /\ Scripts' = Scripts /\ file' = file
    BY <1>1, InputFrame, Zenon
  <2>7. Flat(Scripts, b) = <<>>
    BY <1>2, <2>1, ChainFirst, Zenon DEF b
  <2>8. LoadedUpTo(Done)'
    BY <1>5, <2>4, <2>5, <2>6, <2>7 DEF LoadedUpTo
  <2>9. Walking'
    BY <2>2, <2>4, <2>6, Zenon DEF Walking
  <2>10. QED BY <2>3, <2>8, <2>9
<1>7. QED BY <1>1, <1>2, <1>4, <1>5, <1>6 DEF CInv

\* A module is loaded.
LEMMA LoadStep == ASSUME CInv, load_modules PROVE CInv'
<1> DEFINE m == file[t].mod
           rec == [name |-> m, flag |-> Flag(m)]
<1>1. /\ pc = "load" /\ pc' = "load" /\ t # Null
      /\ UNCHANGED <<inputs, lists, walk, i, js, index_data, round, script_j, sample>>
      /\ t' = nxt[t]
  BY DEF load_modules
<1>2. info' = info /\ nxt' = nxt
  BY <1>1 DEF lists
<1>3. /\ InputType' /\ Parsed' /\ InputType /\ Parsed /\ info = file /\ (InOrder' <=> InOrder)
  BY <1>1, <1>2, LaterFrame
<1>4. ReadType /\ script_j = 0 /\ (InOrder => Chained /\ Walking /\ LoadedUpTo(Done))
  BY <1>1 DEF CInv
<1>5. ReadType' /\ script_j' = 0
  BY <1>1, <1>4, ReadFrame, Zenon
<1>6. /\ mods' = Append(mods, rec)
      /\ script_path' = IF Flag(m) = "SCRIPT" THEN Append(script_path, m) ELSE script_path
      /\ buffer' = IF Flag(m) = "SCRIPT" THEN Append(buffer, BadLine) ELSE buffer
  BY <1>3 DEF load_modules
<1>7. ASSUME InOrder PROVE Chained' /\ Walking' /\ LoadedUpTo(Done)'
  <2> DEFINE b == Before(nxt[t])
  <2>1. Chained /\ t \in Monitored /\ LoadedUpTo(Done)
    BY <1>1, <1>4, <1>7 DEF Walking
  <2>2. /\ t \in Positions /\ Done = t - 1 /\ t - 1 \in 0..Len(file)
        /\ nxt[t] \in Monitored \cup {Null}
        /\ \A q \in Monitored : q <= b => q <= t - 1 \/ q = t
        /\ Flat(Scripts, b) = Flat(Scripts, t - 1) \o
              (IF Flag(m) = "SCRIPT" THEN <<m>> ELSE <<>>)
    BY <1>3, <2>1, ChainNext, Zenon
  <2>3. Chained'
    BY <1>1, <1>2, <2>1, ChainFrame, Zenon DEF Chained
  <2>4. Done' = b
    BY <1>1, ChainFrame, Zenon
  <2> HIDE DEF b
  <2>5. /\ Monitored' = Monitored /\ Scripts' = Scripts /\ file' = file /\ installed' = installed
        /\ Flags' = Flags
    BY <1>1, InputFrame, ChainFrame, Zenon
  <2>6. Walking'
    BY <1>1, <2>2, <2>5, Zenon DEF Walking
  <2>7. m \in STRING /\ m \in Mods /\ Flag(m) \in Flags
    BY <1>3, <2>2, Inputs DEF Mods, Flags
  <2>8. /\ \A p \in Monitored : p <= t - 1 => \E q \in DOMAIN mods : mods[q].name = file[p].mod
        /\ \A q \in DOMAIN mods : mods[q].flag = Flag(mods[q].name)
        /\ mods \in Seq([name : STRING, flag : Flags])
        /\ script_path = Flat(Scripts, t - 1)
        /\ buffer \in Seq(Texts) /\ Len(buffer) = Len(script_path)
    BY <2>1, <2>2 DEF LoadedUpTo
  <2>9. rec \in [name : STRING, flag : Flags] /\ rec.name = m /\ rec.flag = Flag(m)
    BY <2>7
  <2> HIDE DEF rec, m
  <2>10. /\ mods' \in Seq([name : STRING, flag : Flags])
         /\ Len(mods) \in Nat /\ DOMAIN mods = 1..Len(mods) /\ DOMAIN mods' = 1..(Len(mods) + 1)
         /\ \A q \in DOMAIN mods : mods'[q] = mods[q]
         /\ mods'[Len(mods) + 1] = rec
    BY <1>6, <2>8, <2>9
  <2>11. ASSUME NEW p \in Monitored, p <= b
         PROVE  \E q \in DOMAIN mods' : mods'[q].name = file[p].mod
    <3>1. CASE p <= t - 1
      <4>1. PICK q \in DOMAIN mods : mods[q].name = file[p].mod
        BY <2>8, <3>1
      <4>2. q \in DOMAIN mods' /\ mods'[q] = mods[q]
        BY <2>10
      <4>3. QED BY <4>1, <4>2
    <3>2. CASE p = t
      <4>1. Len(mods) + 1 \in DOMAIN mods'
        BY <2>10
      <4>2. mods'[Len(mods) + 1].name = file[p].mod
        BY <2>9, <2>10, <3>2 DEF m
      <4>3. QED BY <4>1, <4>2
    <3>3. QED BY <2>2, <2>11, <3>1, <3>2
  <2>12. ASSUME NEW q \in DOMAIN mods' PROVE mods'[q].flag = Flag(mods'[q].name)
    <3>1. CASE q \in DOMAIN mods
      BY <2>8, <2>10, <3>1
    <3>2. CASE q = Len(mods) + 1
      BY <2>9, <2>10, <3>2
    <3>3. QED BY <2>10, <2>12, <3>1, <3>2
  <2>13. \A q \in DOMAIN mods' : mods'[q].flag = Flag(mods[q].name)'
    BY <2>5, <2>12 DEF Flag
  <2>14. script_path' = Flat(Scripts, b)
    <3>1. script_path \in Seq(Mods)
      BY <1>3, <2>2, <2>8, ScriptsTypes
    <3>2. \A x \in Seq(Mods) : x \o <<>> = x /\ \A y \in Mods : x \o <<y>> = Append(x, y)
      OBVIOUS
    <3>3. script_path \o <<>> = script_path /\ script_path \o <<m>> = Append(script_path, m)
      BY <2>7, <3>1, <3>2, Zenon
    <3>4. CASE Flag(m) = "SCRIPT"
      BY <1>6, <2>2, <2>8, <3>3, <3>4, Zenon
    <3>5. CASE Flag(m) # "SCRIPT"
      BY <1>6, <2>2, <2>8, <3>3, <3>5, Zenon
    <3>6. QED BY <3>4, <3>5
  <2>15. buffer' \in Seq(Texts) /\ Len(buffer') = Len(script_path')
    <3>1. script_path \in Seq(Mods)
      BY <1>3, <2>2, <2>8, ScriptsTypes
    <3>2. BadLine \in Texts
      BY Zenon DEF Texts
    <3>3. CASE Flag(m) = "SCRIPT"
      BY <1>6, <2>7, <2>8, <3>1, <3>2, <3>3
    <3>4. CASE Flag(m) # "SCRIPT"
      BY <1>6, <2>8, <3>4
    <3>5. QED BY <3>3, <3>4
  <2>16. LoadedUpTo(Done)'
    BY <2>4, <2>5, <2>10, <2>11, <2>13, <2>14, <2>15 DEF LoadedUpTo
  <2>17. QED BY <2>3, <2>6, <2>16
<1>8. QED BY <1>1, <1>3, <1>5, <1>7 DEF CInv

\* begin_collect_data.
LEMMA LoadEnd == ASSUME CInv, LoadEnds PROVE CInv'
<1>1. /\ pc = "load" /\ pc' = "collect" /\ t = Null /\ round' = 1
      /\ UNCHANGED <<inputs, lists, walk, t, loaded, i, js, buffer, index_data, script_j, sample>>
  BY DEF LoadEnds
<1>2. info' = info /\ nxt' = nxt /\ mods' = mods /\ script_path' = script_path /\ file' = file
  BY <1>1 DEF lists, loaded, inputs
<1>3. /\ InputType' /\ Parsed' /\ InputType /\ Parsed /\ info = file /\ (InOrder' <=> InOrder)
  BY <1>1, <1>2, LaterFrame
<1>4. ReadType /\ script_j = 0 /\ (InOrder => Chained /\ Walking /\ LoadedUpTo(Done))
  BY <1>1 DEF CInv
<1>5. ReadType' /\ script_j' = 0
  <2>1. Indexes(file') = Indexes(file)
    BY <1>2
  <2>2. QED BY <1>1, <1>4, <2>1 DEF ReadType
<1>6. ASSUME InOrder PROVE Chained' /\ LoadedAll'
  <2>1. Chained'
    BY <1>1, <1>2, <1>4, <1>6, ChainFrame, Zenon DEF Chained
  <2>2. LoadedAll
    <3>1. Done = Len(file)
      BY <1>1 DEF Done, Before
    <3>2. QED BY <1>4, <1>6, <3>1 DEF LoadedAll
  <2>3. buffer' \in Seq(Texts) /\ Len(buffer') = Len(buffer)
    BY <1>1, <2>2 DEF LoadedAll, LoadedUpTo
  <2>4. LoadedAll'
    BY <1>1, <1>2, <2>2, <2>3, LoadedFrame
  <2>5. QED BY <2>1, <2>4
<1>7. QED BY <1>1, <1>3, <1>5, <1>6 DEF CInv

-----------------------------------------------------------------------------
(* A sample is collected.                                                   *)

\* What stays while a sample is collected.
LEMMA CollectFrame ==
  ASSUME CInv, pc = "collect", pc' \in {"collect", "exit"},
         UNCHANGED <<inputs, lists, loaded, script_j>>, ReadType',
         InOrder => LoadedAll'
  PROVE  CInv'
<1>1. info' = info /\ nxt' = nxt
  BY DEF lists
<1>2. InputType' /\ Parsed' /\ (InOrder' <=> InOrder)
  BY <1>1, LaterFrame
<1>3. script_j' = 0 /\ (InOrder => Chained)
  BY DEF CInv
<1>4. InOrder => Chained'
  BY <1>1, <1>3, ChainFrame, Zenon DEF Chained
<1>5. QED BY <1>2, <1>3, <1>4 DEF CInv

\* A module is read.
LEMMA CollectStep == ASSUME CInv, collect_data_from_modules PROVE CInv'
<1>1. /\ pc = "collect"
      /\ UNCHANGED <<inputs, lists, walk, t, loaded, round, script_j, sample>>
      /\ ReadPlugin(mods[i].name) \/ ReadScript(mods[i].name) \/ ReadNothing
  BY DEF collect_data_from_modules
<1>2. InputType /\ ReadType /\ (InOrder => LoadedAll)
  BY <1>1 DEF CInv
<1>3. pc' \in {"collect", "exit"}
  BY <1>1 DEF ReadPlugin, ReadScript, ReadNothing
<1>4. ReadType'
  <2>1. index_data' \in [Indexes(file) -> Nat]
    <3>1. index_data \in [Indexes(file) -> Nat] /\ round \in Nat
      BY <1>2 DEF ReadType
    <3>2. CASE ReadPlugin(mods[i].name)
      <4>1. PICK ok \in BOOLEAN :
              index_data' = [x \in DOMAIN index_data |->
                               IF ok /\ x \in installed[mods[i].name].hdrs
                               THEN round ELSE index_data[x]]
        BY <3>2 DEF ReadPlugin
      <4>2. QED BY <3>1, <4>1
    <3>3. CASE ReadScript(mods[i].name) \/ ReadNothing
      BY <3>1, <3>3 DEF ReadScript, ReadNothing
    <3>4. QED BY <1>1, <3>2, <3>3
  <2>2. Indexes(file') = Indexes(file)
    BY <1>1 DEF inputs
  <2>3. round' \in Nat
    BY <1>1, <1>2 DEF ReadType
  <2>4. QED BY <2>1, <2>2, <2>3 DEF ReadType
<1>5. ASSUME InOrder PROVE LoadedAll'
  <2>1. /\ buffer \in Seq(Texts) /\ Len(buffer) = Len(script_path)
        /\ script_path = Flat(Scripts, Len(file))
    BY <1>2, <1>5 DEF LoadedAll, LoadedUpTo
  <2>2. script_path \in Seq(Mods)
    <3>1. Len(file) \in 0..Len(file)
      BY <1>2, Inputs
    <3>2. QED BY <1>2, <2>1, <3>1, ScriptsTypes
  <2>3. buffer' \in Seq(Texts) /\ Len(buffer') = Len(buffer)
    <3>1. CASE buffer' = buffer
      BY <2>1, <3>1
    <3>2. CASE ReadScript(mods[i].name) /\ buffer' # buffer
      <4>1. PICK line \in ScriptLines(script_path[js]) : buffer' = [buffer EXCEPT ![js] = line]
        BY <3>2 DEF ReadScript
      <4>2. js \in 1..Len(buffer)
        BY <2>1, <3>2, <4>1
      <4>3. script_path[js] \in Mods
        BY <2>1, <2>2, <4>2
      <4>4. PICK p \in Positions : script_path[js] = file[p].mod
        BY <4>3 DEF Mods
      <4>5. line \in Texts
        BY <1>2, <4>1, <4>4 DEF InputType, Texts
      <4>6. QED BY <2>1, <4>1, <4>2, <4>5
    <3>3. CASE ReadPlugin(mods[i].name) \/ ReadNothing
      BY <3>1, <3>3 DEF ReadPlugin, ReadNothing
    <3>4. QED BY <1>1, <3>1, <3>2, <3>3
  <2>4. UNCHANGED <<inputs, mods, script_path>>
    BY <1>1 DEF loaded
  <2>5. QED BY <1>2, <1>5, <2>3, <2>4, LoadedFrame
<1>6. UNCHANGED <<inputs, lists, loaded, script_j>>
  BY <1>1
<1>7. QED BY <1>1, <1>3, <1>4, <1>5, <1>6, CollectFrame

\* complete_app_data starts with an empty sample.
LEMMA CollectEnd == ASSUME CInv, CollectEnds PROVE CInv'
<1> DEFINE b == Before(nxt[M])
<1>1. /\ pc = "collect" /\ pc' = "complete" /\ t' = nxt[M] /\ sample' = <<>>
      /\ UNCHANGED <<inputs, lists, walk, loaded, buffer, index_data, round, script_j>>
  BY DEF CollectEnds
<1>2. info' = info /\ nxt' = nxt /\ mods' = mods /\ script_path' = script_path
  BY <1>1 DEF lists, loaded
<1>3. /\ InputType' /\ Parsed' /\ InputType /\ Parsed /\ info = file /\ (InOrder' <=> InOrder)
  BY <1>1, <1>2, LaterFrame
<1>4. ReadType /\ script_j = 0 /\ (InOrder => Chained /\ LoadedAll)
  BY <1>1 DEF CInv
<1>5. ReadType'
  BY <1>1, <1>4, ReadFrame, Zenon
<1>6. ASSUME InOrder
      PROVE  /\ Chained' /\ LoadedAll' /\ Walking' /\ SampleUpTo(Done)'
             /\ script_j' = Len(Flat(Scripts, Done))'
  <2>1. Chained'
    BY <1>1, <1>2, <1>4, <1>6, ChainFrame, Zenon DEF Chained
  <2>2. LoadedAll'
    <3>1. buffer' \in Seq(Texts) /\ Len(buffer') = Len(buffer)
      BY <1>1, <1>4, <1>6 DEF LoadedAll, LoadedUpTo
    <3>2. QED BY <1>1, <1>2, <1>4, <1>6, <3>1, LoadedFrame
  <2>3. nxt[M] \in Monitored \cup {Null} /\ Flat(Names, b) = <<>> /\ Flat(Scripts, b) = <<>>
    BY <1>3, <1>4, <1>6, ChainFirst, Zenon DEF Chained
  <2>4. Done' = b
    BY <1>1, ChainFrame, Zenon
  <2> HIDE DEF b
  <2>5. Monitored' = Monitored /\ Names' = Names /\ Scripts' = Scripts
    BY <1>1, InputFrame, Zenon
  <2>6. Walking'
    BY <1>1, <2>3, <2>5, Zenon DEF Walking
  <2>7. Flat(Names', Done') = <<>> /\ Flat(Scripts', Done') = <<>>
    BY <2>3, <2>4, <2>5, Zenon
  <2>8. Agree(<<>>, <<>>) /\ <<>> \in Seq(Values)
    BY DEF Agree
  <2>9. SampleUpTo(Done)'
    BY <1>1, <2>7, <2>8, Zenon DEF SampleUpTo
  <2>10. script_j' = Len(Flat(Scripts, Done))'
    BY <1>1, <1>4, <2>7
  <2>11. QED BY <2>1, <2>2, <2>6, <2>9, <2>10
<1>7. QED BY <1>1, <1>3, <1>5, <1>6 DEF CInv

\* The flag of a line that is loaded.
LEMMA FlagFound ==
  ASSUME InputType, LoadedAll, t \in Monitored,
         NEW known, known = {q \in DOMAIN mods : mods[q].name = file[t].mod}
  PROVE  known # {} /\ mods[CHOOSE q \in known : TRUE].flag = Flag(file[t].mod)
<1>1. t <= Len(file)
  BY Inputs, MonitoredEnds DEF Positions
<1>2. known # {}
  BY <1>1 DEF LoadedAll, LoadedUpTo
<1>3. (CHOOSE q \in known : TRUE) \in known
  BY <1>2
<1> DEFINE q == CHOOSE x \in known : TRUE
<1>4. q \in DOMAIN mods /\ mods[q].name = file[t].mod
  BY <1>3
<1> HIDE DEF q
<1>5. mods[q].flag = Flag(file[t].mod)
  BY <1>4 DEF LoadedAll, LoadedUpTo
<1>6. QED BY <1>2, <1>5 DEF q

\* The mask is a value of any index.
LEMMA MaskValue == Mask \in Values /\ Mask.ix = "error"
BY DEF Mask, Values

\* What the sample gets for one line.
LEMMA LineValues ==
  ASSUME InputType, ReadType, Distinct, LoadedAll, t \in Monitored,
         NEW v,
         \/ Flag(file[t].mod) = "NORMAL" /\ v = compare_index_data(file[t].mod, file[t].ix)
         \/ Flag(file[t].mod) = "SCRIPT" /\ v = deal_script_data(buffer[script_j + 1], file[t].ix)
         \/ Flag(file[t].mod) \notin {"NORMAL", "SCRIPT"} /\ v = add_error_mask(file[t].ix),
         Flag(file[t].mod) = "SCRIPT" =>
            script_j + 1 \in DOMAIN script_path /\ script_path[script_j + 1] = file[t].mod
  PROVE  v \in Seq(Values) /\ (ScriptsComplete => Agree(v, file[t].ix))
<1> DEFINE m == file[t].mod
           ix == file[t].ix
<1>1. t \in Positions /\ ix \in Seq(STRING)
  BY Inputs, MonitoredEnds
<1>2. Mask \in Values /\ Mask.ix = "error"
  BY MaskValue, Zenon
<1>3. \A p \in DOMAIN ix : ix[p] \in STRING /\ ix[p] \in Indexes(file)
  <2>1. \A p \in DOMAIN ix : ix[p] \in ToSet(ix)
    BY DEF ToSet
  <2>2. ToSet(ix) \subseteq Indexes(file)
    BY <1>1, Inputs DEF Indexes
  <2>3. QED BY <1>1, <2>1, <2>2
<1>4. \A x \in Indexes(file) : index_data[x] \in Nat
  BY DEF ReadType
<1>5. round \in Nat
  BY DEF ReadType
<1>6. \A x \in STRING, r \in Nat : Value(x, r) \in Values /\ Value(x, r).ix = x
  BY DEF Value, Values
<1>7. CASE Flag(m) = "NORMAL"
  <2>1. v = compare_index_data(m, ix)
    BY <1>7
  <2>2. v = [p \in DOMAIN ix |->
               IF ix[p] \in installed[m].hdrs THEN Value(ix[p], index_data[ix[p]]) ELSE Mask]
    BY <2>1 DEF compare_index_data
  <2> HIDE DEF m, ix
  <2>3. \A p \in DOMAIN ix : v[p] \in Values /\ v[p].ix \in {ix[p], "error"}
    BY <1>2, <1>3, <1>4, <1>6, <2>2
  <2>4. DOMAIN ix = 1..Len(ix) /\ Len(ix) \in Nat
    BY <1>1
  <2>5. v \in Seq(Values) /\ Len(v) = Len(ix)
    BY <2>2, <2>3, <2>4
  <2>6. QED BY <2>3, <2>4, <2>5 DEF Agree, ix
<1>8. CASE Flag(m) = "SCRIPT"
  <2> DEFINE line == buffer[script_j + 1]
  <2>1. v = deal_script_data(line, ix)
    BY <1>8
  <2>2. v = [p \in DOMAIN line |->
               IF p \in DOMAIN ix /\ line[p] = ix[p] THEN Value(ix[p], round) ELSE Mask]
    BY <2>1 DEF deal_script_data
  <2>3. script_j + 1 \in DOMAIN script_path /\ script_path[script_j + 1] = m
    BY <1>8
  <2>4. line \in Texts
    <3>1. /\ buffer \in Seq(Texts) /\ Len(buffer) = Len(script_path)
          /\ script_path = Flat(Scripts, Len(file))
      BY DEF LoadedAll, LoadedUpTo
    <3>2. Len(file) \in 0..Len(file)
      BY Inputs
    <3>3. script_path \in Seq(Mods)
      BY <3>1, <3>2, ScriptsTypes
    <3>4. script_j + 1 \in 1..Len(buffer)
      BY <2>3, <3>1, <3>3
    <3>5. QED BY <3>1, <3>4
  <2>5. ScriptsComplete => Len(line) = Len(ix)
    <3>1. IndexNames(m) = ix
      BY <1>1, IndexNamesIs
    <3>2. QED BY <2>3, <3>1 DEF ScriptsComplete
  <2> HIDE DEF m, ix, line
  <2>6. \A p \in DOMAIN line :
          v[p] \in Values /\ (p \in DOMAIN ix => v[p].ix \in {ix[p], "error"})
    BY <1>2, <1>3, <1>5, <1>6, <2>2
  <2>7. /\ DOMAIN ix = 1..Len(ix) /\ Len(ix) \in Nat
        /\ DOMAIN line = 1..Len(line) /\ Len(line) \in Nat
    BY <1>1, <2>4 DEF Texts, BadLine
  <2>8. v \in Seq(Values) /\ Len(v) = Len(line)
    BY <2>2, <2>6, <2>7
  <2>9. QED BY <2>5, <2>6, <2>7, <2>8 DEF Agree, ix
<1>9. CASE Flag(m) \notin {"NORMAL", "SCRIPT"}
  <2>1. v = add_error_mask(ix)
    BY <1>9
  <2>2. v = [p \in DOMAIN ix |-> Mask]
    BY <2>1 DEF add_error_mask
  <2> HIDE DEF m, ix
  <2>3. \A p \in DOMAIN ix : v[p] \in Values /\ v[p].ix \in {ix[p], "error"}
    BY <1>2, <2>2
  <2>4. DOMAIN ix = 1..Len(ix) /\ Len(ix) \in Nat
    BY <1>1
  <2>5. v \in Seq(Values) /\ Len(v) = Len(ix)
    BY <2>2, <2>3, <2>4
  <2>6. QED BY <2>3, <2>4, <2>5 DEF Agree, ix
<1>10. QED BY <1>7, <1>8, <1>9 DEF m

\* The scripts of the lines before t are the first script_j, so the next one is
\* the one of t.
LEMMA NextScript ==
  ASSUME InputType, Chained, t \in Monitored, LoadedAll, script_j = Len(Flat(Scripts, Done)),
         Flag(file[t].mod) = "SCRIPT"
  PROVE  script_j + 1 \in DOMAIN script_path /\ script_path[script_j + 1] = file[t].mod
<1> DEFINE n == Len(file)
           b == Before(nxt[t])
           m == file[t].mod
<1>1. /\ t \in Positions /\ Done = t - 1 /\ t - 1 \in 0..n /\ b \in t..n
      /\ Flat(Scripts, b) = Flat(Scripts, t - 1) \o <<m>>
  BY ChainNext
<1>2. n \in Nat /\ Positions = 1..n
  BY Inputs DEF Positions
<1>3. script_path = Flat(Scripts, n)
  BY DEF LoadedAll, LoadedUpTo
<1>4. Flat(Scripts, t - 1) \in Seq(Mods) /\ m \in Mods
  BY <1>1, ScriptsTypes DEF Mods
<1>5. \A x \in Seq(Mods), y \in Mods :
        Len(x) \in Nat /\ Len(x \o <<y>>) = Len(x) + 1 /\ (x \o <<y>>)[Len(x) + 1] = y
  OBVIOUS
<1>6. /\ script_j \in Nat /\ Len(Flat(Scripts, b)) = script_j + 1
      /\ Flat(Scripts, b)[script_j + 1] = m
  <2>1. script_j = Len(Flat(Scripts, t - 1))
    BY <1>1
  <2> HIDE DEF m, b
  <2>2. QED BY <1>1, <1>4, <1>5, <2>1, Zenon
<1>7. /\ Len(Flat(Scripts, n)) \in Nat /\ Len(Flat(Scripts, b)) <= Len(Flat(Scripts, n))
      /\ \A x \in 1..Len(Flat(Scripts, b)) : Flat(Scripts, n)[x] = Flat(Scripts, b)[x]
  <2>1. b \in 0..n
    BY <1>1, <1>2
  <2>2. \A p \in 1..n : Scripts[p] \in Seq(Mods)
    BY ScriptsTypes
  <2> HIDE DEF n, b
  <2>3. QED BY <1>2, <2>1, <2>2, FlatPrefix
<1>8. script_path \in Seq(Mods)
  <2>1. n \in 0..n
    BY <1>2
  <2>2. QED BY <1>3, <2>1, ScriptsTypes
<1> HIDE DEF n, b, m
<1>9. script_j + 1 \in 1..Len(Flat(Scripts, b))
  BY <1>6
<1>10. script_j + 1 \in 1..Len(script_path)
  BY <1>3, <1>6, <1>7, <1>8
<1>11. script_path[script_j + 1] = m
  BY <1>3, <1>6, <1>7, <1>9
<1>12. QED BY <1>8, <1>10, <1>11 DEF m

\* One line of the list is completed.
LEMMA CompleteStep == ASSUME CInv, complete_module_data PROVE CInv'
<1> DEFINE b == Before(nxt[t])
           m == file[t].mod
           ix == file[t].ix
           known == {q \in DOMAIN mods : mods[q].name = info[t].mod}
           flag == IF known = {} THEN "NOT_EXIST" ELSE mods[CHOOSE q \in known : TRUE].flag
<1>1. /\ pc = "complete" /\ pc' = "complete" /\ t # Null /\ t' = nxt[t]
      /\ UNCHANGED <<inputs, lists, walk, loaded, readings>>
      /\ \/ /\ flag = "NORMAL"
            /\ sample' = sample \o compare_index_data(info[t].mod, info[t].ix)
            /\ UNCHANGED script_j
         \/ /\ flag = "SCRIPT"
            /\ sample' = sample \o deal_script_data(buffer[script_j + 1], info[t].ix)
            /\ script_j' = script_j + 1
         \/ /\ flag \notin {"NORMAL", "SCRIPT"}
            /\ sample' = sample \o add_error_mask(info[t].ix)
            /\ UNCHANGED script_j
  BY DEF complete_module_data
<1> HIDE DEF flag
<1>2. /\ info' = info /\ nxt' = nxt /\ mods' = mods /\ script_path' = script_path
      /\ buffer' = buffer /\ index_data' = index_data /\ round' = round
  BY <1>1 DEF lists, loaded, readings
<1>3. /\ InputType' /\ Parsed' /\ InputType /\ Parsed /\ info = file /\ (InOrder' <=> InOrder)
  BY <1>1, <1>2, LaterFrame
<1>4. /\ ReadType
      /\ InOrder => /\ Chained /\ LoadedAll /\ Walking /\ SampleUpTo(Done)
                    /\ script_j = Len(Flat(Scripts, Done))
  BY <1>1 DEF CInv
<1>5. ReadType'
  BY <1>1, <1>2, <1>4, ReadFrame, Zenon
<1>6. ASSUME InOrder
      PROVE  /\ Chained' /\ LoadedAll' /\ Walking' /\ SampleUpTo(Done)'
             /\ script_j' = Len(Flat(Scripts, Done))'
  <2>1. /\ Chained /\ LoadedAll /\ t \in Monitored /\ SampleUpTo(Done)
        /\ script_j = Len(Flat(Scripts, Done)) /\ Distinct
    BY <1>1, <1>3, <1>4, <1>6 DEF Walking, Parsed
  <2>2. Chained'
    BY <1>1, <1>2, <2>1, ChainFrame, Zenon DEF Chained
  <2>3. LoadedAll'
    <3>1. buffer' \in Seq(Texts) /\ Len(buffer') = Len(buffer)
      BY <1>2, <2>1 DEF LoadedAll, LoadedUpTo
    <3>2. QED BY <1>1, <1>2, <2>1, <3>1, LoadedFrame
  <2>4. flag = Flag(m)
    <3>1. known = {q \in DOMAIN mods : mods[q].name = file[t].mod}
      BY <1>3
    <3> HIDE DEF known
    <3>2. known # {} /\ mods[CHOOSE q \in known : TRUE].flag = Flag(file[t].mod)
      BY <1>3, <2>1, <3>1, FlagFound
    <3>3. QED BY <3>2 DEF flag
  <2> HIDE DEF known
  <2>5. PICK v :
          /\ \/ Flag(m) = "NORMAL" /\ v = compare_index_data(m, ix)
             \/ Flag(m) = "SCRIPT" /\ v = deal_script_data(buffer[script_j + 1], ix)
             \/ Flag(m) \notin {"NORMAL", "SCRIPT"} /\ v = add_error_mask(ix)
          /\ sample' = sample \o v
          /\ script_j' = IF Flag(m) = "SCRIPT" THEN script_j + 1 ELSE script_j
    <3>1. CASE flag = "NORMAL"
      <4>1. /\ sample' = sample \o compare_index_data(m, ix)
            /\ script_j' = script_j
        BY <1>1, <1>3, <3>1
      <4>2. QED BY <2>4, <3>1, <4>1
    <3>2. CASE flag = "SCRIPT"
      <4>1. /\ sample' = sample \o deal_script_data(buffer[script_j + 1], ix)
            /\ script_j' = script_j + 1
        BY <1>1, <1>3, <3>2
      <4>2. QED BY <2>4, <3>2, <4>1
    <3>3. CASE flag \notin {"NORMAL", "SCRIPT"}
      <4>1. /\ sample' = sample \o add_error_mask(ix)
            /\ script_j' = script_j
        BY <1>1, <1>3, <3>3
      <4>2. QED BY <2>4, <3>3, <4>1
    <3>4. QED BY <3>1, <3>2, <3>3
  <2>6. Flag(m) = "SCRIPT" =>
          script_j + 1 \in DOMAIN script_path /\ script_path[script_j + 1] = m
    BY <1>3, <2>1, NextScript
  <2>7. v \in Seq(Values) /\ (ScriptsComplete => Agree(v, ix))
    BY <1>3, <1>4, <2>1, <2>5, <2>6, LineValues
  <2>8. /\ t \in Positions /\ Done = t - 1 /\ t - 1 \in 0..Len(file)
        /\ nxt[t] \in Monitored \cup {Null}
        /\ Flat(Names, b) = Flat(Names, t - 1) \o ix
        /\ Flat(Scripts, b) = Flat(Scripts, t - 1) \o
             (IF Flag(m) = "SCRIPT" THEN <<m>> ELSE <<>>)
    BY <1>3, <2>1, ChainNext, Zenon
  <2>9. Done' = b
    BY <1>1, ChainFrame, Zenon
  <2>10. Monitored' = Monitored /\ Names' = Names /\ Scripts' = Scripts
    BY <1>1, InputFrame, Zenon
  <2>11. Walking'
    BY <1>1, <2>8, <2>10, Zenon DEF Walking
  <2>12. sample \in Seq(Values) /\ (ScriptsComplete => Agree(sample, Flat(Names, t - 1)))
    BY <2>1, <2>8, Zenon DEF SampleUpTo
  <2>13. ix \in Seq(STRING) /\ m \in Mods
    BY <1>3, <2>8, Inputs DEF Mods
  <2>14. Flat(Names, t - 1) \in Seq(STRING) /\ Flat(Scripts, t - 1) \in Seq(Mods)
    BY <1>3, <2>8, ScriptsTypes
  <2> HIDE DEF b, ix, m
  <2>15. ScriptsComplete' <=> ScriptsComplete
    <3>1. ScriptsComplete' <=> \A k \in DOMAIN script_path' :
                                 Len(buffer'[k]) = Len(IndexNames(script_path'[k]))
      BY <1>1, ChainFrame, Zenon
    <3>2. QED BY <1>2, <3>1, Zenon DEF ScriptsComplete
  <2>16. sample' \in Seq(Values)
    <3>1. \A x, y \in Seq(Values) : x \o y \in Seq(Values)
      OBVIOUS
    <3>2. QED BY <2>5, <2>7, <2>12, <3>1, Zenon
  <2>17. ScriptsComplete => Agree(sample', Flat(Names, b))
    BY <2>5, <2>7, <2>8, <2>12, <2>13, <2>14, AgreeNext, Zenon
  <2>18. SampleUpTo(Done)'
    BY <2>9, <2>10, <2>15, <2>16, <2>17, Zenon DEF SampleUpTo
  <2>19. script_j' = Len(Flat(Scripts, b))
    <3>1. \A x \in Seq(Mods) : x \o <<>> = x /\ \A y \in Mods : Len(x \o <<y>>) = Len(x) + 1
      OBVIOUS
    <3>2. script_j = Len(Flat(Scripts, t - 1))
      BY <2>1, <2>8, Zenon
    <3>3. CASE Flag(m) = "SCRIPT"
      <4>1. Len(Flat(Scripts, t - 1) \o <<m>>) = script_j + 1
        BY <2>13, <2>14, <3>1, <3>2, Zenon
      <4>2. Flat(Scripts, b) = Flat(Scripts, t - 1) \o <<m>> /\ script_j' = script_j + 1
        BY <2>5, <2>8, <3>3, Zenon
      <4>3. QED BY <4>1, <4>2, Zenon
    <3>4. CASE Flag(m) # "SCRIPT"
      <4>1. Flat(Scripts, t - 1) \o <<>> = Flat(Scripts, t - 1)
        BY <2>14, <3>1, Zenon
      <4>2. Flat(Scripts, b) = Flat(Scripts, t - 1) \o <<>> /\ script_j' = script_j
        BY <2>5, <2>8, <3>4, Zenon
      <4>3. QED BY <3>2, <4>1, <4>2, Zenon
    <3>5. QED BY <3>3, <3>4
  <2>20. script_j' = Len(Flat(Scripts, Done))'
    BY <2>9, <2>10, <2>19, Zenon
  <2>21. QED BY <2>2, <2>3, <2>11, <2>18, <2>20
<1>7. QED BY <1>1, <1>3, <1>5, <1>6 DEF CInv

\* The sample is sent.
LEMMA SentStep == ASSUME CInv, SampleSent PROVE CInv'
<1>1. /\ pc = "complete" /\ pc' = "sent" /\ t = Null /\ script_j' = 0
      /\ UNCHANGED <<inputs, lists, walk, t, loaded, readings, sample>>
  BY DEF SampleSent
<1>2. /\ info' = info /\ nxt' = nxt /\ mods' = mods /\ script_path' = script_path
      /\ buffer' = buffer /\ index_data' = index_data /\ round' = round
  BY <1>1 DEF lists, loaded, readings
<1>3. /\ InputType' /\ Parsed' /\ InputType /\ Parsed /\ info = file /\ (InOrder' <=> InOrder)
  BY <1>1, <1>2, LaterFrame
<1>4. ReadType /\ (InOrder => Chained /\ LoadedAll /\ SampleUpTo(Done))
  BY <1>1 DEF CInv
<1>5. ReadType'
  BY <1>1, <1>2, <1>4, ReadFrame, Zenon
<1>6. ASSUME InOrder PROVE Chained' /\ LoadedAll' /\ SampleAll'
  <2>1. Chained'
    BY <1>1, <1>2, <1>4, <1>6, ChainFrame, Zenon DEF Chained
  <2>2. LoadedAll'
    <3>1. buffer' \in Seq(Texts) /\ Len(buffer') = Len(buffer)
      BY <1>2, <1>4, <1>6 DEF LoadedAll, LoadedUpTo
    <3>2. QED BY <1>1, <1>2, <1>4, <1>6, <3>1, LoadedFrame
  <2>3. Done = Len(file)
    BY <1>1 DEF Done, Before
  <2>4. sample \in Seq(Values) /\ (ScriptsComplete => Agree(sample, Flat(Names, Len(file))))
    BY <1>4, <1>6, <2>3, Zenon DEF SampleUpTo
  <2>5. ScriptsComplete' <=> ScriptsComplete
    <3>1. ScriptsComplete' <=> \A k \in DOMAIN script_path' :
                                 Len(buffer'[k]) = Len(IndexNames(script_path'[k]))
      BY <1>1, ChainFrame, Zenon
    <3>2. QED BY <1>2, <3>1, Zenon DEF ScriptsComplete
  <2>6. Names' = Names /\ file' = file /\ sample' = sample
    BY <1>1, InputFrame, Zenon
  <2>7. SampleAll'
    BY <2>4, <2>5, <2>6, Zenon DEF SampleAll, SampleUpTo
  <2>8. QED BY <2>1, <2>2, <2>7
<1>7. QED BY <1>1, <1>3, <1>5, <1>6 DEF CInv

\* The next sample.
LEMMA RoundStep == ASSUME CInv, NextRound PROVE CInv'
<1>1. /\ pc = "sent" /\ pc' = "collect" /\ round' = round + 1
      /\ UNCHANGED <<inputs, lists, walk, t, loaded, i, js, buffer, index_data, script_j, sample>>
  BY DEF NextRound
<1>2. /\ info' = info /\ nxt' = nxt /\ mods' = mods /\ script_path' = script_path /\ file' = file
  BY <1>1 DEF lists, loaded, inputs
<1>3. /\ InputType' /\ Parsed' /\ (InOrder' <=> InOrder)
  BY <1>1, <1>2, LaterFrame
<1>4. ReadType /\ script_j = 0 /\ (InOrder => Chained /\ LoadedAll)
  BY <1>1 DEF CInv
<1>5. ReadType' /\ script_j' = 0
  <2>1. Indexes(file') = Indexes(file)
    BY <1>2
  <2>2. QED BY <1>1, <1>4, <2>1 DEF ReadType
<1>6. ASSUME InOrder PROVE Chained' /\ LoadedAll'
  <2>1. Chained'
    BY <1>1, <1>2, <1>4, <1>6, ChainFrame, Zenon DEF Chained
  <2>2. buffer' \in Seq(Texts) /\ Len(buffer') = Len(buffer)
    BY <1>1, <1>4, <1>6 DEF LoadedAll, LoadedUpTo
  <2>3. LoadedAll'
    BY <1>1, <1>2, <1>4, <1>6, <2>2, LoadedFrame
  <2>4. QED BY <2>1, <2>3
<1>7. QED BY <1>1, <1>3, <1>5, <1>6 DEF CInv

-----------------------------------------------------------------------------
(* Together.                                                                *)

\* The daemon starts with nothing read.
LEMMA Starts == Init => CInv
<1> SUFFICES ASSUME Init PROVE CInv
  OBVIOUS
<1>1. /\ file \in BaseFiles /\ monitor \in MonitorLists /\ pc = "parse" /\ info = <<>>
      /\ nxt = [p \in M..Len(file) |-> Null] /\ j = 1 /\ hm = M
      /\ mods = <<>> /\ script_path = <<>> /\ buffer = <<>> /\ script_j = 0
      /\ index_data = [x \in Indexes(file) |-> 0] /\ round = 0
  BY DEF Init
<1>2. file \in Seq(Lines) /\ monitor \in Seq(STRING)
  BY <1>1, ColumnsConstants DEF Lines
<1>3. \A p \in DOMAIN file : ScriptLines(file[p].mod) \subseteq Seq(STRING)
  BY <1>1, ColumnsConstants
<1>4. InputType
  <2>1. DOMAIN file = Positions
    BY <1>2 DEF Positions
  <2>2. QED BY <1>2, <1>3, <2>1, Zenon DEF InputType
<1>5. ReadType
  BY <1>1 DEF ReadType
<1>6. Parsing
  <2>1. Len(file) \in Nat
    BY <1>2
  <2>2. info \in Seq(Lines) /\ Len(info) = 0
    BY <1>1
  <2>3. nxt = [p \in M..Len(file) |-> IF p \in 0..(Len(info) - 1) THEN p + 1 ELSE Null]
    BY <1>1, <2>2
  <2>4. QED BY <1>1, <2>1, <2>2, <2>3 DEF Parsing
<1>7. QED BY <1>1, <1>4, <1>5, <1>6 DEF CInv

\* Nothing of it changes when nothing changes.
LEMMA Stutters == ASSUME CInv, UNCHANGED vars PROVE CInv'
<1>1. /\ UNCHANGED inputs /\ pc' = pc /\ info' = info /\ nxt' = nxt
      /\ j' = j /\ head' = head /\ hm' = hm /\ t' = t
      /\ mods' = mods /\ script_path' = script_path /\ buffer' = buffer
      /\ index_data' = index_data /\ round' = round /\ script_j' = script_j /\ sample' = sample
  BY DEF vars, lists, walk, loaded, readings
<1>2. /\ file' = file /\ monitor' = monitor /\ installed' = installed
      /\ (InputType' <=> InputType) /\ (Distinct' <=> Distinct) /\ (InOrder' <=> InOrder)
      /\ Positions' = Positions /\ Monitored' = Monitored /\ Names' = Names
      /\ Scripts' = Scripts
  BY <1>1, InputFrame, Zenon
<1>3. ReadType => ReadType'
  BY <1>1, ReadFrame, Zenon
<1>4. Parsing => Parsing'
  BY <1>1, <1>2 DEF Parsing
<1>5. Parsed => Parsed'
  BY <1>1, <1>2, Zenon DEF Parsed
<1>6. Linked' = Linked /\ MonitoredBy(j)' = MonitoredBy(j)
  BY <1>1, LinkedFrame, Zenon DEF Linked
<1>7. Relinked => Relinked'
  BY <1>1, <1>2, <1>6, Zenon DEF Relinked
<1>8. Ahead => Ahead'
  BY <1>1, <1>2, Zenon DEF Ahead
<1>9. Chained => Chained'
  BY <1>1, ChainFrame, Zenon DEF Chained
<1>10. Walking => Walking'
  BY <1>1, <1>2, Zenon DEF Walking
<1>11. Done' = Done /\ Flags' = Flags
  BY <1>1, ChainFrame, Zenon DEF Done
<1>12. \A q \in DOMAIN mods : mods[q].flag = Flag(mods[q].name) =>
                                mods'[q].flag = Flag(mods[q].name)'
  BY <1>1, <1>2 DEF Flag
<1>13. LoadedUpTo(Done) => LoadedUpTo(Done)'
  BY <1>1, <1>2, <1>11, <1>12, Zenon DEF LoadedUpTo
<1>14. LoadedAll => LoadedAll'
  BY <1>1, <1>2, <1>11, <1>12, Zenon DEF LoadedAll, LoadedUpTo
<1>15. ScriptsComplete' <=> ScriptsComplete
  <2>1. ScriptsComplete' <=> \A k \in DOMAIN script_path' :
                               Len(buffer'[k]) = Len(IndexNames(script_path'[k]))
    BY <1>1, ChainFrame, Zenon
  <2>2. QED BY <1>1, <2>1, Zenon DEF ScriptsComplete
<1>16. SampleUpTo(Done) => SampleUpTo(Done)'
  BY <1>1, <1>2, <1>11, <1>15, Zenon DEF SampleUpTo
<1>17. SampleAll => SampleAll'
  BY <1>1, <1>2, <1>15, Zenon DEF SampleAll, SampleUpTo
<1>18. Len(Flat(Scripts, Done))' = Len(Flat(Scripts, Done))
  BY <1>2, <1>11, Zenon
<1>19. /\ InputType' /\ ReadType'
       /\ pc' \in {"parse", "exit", "monitor", "load", "collect", "complete", "sent"}
       /\ pc' = "parse" => Parsing'
       /\ pc' \notin {"parse", "exit"} => Parsed'
       /\ pc' # "complete" => script_j' = 0
       /\ pc' \in {"parse", "monitor"} => mods' = <<>> /\ script_path' = <<>> /\ buffer' = <<>>
  <2>1. /\ InputType /\ ReadType
        /\ pc \in {"parse", "exit", "monitor", "load", "collect", "complete", "sent"}
        /\ pc = "parse" => Parsing
        /\ pc \notin {"parse", "exit"} => Parsed
        /\ pc # "complete" => script_j = 0
        /\ pc \in {"parse", "monitor"} => mods = <<>> /\ script_path = <<>> /\ buffer = <<>>
    BY DEF CInv
  <2>2. QED BY <1>1, <1>2, <1>3, <1>4, <1>5, <2>1
<1>20. ASSUME InOrder
       PROVE  /\ pc' = "monitor" => Relinked' /\ Ahead'
              /\ pc' \in {"load", "collect", "complete", "sent"} => Chained'
              /\ pc' = "load" => Walking' /\ LoadedUpTo(Done)'
              /\ pc' \in {"collect", "complete", "sent"} => LoadedAll'
              /\ pc' = "complete" => /\ Walking' /\ SampleUpTo(Done)'
                                     /\ script_j' = Len(Flat(Scripts, Done))'
              /\ pc' = "sent" => SampleAll'
  <2>1. /\ pc = "monitor" => Relinked /\ Ahead
        /\ pc \in {"load", "collect", "complete", "sent"} => Chained
        /\ pc = "load" => Walking /\ LoadedUpTo(Done)
        /\ pc \in {"collect", "complete", "sent"} => LoadedAll
        /\ pc = "complete" => /\ Walking /\ SampleUpTo(Done)
                              /\ script_j = Len(Flat(Scripts, Done))
        /\ pc = "sent" => SampleAll
    BY <1>20 DEF CInv
  <2>2. pc' = pc /\ script_j' = script_j
    BY <1>1
  <2>3. QED BY <1>7, <1>8, <1>9, <1>10, <1>13, <1>14, <1>16, <1>17, <1>18, <2>1, <2>2
<1>21. QED BY <1>2, <1>19, <1>20, Zenon DEF CInv

\* Every step of the daemon keeps the invariant.
LEMMA Keeps == CInv /\ [Next]_vars => CInv'
<1> SUFFICES ASSUME CInv, [Next]_vars PROVE CInv'
  OBVIOUS
<1>1. CASE analyse_index_info_config
  BY <1>1, ParseStep
<1>2. CASE ParseEnds
  BY <1>2, ParseEndsStep
<1>3. CASE monitor_data_step
  BY <1>3, MonitorStep
<1>4. CASE monitor_data_next
  BY <1>4, MonitorNext
<1>5. CASE monitor_data_end
  BY <1>5, MonitorEnd
<1>6. CASE load_modules
  BY <1>6, LoadStep
<1>7. CASE LoadEnds
  BY <1>7, LoadEnd
<1>8. CASE collect_data_from_modules
  BY <1>8, CollectStep
<1>9. CASE CollectEnds
  BY <1>9, CollectEnd
<1>10. CASE complete_module_data
  BY <1>10, CompleteStep
<1>11. CASE SampleSent
  BY <1>11, SentStep
<1>12. CASE NextRound
  BY <1>12, RoundStep
<1>13. CASE UNCHANGED vars
  BY <1>13, Stutters
<1>14. QED
  BY <1>1, <1>2, <1>3, <1>4, <1>5, <1>6, <1>7, <1>8, <1>9, <1>10, <1>11, <1>12, <1>13, Zenon
  DEF Next

\* In every state of the daemon its lists are what its phase says: base_index.conf
\* read so far, the list monitor_data is relinking, the monitored lines in the order
\* of the file, the modules loaded and the values put together for them so far.
THEOREM ColumnsInductive == Spec => []CInv
<1>1. Init => CInv
  BY Starts
<1>2. CInv /\ [Next]_vars => CInv'
  BY Keeps
<1>3. QED BY <1>1, <1>2, PTL DEF Spec

\* For a monitor list in the order of base_index.conf, the columns of the INSERT
\* statement are those of the sample, one by one, whatever the lists' lengths.
THEOREM RowsAgree == Spec => []RowColumnsAgree
<1>1. CInv => RowColumnsAgree
  BY RowsFromSample
<1>2. QED BY <1>1, ColumnsInductive, PTL

\* Under the same conditions a real-time query reads the column of its index.
THEOREM QueriesAgree == Spec => []QueryColumnsAgree
<1>1. CInv => QueryColumnsAgree
  BY QueriesFromSample
<1>2. QED BY <1>1, ColumnsInductive, PTL

=============================================================================
