------------------------------ MODULE DriverProofs ------------------------------
(***************************************************************************)
(* Two modules that share nothing, proved about side by side: the handlers *)
(* of an interrupt vector, and the IDE driver.                             *)
(*                                                                         *)
(* An interrupt at any store of list_add or list_del finds the handlers of *)
(* its vector, and the links agree between the calls: for any number of    *)
(* vectors and handlers, and whatever order the build gives the stores.    *)
(* The invariant is about the lists as they will be once the stores left   *)
(* are done: a store changes nothing of those, in any order.               *)
(*                                                                         *)
(* The IDE driver implements a disk that answers 0 only for what it read,  *)
(* for any number of units and sizes, however a device splits its data.    *)
(***************************************************************************)
EXTENDS HandlerList, Ide, FiniteSetTheorems, SequenceTheorems, WellFoundedInduction, TLAPS

(* A set of numbers that is not empty has a least one.                     *)
LEMMA LeastNat ==
  ASSUME NEW S, S \subseteq Nat, S # {}
  PROVE  \E x \in S : \A y \in S : x <= y
<1>. DEFINE R == OpToRel(<, Nat)
<1>1. IsWellFoundedOn(R, Nat)
  BY NatLessThanWellFounded
<1>. HIDE DEF R
<1>2. PICK x \in S : \A y \in S : ~ (<<y, x>> \in R)
  BY <1>1, WFMin
<1>3. \A y \in S : (<<y, x>> \in R) <=> y < x
  BY DEF R, OpToRel
<1>4. \A y \in S : ~ (y < x)
  BY <1>2, <1>3, Zenon
<1>5. x \in Nat /\ \A y \in S : y \in Nat
  OBVIOUS
<1>. QED BY <1>4, <1>5, SMT

(* A store that is left to do.                                             *)
Pend(store) == \E a \in 1 .. Len(todo) : todo[a] = store

(* The links, and the lists, with the stores left done.                    *)
VNext ==
  [m \in Nodes |->
     IF Pend("prev->next = new") /\ m = before THEN handler
     ELSE IF Pend("new->next = next") /\ m = handler THEN after
     ELSE IF Pend("prev->next = next") /\ m = before THEN after
     ELSE IF Pend("entry->next = NULL") /\ m = handler THEN NULL
     ELSE next[m]]

VPrev ==
  [m \in Nodes |->
     IF Pend("next->prev = new") /\ m = after THEN handler
     ELSE IF Pend("new->prev = prev") /\ m = handler THEN before
     ELSE IF Pend("next->prev = prev") /\ m = after THEN before
     ELSE IF Pend("entry->prev = NULL") /\ m = handler THEN NULL
     ELSE prev[m]]

VReg ==
  [v \in Vectors |->
     IF Pend("prev->next = new") /\ before = v THEN <<handler>> \o registered[v]
     ELSE IF Pend("prev->next = next") THEN Without(registered[v], handler)
     ELSE registered[v]]

(* The m-th node of the list s of v, which is closed by v.                 *)
At(s, v, m) == IF m \in 1 .. Len(s) THEN s[m] ELSE v

(* The links nx lead from v through s back to v.                           *)
Chain(nx, s, v) ==
  /\ nx[v] = At(s, v, 1)
  /\ \A m \in 1 .. Len(s) : nx[s[m]] = At(s, v, m + 1)

Chains(nx, rg) == \A v \in Vectors : Chain(nx, rg[v], v)

(* No handler is twice on the lists.                                       *)
Apart(rg) ==
  \A v, w \in Vectors : \A a \in 1 .. Len(rg[v]), b \in 1 .. Len(rg[w]) :
    rg[v][a] = rg[w][b] => v = w /\ a = b

Agree(nx, pv) ==
  \A m \in Nodes :
    \/ nx[m] = NULL /\ pv[m] = NULL
    \/ nx[m] \in Nodes /\ pv[m] \in Nodes /\ pv[nx[m]] = m /\ nx[pv[m]] = m

(* A handler on no list has no links.                                      *)
Loose(nx, rg) ==
  \A h \in Handlers : (\A w \in Vectors : ~ In(rg[w], h)) => nx[h] = NULL

Clean(nx, pv, rg) ==
  Chains(nx, rg) /\ Apart(rg) /\ Agree(nx, pv) /\ Loose(nx, rg)

Writes == {AddStores[i] : i \in 1 .. 4} \cup {DelStores[i] : i \in 1 .. 4}

(* The stores left are some of K, the last ones of K if they keep order.   *)
Some(K) ==
  \A a \in 1 .. Len(todo) :
    /\ \E i \in 1 .. 4 : todo[a] = K[i]
    /\ ordered => todo[a] = K[4 - Len(todo) + a]

TodoOK ==
  /\ todo \in Seq(Writes)
  /\ \A a, b \in 1 .. Len(todo) : todo[a] = todo[b] => a = b
  /\ Some(AddStores) \/ Some(DelStores)

Busy ==
  todo # <<>> =>
    /\ handler \in Handlers /\ before \in Nodes /\ after \in Nodes
    /\ handler # before /\ handler # after
    /\ Pend("prev->next = new") => \A w \in Vectors : ~ In(registered[w], handler)
    /\ Some(DelStores) => \A w \in Vectors : ~ In(VReg[w], handler)

IInv ==
  /\ TypeOK /\ TodoOK /\ Busy
  /\ Apart(registered)
  /\ Clean(VNext, VPrev, VReg)
  /\ ordered => Chains(next, registered)

-----------------------------------------------------------------------------
(* Sequences *)

LEMMA Dropped ==
  ASSUME NEW S, NEW s \in Seq(S), NEW m \in 1 .. Len(s)
  PROVE  /\ Drop(s, m) \in Seq(S)
         /\ Len(Drop(s, m)) = Len(s) - 1
         /\ \A a \in 1 .. Len(s) - 1 :
              Drop(s, m)[a] = IF a < m THEN s[a] ELSE s[a + 1]
<1>. DEFINE p == SubSeq(s, 1, m - 1)
            q == SubSeq(s, m + 1, Len(s))
<1>1. Len(s) \in Nat /\ m \in Nat /\ 1 <= m /\ m <= Len(s)
  OBVIOUS
<1>2. p \in Seq(S) /\ Len(p) = m - 1 /\ \A a \in 1 .. m - 1 : p[a] = s[a]
  BY <1>1
<1>3. q \in Seq(S) /\ Len(q) = Len(s) - m /\ \A a \in 1 .. Len(s) - m : q[a] = s[m + a]
  BY <1>1
<1>. HIDE DEF p, q
<1>4. p \o q \in Seq(S) /\ Len(p \o q) = Len(s) - 1
  <2>1. p \o q \in Seq(S) /\ Len(p \o q) = Len(p) + Len(q)
    BY <1>2, <1>3, ConcatProperties
  <2>. QED BY <2>1, <1>1, <1>2, <1>3
<1>5. ASSUME NEW a \in 1 .. Len(s) - 1
      PROVE  (p \o q)[a] = IF a < m THEN s[a] ELSE s[a + 1]
  <2>1. CASE a < m
    BY <2>1, <1>1, <1>2, <1>3
  <2>2. CASE ~ (a < m)
    <3>1. (p \o q)[a] = q[a - Len(p)]
      BY <2>2, <1>1, <1>2, <1>3
    <3>2. a - (m - 1) \in 1 .. Len(s) - m /\ m + (a - (m - 1)) = a + 1
      BY <2>2, <1>1
    <3>. QED BY <2>2, <3>1, <3>2, <1>2, <1>3
  <2>. QED BY <2>1, <2>2
<1>6. Drop(s, m) = p \o q
  BY DEF Drop, p, q
<1>. QED BY <1>4, <1>5, <1>6

(* Removing what is there once, and what is not there.                     *)
LEMMA Removed ==
  ASSUME NEW s \in Seq(Handlers), NEW h
  PROVE  /\ Without(s, h) \in Seq(Handlers)
         /\ ~ In(s, h) => Without(s, h) = s
         /\ In(s, h) => \E j \in 1 .. Len(s) : s[j] = h /\ Without(s, h) = Drop(s, j)
<1>1. CASE In(s, h)
  <2>. DEFINE j == CHOOSE m \in 1 .. Len(s) : s[m] = h
  <2>1. j \in 1 .. Len(s) /\ s[j] = h
    BY <1>1 DEF In
  <2>2. Without(s, h) = Drop(s, j)
    BY <1>1 DEF Without
  <2>. HIDE DEF j
  <2>. QED BY <1>1, <2>1, <2>2, Dropped
<1>2. CASE ~ In(s, h)
  BY <1>2 DEF Without
<1>. QED BY <1>1, <1>2

(* Putting h in front.                                                     *)
LEMMA Headed ==
  ASSUME NEW s \in Seq(Handlers), NEW h \in Handlers
  PROVE  /\ <<h>> \o s \in Seq(Handlers)
         /\ Len(<<h>> \o s) = Len(s) + 1
         /\ (<<h>> \o s)[1] = h
         /\ \A a \in 1 .. Len(s) : (<<h>> \o s)[a + 1] = s[a]
<1>. QED OBVIOUS

-----------------------------------------------------------------------------
(* Lists *)

LEMMA Kinds ==
  /\ \A v \in Vectors : v \notin Handlers /\ v \in Nodes /\ v # NULL
  /\ \A h \in Handlers : h \notin Vectors /\ h \in Nodes /\ h # NULL
  /\ NULL \notin Nodes
  /\ \A m \in Nodes : m \in Vectors \/ m \in Handlers
<1>. QED BY HandlerListAssumption DEF Nodes

LEMMA AtNode ==
  ASSUME NEW s \in Seq(Handlers), NEW v \in Vectors, NEW m \in Nat
  PROVE  At(s, v, m) \in Nodes
<1>. QED BY Kinds DEF At

Lists(nx, pv, rg) ==
  /\ nx \in [Nodes -> Nodes \cup {NULL}] /\ pv \in [Nodes -> Nodes \cup {NULL}]
  /\ rg \in [Vectors -> Seq(Handlers)]

Inserted(nx, pv, rg, v, h, nx2, pv2, rg2) ==
  /\ \A m \in Nodes : nx2[m] = IF m = v THEN h ELSE IF m = h THEN nx[v] ELSE nx[m]
  /\ \A m \in Nodes : pv2[m] = IF m = nx[v] THEN h ELSE IF m = h THEN v ELSE pv[m]
  /\ \A w \in Vectors : rg2[w] = IF w = v THEN <<h>> \o rg[w] ELSE rg[w]

Unlinked(nx, pv, rg, h, nx2, pv2, rg2) ==
  /\ \A m \in Nodes : nx2[m] = IF m = pv[h] THEN nx[h] ELSE IF m = h THEN NULL ELSE nx[m]
  /\ \A m \in Nodes : pv2[m] = IF m = nx[h] THEN pv[h] ELSE IF m = h THEN NULL ELSE pv[m]
  /\ \A w \in Vectors : rg2[w] = Without(rg[w], h)

(* list_add puts a handler that is on no list at the head of one.          *)
LEMMA CleanInsert ==
  ASSUME NEW nx, NEW pv, NEW rg, Lists(nx, pv, rg), Clean(nx, pv, rg),
         NEW v \in Vectors, NEW h \in Handlers,
         \A w \in Vectors : ~ In(rg[w], h),
         NEW nx2, NEW pv2, NEW rg2, Lists(nx2, pv2, rg2),
         Inserted(nx, pv, rg, v, h, nx2, pv2, rg2)
  PROVE  nx[v] \in Nodes /\ nx[v] # h /\ Clean(nx2, pv2, rg2)
<1>. USE DEF Lists, Inserted
<1>1. nx[h] = NULL
  BY DEF Clean, Loose
<1>2. nx[v] \in Nodes
  BY AtNode DEF Clean, Chains, Chain
<1>3. Agree(nx, pv)
  BY DEF Clean
<1>4. pv[h] = NULL /\ v # h /\ v \in Nodes /\ h \in Nodes
  BY <1>1, <1>3, Kinds DEF Agree
<1>5. \A m \in Nodes : nx[m] # h /\ pv[m] # h
  BY <1>1, <1>3, <1>4, Kinds DEF Agree
<1>6. Agree(nx2, pv2)
  <2>. SUFFICES ASSUME NEW m \in Nodes
                PROVE  \/ nx2[m] = NULL /\ pv2[m] = NULL
                       \/ /\ nx2[m] \in Nodes /\ pv2[m] \in Nodes
                          /\ pv2[nx2[m]] = m /\ nx2[pv2[m]] = m
    BY DEF Agree
  <2>0. pv[nx[v]] = v
    BY <1>2, <1>3, <1>4, Kinds DEF Agree
  <2>1. CASE m = v
    BY <2>0, <2>1, <1>2, <1>3, <1>4, <1>5, Kinds DEF Agree
  <2>2. CASE m = h
    BY <2>0, <2>2, <1>2, <1>3, <1>4, <1>5, Kinds DEF Agree
  <2>3. CASE m # v /\ m # h
    BY <2>0, <2>3, <1>2, <1>3, <1>4, <1>5, Kinds DEF Agree
  <2>. QED BY <2>1, <2>2, <2>3
<1>7. Len(rg2[v]) = Len(rg[v]) + 1 /\ rg2[v][1] = h
      /\ \A a \in 1 .. Len(rg[v]) : rg2[v][a + 1] = rg[v][a]
  BY Headed
<1>8. \A a \in 1 .. Len(rg2[v]) : a = 1 \/ (a - 1 \in 1 .. Len(rg[v]) /\ rg2[v][a] = rg[v][a - 1])
  <2>. SUFFICES ASSUME NEW a \in 1 .. Len(rg2[v]), a # 1
                PROVE  a - 1 \in 1 .. Len(rg[v]) /\ rg2[v][a] = rg[v][a - 1]
    OBVIOUS
  <2>1. Len(rg[v]) \in Nat /\ a \in Nat
    OBVIOUS
  <2>2. a - 1 \in 1 .. Len(rg[v]) /\ (a - 1) + 1 = a
    BY <2>1, <1>7
  <2>. QED BY <2>2, <1>7
<1>9. \A w \in Vectors : \A a \in 1 .. Len(rg[w]) : rg[w][a] # h /\ rg[w][a] \in Handlers
  BY DEF In
<1>10. Apart(rg2)
  <2>. SUFFICES ASSUME NEW x \in Vectors, NEW w \in Vectors,
                       NEW a \in 1 .. Len(rg2[x]), NEW b \in 1 .. Len(rg2[w]),
                       rg2[x][a] = rg2[w][b]
                PROVE  x = w /\ a = b
    BY DEF Apart
  <2>0. \A y, z \in Vectors : \A c \in 1 .. Len(rg[y]), d \in 1 .. Len(rg[z]) :
          rg[y][c] = rg[z][d] => y = z /\ c = d
    BY DEF Clean, Apart
  <2>1. CASE x = v /\ w = v
    <3>1. CASE a = 1
      BY <3>1, <2>1, <1>7, <1>8, <1>9
    <3>2. CASE b = 1
      BY <3>2, <2>1, <1>7, <1>8, <1>9
    <3>3. CASE a # 1 /\ b # 1
      <4>0. /\ a - 1 \in 1 .. Len(rg[v]) /\ rg2[v][a] = rg[v][a - 1]
            /\ b - 1 \in 1 .. Len(rg[v]) /\ rg2[v][b] = rg[v][b - 1]
        BY <3>3, <2>1, <1>8
      <4>1. a - 1 = b - 1
        BY <2>0, <2>1, <4>0
      <4>2. a \in Nat /\ b \in Nat
        BY <2>1, <1>7
      <4>. QED BY <4>1, <4>2, <2>1
    <3>. QED BY <3>1, <3>2, <3>3
  <2>2. CASE x = v /\ w # v
    <3>0. rg2[w] = rg[w] /\ b \in 1 .. Len(rg[w])
      BY <2>2
    <3>1. CASE a = 1
      BY <3>0, <3>1, <2>2, <1>7, <1>9
    <3>2. CASE a # 1
      BY <3>0, <3>2, <2>0, <2>2, <1>8
    <3>. QED BY <3>1, <3>2
  <2>3. CASE x # v /\ w = v
    BY <2>0, <2>3, <1>7, <1>8, <1>9
  <2>4. CASE x # v /\ w # v
    BY <2>0, <2>4
  <2>. QED BY <2>1, <2>2, <2>3, <2>4
<1>11. Chains(nx2, rg2)
  <2>. SUFFICES ASSUME NEW w \in Vectors PROVE Chain(nx2, rg2[w], w)
    BY DEF Chains
  <2>0. Chain(nx, rg[w], w)
    BY DEF Clean, Chains
  <2>1. CASE w # v
    <3>1. \A a \in 1 .. Len(rg[w]) : rg[w][a] # v /\ rg[w][a] # h /\ rg[w][a] \in Nodes
      BY <1>9, Kinds
    <3>. QED BY <2>0, <2>1, <3>1, Kinds DEF Chain
  <2>2. CASE w = v
    <3>1. nx2[v] = At(rg2[v], v, 1)
      BY <1>7, Kinds DEF At
    <3>2. ASSUME NEW m \in 1 .. Len(rg2[v])
          PROVE  nx2[rg2[v][m]] = At(rg2[v], v, m + 1)
      <4>1. m \in Nat /\ Len(rg[v]) \in Nat
        OBVIOUS
      <4>2. CASE m = 1
        <5>1. nx2[h] = nx[v] /\ nx[v] = At(rg[v], v, 1)
          BY <2>0, <2>2, <1>4, Kinds DEF Chain
        <5>2. At(rg[v], v, 1) = At(rg2[v], v, 2)
          <6>1. 1 \in 1 .. Len(rg[v]) <=> 2 \in 1 .. Len(rg2[v])
            BY <1>7, <4>1
          <6>2. 1 \in 1 .. Len(rg[v]) => rg2[v][1 + 1] = rg[v][1]
            BY <1>7
          <6>. QED BY <6>1, <6>2 DEF At
        <5>. QED BY <4>2, <5>1, <5>2, <1>7
      <4>3. CASE m # 1
        <5>. DEFINE k == m - 1
        <5>1. k \in 1 .. Len(rg[v]) /\ rg2[v][m] = rg[v][k]
          BY <4>3, <1>8
        <5>2. nx2[rg[v][k]] = nx[rg[v][k]]
          BY <5>1, <1>9, Kinds
        <5>3. nx[rg[v][k]] = At(rg[v], v, m)
          BY <5>1, <2>0, <2>2, <4>1 DEF Chain
        <5>4. At(rg[v], v, m) = At(rg2[v], v, m + 1)
          <6>1. m \in 1 .. Len(rg[v]) <=> m + 1 \in 1 .. Len(rg2[v])
            BY <1>7, <4>1
          <6>2. m \in 1 .. Len(rg[v]) => rg2[v][m + 1] = rg[v][m]
            BY <1>7
          <6>. QED BY <6>1, <6>2 DEF At
        <5>. QED BY <5>1, <5>2, <5>3, <5>4
      <4>. QED BY <4>2, <4>3
    <3>. QED BY <2>2, <3>1, <3>2 DEF Chain
  <2>. QED BY <2>1, <2>2
<1>12. Loose(nx2, rg2)
  <2>. SUFFICES ASSUME NEW g \in Handlers, \A w \in Vectors : ~ In(rg2[w], g)
                PROVE  nx2[g] = NULL
    BY DEF Loose
  <2>1. g # h
    <3>1. 1 \in 1 .. Len(rg2[v])
      BY <1>7
    <3>. QED BY <3>1, <1>7 DEF In
  <2>2. ASSUME NEW w \in Vectors, In(rg[w], g) PROVE FALSE
    <3>1. PICK a \in 1 .. Len(rg[w]) : rg[w][a] = g
      BY <2>2 DEF In
    <3>2. CASE w = v
      <4>1. a + 1 \in 1 .. Len(rg2[v]) /\ rg2[v][a + 1] = g
        BY <3>1, <3>2, <1>7
      <4>. QED BY <4>1 DEF In
    <3>3. CASE w # v
      BY <3>1, <3>3 DEF In
    <3>. QED BY <3>2, <3>3
  <2>3. nx[g] = NULL
    BY <2>2 DEF Clean, Loose
  <2>. QED BY <2>1, <2>3, Kinds
<1>. QED BY <1>2, <1>5, <1>6, <1>10, <1>11, <1>12, Kinds DEF Clean

(* list_del takes a handler out of its list, wherever it is.               *)
LEMMA CleanRemove ==
  ASSUME NEW nx, NEW pv, NEW rg, Lists(nx, pv, rg), Clean(nx, pv, rg),
         NEW v \in Vectors, NEW h \in Handlers, In(rg[v], h),
         NEW nx2, NEW pv2, NEW rg2, Lists(nx2, pv2, rg2),
         Unlinked(nx, pv, rg, h, nx2, pv2, rg2)
  PROVE  /\ nx[h] \in Nodes /\ nx[h] # h /\ pv[h] \in Nodes /\ pv[h] # h
         /\ Clean(nx2, pv2, rg2)
         /\ \A w \in Vectors : ~ In(rg2[w], h)
<1>. USE DEF Lists, Unlinked
<1>. DEFINE s == rg[v]
            t == rg2[v]
<1>0. s \in Seq(Handlers) /\ t \in Seq(Handlers) /\ Len(s) \in Nat
  OBVIOUS
<1>1. PICK j \in 1 .. Len(s) : s[j] = h /\ t = Drop(s, j)
  BY Removed, <1>0
<1>2. j \in Nat /\ 1 <= j /\ j <= Len(s)
  BY <1>0
<1>3. \A y, z \in Vectors : \A c \in 1 .. Len(rg[y]), d \in 1 .. Len(rg[z]) :
        rg[y][c] = rg[z][d] => y = z /\ c = d
  BY DEF Clean, Apart
<1>4. \A w \in Vectors : w # v => ~ In(rg[w], h) /\ rg2[w] = rg[w]
  <2>. SUFFICES ASSUME NEW w \in Vectors, w # v PROVE ~ In(rg[w], h)
    BY Removed
  <2>. QED BY <1>1, <1>3 DEF In
<1>5. Len(t) = Len(s) - 1 /\ \A a \in 1 .. Len(s) - 1 : t[a] = IF a < j THEN s[a] ELSE s[a + 1]
  <2>1. /\ Len(Drop(s, j)) = Len(s) - 1
        /\ \A a \in 1 .. Len(s) - 1 : Drop(s, j)[a] = IF a < j THEN s[a] ELSE s[a + 1]
    BY <1>0, Dropped
  <2>. QED BY <2>1, <1>1
<1>6. \A w \in Vectors : Chain(nx, rg[w], w)
  BY DEF Clean, Chains
<1>7. \A a \in 1 .. Len(s) : s[a] \in Handlers /\ s[a] \in Nodes /\ (s[a] = h <=> a = j)
  BY <1>0, <1>1, <1>3, Kinds
<1>. DEFINE a0 == At(s, v, j + 1)
            b0 == IF j = 1 THEN v ELSE s[j - 1]
<1>8. nx[h] = a0 /\ a0 \in Nodes /\ a0 # h
  <2>1. nx[h] = At(s, v, j + 1)
    BY <1>1, <1>6 DEF Chain
  <2>2. At(s, v, j + 1) \in Nodes
    BY <1>0, <1>2, AtNode
  <2>3. At(s, v, j + 1) # h
    BY <1>2, <1>7, Kinds DEF At
  <2>. QED BY <2>1, <2>2, <2>3
<1>9. nx[b0] = h /\ b0 \in Nodes /\ b0 # h
  <2>1. CASE j = 1
    <3>1. nx[v] = At(s, v, 1)
      BY <1>6 DEF Chain
    <3>2. At(s, v, 1) = s[1]
      BY <1>2, <2>1 DEF At
    <3>. QED BY <3>1, <3>2, <2>1, <1>1, Kinds
  <2>2. CASE j # 1
    <3>1. j - 1 \in 1 .. Len(s) /\ (j - 1) + 1 = j
      BY <2>2, <1>2
    <3>2. nx[s[j - 1]] = At(s, v, (j - 1) + 1)
      BY <1>6, <3>1 DEF Chain
    <3>3. At(s, v, j) = h
      BY <1>1 DEF At
    <3>. QED BY <3>1, <3>2, <3>3, <2>2, <1>2, <1>7
  <2>. QED BY <2>1, <2>2
<1>10. Agree(nx, pv)
  BY DEF Clean
<1>11. pv[h] = b0
  BY <1>9, <1>10, Kinds DEF Agree
<1>. HIDE DEF a0, b0
<1>12. \A m \in Nodes : nx2[m] = IF m = b0 THEN a0 ELSE IF m = h THEN NULL ELSE nx[m]
  BY <1>8, <1>11
<1>13. \A m \in Nodes : pv2[m] = IF m = a0 THEN b0 ELSE IF m = h THEN NULL ELSE pv[m]
  BY <1>8, <1>11
<1>14. Agree(nx2, pv2)
  <2>. SUFFICES ASSUME NEW m \in Nodes
                PROVE  \/ nx2[m] = NULL /\ pv2[m] = NULL
                       \/ /\ nx2[m] \in Nodes /\ pv2[m] \in Nodes
                          /\ pv2[nx2[m]] = m /\ nx2[pv2[m]] = m
    BY DEF Agree
  <2>0. pv[a0] = h /\ h \in Nodes /\ NULL \notin Nodes
    BY <1>8, <1>10, Kinds DEF Agree
  <2>1. CASE m = h
    BY <2>1, <2>0, <1>8, <1>9, <1>12, <1>13
  <2>2. CASE m = b0
    <3>1. nx2[b0] = a0 /\ pv2[a0] = b0
      BY <1>8, <1>9, <1>12, <1>13
    <3>2. CASE b0 = a0
      BY <2>2, <3>1, <3>2, <1>9
    <3>3. CASE b0 # a0
      <4>1. pv[b0] \in Nodes /\ nx[pv[b0]] = b0
        BY <2>0, <1>9, <1>10 DEF Agree
      <4>2. pv[b0] # b0 /\ pv[b0] # h
        BY <3>3, <4>1, <1>8, <1>9
      <4>3. pv2[b0] = pv[b0] /\ nx2[pv[b0]] = b0
        BY <3>3, <4>1, <4>2, <1>9, <1>12, <1>13
      <4>. QED BY <2>2, <3>1, <4>1, <4>3, <1>8
    <3>. QED BY <3>2, <3>3
  <2>3. CASE m # b0 /\ m # h
    <3>1. CASE nx[m] = NULL
      BY <3>1, <2>0, <2>3, <1>8, <1>9, <1>10, <1>12, <1>13 DEF Agree
    <3>2. CASE nx[m] # NULL
      <4>1. nx2[m] = nx[m] /\ nx[m] \in Nodes /\ pv[nx[m]] = m /\ nx[m] # h /\ nx[m] # a0
        BY <3>2, <2>0, <2>3, <1>9, <1>10, <1>11, <1>12 DEF Agree
      <4>2. pv2[nx[m]] = m
        BY <4>1, <1>13
      <4>3. pv2[m] \in Nodes /\ nx2[pv2[m]] = m
        BY <3>2, <2>0, <2>3, <1>8, <1>9, <1>10, <1>11, <1>12, <1>13 DEF Agree
      <4>. QED BY <4>1, <4>2, <4>3
    <3>. QED BY <3>1, <3>2
  <2>. QED BY <2>1, <2>2, <2>3
<1>15. \A w \in Vectors : ~ In(rg2[w], h)
  <2>1. ~ In(t, h)
    <3>. SUFFICES ASSUME NEW a \in 1 .. Len(t), t[a] = h PROVE FALSE
      BY DEF In
    <3>. QED BY <1>2, <1>5, <1>7
  <2>. QED BY <2>1, <1>4
<1>16. Apart(rg2)
  <2>. SUFFICES ASSUME NEW x \in Vectors, NEW w \in Vectors,
                       NEW a \in 1 .. Len(rg2[x]), NEW b \in 1 .. Len(rg2[w]),
                       rg2[x][a] = rg2[w][b]
                PROVE  x = w /\ a = b
    BY DEF Apart
  <2>0. \A y \in Vectors : \A c \in 1 .. Len(rg2[y]) :
          LET d == IF y = v /\ ~ (c < j) THEN c + 1 ELSE c
          IN  d \in 1 .. Len(rg[y]) /\ rg2[y][c] = rg[y][d]
    <3>. SUFFICES ASSUME NEW y \in Vectors, NEW c \in 1 .. Len(rg2[y])
                  PROVE  LET d == IF y = v /\ ~ (c < j) THEN c + 1 ELSE c
                         IN  d \in 1 .. Len(rg[y]) /\ rg2[y][c] = rg[y][d]
      OBVIOUS
    <3>1. CASE y # v
      BY <3>1, <1>4
    <3>2. CASE y = v
      BY <3>2, <1>0, <1>2, <1>5
    <3>. QED BY <3>1, <3>2
  <2>. DEFINE a1 == IF x = v /\ ~ (a < j) THEN a + 1 ELSE a
              b1 == IF w = v /\ ~ (b < j) THEN b + 1 ELSE b
  <2>1. a1 \in 1 .. Len(rg[x]) /\ rg2[x][a] = rg[x][a1]
    BY <2>0
  <2>2. b1 \in 1 .. Len(rg[w]) /\ rg2[w][b] = rg[w][b1]
    BY <2>0
  <2>. HIDE DEF a1, b1
  <2>3. x = w /\ a1 = b1
    <3>1. rg[x][a1] = rg[w][b1]
      BY <2>1, <2>2
    <3>. QED BY <2>1, <2>2, <3>1, <1>3
  <2>4. a \in Nat /\ b \in Nat
    OBVIOUS
  <2>. QED BY <2>3, <2>4, <1>2 DEF a1, b1
<1>17. Chains(nx2, rg2)
  <2>. SUFFICES ASSUME NEW w \in Vectors PROVE Chain(nx2, rg2[w], w)
    BY DEF Chains
  <2>1. CASE w # v
    <3>1. nx[w] # h /\ w # b0 /\ w # h
      <4>1. nx[w] = At(rg[w], w, 1)
        BY <1>6 DEF Chain
      <4>2. At(rg[w], w, 1) # h
        BY <2>1, <1>4, Kinds DEF At, In
      <4>. QED BY <4>1, <4>2, <1>9, Kinds
    <3>2. ASSUME NEW m \in 1 .. Len(rg[w])
          PROVE  rg[w][m] # b0 /\ rg[w][m] # h /\ rg[w][m] \in Nodes
      <4>1. nx[rg[w][m]] = At(rg[w], w, m + 1)
        BY <1>6 DEF Chain
      <4>2. At(rg[w], w, m + 1) # h /\ rg[w][m] # h
        BY <2>1, <1>4, Kinds DEF At, In
      <4>. QED BY <4>1, <4>2, <1>9, Kinds
    <3>3. rg2[w] = rg[w] /\ Chain(nx, rg[w], w)
      BY <2>1, <1>4, <1>6
    <3>. QED BY <3>1, <3>2, <3>3, <1>12, Kinds DEF Chain
  <2>2. CASE w = v
    <3>0. Len(t) \in Nat /\ Len(t) = Len(s) - 1
      BY <1>0, <1>5
    <3>1. nx2[v] = At(t, v, 1)
      <4>1. CASE j = 1
        <5>1. b0 = v /\ a0 = At(s, v, 2)
          BY <4>1 DEF b0, a0
        <5>2. At(s, v, 2) = At(t, v, 1)
          BY <4>1, <1>0, <1>5, <3>0 DEF At
        <5>. QED BY <5>1, <5>2, <1>12, Kinds
      <4>2. CASE j # 1
        <5>1. b0 \in Handlers
          BY <4>2, <1>2, <1>7 DEF b0
        <5>2. nx[v] = At(s, v, 1)
          BY <1>6 DEF Chain
        <5>3. At(s, v, 1) = At(t, v, 1)
          BY <4>2, <1>2, <1>5, <3>0 DEF At
        <5>. QED BY <5>1, <5>2, <5>3, <1>12, Kinds
      <4>. QED BY <4>1, <4>2
    <3>2. ASSUME NEW m \in 1 .. Len(t)
          PROVE  nx2[t[m]] = At(t, v, m + 1)
      <4>0. m \in Nat /\ 1 <= m /\ m <= Len(s) - 1
        BY <3>0
      <4>1. CASE m < j /\ m # j - 1
        <5>1. t[m] = s[m] /\ m \in 1 .. Len(s) /\ m # j
          <6>1. m \in 1 .. Len(s) - 1
            BY <4>0, <1>0
          <6>2. m \in 1 .. Len(s) /\ m # j
            BY <4>0, <4>1, <1>0, <1>2
          <6>3. t[m] = s[m]
            BY <6>1, <4>1, <1>5
          <6>. QED BY <6>2, <6>3
        <5>2. s[m] # b0
          <6>1. j # 1 /\ j - 1 \in 1 .. Len(s)
            BY <4>0, <4>1, <1>2
          <6>. QED BY <6>1, <5>1, <4>1, <1>3 DEF b0
        <5>3. nx[s[m]] = At(s, v, m + 1)
          BY <5>1, <1>6 DEF Chain
        <5>4. At(s, v, m + 1) = At(t, v, m + 1)
          <6>1. m + 1 \in 1 .. Len(s) - 1 /\ m + 1 < j
            BY <4>0, <4>1, <1>0, <1>2
          <6>2. t[m + 1] = s[m + 1] /\ m + 1 \in 1 .. Len(t) /\ m + 1 \in 1 .. Len(s)
            BY <6>1, <3>0, <1>0, <1>5
          <6>. QED BY <6>2 DEF At
        <5>. QED BY <5>1, <5>2, <5>3, <5>4, <1>7, <1>12
      <4>2. CASE m = j - 1
        <5>1. t[m] = b0
          BY <4>0, <4>2, <1>2, <1>5 DEF b0
        <5>2. a0 = At(t, v, m + 1)
          BY <4>0, <4>2, <1>2, <1>5, <3>0 DEF At, a0
        <5>. QED BY <5>1, <5>2, <1>9, <1>12
      <4>3. CASE ~ (m < j)
        <5>. DEFINE k == m + 1
        <5>1. t[m] = s[k] /\ k \in 1 .. Len(s) /\ k # j /\ k # j - 1
          BY <4>0, <4>3, <1>2, <1>5
        <5>2. s[k] # b0
          <6>1. CASE j = 1
            BY <6>1, <5>1, <1>7, Kinds DEF b0
          <6>2. CASE j # 1
            <7>1. j - 1 \in 1 .. Len(s)
              BY <6>2, <1>2
            <7>. QED BY <7>1, <6>2, <5>1, <1>3 DEF b0
          <6>. QED BY <6>1, <6>2
        <5>3. nx[s[k]] = At(s, v, k + 1)
          BY <5>1, <1>6 DEF Chain
        <5>4. At(s, v, k + 1) = At(t, v, m + 1)
          BY <4>0, <4>3, <1>2, <1>5, <3>0 DEF At
        <5>. QED BY <5>1, <5>2, <5>3, <5>4, <1>7, <1>12
      <4>. QED BY <4>0, <4>1, <4>2, <4>3, <1>2
    <3>. QED BY <2>2, <3>1, <3>2 DEF Chain
  <2>. QED BY <2>1, <2>2
<1>18. Loose(nx2, rg2)
  <2>. SUFFICES ASSUME NEW g \in Handlers, \A w \in Vectors : ~ In(rg2[w], g), g # h
                PROVE  nx2[g] = NULL
    <3>1. nx2[h] = NULL
      BY <1>9, <1>12, Kinds
    <3>. QED BY <3>1 DEF Loose
  <2>1. ASSUME NEW a \in 1 .. Len(s), s[a] = g PROVE FALSE
    <3>1. a # j /\ a \in Nat
      BY <2>1, <1>0, <1>1
    <3>. DEFINE c == IF a < j THEN a ELSE a - 1
    <3>2. c \in 1 .. Len(t) /\ t[c] = s[a]
      BY <3>1, <1>0, <1>2, <1>5
    <3>. QED BY <3>2, <2>1 DEF In
  <2>2. \A w \in Vectors : ~ In(rg[w], g)
    <3>1. ~ In(s, g)
      BY <2>1 DEF In
    <3>2. \A w \in Vectors : w # v => ~ In(rg[w], g)
      BY <1>4
    <3>. QED BY <3>1, <3>2
  <2>3. nx[g] = NULL
    BY <2>2 DEF Clean, Loose
  <2>4. g # b0
    BY <2>3, <1>9, Kinds
  <2>. QED BY <2>3, <2>4, <1>12, Kinds
<1>. QED BY <1>8, <1>9, <1>11, <1>14, <1>15, <1>16, <1>17, <1>18 DEF Clean

-----------------------------------------------------------------------------
(* The walk of an interrupt *)

Step(v, g, m) ==
  IF m = 0 THEN next[v] ELSE IF g[m - 1] \in Handlers THEN next[g[m - 1]] ELSE g[m - 1]

LEMMA HandlersFinite ==
  IsFiniteSet(Handlers) /\ Cardinality(Handlers) \in Nat
<1>1. IsFiniteSet(Vectors \cup Handlers) /\ Handlers \subseteq Vectors \cup Handlers
  BY HandlerListAssumption
<1>2. IsFiniteSet(Handlers)
  BY <1>1, FS_Subset
<1>. QED BY <1>2, FS_CardinalityType

(* The walk can be followed for any number of links.                       *)
LEMMA Walks ==
  ASSUME NEW v \in Vectors
  PROVE  \A n \in Nat : \E g : g = [m \in 0 .. n |-> Step(v, g, m)]
<1>. DEFINE Can(n) == \E g : g = [m \in 0 .. n |-> Step(v, g, m)]
            S == {n \in Nat : ~ Can(n)}
<1>. SUFFICES ASSUME S # {} PROVE FALSE
  OBVIOUS
<1>1. S \subseteq Nat
  OBVIOUS
<1>. HIDE DEF S
<1>2. PICK n \in S : \A y \in S : n <= y
  BY <1>1, LeastNat
<1>3. n \in Nat /\ ~ Can(n)
  BY DEF S
<1>4. CASE n = 0
  <2>. DEFINE g == [m \in 0 .. 0 |-> next[v]]
  <2>1. g = [m \in 0 .. 0 |-> Step(v, g, m)]
    BY DEF Step
  <2>. QED BY <2>1, <1>3, <1>4
<1>5. CASE n # 0
  <2>1. n - 1 \in Nat /\ n - 1 < n
    BY <1>3, <1>5
  <2>2. Can(n - 1)
    <3>1. n - 1 \notin S
      BY <2>1, <1>2, <1>3
    <3>. QED BY <3>1, <2>1 DEF S
  <2>3. PICK g : g = [m \in 0 .. n - 1 |-> Step(v, g, m)]
    BY <2>2
  <2>. DEFINE f == [m \in 0 .. n |-> IF m = n THEN Step(v, g, n) ELSE g[m]]
  <2>4. ASSUME NEW m \in 0 .. n PROVE f[m] = Step(v, f, m)
    <3>0. n \in Nat /\ m \in Nat /\ m <= n
      BY <1>3
    <3>1. m # 0 => m - 1 \in 0 .. n /\ m - 1 # n
      BY <3>0
    <3>2. m # 0 => f[m - 1] = g[m - 1]
      BY <3>1
    <3>3. Step(v, f, m) = Step(v, g, m)
      BY <3>2 DEF Step
    <3>4. CASE m = n
      BY <3>3, <3>4
    <3>5. CASE m # n
      <4>1. m \in 0 .. n - 1
        BY <3>0, <3>5
      <4>2. g[m] = Step(v, g, m)
        BY <2>3, <4>1
      <4>. QED BY <3>3, <3>5, <4>2
    <3>. QED BY <3>4, <3>5
  <2>5. f = [m \in 0 .. n |-> Step(v, f, m)]
    BY <2>4
  <2>. HIDE DEF f
  <2>. QED BY <2>5, <1>3
<1>. QED BY <1>4, <1>5

LEMMA VisitSteps ==
  ASSUME NEW v \in Vectors
  PROVE  /\ DOMAIN Visit(v) = 0 .. Cardinality(Handlers) + 1
         /\ \A m \in 0 .. Cardinality(Handlers) + 1 : Visit(v)[m] = Step(v, Visit(v), m)
<1>. DEFINE N == Cardinality(Handlers) + 1
            P(g) == g = [m \in 0 .. N |-> Step(v, g, m)]
<1>1. N \in Nat
  BY HandlersFinite
<1>2. \E g : P(g)
  BY <1>1, Walks
<1>3. Visit(v) = CHOOSE g : P(g)
  BY DEF Visit, Step
<1>. HIDE DEF P
<1>4. P(Visit(v))
  BY <1>2, <1>3
<1>. QED BY <1>4 DEF P

(* The walk calls the handlers up to the first node that is none.          *)
LEMMA WalkUpTo ==
  ASSUME NEW v \in Vectors, NEW k \in 0 .. Cardinality(Handlers) + 1,
         Visit(v)[k] \notin Handlers,
         \A m \in 0 .. k - 1 : Visit(v)[m] \in Handlers
  PROVE  Walk(v) = [m \in 1 .. k |-> Visit(v)[m - 1]]
<1>. DEFINE N  == Cardinality(Handlers) + 1
            at == Visit(v)
            S  == {m \in 0 .. N : m >= k /\ at[m] \in Handlers}
<1>1. N \in Nat /\ k \in Nat /\ k <= N
  BY HandlersFinite
<1>2. DOMAIN at = 0 .. N /\ \A m \in 0 .. N : at[m] = Step(v, at, m)
  BY VisitSteps
<1>. HIDE DEF N, at
<1>3. S = {}
  <2>. SUFFICES ASSUME S # {} PROVE FALSE
    OBVIOUS
  <2>1. S \subseteq Nat
    BY <1>1
  <2>2. PICK n \in S : \A y \in S : n <= y
    BY <2>1, LeastNat
  <2>3. n \in Nat /\ n > k /\ n <= N /\ at[n] \in Handlers
    <3>1. n # k
      BY DEF at
    <3>. QED BY <3>1, <1>1
  <2>4. n - 1 \in 0 .. N /\ n - 1 >= k /\ n - 1 < n /\ n # 0
    BY <2>3, <1>1
  <2>5. n - 1 \notin S
    BY <2>2, <2>3, <2>4
  <2>6. at[n - 1] \notin Handlers
    BY <2>4, <2>5
  <2>7. at[n] = at[n - 1]
    BY <2>3, <2>4, <2>6, <1>2 DEF Step
  <2>. QED BY <2>3, <2>6, <2>7
<1>4. \A m : m \in {n \in DOMAIN at : at[n] \in Handlers} <=> m \in 0 .. k - 1
  <2>1. ASSUME NEW m \in 0 .. N, at[m] \in Handlers PROVE m \in 0 .. k - 1
    <3>1. ~ (m >= k)
      BY <2>1, <1>3
    <3>. QED BY <3>1, <1>1
  <2>2. ASSUME NEW m \in 0 .. k - 1 PROVE m \in 0 .. N /\ at[m] \in Handlers
    BY <1>1 DEF at
  <2>. QED BY <2>1, <2>2, <1>2
<1>5. {n \in DOMAIN at : at[n] \in Handlers} = 0 .. k - 1
  BY <1>4
<1>6. Cardinality(0 .. k - 1) = k
  <2>1. CASE k = 0
    <3>1. 0 .. k - 1 = {}
      BY <2>1
    <3>. QED BY <2>1, <3>1, FS_EmptySet
  <2>2. CASE k # 0
    <3>1. 0 \in Int /\ k - 1 \in Int /\ ~ (0 > k - 1)
      BY <2>2, <1>1
    <3>2. Cardinality(0 .. k - 1) = IF 0 > k - 1 THEN 0 ELSE (k - 1) - 0 + 1
      BY <3>1, FS_Interval
    <3>. QED BY <3>1, <3>2, <1>1
  <2>. QED BY <2>1, <2>2
<1>7. Cardinality({n \in DOMAIN at : at[n] \in Handlers}) = k
  BY <1>5, <1>6
<1>8. Walk(v) = [m \in 1 .. Cardinality({n \in DOMAIN at : at[n] \in Handlers}) |-> at[m - 1]]
  BY DEF Walk, at
<1>9. Walk(v) = [m \in 1 .. k |-> at[m - 1]]
  BY <1>7, <1>8
<1>. QED BY <1>9 DEF at

(* A walk that ends calls handlers only.                                   *)
LEMMA WalkType ==
  ASSUME NEW v \in Vectors, Ends(v)
  PROVE  Walk(v) \in Seq(Handlers)
<1>. DEFINE N == Cardinality(Handlers) + 1
            S == {m \in 0 .. N : Visit(v)[m] \notin Handlers}
<1>1. N \in Nat
  BY HandlersFinite
<1>. HIDE DEF N
<1>2. N \in S
  BY <1>1, Kinds DEF Ends, N
<1>3. S \subseteq Nat
  BY <1>1
<1>4. PICK k \in S : \A y \in S : k <= y
  BY <1>2, <1>3, LeastNat
<1>5. k \in 0 .. N /\ Visit(v)[k] \notin Handlers
  OBVIOUS
<1>6. \A m \in 0 .. k - 1 : Visit(v)[m] \in Handlers
  <2>. SUFFICES ASSUME NEW m \in 0 .. k - 1, Visit(v)[m] \notin Handlers PROVE FALSE
    OBVIOUS
  <2>1. m \in 0 .. N /\ ~ (k <= m)
    BY <1>1, <1>5
  <2>. QED BY <2>1, <1>4
<1>7. Walk(v) = [m \in 1 .. k |-> Visit(v)[m - 1]]
  BY <1>5, <1>6, WalkUpTo DEF N
<1>8. \A m \in 1 .. k : Visit(v)[m - 1] \in Handlers
  <2>. TAKE m \in 1 .. k
  <2>1. m - 1 \in 0 .. k - 1
    BY <1>1, <1>5
  <2>. QED BY <2>1, <1>6
<1>9. k \in Nat
  BY <1>1, <1>5
<1>. QED BY <1>7, <1>8, <1>9

(* The walk of a list calls its handlers, and ends.                        *)
LEMMA WalkList ==
  ASSUME NEW v \in Vectors, NEW s \in Seq(Handlers), Chain(next, s, v),
         \A a, b \in 1 .. Len(s) : s[a] = s[b] => a = b
  PROVE  Ends(v) /\ Walk(v) = s
<1>. DEFINE N  == Cardinality(Handlers) + 1
            at == Visit(v)
            S  == {m \in 0 .. N : at[m] # At(s, v, m + 1)}
<1>1. N \in Nat /\ Len(s) \in Nat
  BY HandlersFinite
<1>2. \A m \in 0 .. N : at[m] = Step(v, at, m)
  BY VisitSteps
<1>3. Len(s) <= Cardinality(Handlers)
  <2>1. \A a \in 1 .. Len(s) : s[a] \in Handlers
    OBVIOUS
  <2>. DEFINE f == [a \in 1 .. Len(s) |-> s[a]]
  <2>2. f \in Injection(1 .. Len(s), Handlers)
    BY <2>1 DEF Injection, IsInjective
  <2>. HIDE DEF f
  <2>3. IsFiniteSet(Handlers)
    BY HandlersFinite
  <2>4. Cardinality(1 .. Len(s)) <= Cardinality(Handlers)
    BY <2>2, <2>3, FS_Injection
  <2>5. Cardinality(1 .. Len(s)) = Len(s)
    <3>1. CASE Len(s) = 0
      <4>1. 1 .. Len(s) = {}
        BY <3>1
      <4>. QED BY <3>1, <4>1, FS_EmptySet
    <3>2. CASE Len(s) # 0
      <4>1. 1 \in Int /\ Len(s) \in Int /\ ~ (1 > Len(s))
        BY <3>2, <1>1
      <4>2. Cardinality(1 .. Len(s)) = IF 1 > Len(s) THEN 0 ELSE Len(s) - 1 + 1
        BY <4>1, FS_Interval
      <4>. QED BY <4>1, <4>2
    <3>. QED BY <3>1, <3>2
  <2>. QED BY <2>4, <2>5
<1>. HIDE DEF at
<1>4. S = {}
  <2>. SUFFICES ASSUME S # {} PROVE FALSE
    OBVIOUS
  <2>1. S \subseteq Nat
    BY <1>1
  <2>2. PICK n \in S : \A y \in S : n <= y
    BY <2>1, LeastNat
  <2>3. n \in 0 .. N /\ at[n] # At(s, v, n + 1)
    OBVIOUS
  <2>4. CASE n = 0
    <3>1. at[0] = next[v]
      BY <1>1, <1>2, <2>3, <2>4 DEF Step
    <3>. QED BY <2>3, <2>4, <3>1 DEF Chain
  <2>5. CASE n # 0
    <3>1. n - 1 \in 0 .. N /\ n - 1 < n /\ (n - 1) + 1 = n
      BY <1>1, <2>3, <2>5
    <3>2. n - 1 \notin S
      BY <2>2, <3>1
    <3>3. at[n - 1] = At(s, v, n)
      BY <3>1, <3>2
    <3>4. at[n] = IF at[n - 1] \in Handlers THEN next[at[n - 1]] ELSE at[n - 1]
      BY <1>2, <2>3, <2>5 DEF Step
    <3>5. CASE n \in 1 .. Len(s)
      BY <2>3, <3>3, <3>4, <3>5 DEF At, Chain
    <3>6. CASE n \notin 1 .. Len(s)
      <4>1. n + 1 \notin 1 .. Len(s)
        BY <3>6, <1>1, <2>3, <2>5
      <4>. QED BY <2>3, <3>3, <3>4, <3>6, <4>1, Kinds DEF At
    <3>. QED BY <3>5, <3>6
  <2>. QED BY <2>4, <2>5
<1>5. \A m \in 0 .. N : at[m] = At(s, v, m + 1)
  BY <1>4
<1>6. Ends(v)
  <2>1. N \in 0 .. N /\ N + 1 \notin 1 .. Len(s)
    BY <1>1, <1>3, HandlersFinite
  <2>. QED BY <2>1, <1>5 DEF Ends, At, at
<1>7. Len(s) \in 0 .. N /\ Len(s) + 1 \notin 1 .. Len(s)
  BY <1>1, <1>3, HandlersFinite
<1>8. at[Len(s)] \notin Handlers
  BY <1>5, <1>7, Kinds DEF At
<1>9. \A m \in 1 .. Len(s) : m - 1 \in 0 .. N /\ at[m - 1] = s[m]
  <2>. TAKE m \in 1 .. Len(s)
  <2>1. m - 1 \in 0 .. N /\ (m - 1) + 1 = m
    BY <1>1, <1>7
  <2>. QED BY <2>1, <1>5 DEF At
<1>10. \A m \in 0 .. Len(s) - 1 : at[m] \in Handlers
  <2>. TAKE m \in 0 .. Len(s) - 1
  <2>1. m + 1 \in 1 .. Len(s) /\ m \in 0 .. N
    BY <1>1, <1>7
  <2>. QED BY <2>1, <1>5 DEF At
<1>11. Walk(v) = [m \in 1 .. Len(s) |-> at[m - 1]]
  BY <1>7, <1>8, <1>10, WalkUpTo DEF at
<1>12. Walk(v) = [m \in 1 .. Len(s) |-> s[m]]
  BY <1>9, <1>11
<1>13. [m \in 1 .. Len(s) |-> s[m]] = s
  OBVIOUS
<1>. QED BY <1>6, <1>12, <1>13

-----------------------------------------------------------------------------
(* The invariant *)

(* Without a store left the lists are as they will be.                     *)
LEMMA Idle ==
  ASSUME TypeOK, todo = <<>>
  PROVE  VNext = next /\ VPrev = prev /\ VReg = registered
<1>1. \A x : ~ Pend(x)
  BY DEF Pend
<1>. QED BY <1>1 DEF VNext, VPrev, VReg, TypeOK

LEMMA VTypes ==
  ASSUME TypeOK, Busy
  PROVE  /\ VNext \in [Nodes -> Nodes \cup {NULL}]
         /\ VPrev \in [Nodes -> Nodes \cup {NULL}]
         /\ VReg \in [Vectors -> Seq(Handlers)]
<1>1. CASE todo = <<>>
  BY <1>1, Idle DEF TypeOK
<1>2. CASE todo # <<>>
  <2>1. handler \in Handlers /\ before \in Nodes /\ after \in Nodes /\ handler \in Nodes
    BY <1>2, Kinds DEF Busy
  <2>2. next \in [Nodes -> Nodes \cup {NULL}] /\ prev \in [Nodes -> Nodes \cup {NULL}]
    BY DEF TypeOK
  <2>3. VNext \in [Nodes -> Nodes \cup {NULL}]
    BY <2>1, <2>2 DEF VNext
  <2>4. VPrev \in [Nodes -> Nodes \cup {NULL}]
    BY <2>1, <2>2 DEF VPrev
  <2>5. VReg \in [Vectors -> Seq(Handlers)]
    <3>. SUFFICES ASSUME NEW v \in Vectors
                  PROVE  /\ <<handler>> \o registered[v] \in Seq(Handlers)
                         /\ Without(registered[v], handler) \in Seq(Handlers)
                         /\ registered[v] \in Seq(Handlers)
      BY DEF VReg
    <3>1. registered[v] \in Seq(Handlers)
      BY DEF TypeOK
    <3>. QED BY <3>1, <2>1, Headed, Removed
  <2>. QED BY <2>3, <2>4, <2>5
<1>. QED BY <1>1, <1>2

LEMMA InitInv ==
  ASSUME Init
  PROVE  IInv
<1>. USE DEF Init
<1>1. TypeOK
  BY Kinds DEF TypeOK
<1>2. TodoOK /\ Busy
  BY DEF TodoOK, Busy, Some
<1>3. VNext = next /\ VPrev = prev /\ VReg = registered
  BY <1>1, Idle
<1>4. Apart(registered) /\ Agree(next, prev)
  BY Kinds DEF Apart, Agree
<1>5. Chains(next, registered)
  BY Kinds DEF Chains, Chain, At
<1>6. Loose(next, registered)
  BY Kinds DEF Loose
<1>. QED BY <1>1, <1>2, <1>3, <1>4, <1>5, <1>6 DEF IInv, Clean

(* The stores are eight different ones.                                    *)
LEMMA StoreNames ==
  /\ AddStores[1] = "next->prev = new" /\ AddStores[2] = "new->next = next"
  /\ AddStores[3] = "new->prev = prev" /\ AddStores[4] = "prev->next = new"
  /\ DelStores[1] = "prev->next = next" /\ DelStores[2] = "next->prev = prev"
  /\ DelStores[3] = "entry->next = NULL" /\ DelStores[4] = "entry->prev = NULL"
<1>. QED BY DEF AddStores, DelStores

LEMMA FourStores == \A i \in 1 .. 4 : i = 1 \/ i = 2 \/ i = 3 \/ i = 4
<1>. QED OBVIOUS

LEMMA StoreSets ==
  /\ \A x : (\E i \in 1 .. 4 : AddStores[i] = x) <=>
            \/ x = "next->prev = new" \/ x = "new->next = next"
            \/ x = "new->prev = prev" \/ x = "prev->next = new"
  /\ \A x : (\E i \in 1 .. 4 : DelStores[i] = x) <=>
            \/ x = "prev->next = next" \/ x = "next->prev = prev"
            \/ x = "entry->next = NULL" \/ x = "entry->prev = NULL"
<1>1. 1 \in 1 .. 4 /\ 2 \in 1 .. 4 /\ 3 \in 1 .. 4 /\ 4 \in 1 .. 4
  OBVIOUS
<1>. QED BY <1>1, StoreNames, FourStores

LEMMA Stores ==
  /\ \A i, j \in 1 .. 4 :
       /\ AddStores[i] # DelStores[j]
       /\ AddStores[i] = AddStores[j] => i = j
       /\ DelStores[i] = DelStores[j] => i = j
  /\ Len(AddStores) = 4 /\ Len(DelStores) = 4
  /\ AddStores \in Seq(Writes) /\ DelStores \in Seq(Writes)
<1>2. Len(AddStores) = 4 /\ Len(DelStores) = 4
  BY DEF AddStores, DelStores
<1>3. AddStores \in Seq(Writes)
  <2>1. AddStores \in [1 .. 4 -> Writes]
    BY DEF AddStores, Writes
  <2>. QED BY <2>1, SeqDef
<1>4. DelStores \in Seq(Writes)
  <2>1. DelStores \in [1 .. 4 -> Writes]
    BY DEF DelStores, Writes
  <2>. QED BY <2>1, SeqDef
<1>7. \A i, j \in 1 .. 4 : AddStores[i] # DelStores[j]
  BY StoreNames, FourStores
<1>8. \A i, j \in 1 .. 4 : AddStores[i] = AddStores[j] => i = j
  BY StoreNames, FourStores
<1>9. \A i, j \in 1 .. 4 : DelStores[i] = DelStores[j] => i = j
  BY StoreNames, FourStores
<1>. QED BY <1>2, <1>3, <1>4, <1>7, <1>8, <1>9

LEMMA RegisterInv ==
  ASSUME IInv, NEW v \in Vectors, NEW h \in Handlers, Register(v, h)
  PROVE  IInv'
<1>0. /\ todo = <<>> /\ todo' = AddStores /\ handler' = h /\ before' = v
      /\ after' = next[v] /\ next' = next /\ prev' = prev /\ ordered' = ordered
      /\ called' = called /\ registered' = registered
      /\ \A w \in Vectors : ~ In(registered[w], h)
  BY DEF Register, On
<1>1. TypeOK /\ Apart(registered) /\ (ordered => Chains(next, registered))
  BY DEF IInv
<1>2. Clean(next, prev, registered)
  BY <1>0, <1>1, Idle DEF IInv
<1>3. TodoOK'
  <2>1. Some(AddStores)'
    BY <1>0, Stores DEF Some
  <2>. QED BY <2>1, <1>0, Stores DEF TodoOK
<1>4. ~ Some(DelStores)'
  <2>1. 1 \in 1 .. Len(todo') /\ todo'[1] = AddStores[1]
    BY <1>0, Stores
  <2>. QED BY <2>1, Stores DEF Some
<1>5. \A x : Pend(x)' <=> \E i \in 1 .. 4 : AddStores[i] = x
  BY <1>0, Stores DEF Pend
<1>6. /\ Pend("prev->next = new")' /\ Pend("new->next = next")'
      /\ Pend("next->prev = new")' /\ Pend("new->prev = prev")'
      /\ ~ Pend("prev->next = next")' /\ ~ Pend("entry->next = NULL")'
      /\ ~ Pend("next->prev = prev")' /\ ~ Pend("entry->prev = NULL")'
  BY <1>5, StoreSets
<1>7. next[v] \in Nodes /\ next[v] # h /\ Clean(VNext', VPrev', VReg')
  <2>0. /\ next \in [Nodes -> Nodes \cup {NULL}] /\ prev \in [Nodes -> Nodes \cup {NULL}]
        /\ registered \in [Vectors -> Seq(Handlers)]
    BY <1>1 DEF TypeOK
  <2>1. \A m \in Nodes : VNext'[m] = IF m = v THEN h ELSE IF m = h THEN next[v] ELSE next[m]
    BY <1>0, <1>6 DEF VNext
  <2>2. \A m \in Nodes : VPrev'[m] = IF m = next[v] THEN h ELSE IF m = h THEN v ELSE prev[m]
    BY <1>0, <1>6 DEF VPrev
  <2>3. \A w \in Vectors :
          VReg'[w] = IF w = v THEN <<h>> \o registered[w] ELSE registered[w]
    BY <1>0, <1>6 DEF VReg
  <2>4. VNext' \in [Nodes -> Nodes \cup {NULL}]
    <3>1. \A m \in Nodes : VNext'[m] \in Nodes \cup {NULL}
      BY <2>0, <2>1, Kinds
    <3>. QED BY <3>1 DEF VNext
  <2>5. VPrev' \in [Nodes -> Nodes \cup {NULL}]
    <3>1. \A m \in Nodes : VPrev'[m] \in Nodes \cup {NULL}
      BY <2>0, <2>2, Kinds
    <3>. QED BY <3>1 DEF VPrev
  <2>6. VReg' \in [Vectors -> Seq(Handlers)]
    <3>1. \A w \in Vectors : VReg'[w] \in Seq(Handlers)
      <4>. TAKE w \in Vectors
      <4>1. registered[w] \in Seq(Handlers)
        BY <2>0
      <4>2. <<h>> \o registered[w] \in Seq(Handlers)
        BY <4>1, Headed
      <4>. QED BY <4>1, <4>2, <2>3
    <3>. QED BY <3>1 DEF VReg
  <2>7. Lists(next, prev, registered)
    BY <2>0 DEF Lists
  <2>8. Lists(VNext', VPrev', VReg')
    BY <2>4, <2>5, <2>6 DEF Lists
  <2>9. Inserted(next, prev, registered, v, h, VNext', VPrev', VReg')
    BY <2>1, <2>2, <2>3 DEF Inserted
  <2>. QED BY <2>7, <2>8, <2>9, <1>0, <1>2, CleanInsert
<1>8. Busy'
  BY <1>0, <1>4, <1>7, Kinds DEF Busy
<1>9. TypeOK'
  BY <1>0, <1>1, <1>7, Stores, Kinds DEF TypeOK
<1>. QED BY <1>0, <1>1, <1>3, <1>7, <1>8, <1>9 DEF IInv

LEMMA UnregisterInv ==
  ASSUME IInv, NEW v \in Vectors, NEW h \in Handlers, Unregister(v, h)
  PROVE  IInv'
<1>0. /\ todo = <<>> /\ todo' = DelStores /\ handler' = h /\ before' = prev[h]
      /\ after' = next[h] /\ next' = next /\ prev' = prev /\ ordered' = ordered
      /\ called' = called /\ registered' = registered
      /\ In(registered[v], h)
  BY DEF Unregister, On
<1>1. TypeOK /\ Apart(registered) /\ (ordered => Chains(next, registered))
  BY DEF IInv
<1>2. Clean(next, prev, registered)
  BY <1>0, <1>1, Idle DEF IInv
<1>3. TodoOK'
  <2>1. Some(DelStores)'
    BY <1>0, Stores DEF Some
  <2>. QED BY <2>1, <1>0, Stores DEF TodoOK
<1>5. \A x : Pend(x)' <=> \E i \in 1 .. 4 : DelStores[i] = x
  BY <1>0, Stores DEF Pend
<1>6. /\ ~ Pend("prev->next = new")' /\ ~ Pend("new->next = next")'
      /\ ~ Pend("next->prev = new")' /\ ~ Pend("new->prev = prev")'
      /\ Pend("prev->next = next")' /\ Pend("entry->next = NULL")'
      /\ Pend("next->prev = prev")' /\ Pend("entry->prev = NULL")'
  BY <1>5, StoreSets
<1>7. /\ next[h] \in Nodes /\ next[h] # h /\ prev[h] \in Nodes /\ prev[h] # h
      /\ Clean(VNext', VPrev', VReg')
      /\ \A w \in Vectors : ~ In(VReg'[w], h)
  <2>0. /\ next \in [Nodes -> Nodes \cup {NULL}] /\ prev \in [Nodes -> Nodes \cup {NULL}]
        /\ registered \in [Vectors -> Seq(Handlers)] /\ h \in Nodes
    BY <1>1, Kinds DEF TypeOK
  <2>1. \A m \in Nodes :
          VNext'[m] = IF m = prev[h] THEN next[h] ELSE IF m = h THEN NULL ELSE next[m]
    BY <1>0, <1>6 DEF VNext
  <2>2. \A m \in Nodes :
          VPrev'[m] = IF m = next[h] THEN prev[h] ELSE IF m = h THEN NULL ELSE prev[m]
    BY <1>0, <1>6 DEF VPrev
  <2>3. \A w \in Vectors : VReg'[w] = Without(registered[w], h)
    BY <1>0, <1>6 DEF VReg
  <2>4. VNext' \in [Nodes -> Nodes \cup {NULL}]
    <3>1. \A m \in Nodes : VNext'[m] \in Nodes \cup {NULL}
      BY <2>0, <2>1, Kinds
    <3>. QED BY <3>1 DEF VNext
  <2>5. VPrev' \in [Nodes -> Nodes \cup {NULL}]
    <3>1. \A m \in Nodes : VPrev'[m] \in Nodes \cup {NULL}
      BY <2>0, <2>2, Kinds
    <3>. QED BY <3>1 DEF VPrev
  <2>6. VReg' \in [Vectors -> Seq(Handlers)]
    <3>1. \A w \in Vectors : VReg'[w] \in Seq(Handlers)
      BY <2>0, <2>3, Removed
    <3>. QED BY <3>1 DEF VReg
  <2>7. Lists(next, prev, registered)
    BY <2>0 DEF Lists
  <2>8. Lists(VNext', VPrev', VReg')
    BY <2>4, <2>5, <2>6 DEF Lists
  <2>9. Unlinked(next, prev, registered, h, VNext', VPrev', VReg')
    BY <2>1, <2>2, <2>3 DEF Unlinked
  <2>. QED BY <2>7, <2>8, <2>9, <1>0, <1>2, CleanRemove
<1>8. Busy'
  BY <1>0, <1>6, <1>7, Kinds DEF Busy
<1>9. TypeOK'
  BY <1>0, <1>1, <1>7, Stores, Kinds DEF TypeOK
<1>. QED BY <1>0, <1>1, <1>3, <1>7, <1>8, <1>9 DEF IInv

(* One store fewer is left.                                                *)
LEMMA TodoStep ==
  ASSUME TodoOK, NEW m \in 1 .. Len(todo), ordered => m = 1,
         todo' = Drop(todo, m), ordered' = ordered
  PROVE  /\ todo' \in Seq(Writes) /\ Len(todo') = Len(todo) - 1
         /\ \A x : Pend(x)' <=> Pend(x) /\ x # todo[m]
         /\ Some(AddStores) => Some(AddStores)'
         /\ Some(DelStores) => Some(DelStores)'
         /\ TodoOK'
<1>. DEFINE n == Len(todo)
            F(a) == IF a < m THEN a ELSE a + 1
<1>1. todo \in Seq(Writes) /\ n \in Nat /\ m \in 1 .. n
  BY DEF TodoOK
<1>2. todo' \in Seq(Writes) /\ Len(todo') = n - 1
      /\ \A a \in 1 .. n - 1 : todo'[a] = IF a < m THEN todo[a] ELSE todo[a + 1]
  BY <1>1, Dropped
<1>3. \A a \in 1 .. n - 1 : F(a) \in 1 .. n /\ F(a) # m /\ todo'[a] = todo[F(a)]
  BY <1>1, <1>2
<1>4. \A a, b \in 1 .. n - 1 : F(a) = F(b) => a = b
  BY <1>1
<1>5. \A b \in 1 .. n : b # m => \E a \in 1 .. n - 1 : F(a) = b
  <2>. SUFFICES ASSUME NEW b \in 1 .. n, b # m PROVE \E a \in 1 .. n - 1 : F(a) = b
    OBVIOUS
  <2>1. CASE b < m
    <3>1. b \in 1 .. n - 1 /\ F(b) = b
      BY <2>1, <1>1
    <3>. QED BY <3>1
  <2>2. CASE ~ (b < m)
    <3>1. b - 1 \in 1 .. n - 1 /\ F(b - 1) = b
      BY <2>2, <1>1
    <3>. QED BY <3>1
  <2>. QED BY <2>1, <2>2
<1>6. \A a, b \in 1 .. n : todo[a] = todo[b] => a = b
  BY DEF TodoOK
<1>7. ordered => \A a \in 1 .. n - 1 : F(a) = a + 1
  BY <1>1
<1>. HIDE DEF F, n
<1>8. \A x : Pend(x) <=> \E a \in 1 .. n : todo[a] = x
  BY DEF Pend, n
<1>9. \A x : Pend(x)' <=> \E a \in 1 .. n - 1 : todo'[a] = x
  BY <1>2 DEF Pend
<1>10. ASSUME NEW x PROVE Pend(x)' <=> Pend(x) /\ x # todo[m]
  <2>1. ASSUME Pend(x)' PROVE Pend(x) /\ x # todo[m]
    BY <2>1, <1>1, <1>3, <1>6, <1>8, <1>9
  <2>2. ASSUME Pend(x), x # todo[m] PROVE Pend(x)'
    <3>1. PICK b \in 1 .. n : todo[b] = x
      BY <2>2, <1>8
    <3>2. PICK a \in 1 .. n - 1 : F(a) = b
      BY <2>2, <3>1, <1>5
    <3>. QED BY <3>1, <3>2, <1>3, <1>9
  <2>. QED BY <2>1, <2>2
<1>11. ASSUME NEW K, \A a \in 1 .. n : \E i \in 1 .. 4 : todo[a] = K[i]
       PROVE  \A a \in 1 .. n - 1 : \E i \in 1 .. 4 : todo'[a] = K[i]
  BY <1>3, <1>11
<1>12. ASSUME NEW K, ordered, \A a \in 1 .. n : todo[a] = K[4 - n + a]
       PROVE  \A a \in 1 .. n - 1 : todo'[a] = K[4 - (n - 1) + a]
  <2>. TAKE a \in 1 .. n - 1
  <2>1. F(a) \in 1 .. n /\ todo'[a] = todo[F(a)] /\ F(a) = a + 1
    BY <1>3, <1>7, <1>12
  <2>2. todo[F(a)] = K[4 - n + (a + 1)]
    BY <2>1, <1>12
  <2>3. 4 - n + (a + 1) = 4 - (n - 1) + a
    BY <1>1
  <2>. QED BY <2>1, <2>2, <2>3
<1>13. ASSUME NEW K
       PROVE  /\ Some(K) <=> /\ \A a \in 1 .. n : \E i \in 1 .. 4 : todo[a] = K[i]
                             /\ ordered => \A a \in 1 .. n : todo[a] = K[4 - n + a]
              /\ Some(K)' <=> /\ \A a \in 1 .. n - 1 : \E i \in 1 .. 4 : todo'[a] = K[i]
                              /\ ordered => \A a \in 1 .. n - 1 : todo'[a] = K[4 - (n - 1) + a]
  <2>1. Len(todo') = n - 1 /\ ordered' = ordered /\ n = Len(todo)
    BY <1>2 DEF n
  <2>2. Some(K) <=> /\ \A a \in 1 .. n : \E i \in 1 .. 4 : todo[a] = K[i]
                    /\ ordered => \A a \in 1 .. n : todo[a] = K[4 - n + a]
    BY Zenon DEF Some, n
  <2>3. Some(K)' <=> \A a \in 1 .. Len(todo') :
                       /\ \E i \in 1 .. 4 : todo'[a] = K[i]
                       /\ ordered' => todo'[a] = K[4 - Len(todo') + a]
    BY DEF Some
  <2>4. Some(K)' <=> \A a \in 1 .. n - 1 :
                       /\ \E i \in 1 .. 4 : todo'[a] = K[i]
                       /\ ordered => todo'[a] = K[4 - (n - 1) + a]
    BY <2>1, <2>3
  <2>5. Some(K)' <=> /\ \A a \in 1 .. n - 1 : \E i \in 1 .. 4 : todo'[a] = K[i]
                     /\ ordered => \A a \in 1 .. n - 1 : todo'[a] = K[4 - (n - 1) + a]
    BY <2>4, Zenon
  <2>. QED BY <2>2, <2>5
<1>16. Some(AddStores) => Some(AddStores)'
  BY <1>11, <1>12, <1>13, Zenon
<1>17. Some(DelStores) => Some(DelStores)'
  BY <1>11, <1>12, <1>13, Zenon
<1>14. \A a, b \in 1 .. Len(todo') : todo'[a] = todo'[b] => a = b
  <2>. SUFFICES ASSUME NEW a \in 1 .. n - 1, NEW b \in 1 .. n - 1, todo'[a] = todo'[b]
                PROVE  a = b
    BY <1>2 DEF n
  <2>. QED BY <1>3, <1>4, <1>6
<1>15. TodoOK'
  BY <1>2, <1>14, <1>16, <1>17 DEF TodoOK
<1>. QED BY <1>2, <1>10, <1>15, <1>16, <1>17 DEF n

(* What the stores left can be.                                            *)
LEMMA Pending ==
  ASSUME TodoOK, NEW x, Pend(x)
  PROVE  /\ \/ x = "next->prev = new" \/ x = "new->next = next"
            \/ x = "new->prev = prev" \/ x = "prev->next = new"
            \/ x = "prev->next = next" \/ x = "next->prev = prev"
            \/ x = "entry->next = NULL" \/ x = "entry->prev = NULL"
         /\ Some(AddStores) => \E i \in 1 .. 4 : AddStores[i] = x
         /\ Some(DelStores) => \E i \in 1 .. 4 : DelStores[i] = x
         /\ \A y : Pend(y) => \/ \E i, j \in 1 .. 4 : AddStores[i] = x /\ AddStores[j] = y
                             \/ \E i, j \in 1 .. 4 : DelStores[i] = x /\ DelStores[j] = y
<1>1. Some(AddStores) \/ Some(DelStores)
  BY DEF TodoOK
<1>2. ASSUME NEW y, Pend(y), Some(AddStores) PROVE \E i \in 1 .. 4 : AddStores[i] = y
  BY <1>2 DEF Pend, Some
<1>3. ASSUME NEW y, Pend(y), Some(DelStores) PROVE \E i \in 1 .. 4 : DelStores[i] = y
  BY <1>3 DEF Pend, Some
<1>4. \/ \E i \in 1 .. 4 : AddStores[i] = x
      \/ \E i \in 1 .. 4 : DelStores[i] = x
  BY <1>1, <1>2, <1>3
<1>5. \A y : Pend(y) => \/ \E i, j \in 1 .. 4 : AddStores[i] = x /\ AddStores[j] = y
                       \/ \E i, j \in 1 .. 4 : DelStores[i] = x /\ DelStores[j] = y
  BY <1>1, <1>2, <1>3
<1>. QED BY <1>2, <1>3, <1>4, <1>5, StoreSets

(* A registration and a removal are not left to do together.               *)
Mixed ==
  /\ \/ Pend("next->prev = new") \/ Pend("new->next = next")
     \/ Pend("new->prev = prev") \/ Pend("prev->next = new")
  /\ \/ Pend("prev->next = next") \/ Pend("next->prev = prev")
     \/ Pend("entry->next = NULL") \/ Pend("entry->prev = NULL")

LEMMA NotMixed ==
  ASSUME TodoOK
  PROVE  ~ Mixed
<1>1. CASE Some(AddStores)
  <2>1. \A x : Pend(x) => \E i \in 1 .. 4 : AddStores[i] = x
    BY <1>1, Pending
  <2>. QED BY <2>1, StoreSets DEF Mixed
<1>2. CASE Some(DelStores)
  <2>1. \A x : Pend(x) => \E i \in 1 .. 4 : DelStores[i] = x
    BY <1>2, Pending
  <2>. QED BY <2>1, StoreSets DEF Mixed
<1>. QED BY <1>1, <1>2 DEF TodoOK

(* A store brings the lists no further than they will be.                  *)
LEMMA StoreKeeps ==
  ASSUME TypeOK, TodoOK, Busy, todo # <<>>, NEW st, Pend(st),
         Link(st), registered' = Registered(st),
         handler' = handler, before' = before, after' = after,
         \A x : Pend(x)' <=> Pend(x) /\ x # st
  PROVE  /\ VNext' = VNext /\ VPrev' = VPrev /\ VReg' = VReg
         /\ next' \in [Nodes -> Nodes \cup {NULL}] /\ prev' \in [Nodes -> Nodes \cup {NULL}]
         /\ st # "prev->next = new" /\ st # "prev->next = next" => registered' = registered
         /\ Some(AddStores) /\ st # "prev->next = new" =>
              \A m \in Nodes : m # handler => next'[m] = next[m]
<1>1. handler \in Handlers /\ handler \in Nodes /\ before \in Nodes /\ after \in Nodes
      /\ handler # before /\ handler # after /\ NULL \notin Nodes
  BY Kinds DEF Busy
<1>2. next \in [Nodes -> Nodes \cup {NULL}] /\ prev \in [Nodes -> Nodes \cup {NULL}]
      /\ registered \in [Vectors -> Seq(Handlers)]
  BY DEF TypeOK
<1>3. \/ st = "next->prev = new" \/ st = "new->next = next"
      \/ st = "new->prev = prev" \/ st = "prev->next = new"
      \/ st = "prev->next = next" \/ st = "next->prev = prev"
      \/ st = "entry->next = NULL" \/ st = "entry->prev = NULL"
  BY Pending
<1>4. ~ Mixed
  BY NotMixed
<1>5. VReg' = VReg
  <2>. SUFFICES ASSUME NEW v \in Vectors PROVE VReg'[v] = VReg[v]
    BY DEF VReg
  <2>1. registered'[v] = IF st = "prev->next = new" /\ before = v
                         THEN <<handler>> \o registered[v]
                         ELSE IF st = "prev->next = next"
                         THEN Without(registered[v], handler)
                         ELSE registered[v]
    BY DEF Registered
  <2>2. VReg'[v] = IF Pend("prev->next = new")' /\ before = v
                   THEN <<handler>> \o registered'[v]
                   ELSE IF Pend("prev->next = next")'
                   THEN Without(registered'[v], handler)
                   ELSE registered'[v]
    BY DEF VReg
  <2>3. VReg[v] = IF Pend("prev->next = new") /\ before = v
                  THEN <<handler>> \o registered[v]
                  ELSE IF Pend("prev->next = next")
                  THEN Without(registered[v], handler)
                  ELSE registered[v]
    BY DEF VReg
  <2>4. CASE st = "prev->next = new"
    <3>1. ~ Pend("prev->next = new")' /\ ~ Pend("prev->next = next")'
          /\ Pend("prev->next = new") /\ ~ Pend("prev->next = next")
      BY <2>4, <1>4 DEF Mixed
    <3>. QED BY <2>1, <2>2, <2>3, <2>4, <3>1
  <2>5. CASE st = "prev->next = next"
    <3>1. ~ Pend("prev->next = new")' /\ ~ Pend("prev->next = next")'
          /\ ~ Pend("prev->next = new") /\ Pend("prev->next = next")
      BY <2>5, <1>4 DEF Mixed
    <3>. QED BY <2>1, <2>2, <2>3, <2>5, <3>1
  <2>6. CASE st # "prev->next = new" /\ st # "prev->next = next"
    <3>1. (Pend("prev->next = new")' <=> Pend("prev->next = new"))
          /\ (Pend("prev->next = next")' <=> Pend("prev->next = next"))
      BY <2>6
    <3>. QED BY <2>1, <2>2, <2>3, <2>6, <3>1
  <2>. QED BY <2>4, <2>5, <2>6
<1>6. st # "prev->next = new" /\ st # "prev->next = next" => registered' = registered
  BY <1>2 DEF Registered
<1>7. /\ st = "next->prev = new" => prev' = [prev EXCEPT ![after] = handler] /\ next' = next
      /\ st = "new->next = next" => next' = [next EXCEPT ![handler] = after] /\ prev' = prev
      /\ st = "new->prev = prev" => prev' = [prev EXCEPT ![handler] = before] /\ next' = next
      /\ st = "prev->next = new" => next' = [next EXCEPT ![before] = handler] /\ prev' = prev
      /\ st = "prev->next = next" => next' = [next EXCEPT ![before] = after] /\ prev' = prev
      /\ st = "next->prev = prev" => prev' = [prev EXCEPT ![after] = before] /\ next' = next
      /\ st = "entry->next = NULL" => next' = [next EXCEPT ![handler] = NULL] /\ prev' = prev
      /\ st = "entry->prev = NULL" => prev' = [prev EXCEPT ![handler] = NULL] /\ next' = next
  BY DEF Link, SetLink
<1>8. next' \in [Nodes -> Nodes \cup {NULL}] /\ prev' \in [Nodes -> Nodes \cup {NULL}]
  BY <1>1, <1>2, <1>3, <1>7
<1>9. VNext' = VNext
  <2>. SUFFICES ASSUME NEW m \in Nodes PROVE VNext'[m] = VNext[m]
    BY DEF VNext
  <2>1. VNext'[m] = IF Pend("prev->next = new")' /\ m = before THEN handler
                    ELSE IF Pend("new->next = next")' /\ m = handler THEN after
                    ELSE IF Pend("prev->next = next")' /\ m = before THEN after
                    ELSE IF Pend("entry->next = NULL")' /\ m = handler THEN NULL
                    ELSE next'[m]
    BY DEF VNext
  <2>2. VNext[m] = IF Pend("prev->next = new") /\ m = before THEN handler
                   ELSE IF Pend("new->next = next") /\ m = handler THEN after
                   ELSE IF Pend("prev->next = next") /\ m = before THEN after
                   ELSE IF Pend("entry->next = NULL") /\ m = handler THEN NULL
                   ELSE next[m]
    BY DEF VNext
  <2>3. /\ Pend("prev->next = new")' <=> Pend("prev->next = new") /\ "prev->next = new" # st
        /\ Pend("new->next = next")' <=> Pend("new->next = next") /\ "new->next = next" # st
        /\ Pend("prev->next = next")' <=> Pend("prev->next = next") /\ "prev->next = next" # st
        /\ Pend("entry->next = NULL")' <=> Pend("entry->next = NULL") /\ "entry->next = NULL" # st
    OBVIOUS
  <2>4. CASE m # before /\ m # handler
    <3>1. next'[m] = next[m]
      BY <2>4, <1>1, <1>2, <1>3, <1>7
    <3>. QED BY <2>1, <2>2, <2>4, <3>1
  <2>5. CASE m = before
    <3>0. m # handler
      BY <2>5, <1>1
    <3>1. CASE st = "prev->next = new"
      <4>1. Pend(st) /\ ~ Pend("prev->next = next") /\ next'[m] = handler
        BY <2>5, <3>1, <1>1, <1>2, <1>4, <1>7 DEF Mixed
      <4>. QED BY <2>1, <2>2, <2>3, <2>5, <3>0, <3>1, <4>1
    <3>2. CASE st = "prev->next = next"
      <4>1. Pend(st) /\ ~ Pend("prev->next = new") /\ next'[m] = after
        BY <2>5, <3>2, <1>1, <1>2, <1>4, <1>7 DEF Mixed
      <4>. QED BY <2>1, <2>2, <2>3, <2>5, <3>0, <3>2, <4>1
    <3>3. CASE st # "prev->next = new" /\ st # "prev->next = next"
      <4>1. next'[m] = next[m]
        BY <2>5, <3>0, <3>3, <1>1, <1>2, <1>3, <1>7
      <4>. QED BY <2>1, <2>2, <2>3, <2>5, <3>0, <3>3, <4>1
    <3>. QED BY <3>1, <3>2, <3>3
  <2>6. CASE m = handler
    <3>0. m # before
      BY <2>6, <1>1
    <3>1. CASE st = "new->next = next"
      <4>1. Pend(st) /\ ~ Pend("entry->next = NULL") /\ next'[m] = after
        BY <2>6, <3>1, <1>1, <1>2, <1>4, <1>7 DEF Mixed
      <4>. QED BY <2>1, <2>2, <2>3, <2>6, <3>0, <3>1, <4>1
    <3>2. CASE st = "entry->next = NULL"
      <4>1. Pend(st) /\ ~ Pend("new->next = next") /\ next'[m] = NULL
        BY <2>6, <3>2, <1>1, <1>2, <1>4, <1>7 DEF Mixed
      <4>. QED BY <2>1, <2>2, <2>3, <2>6, <3>0, <3>2, <4>1
    <3>3. CASE st # "new->next = next" /\ st # "entry->next = NULL"
      <4>1. next'[m] = next[m]
        BY <2>6, <3>0, <3>3, <1>1, <1>2, <1>3, <1>7
      <4>. QED BY <2>1, <2>2, <2>3, <2>6, <3>0, <3>3, <4>1
    <3>. QED BY <3>1, <3>2, <3>3
  <2>. QED BY <2>4, <2>5, <2>6
<1>10. VPrev' = VPrev
  <2>. SUFFICES ASSUME NEW m \in Nodes PROVE VPrev'[m] = VPrev[m]
    BY DEF VPrev
  <2>1. VPrev'[m] = IF Pend("next->prev = new")' /\ m = after THEN handler
                    ELSE IF Pend("new->prev = prev")' /\ m = handler THEN before
                    ELSE IF Pend("next->prev = prev")' /\ m = after THEN before
                    ELSE IF Pend("entry->prev = NULL")' /\ m = handler THEN NULL
                    ELSE prev'[m]
    BY DEF VPrev
  <2>2. VPrev[m] = IF Pend("next->prev = new") /\ m = after THEN handler
                   ELSE IF Pend("new->prev = prev") /\ m = handler THEN before
                   ELSE IF Pend("next->prev = prev") /\ m = after THEN before
                   ELSE IF Pend("entry->prev = NULL") /\ m = handler THEN NULL
                   ELSE prev[m]
    BY DEF VPrev
  <2>3. /\ Pend("next->prev = new")' <=> Pend("next->prev = new") /\ "next->prev = new" # st
        /\ Pend("new->prev = prev")' <=> Pend("new->prev = prev") /\ "new->prev = prev" # st
        /\ Pend("next->prev = prev")' <=> Pend("next->prev = prev") /\ "next->prev = prev" # st
        /\ Pend("entry->prev = NULL")' <=> Pend("entry->prev = NULL") /\ "entry->prev = NULL" # st
    OBVIOUS
  <2>4. CASE m # after /\ m # handler
    <3>1. prev'[m] = prev[m]
      BY <2>4, <1>1, <1>2, <1>3, <1>7
    <3>. QED BY <2>1, <2>2, <2>4, <3>1
  <2>5. CASE m = after
    <3>0. m # handler
      BY <2>5, <1>1
    <3>1. CASE st = "next->prev = new"
      <4>1. Pend(st) /\ ~ Pend("next->prev = prev") /\ prev'[m] = handler
        BY <2>5, <3>1, <1>1, <1>2, <1>4, <1>7 DEF Mixed
      <4>. QED BY <2>1, <2>2, <2>3, <2>5, <3>0, <3>1, <4>1
    <3>2. CASE st = "next->prev = prev"
      <4>1. Pend(st) /\ ~ Pend("next->prev = new") /\ prev'[m] = before
        BY <2>5, <3>2, <1>1, <1>2, <1>4, <1>7 DEF Mixed
      <4>. QED BY <2>1, <2>2, <2>3, <2>5, <3>0, <3>2, <4>1
    <3>3. CASE st # "next->prev = new" /\ st # "next->prev = prev"
      <4>1. prev'[m] = prev[m]
        BY <2>5, <3>0, <3>3, <1>1, <1>2, <1>3, <1>7
      <4>. QED BY <2>1, <2>2, <2>3, <2>5, <3>0, <3>3, <4>1
    <3>. QED BY <3>1, <3>2, <3>3
  <2>6. CASE m = handler
    <3>0. m # after
      BY <2>6, <1>1
    <3>1. CASE st = "new->prev = prev"
      <4>1. Pend(st) /\ ~ Pend("entry->prev = NULL") /\ prev'[m] = before
        BY <2>6, <3>1, <1>1, <1>2, <1>4, <1>7 DEF Mixed
      <4>. QED BY <2>1, <2>2, <2>3, <2>6, <3>0, <3>1, <4>1
    <3>2. CASE st = "entry->prev = NULL"
      <4>1. Pend(st) /\ ~ Pend("new->prev = prev") /\ prev'[m] = NULL
        BY <2>6, <3>2, <1>1, <1>2, <1>4, <1>7 DEF Mixed
      <4>. QED BY <2>1, <2>2, <2>3, <2>6, <3>0, <3>2, <4>1
    <3>3. CASE st # "new->prev = prev" /\ st # "entry->prev = NULL"
      <4>1. prev'[m] = prev[m]
        BY <2>6, <3>0, <3>3, <1>1, <1>2, <1>3, <1>7
      <4>. QED BY <2>1, <2>2, <2>3, <2>6, <3>0, <3>3, <4>1
    <3>. QED BY <3>1, <3>2, <3>3
  <2>. QED BY <2>4, <2>5, <2>6
<1>11. ASSUME Some(AddStores), st # "prev->next = new"
       PROVE  \A m \in Nodes : m # handler => next'[m] = next[m]
  <2>1. \E i \in 1 .. 4 : AddStores[i] = st
    BY <1>11, Pending
  <2>2. st = "next->prev = new" \/ st = "new->next = next" \/ st = "new->prev = prev"
    BY <2>1, <1>11, StoreSets
  <2>. QED BY <2>2, <1>1, <1>2, <1>7
<1>. QED BY <1>5, <1>6, <1>8, <1>9, <1>10, <1>11

LEMMA StoreInv ==
  ASSUME IInv, Store
  PROVE  IInv'
<1>1. PICK m \in 1 .. Len(todo) : /\ ordered => m = 1
                                  /\ Link(todo[m])
                                  /\ registered' = Registered(todo[m])
                                  /\ todo' = Drop(todo, m)
  BY DEF Store
<1>2. ordered' = ordered /\ handler' = handler /\ before' = before /\ after' = after
      /\ called' = called
  BY DEF Store
<1>3. TypeOK /\ TodoOK /\ Busy /\ Apart(registered) /\ Clean(VNext, VPrev, VReg)
      /\ (ordered => Chains(next, registered))
  BY DEF IInv
<1>4. /\ todo' \in Seq(Writes) /\ Len(todo') = Len(todo) - 1
      /\ \A x : Pend(x)' <=> Pend(x) /\ x # todo[m]
      /\ Some(AddStores) => Some(AddStores)'
      /\ Some(DelStores) => Some(DelStores)'
      /\ TodoOK'
  BY <1>1, <1>2, <1>3, TodoStep
<1>5. todo # <<>> /\ Pend(todo[m])
  BY DEF Pend
<1>. DEFINE st == todo[m]
<1>6. /\ VNext' = VNext /\ VPrev' = VPrev /\ VReg' = VReg
      /\ next' \in [Nodes -> Nodes \cup {NULL}] /\ prev' \in [Nodes -> Nodes \cup {NULL}]
      /\ st # "prev->next = new" /\ st # "prev->next = next" => registered' = registered
      /\ Some(AddStores) /\ st # "prev->next = new" =>
           \A n \in Nodes : n # handler => next'[n] = next[n]
  BY <1>1, <1>2, <1>3, <1>4, <1>5, StoreKeeps
<1>. HIDE DEF st
<1>7. handler \in Handlers /\ before \in Nodes /\ after \in Nodes /\ handler \in Nodes
      /\ handler # before /\ handler # after
  BY <1>3, <1>5, Kinds DEF Busy
<1>8. ~ Mixed
  BY <1>3, NotMixed
<1>9. Clean(VNext, VPrev, VReg)'
  BY <1>3, <1>6
<1>10. VReg \in [Vectors -> Seq(Handlers)]
  BY <1>3, VTypes
<1>11. st = "prev->next = new" \/ st = "prev->next = next" => registered' = VReg
  <2>. SUFFICES ASSUME st = "prev->next = new" \/ st = "prev->next = next"
                PROVE  registered' = VReg
    OBVIOUS
  <2>1. ~ Pend("prev->next = new")' /\ ~ Pend("prev->next = next")'
    BY <1>4, <1>5, <1>8 DEF Mixed, st
  <2>2. VReg' = [v \in Vectors |-> registered'[v]]
    BY <2>1 DEF VReg
  <2>3. registered' = [v \in Vectors |-> registered'[v]]
    BY <1>1 DEF Registered
  <2>. QED BY <2>2, <2>3, <1>6
<1>12. registered' \in [Vectors -> Seq(Handlers)]
  BY <1>3, <1>6, <1>10, <1>11 DEF TypeOK
<1>13. TypeOK'
  <2>1. Len(todo') \in 0 .. 4
    <3>1. Len(todo) \in 0 .. 4 /\ Len(todo') \in Nat
      BY <1>3, <1>4 DEF TypeOK
    <3>. QED BY <3>1, <1>4
  <2>. QED BY <2>1, <1>2, <1>3, <1>6, <1>12 DEF TypeOK
<1>14. Apart(registered)'
  <2>1. CASE st = "prev->next = new" \/ st = "prev->next = next"
    <3>1. Apart(VReg) /\ registered' = VReg
      BY <2>1, <1>3, <1>11 DEF Clean
    <3>. QED BY <3>1
  <2>2. CASE ~ (st = "prev->next = new" \/ st = "prev->next = next")
    BY <2>2, <1>3, <1>6
  <2>. QED BY <2>1, <2>2
<1>15. todo' # <<>> => 1 \in 1 .. Len(todo')
  <2>1. ASSUME Len(todo') = 0 PROVE todo' = <<>>
    BY <2>1, <1>4, EmptySeq
  <2>. QED BY <2>1, <1>4
<1>16. ASSUME Some(DelStores)', todo' # <<>> PROVE Some(DelStores)
  <2>1. PICK i \in 1 .. 4 : todo'[1] = DelStores[i]
    BY <1>15, <1>16 DEF Some
  <2>2. ASSUME Some(AddStores) PROVE FALSE
    <3>1. Some(AddStores)'
      BY <2>2, <1>4
    <3>2. PICK j \in 1 .. 4 : todo'[1] = AddStores[j]
      BY <1>15, <1>16, <3>1 DEF Some
    <3>. QED BY <2>1, <3>2, Stores
  <2>. QED BY <2>2, <1>3 DEF TodoOK
<1>17. Busy'
  <2>. SUFFICES ASSUME todo' # <<>>
                PROVE  /\ Pend("prev->next = new")' => \A w \in Vectors : ~ In(registered'[w], handler)
                       /\ Some(DelStores)' => \A w \in Vectors : ~ In(VReg'[w], handler)
    BY <1>2, <1>7 DEF Busy, In, Nodes
  <2>1. ASSUME Pend("prev->next = new")'
        PROVE  \A w \in Vectors : ~ In(registered'[w], handler)
    <3>1. Pend("prev->next = new") /\ st # "prev->next = new" /\ st # "prev->next = next"
      BY <2>1, <1>4, <1>5, <1>8 DEF Mixed, st
    <3>. QED BY <3>1, <1>3, <1>5, <1>6 DEF Busy
  <2>2. ASSUME Some(DelStores)' PROVE \A w \in Vectors : ~ In(VReg'[w], handler)
    <3>1. Some(DelStores)
      BY <2>2, <1>16
    <3>. QED BY <3>1, <1>3, <1>5, <1>6 DEF Busy
  <2>. QED BY <2>1, <2>2
<1>18. ASSUME ordered PROVE Chains(next', registered')
  <2>0. Chains(next, registered) /\ Chains(VNext', VReg')
    BY <1>3, <1>6, <1>18 DEF Clean
  <2>1. CASE todo' = <<>>
    <3>1. VNext' = next' /\ VReg' = registered'
      <4>1. \A x : ~ Pend(x)'
        BY <2>1 DEF Pend
      <4>. QED BY <4>1, <1>6, <1>12 DEF VNext, VReg
    <3>. QED BY <2>0, <3>1
  <2>2. CASE todo' # <<>> /\ Some(AddStores)
    <3>0. Len(todo) > 1 /\ Len(todo) \in 0 .. 4
      BY <2>2, <1>3, <1>4, <1>15 DEF TypeOK
    <3>1. st = AddStores[4 - Len(todo) + 1]
      <4>1. m = 1
        BY <1>1, <1>18
      <4>. QED BY <4>1, <2>2, <1>18 DEF Some, st
    <3>2. 4 - Len(todo) + 1 \in 1 .. 4 /\ 4 - Len(todo) + 1 # 4
      <4>0. ASSUME NEW n \in 0 .. 4, n > 1 PROVE 4 - n + 1 \in 1 .. 4 /\ 4 - n + 1 # 4
        BY <4>0
      <4>. QED BY <3>0, <4>0
    <3>3. st # AddStores[4]
      BY <3>1, <3>2, Stores
    <3>4. st # "prev->next = new" /\ st # "prev->next = next"
      <4>1. \E i \in 1 .. 4 : AddStores[i] = st
        BY <3>1, <3>2
      <4>. QED BY <3>3, <4>1, StoreNames, StoreSets
    <3>5. Pend("prev->next = new")
      <4>0. ASSUME NEW n \in 0 .. 4, n > 1 PROVE n \in 1 .. n /\ 4 - n + n = 4
        BY <4>0
      <4>1. Len(todo) \in 1 .. Len(todo) /\ 4 - Len(todo) + Len(todo) = 4
        BY <3>0, <4>0
      <4>2. todo[Len(todo)] = AddStores[4 - Len(todo) + Len(todo)]
        BY <4>1, <2>2, <1>18 DEF Some
      <4>. QED BY <4>1, <4>2, StoreNames DEF Pend
    <3>6. \A w \in Vectors : ~ In(registered[w], handler)
      BY <3>5, <1>3, <1>5 DEF Busy
    <3>7. registered' = registered /\ \A n \in Nodes : n # handler => next'[n] = next[n]
      BY <2>2, <3>4, <1>6
    <3>. SUFFICES ASSUME NEW w \in Vectors PROVE Chain(next', registered[w], w)
      BY <3>7 DEF Chains
    <3>8. Chain(next, registered[w], w)
      BY <2>0 DEF Chains
    <3>9. \A a \in 1 .. Len(registered[w]) :
            registered[w][a] \in Nodes /\ registered[w][a] # handler
      BY <3>6, <1>3, Kinds DEF In, TypeOK
    <3>. QED BY <3>7, <3>8, <3>9, <1>7, Kinds DEF Chain
  <2>3. CASE todo' # <<>> /\ Some(DelStores)
    <3>1. \A w \in Vectors : ~ In(VReg[w], handler)
      BY <2>3, <1>3, <1>5 DEF Busy
    <3>2. ~ Pend("prev->next = next")'
      <4>0. Len(todo') \in 1 .. 3
        BY <1>3, <1>4, <1>15, <2>3 DEF TypeOK
      <4>1. ASSUME NEW a \in 1 .. Len(todo') PROVE todo'[a] # DelStores[1]
        <5>1. todo'[a] = DelStores[4 - Len(todo') + a]
          BY <2>3, <1>2, <1>4, <1>18 DEF Some
        <5>0. ASSUME NEW n \in 1 .. 3, NEW b \in 1 .. n PROVE 4 - n + b \in 1 .. 4 /\ 4 - n + b # 1
          OBVIOUS
        <5>2. 4 - Len(todo') + a \in 1 .. 4 /\ 4 - Len(todo') + a # 1
          BY <4>0, <5>0
        <5>. QED BY <5>1, <5>2, Stores
      <4>. QED BY <4>1, StoreNames DEF Pend
    <3>3. /\ ~ Pend("prev->next = new")' /\ ~ Pend("new->next = next")'
      <4>1. \A x : Pend(x) => \E i \in 1 .. 4 : DelStores[i] = x
        BY <2>3, <1>3, Pending
      <4>. QED BY <4>1, <1>4, StoreSets
    <3>4. VReg' = registered'
      BY <3>2, <3>3, <1>12 DEF VReg
    <3>5. \A n \in Nodes : n # handler => VNext'[n] = next'[n]
      BY <3>2, <3>3, <1>2 DEF VNext
    <3>. SUFFICES ASSUME NEW w \in Vectors PROVE Chain(next', registered'[w], w)
      BY DEF Chains
    <3>6. Chain(VNext', registered'[w], w)
      BY <2>0, <3>4 DEF Chains
    <3>7. \A a \in 1 .. Len(registered'[w]) :
            registered'[w][a] \in Nodes /\ registered'[w][a] # handler
      <4>1. registered'[w] = VReg[w] /\ registered'[w] \in Seq(Handlers)
        BY <3>4, <1>6, <1>12
      <4>2. ~ In(registered'[w], handler)
        BY <3>1, <4>1
      <4>. QED BY <4>1, <4>2, Kinds DEF In
    <3>. QED BY <3>5, <3>6, <3>7, <1>7, Kinds DEF Chain
  <2>. QED BY <2>1, <2>2, <2>3, <1>3 DEF TodoOK
<1>19. (ordered => Chains(next, registered))'
  BY <1>2, <1>18 DEF Chains, Chain, At
<1>. QED BY <1>4, <1>9, <1>13, <1>14, <1>17, <1>19 DEF IInv

LEMMA Unseen ==
  ASSUME IInv, TypeOK',
         UNCHANGED <<next, prev, todo, ordered, handler, before, after, registered>>
  PROVE  IInv'
<1>1. \A x : Pend(x)' <=> Pend(x)
  BY DEF Pend
<1>2. VNext' = VNext
  BY <1>1 DEF VNext
<1>3. VPrev' = VPrev
  BY <1>1 DEF VPrev
<1>4. VReg' = VReg
  BY <1>1 DEF VReg
<1>5. (Some(AddStores)' <=> Some(AddStores)) /\ (Some(DelStores)' <=> Some(DelStores))
  BY DEF Some
<1>6. TodoOK'
  BY <1>5 DEF IInv, TodoOK
<1>7. Busy'
  BY <1>1, <1>4, <1>5 DEF IInv, Busy
<1>8. Clean(VNext, VPrev, VReg)'
  BY <1>2, <1>3, <1>4 DEF IInv
<1>. QED BY <1>6, <1>7, <1>8 DEF IInv

(* Once the stores left are done the links are those of the lists; this    *)
(* holds at every store and interrupt.                                     *)
THEOREM ListsInductive == Spec => []IInv
<1>1. Init => IInv
  BY InitInv
<1>2. IInv /\ [Next]_vars => IInv'
  <2>. SUFFICES ASSUME IInv, [Next]_vars PROVE IInv'
    OBVIOUS
  <2>1. CASE Store
    BY <2>1, StoreInv
  <2>2. ASSUME NEW v \in Vectors, Interrupt(v) PROVE IInv'
    <3>1. called' \in Seq(Handlers)
      BY <2>2, WalkType DEF Interrupt
    <3>2. TypeOK'
      BY <2>2, <3>1 DEF Interrupt, IInv, TypeOK
    <3>. QED BY <2>2, <3>2, Unseen DEF Interrupt
  <2>3. ASSUME NEW v \in Vectors, NEW h \in Handlers, Register(v, h) PROVE IInv'
    BY <2>3, RegisterInv
  <2>4. ASSUME NEW v \in Vectors, NEW h \in Handlers, Unregister(v, h) PROVE IInv'
    BY <2>4, UnregisterInv
  <2>5. CASE UNCHANGED vars
    <3>1. TypeOK'
      BY <2>5 DEF vars, IInv, TypeOK
    <3>. QED BY <2>5, <3>1, Unseen DEF vars
  <2>. QED BY <2>1, <2>2, <2>3, <2>4, <2>5 DEF Next
<1>. QED BY <1>1, <1>2, PTL DEF Spec

(* Whenever an interrupt comes, between any two stores of list_add and     *)
(* list_del, it calls each handler of its vector once, if the stores keep  *)
(* their order, and between the calls the links agree whatever the order.  *)
THEOREM InterruptsFindHandlers == Spec => []HandlersFound
<1>1. ASSUME IInv PROVE HandlersFound
  <2>0. TypeOK /\ Apart(registered) /\ Clean(VNext, VPrev, VReg)
        /\ (ordered => Chains(next, registered))
    BY <1>1 DEF IInv
  <2>1. InterruptCallsAll
    <3>. SUFFICES ASSUME ordered, NEW v \in Vectors
                  PROVE  Ends(v) /\ Walk(v) = registered[v]
      BY DEF InterruptCallsAll
    <3>1. registered[v] \in Seq(Handlers) /\ Chain(next, registered[v], v)
      BY <2>0 DEF TypeOK, Chains
    <3>2. \A a, b \in 1 .. Len(registered[v]) : registered[v][a] = registered[v][b] => a = b
      BY <2>0 DEF Apart
    <3>. QED BY <3>1, <3>2, WalkList
  <2>2. LinksAgree
    <3>. SUFFICES ASSUME todo = <<>>, NEW m \in Nodes
                  PROVE  IF next[m] = NULL THEN prev[m] = NULL
                         ELSE prev[next[m]] = m /\ next[prev[m]] = m
      BY DEF LinksAgree
    <3>1. Agree(next, prev)
      BY <2>0, Idle DEF Clean
    <3>. QED BY <3>1, Kinds DEF Agree
  <2>. QED BY <2>0, <2>1, <2>2 DEF HandlersFound
<1>. QED BY <1>1, ListsInductive, PTL
-----------------------------------------------------------------------------
(* The IDE driver *)

LEMMA IsMultiple ==
  ASSUME NEW p \in Nat, NEW s \in Nat \ {0}, p % s = 0
  PROVE  \E k \in Nat : p = k * s
<1>. QED BY SMT

(* Multiples of a multiple, and their sum.                                 *)
LEMMA Products ==
  ASSUME NEW j \in Nat, NEW k \in Nat, NEW s \in Nat
  PROVE  /\ j * (k * s) = (j * k) * s /\ j * k \in Nat
         /\ j * s + k * s = (j + k) * s
<1>1. j * (k * s) = (j * k) * s
  BY SMT
<1>2. j * k \in Nat
  BY SMT
<1>3. j * s + k * s = (j + k) * s
  BY SMT
<1>. QED BY <1>1, <1>2, <1>3

(* The data register gives words, and block sizes are powers of two for    *)
(* bdev_init (bdev.c:83).                                                  *)
EvenBlocks == Block % 2 = 0

Sizes == {n * Block : n \in 1 .. MaxBlocks}

Even(n) == \E k \in Nat : n = 2 * k

InCommand == pc \in {"send", "packet", "data", "sent"}
Reading   == InCommand /\ kind = "read"
Probing   ==
  \/ pc \in {"probe", "unit", "atapi", "ata"}
  \/ InCommand /\ kind = "capacity"

Types ==
  /\ pc \in {"probe", "unit", "atapi", "ata", "idle", "send", "packet", "data", "sent"}
  /\ kind \in {"capacity", "read"}
  /\ packet \in BOOLEAN /\ sensing \in BOOLEAN /\ ret \in BOOLEAN /\ first \in BOOLEAN
  /\ unit \in Nat /\ bufsize \in Nat /\ nbread \in Nat /\ got \in Nat
  /\ private \in [Units -> {"garbage", "null", "live", "freed"}]
  /\ bdevs \in [Units -> {"none", "ata", "atapi"}]
  /\ capacity \in [Units -> Nat]
  /\ (pc \in {"atapi", "ata"} \/ InCommand) => unit \in Units

(* The units from the one probed on are untouched, and the status behind   *)
(* an identification that was offered still stands when it is taken.       *)
Untouched(u) == u \notin badfree /\ u \notin offers /\ u \notin unasked

ProbeInv ==
  Probing => \A u \in Units :
    /\ u >= unit => bdevs[u] = "none" /\ u \notin unasked
    /\ u > unit => Untouched(u) /\ capacity[u] = 0
    /\ u = unit /\ pc # "ata" => Untouched(u)
    /\ u = unit /\ pc = "ata" => (u \in offers => Ready)
    /\ u = unit /\ ~ InCommand /\ pc # "ata" => capacity[u] = 0

(* The capacity counts what its command has stored, also behind the sense. *)
CapacityInv ==
  InCommand /\ kind = "capacity" =>
    /\ packet
    /\ ~ sensing =>
         /\ bufsize = Aux
         /\ pc = "send" => capacity[unit] = 0
         /\ pc = "packet" => capacity[unit] = 0 /\ nbread = 0
         /\ pc = "data" => capacity[unit] = nbread /\ nbread <= bufsize /\ Even(nbread)
         /\ pc = "sent" /\ ret => capacity[unit] = Aux
    /\ sensing => (first => capacity[unit] = Aux)

(* During a read the bytes counted are the bytes stored, and a command     *)
(* that succeeded has stored what the read asked for.                      *)
ReadInv ==
  /\ answer = "pending" <=> Reading
  /\ Reading =>
       /\ want \in Sizes
       /\ ~ sensing =>
            /\ bufsize = want
            /\ pc = "send" => got = 0
            /\ pc = "packet" => got = 0 /\ nbread = 0
            /\ pc = "data" => got = nbread /\ nbread <= bufsize /\ Even(nbread)
            /\ pc = "sent" /\ ret => got = want
       /\ sensing => packet /\ (first => got = want)

ProbesInv == Types /\ ProbeInv /\ CapacityInv /\ ProbesLeaveDisk /\ SizesFromDevice

ReadsInv == Types /\ ReadInv

-----------------------------------------------------------------------------
(* Sizes *)

LEMMA SizeType ==
  ASSUME NEW n \in 1 .. MaxBlocks
  PROVE  n * Block \in Nat /\ n * Block > 0 /\ n * Block \in Sizes
<1>1. n \in Nat /\ n > 0 /\ Block \in Nat /\ Block > 0
  BY IdeAssumption
<1>2. n * Block \in Nat /\ n * Block > 0
  BY <1>1, SMT
<1>. QED BY <1>2 DEF Sizes

LEMMA EvenSizes ==
  ASSUME EvenBlocks, NEW s \in Sizes
  PROVE  s \in Nat /\ Even(s)
<1>1. PICK n \in 1 .. MaxBlocks : s = n * Block
  BY DEF Sizes
<1>2. n \in Nat /\ Block \in Nat
  BY IdeAssumption
<1>3. PICK k \in Nat : Block = k * 2
  BY <1>2, IsMultiple DEF EvenBlocks
<1>4. n * k \in Nat /\ n * (k * 2) = (n * k) * 2
  BY <1>2, Products
<1>5. s \in Nat /\ s = 2 * (n * k)
  BY <1>1, <1>3, <1>4
<1>. QED BY <1>4, <1>5 DEF Even

LEMMA EvenSector == Sector \in Nat /\ Sector > 0 /\ Even(Sector)
<1>1. Sector \in Nat /\ Sector > 0 /\ Sector % 2 = 0
  BY IdeAssumption
<1>2. PICK k \in Nat : Sector = k * 2
  BY <1>1, IsMultiple
<1>. QED BY <1>1, <1>2 DEF Even

LEMMA EvenAux == Aux \in Nat /\ Even(Aux)
<1>1. Aux \in Nat /\ Aux % 2 = 0
  BY IdeAssumption
<1>2. PICK k \in Nat : Aux = k * 2
  BY <1>1, IsMultiple
<1>. QED BY <1>1, <1>2 DEF Even

LEMMA WordsType ==
  ASSUME NEW n \in Nat
  PROVE  Words(n) \in Nat
<1>1. n \div 2 \in Nat
  BY SMT
<1>. QED BY <1>1 DEF Words

(* An even count is a number of whole words.                               *)
LEMMA EvenWords ==
  ASSUME NEW n \in Nat, Even(n)
  PROVE  Words(n) = n
<1>1. PICK k \in Nat : n = 2 * k
  BY DEF Even
<1>2. n \div 2 = k
  BY <1>1, SMT
<1>. QED BY <1>1, <1>2 DEF Words

LEMMA EvenSums ==
  ASSUME NEW m \in Nat, NEW n \in Nat, Even(m), Even(n)
  PROVE  Even(m + n) /\ (m <= n => Even(n - m))
<1>1. PICK j \in Nat : m = 2 * j
  BY DEF Even
<1>2. PICK k \in Nat : n = 2 * k
  BY DEF Even
<1>3. j + k \in Nat /\ m + n = 2 * (j + k)
  BY <1>1, <1>2
<1>4. m <= n => k - j \in Nat /\ n - m = 2 * (k - j)
  BY <1>1, <1>2
<1>. QED BY <1>3, <1>4 DEF Even

-----------------------------------------------------------------------------
(* The probe *)

(* What a chunk counts.                                                    *)
LEMMA ChunkType ==
  ASSUME Types, Chunk
  PROVE  \E cnt \in Nat :
           /\ \/ cnt = Smaller(Sector, bufsize - nbread)
              \/ CountOK(cnt, bufsize - nbread)
           /\ cnt > 0 /\ cnt <= bufsize - nbread
           /\ nbread' = nbread + cnt
           /\ got' = IF kind = "read" /\ ~ sensing THEN got + Words(cnt) ELSE got
           /\ capacity' = IF kind = "capacity" /\ ~ sensing
                          THEN [capacity EXCEPT ![unit] = @ + Words(cnt)] ELSE capacity
<1>. DEFINE Adds(cnt) ==
       /\ nbread' = nbread + cnt
       /\ got' = IF kind = "read" /\ ~ sensing THEN got + Words(cnt) ELSE got
       /\ capacity' = IF kind = "capacity" /\ ~ sensing
                      THEN [capacity EXCEPT ![unit] = @ + Words(cnt)] ELSE capacity
<1>1. PICK cnt \in IF packet THEN 0 .. bufsize ELSE {Smaller(Sector, bufsize - nbread)} :
        (packet => CountOK(cnt, bufsize - nbread)) /\ Adds(cnt)
  BY DEF Chunk
<1>2. bufsize \in Nat /\ nbread \in Nat /\ nbread < bufsize /\ packet \in BOOLEAN
  BY DEF Types, Chunk
<1>. HIDE DEF Adds
<1>3. /\ cnt \in Nat /\ cnt > 0 /\ cnt <= bufsize - nbread
      /\ cnt = Smaller(Sector, bufsize - nbread) \/ CountOK(cnt, bufsize - nbread)
  <2>1. CASE packet
    <3>1. cnt \in Nat /\ CountOK(cnt, bufsize - nbread)
      BY <1>1, <1>2, <2>1
    <3>. QED BY <3>1 DEF CountOK
  <2>2. CASE ~ packet
    <3>1. cnt = Smaller(Sector, bufsize - nbread)
      BY <1>1, <2>2
    <3>2. cnt \in Nat /\ cnt > 0 /\ cnt <= bufsize - nbread
      BY <3>1, <1>2, EvenSector DEF Smaller
    <3>. QED BY <3>1, <3>2
  <2>. QED BY <2>1, <2>2, <1>2
<1>4. Adds(cnt)
  BY <1>1
<1>. USE DEF Adds
<1>. WITNESS cnt \in Nat
<1>. QED BY <1>3, <1>4

LEMMA TypesStep ==
  ASSUME Types, [IdeNext]_ivars
  PROVE  Types'
<1>. USE DEF Types, InCommand, probe, cmd, client, seen, Goto
<1>1. CASE Send
  BY <1>1 DEF Send
<1>2. CASE Packet
  BY <1>2 DEF Packet
<1>3. CASE PacketFails
  BY <1>3 DEF PacketFails, Return
<1>4. CASE Chunk
  <2>1. PICK c \in Nat :
          /\ nbread' = nbread + c
          /\ got' = IF kind = "read" /\ ~ sensing THEN got + Words(c) ELSE got
          /\ capacity' = IF kind = "capacity" /\ ~ sensing
                         THEN [capacity EXCEPT ![unit] = @ + Words(c)] ELSE capacity
    BY <1>4, ChunkType
  <2>2. Words(c) \in Nat
    BY WordsType
  <2>3. nbread' \in Nat /\ got' \in Nat
    BY <2>1, <2>2
  <2>4. capacity' \in [Units -> Nat]
    <3>1. unit \in Units /\ capacity[unit] + Words(c) \in Nat
      BY <1>4, <2>2 DEF Chunk
    <3>. QED BY <2>1, <3>1
  <2>. QED BY <1>4, <2>3, <2>4 DEF Chunk
<1>5. CASE ChunkFails
  BY <1>5 DEF ChunkFails, Return
<1>6. CASE DataEnds
  BY <1>6 DEF DataEnds, Return, Whole
<1>7. CASE Sense
  BY <1>7, IdeAssumption DEF Sense
<1>8. CASE Attach
  BY <1>8 DEF Attach
<1>9. CASE NoDevice
  BY <1>9 DEF NoDevice, Unit
<1>10. CASE Identify
  BY <1>10 DEF Identify, Unit
<1>11. CASE AllUnits
  BY <1>11 DEF AllUnits
<1>12. CASE InitAtapi
  BY <1>12, IdeAssumption DEF InitAtapi, Command
<1>13. CASE AtapiFails
  BY <1>13 DEF AtapiFails
<1>14. CASE AtapiReady
  BY <1>14 DEF AtapiReady, NextUnit
<1>15. CASE InitAta
  BY <1>15 DEF InitAta, NextUnit, AtaKeeps
<1>16. CASE ReadDone
  BY <1>16 DEF ReadDone
<1>17. CASE Read
  <2>1. PICK n \in 1 .. MaxBlocks :
          Command("read", bdevs[unit'] = "atapi", n * Block) /\ want' = n * Block
    BY <1>17 DEF Read
  <2>2. unit' \in Units /\ unit' \in Nat
    BY <1>17, IdeAssumption DEF Read
  <2>3. kind' = "read" /\ packet' \in BOOLEAN /\ sensing' = FALSE /\ bufsize' \in Nat
        /\ ret' = ret /\ first' = first /\ nbread' = nbread
    BY <2>1, SizeType DEF Command
  <2>. QED BY <1>17, <2>2, <2>3 DEF Read
<1>18. CASE UNCHANGED ivars
  BY <1>18 DEF ivars
<1>. QED BY <1>1, <1>2, <1>3, <1>4, <1>5, <1>6, <1>7, <1>8, <1>9, <1>10, <1>11, <1>12,
            <1>13, <1>14, <1>15, <1>16, <1>17, <1>18 DEF IdeNext, IdeStep

(* A chunk of the capacity is a number of whole words.                     *)
LEMMA ChunkCounts ==
  ASSUME Types, CapacityInv, Chunk, kind = "capacity", ~ sensing
  PROVE  capacity'[unit] = nbread' /\ Even(nbread') /\ nbread' <= bufsize
<1>1. PICK c \in Nat :
         /\ c = Smaller(Sector, bufsize - nbread) \/ CountOK(c, bufsize - nbread)
         /\ c > 0 /\ c <= bufsize - nbread
         /\ nbread' = nbread + c
         /\ capacity' = IF kind = "capacity" /\ ~ sensing
                        THEN [capacity EXCEPT ![unit] = @ + Words(c)] ELSE capacity
  BY ChunkType
<1>2. pc = "data" /\ nbread < bufsize
  BY DEF Chunk
<1>3. /\ bufsize = Aux /\ capacity[unit] = nbread /\ Even(nbread)
      /\ unit \in Units /\ nbread \in Nat /\ capacity \in [Units -> Nat]
  BY <1>2 DEF CapacityInv, InCommand, Types
<1>4. bufsize - nbread \in Nat /\ Even(bufsize - nbread)
  BY <1>2, <1>3, EvenAux, EvenSums
<1>5. Even(c)
  <2>1. CASE c = Sector \/ c = bufsize - nbread
    BY <2>1, <1>4, EvenSector
  <2>2. CASE c % 2 = 0
    <3>1. PICK k \in Nat : c = k * 2
      BY <2>2, IsMultiple
    <3>. QED BY <3>1 DEF Even
  <2>. QED BY <2>1, <2>2, <1>1 DEF Smaller, CountOK
<1>6. Words(c) = c
  BY <1>5, EvenWords
<1>7. capacity'[unit] = nbread + c
  BY <1>1, <1>3, <1>6
<1>8. Even(nbread + c)
  BY <1>3, <1>5, EvenSums
<1>. QED BY <1>1, <1>3, <1>7, <1>8, EvenAux

LEMMA CapacityStep ==
  ASSUME Types, ProbeInv, CapacityInv, [IdeNext]_ivars
  PROVE  CapacityInv'
<1>. USE DEF Types, InCommand, probe, cmd, client, seen, Goto
<1>0. Even(0)
  BY DEF Even
<1>1. CASE Send
  BY <1>0, <1>1, EvenAux DEF Send, CapacityInv
<1>2. CASE Packet
  BY <1>0, <1>2, EvenAux DEF Packet, CapacityInv
<1>3. CASE PacketFails
  BY <1>3 DEF PacketFails, Return, CapacityInv
<1>4. CASE Chunk
  <2>1. UNCHANGED <<pc, unit, kind, packet, sensing, ret, first, bufsize>> /\ pc = "data"
    BY <1>4 DEF Chunk
  <2>2. CASE kind = "capacity" /\ ~ sensing
    <3>1. capacity'[unit] = nbread' /\ Even(nbread') /\ nbread' <= bufsize
      BY <1>4, <2>2, ChunkCounts
    <3>2. Even(nbread)'
      BY <3>1 DEF Even
    <3>. QED BY <2>1, <2>2, <3>1, <3>2 DEF CapacityInv
  <2>3. CASE ~ (kind = "capacity" /\ ~ sensing)
    <3>1. capacity' = capacity
      BY <1>4, <2>3 DEF Chunk
    <3>. QED BY <2>1, <2>3, <3>1 DEF CapacityInv
  <2>. QED BY <2>2, <2>3
<1>5. CASE ChunkFails
  BY <1>5 DEF ChunkFails, Return, CapacityInv
<1>6. CASE DataEnds
  BY <1>6 DEF DataEnds, Return, Whole, CapacityInv
<1>7. CASE Sense
  BY <1>7 DEF Sense, CapacityInv
<1>8. CASE Attach
  BY <1>8 DEF Attach, CapacityInv
<1>9. CASE NoDevice
  BY <1>9 DEF NoDevice, Unit, CapacityInv
<1>10. CASE Identify
  BY <1>10 DEF Identify, Unit, CapacityInv
<1>11. CASE AllUnits
  BY <1>11 DEF AllUnits, CapacityInv
<1>12. CASE InitAtapi
  <2>1. unit \in Units /\ capacity[unit] = 0
    BY <1>12 DEF InitAtapi, ProbeInv, Probing
  <2>. QED BY <1>12, <2>1 DEF InitAtapi, Command, CapacityInv
<1>13. CASE AtapiFails
  BY <1>13 DEF AtapiFails, CapacityInv
<1>14. CASE AtapiReady
  BY <1>14 DEF AtapiReady, NextUnit, CapacityInv
<1>15. CASE InitAta
  BY <1>15 DEF InitAta, NextUnit, CapacityInv
<1>16. CASE ReadDone
  BY <1>16 DEF ReadDone, CapacityInv
<1>17. CASE Read
  <2>1. kind' = "read"
    BY <1>17 DEF Read, Command
  <2>. QED BY <2>1 DEF CapacityInv
<1>18. CASE UNCHANGED ivars
  BY <1>18 DEF ivars, CapacityInv
<1>. QED BY <1>1, <1>2, <1>3, <1>4, <1>5, <1>6, <1>7, <1>8, <1>9, <1>10, <1>11, <1>12,
            <1>13, <1>14, <1>15, <1>16, <1>17, <1>18 DEF IdeNext, IdeStep

LEMMA ProbeStep ==
  ASSUME Types, ProbeInv, CapacityInv, ProbesLeaveDisk, SizesFromDevice, [IdeNext]_ivars
  PROVE  ProbeInv' /\ ProbesLeaveDisk' /\ SizesFromDevice'
<1>. USE DEF Types, InCommand, Probing, probe, cmd, client, seen, Goto, Untouched, Ready, Polled
<1>0. \A u \in Units : u \in Nat
  BY IdeAssumption
<1>1. CASE Send
  BY <1>1 DEF Send, ProbeInv, ProbesLeaveDisk, SizesFromDevice
<1>2. CASE Packet
  BY <1>2 DEF Packet, ProbeInv, ProbesLeaveDisk, SizesFromDevice
<1>3. CASE PacketFails
  BY <1>3 DEF PacketFails, Return, ProbeInv, ProbesLeaveDisk, SizesFromDevice
<1>4. CASE Chunk
  <2>1. UNCHANGED <<disk, unit, private, bdevs, pc, kind, badfree, offers, unasked>>
        /\ unit \in Units /\ pc = "data"
    BY <1>4 DEF Chunk
  <2>2. CASE kind = "read"
    <3>1. capacity' = capacity
      BY <1>4, <2>2 DEF Chunk
    <3>. QED BY <2>1, <2>2, <3>1 DEF ProbeInv, ProbesLeaveDisk, SizesFromDevice
  <2>3. CASE kind = "capacity"
    <3>1. \A u \in Units : u # unit => capacity'[u] = capacity[u]
      BY <1>4 DEF Chunk
    <3>2. bdevs[unit] = "none"
      BY <2>1, <2>3, <1>0 DEF ProbeInv
    <3>. QED BY <1>0, <2>1, <2>3, <3>1, <3>2 DEF ProbeInv, ProbesLeaveDisk, SizesFromDevice
  <2>. QED BY <2>2, <2>3
<1>5. CASE ChunkFails
  BY <1>5 DEF ChunkFails, Return, ProbeInv, ProbesLeaveDisk, SizesFromDevice
<1>6. CASE DataEnds
  BY <1>6 DEF DataEnds, Return, ProbeInv, ProbesLeaveDisk, SizesFromDevice
<1>7. CASE Sense
  BY <1>7 DEF Sense, ProbeInv, ProbesLeaveDisk, SizesFromDevice
<1>8. CASE Attach
  BY <1>8 DEF Attach, ProbeInv, ProbesLeaveDisk, SizesFromDevice
<1>9. CASE NoDevice
  BY <1>0, <1>9 DEF NoDevice, Unit, ProbeInv, ProbesLeaveDisk, SizesFromDevice
<1>10. CASE Identify
  <2>1. /\ unit \in Units /\ Probing /\ pc = "unit" /\ pc' \in {"atapi", "ata"}
        /\ UNCHANGED <<disk, unit, private, bdevs, kind, badfree, unasked, capacity>>
    BY <1>10 DEF Identify, Unit
  <2>2. CASE Polled' = {"DRQ"}
    <3>1. pc' = "ata" /\ offers' = offers \cup {unit} /\ Ready'
      BY <1>10, <2>2 DEF Identify
    <3>. QED BY <1>0, <2>1, <3>1 DEF ProbeInv, ProbesLeaveDisk, SizesFromDevice
  <2>3. CASE Polled' # {"DRQ"}
    <3>1. offers' = offers
      BY <1>10, <2>3 DEF Identify
    <3>. QED BY <1>0, <2>1, <3>1 DEF ProbeInv, ProbesLeaveDisk, SizesFromDevice
  <2>. QED BY <2>2, <2>3
<1>11. CASE AllUnits
  BY <1>11 DEF AllUnits, ProbeInv, ProbesLeaveDisk, SizesFromDevice
<1>12. CASE InitAtapi
  BY <1>12 DEF InitAtapi, Command, ProbeInv, ProbesLeaveDisk, SizesFromDevice
<1>13. CASE AtapiFails
  <2>1. Probing /\ unit \in Units /\ pc' = "ata" /\ unit' = unit /\ bdevs' = bdevs
        /\ UNCHANGED <<offers, unasked, capacity>> /\ pc # "ata"
    BY <1>13 DEF AtapiFails
  <2>2. badfree' \subseteq badfree \cup {unit}
        /\ private' = [private EXCEPT ![unit] = "freed"]
    BY <1>13 DEF AtapiFails
  <2>3. bdevs[unit] = "none"
    BY <2>1 DEF ProbeInv
  <2>. QED BY <1>0, <2>1, <2>2, <2>3 DEF ProbeInv, ProbesLeaveDisk, SizesFromDevice
<1>14. CASE AtapiReady
  <2>1. Probing /\ unit \in Units /\ pc = "sent" /\ private' = private /\ badfree' = badfree
        /\ UNCHANGED <<offers, unasked, capacity>> /\ kind' = kind /\ unit \in Nat
    BY <1>14 DEF AtapiReady
  <2>2. Untouched(unit) /\ capacity[unit] = Aux
    BY <1>14, <2>1 DEF ProbeInv, CapacityInv, AtapiReady, BothSucceeded
  <2>3. CASE NextUnit("atapi")
    BY <1>0, <2>1, <2>2, <2>3 DEF NextUnit, ProbeInv, ProbesLeaveDisk, SizesFromDevice
  <2>4. CASE pc' = "ata" /\ UNCHANGED <<unit, bdevs>>
    BY <1>0, <2>1, <2>2, <2>4 DEF ProbeInv, ProbesLeaveDisk, SizesFromDevice
  <2>. QED BY <1>14, <2>3, <2>4 DEF AtapiReady
<1>15. CASE InitAta
  <2>1. Probing /\ unit \in Units /\ badfree' = badfree /\ pc' = "unit" /\ unit' = unit + 1
        /\ UNCHANGED <<offers, capacity>> /\ kind' = kind /\ unit \in Nat /\ pc = "ata"
        /\ unasked' = IF Ready THEN unasked ELSE unasked \cup {unit}
    BY <1>15 DEF InitAta, NextUnit
  <2>0. bdevs[unit] = "none" /\ unit \notin unasked /\ (unit \in offers => Ready)
    BY <2>1 DEF ProbeInv
  <2>2. CASE NextUnit("ata") /\ private' = [private EXCEPT ![unit] = AtaKeeps]
    BY <1>0, <2>0, <2>1, <2>2 DEF NextUnit, AtaKeeps, ProbeInv, ProbesLeaveDisk, SizesFromDevice
  <2>3. CASE NextUnit("none") /\ \E p \in {"null", "freed", "live"} :
                                   private' = [private EXCEPT ![unit] = p]
    <3>1. \A u \in Units : u # unit => private'[u] = private[u] /\ bdevs'[u] = bdevs[u]
      BY <2>3 DEF NextUnit
    <3>2. bdevs'[unit] = "none"
      BY <2>1, <2>3 DEF NextUnit
    <3>. QED BY <1>0, <2>0, <2>1, <3>1, <3>2 DEF ProbeInv, ProbesLeaveDisk, SizesFromDevice
  <2>. QED BY <1>15, <2>2, <2>3 DEF InitAta
<1>16. CASE ReadDone
  BY <1>16 DEF ReadDone, ProbeInv, ProbesLeaveDisk, SizesFromDevice
<1>17. CASE Read
  <2>1. kind' = "read" /\ pc' = "send"
    BY <1>17 DEF Read, Command
  <2>. QED BY <1>17, <2>1 DEF Read, ProbeInv, ProbesLeaveDisk, SizesFromDevice
<1>18. CASE UNCHANGED ivars
  BY <1>18 DEF ivars, ProbeInv, ProbesLeaveDisk, SizesFromDevice
<1>. QED BY <1>1, <1>2, <1>3, <1>4, <1>5, <1>6, <1>7, <1>8, <1>9, <1>10, <1>11, <1>12,
            <1>13, <1>14, <1>15, <1>16, <1>17, <1>18 DEF IdeNext, IdeStep

LEMMA InitProbes ==
  ASSUME IdeInit
  PROVE  ProbesInv /\ ReadInv
<1>1. Types
  BY IdeAssumption DEF IdeInit, Types, InCommand
<1>2. ProbeInv /\ CapacityInv /\ ProbesLeaveDisk /\ SizesFromDevice
  BY DEF IdeInit, ProbeInv, CapacityInv, Untouched, InCommand, ProbesLeaveDisk, SizesFromDevice
<1>3. ReadInv
  BY DEF IdeInit, ReadInv, Reading, InCommand
<1>. QED BY <1>1, <1>2, <1>3 DEF ProbesInv

(* The units not yet probed are untouched, whatever the devices answer,    *)
(* and behind the capacity command of an ATAPI device and the request      *)
(* sense that follows success means that all of the capacity was given.    *)
THEOREM ProbesInductive == IdeSpec => []ProbesInv
<1>1. IdeInit => ProbesInv
  BY InitProbes
<1>2. ProbesInv /\ [IdeNext]_ivars => ProbesInv'
  BY TypesStep, ProbeStep, CapacityStep DEF ProbesInv
<1>. QED BY <1>1, <1>2, PTL DEF IdeSpec

(* A disk is registered with what ide_init_ata read, which stays, and a    *)
(* unit for which an address nobody set was freed is never an ATAPI disk.  *)
THEOREM DisksLeftAlone == IdeSpec => []ProbesLeaveDisk
<1>1. ProbesInv => ProbesLeaveDisk
  BY DEF ProbesInv
<1>. QED BY <1>1, ProbesInductive, PTL

(* An ATAPI disk is registered only with a capacity that the device gave   *)
(* in whole, and the identification that an ATA device offers is taken     *)
(* while it is offered (ide_init_atapi, ide_init_ata).                     *)
THEOREM SizesKnown == IdeSpec => []SizesFromDevice
<1>1. ProbesInv => SizesFromDevice
  BY DEF ProbesInv
<1>. QED BY <1>1, ProbesInductive, PTL

-----------------------------------------------------------------------------
(* The reads *)

(* A chunk of a read is a number of whole words.                           *)
LEMMA ChunkReads ==
  ASSUME EvenBlocks, Types, ReadInv, Chunk, Reading, ~ sensing
  PROVE  /\ got' = nbread' /\ Even(nbread') /\ nbread' <= bufsize
         /\ got' \in got + 1 .. want
<1>1. PICK c \in Nat :
         /\ c = Smaller(Sector, bufsize - nbread) \/ CountOK(c, bufsize - nbread)
         /\ c > 0 /\ c <= bufsize - nbread
         /\ nbread' = nbread + c
         /\ got' = IF kind = "read" /\ ~ sensing THEN got + Words(c) ELSE got
  BY ChunkType
<1>2. pc = "data" /\ nbread < bufsize
  BY DEF Chunk
<1>3. want \in Sizes /\ bufsize = want /\ got = nbread /\ Even(nbread)
  BY <1>2 DEF ReadInv
<1>4. bufsize \in Nat /\ Even(bufsize) /\ nbread \in Nat
  BY <1>3, EvenSizes DEF Types
<1>5. bufsize - nbread \in Nat /\ Even(bufsize - nbread)
  BY <1>2, <1>3, <1>4, EvenSums
<1>6. Even(c)
  <2>1. CASE c = Sector \/ c = bufsize - nbread
    BY <2>1, <1>5, EvenSector
  <2>2. CASE c % 2 = 0
    <3>1. PICK k \in Nat : c = k * 2
      BY <2>2, IsMultiple
    <3>. QED BY <3>1 DEF Even
  <2>. QED BY <2>1, <2>2, <1>1 DEF Smaller, CountOK
<1>7. got' = nbread + c
  BY <1>1, <1>3, <1>6, EvenWords DEF Reading
<1>8. Even(nbread + c)
  BY <1>3, <1>4, <1>6, EvenSums
<1>. QED BY <1>1, <1>3, <1>4, <1>7, <1>8

LEMMA ReadStep ==
  ASSUME EvenBlocks, Types, ReadInv, [IdeNext]_ivars
  PROVE  ReadInv'
<1>. USE DEF Types, InCommand, Reading, probe, cmd, client, seen, Goto
<1>0. Even(0)
  BY DEF Even
<1>1. CASE Send
  BY <1>0, <1>1, EvenSizes DEF Send, ReadInv
<1>2. CASE Packet
  BY <1>0, <1>2 DEF Packet, ReadInv
<1>3. CASE PacketFails
  BY <1>3 DEF PacketFails, Return, ReadInv
<1>4. CASE Chunk
  <2>1. UNCHANGED <<pc, kind, packet, sensing, ret, first, bufsize, answer, want>>
        /\ pc = "data"
    BY <1>4 DEF Chunk
  <2>2. CASE Reading /\ ~ sensing
    <3>1. got' = nbread' /\ Even(nbread') /\ nbread' <= bufsize
      BY <1>4, <2>2, ChunkReads
    <3>2. Even(nbread)'
      BY <3>1 DEF Even
    <3>. QED BY <2>1, <2>2, <3>1, <3>2 DEF ReadInv
  <2>3. CASE ~ (Reading /\ ~ sensing)
    <3>1. Reading => got' = got
      BY <1>4, <2>3 DEF Chunk
    <3>. QED BY <2>1, <2>3, <3>1 DEF ReadInv
  <2>. QED BY <2>2, <2>3
<1>5. CASE ChunkFails
  BY <1>5 DEF ChunkFails, Return, ReadInv
<1>6. CASE DataEnds
  BY <1>6 DEF DataEnds, Return, Whole, ReadInv
<1>7. CASE Sense
  BY <1>7 DEF Sense, ReadInv
<1>8. CASE Attach
  BY <1>8 DEF Attach, ReadInv
<1>9. CASE NoDevice
  BY <1>9 DEF NoDevice, Unit, ReadInv
<1>10. CASE Identify
  BY <1>10 DEF Identify, Unit, ReadInv
<1>11. CASE AllUnits
  BY <1>11 DEF AllUnits, ReadInv
<1>12. CASE InitAtapi
  BY <1>12 DEF InitAtapi, Command, ReadInv
<1>13. CASE AtapiFails
  BY <1>13 DEF AtapiFails, ReadInv
<1>14. CASE AtapiReady
  BY <1>14 DEF AtapiReady, NextUnit, ReadInv
<1>15. CASE InitAta
  BY <1>15 DEF InitAta, NextUnit, ReadInv
<1>16. CASE ReadDone
  BY <1>16 DEF ReadDone, ReadInv
<1>17. CASE Read
  <2>1. PICK n \in 1 .. MaxBlocks :
          Command("read", bdevs[unit'] = "atapi", n * Block) /\ want' = n * Block
    BY <1>17 DEF Read
  <2>2. kind' = "read" /\ sensing' = FALSE /\ bufsize' = want' /\ want' \in Sizes
    BY <2>1, SizeType DEF Command
  <2>3. pc' = "send" /\ got' = 0 /\ answer' = "pending"
    BY <1>17 DEF Read
  <2>4. (want \in Sizes)'
    BY <2>2 DEF Sizes
  <2>. QED BY <2>2, <2>3, <2>4 DEF ReadInv
<1>18. CASE UNCHANGED ivars
  BY <1>18 DEF ivars, ReadInv
<1>. QED BY <1>1, <1>2, <1>3, <1>4, <1>5, <1>6, <1>7, <1>8, <1>9, <1>10, <1>11, <1>12,
            <1>13, <1>14, <1>15, <1>16, <1>17, <1>18 DEF IdeNext, IdeStep

(* Only the steps of a read are seen from above.                           *)
LEMMA DiskStep ==
  ASSUME EvenBlocks, Types, ReadInv, [IdeNext]_ivars
  PROVE  [Disk!Next]_<<want, got, answer>>
<1>. USE DEF Types, InCommand, Reading, probe, cmd, client, seen, Goto
<1>1. CASE Chunk
  <2>1. want' = want /\ answer' = answer /\ pc = "data"
    BY <1>1 DEF Chunk
  <2>2. CASE Reading /\ ~ sensing
    <3>1. got' \in got + 1 .. want
      BY <1>1, <2>2, ChunkReads
    <3>2. answer = "pending"
      BY <2>2 DEF ReadInv
    <3>. QED BY <2>1, <3>1, <3>2 DEF Disk!Next, Disk!Transfer
  <2>3. CASE ~ (Reading /\ ~ sensing)
    BY <1>1, <2>1, <2>3 DEF Chunk
  <2>. QED BY <2>2, <2>3
<1>2. CASE ReadDone
  <2>1. answer = "pending" /\ want' = want /\ got' = got
    BY <1>2 DEF ReadDone, ReadInv
  <2>2. BothSucceeded => got = want
    BY <1>2 DEF ReadDone, ReadInv, BothSucceeded
  <2>. QED BY <1>2, <2>1, <2>2 DEF ReadDone, Disk!Next, Disk!Answer
<1>3. CASE Read
  <2>1. PICK n \in 1 .. MaxBlocks : want' = n * Block
    BY <1>3 DEF Read
  <2>2. got' = 0 /\ answer' = "pending" /\ answer # "pending"
    BY <1>3 DEF Read, ReadInv
  <2>. QED BY <2>1, <2>2 DEF Disk!Next, Disk!Ask
<1>4. CASE \/ Send \/ Packet \/ PacketFails \/ ChunkFails \/ DataEnds \/ Sense
           \/ Attach \/ NoDevice \/ Identify \/ AllUnits \/ InitAtapi \/ AtapiFails
           \/ AtapiReady \/ InitAta
  BY <1>4 DEF Send, Packet, PacketFails, ChunkFails, DataEnds, Return, Sense, Attach, NoDevice,
              Identify, AllUnits, InitAtapi, AtapiFails, AtapiReady, InitAta
<1>5. CASE UNCHANGED ivars
  BY <1>5 DEF ivars
<1>. QED BY <1>1, <1>2, <1>3, <1>4, <1>5 DEF IdeNext, IdeStep

(* With an even block size a command that succeeded has stored all bytes   *)
(* the read asked for.                                                     *)
THEOREM ReadsInductive ==
  ASSUME EvenBlocks
  PROVE  IdeSpec => []ReadsInv
<1>1. IdeInit => ReadsInv
  BY InitProbes DEF ReadsInv, ProbesInv
<1>2. ReadsInv /\ [IdeNext]_ivars => ReadsInv'
  BY TypesStep, ReadStep DEF ReadsInv
<1>. QED BY <1>1, <1>2, PTL DEF IdeSpec

(* ide_ata_read and ide_atapi_read implement a disk that answers 0 only    *)
(* when it has given all bytes asked for, whatever size the device names   *)
(* for its chunks and whatever it answers to the request sense.            *)
THEOREM ImplementsDisk ==
  ASSUME EvenBlocks
  PROVE  IdeSpec => KeepsDisk
<1>1. IdeInit => Disk!Init
  BY DEF IdeInit, Disk!Init
<1>2. ReadsInv /\ [IdeNext]_ivars => [Disk!Next]_<<want, got, answer>>
  BY DiskStep DEF ReadsInv
<1>. QED BY <1>1, <1>2, ReadsInductive, PTL DEF IdeSpec, KeepsDisk, Disk!Spec
==============================================================================
