------------------------- MODULE SyncSyscallsProofs -------------------------
(***************************************************************************)
(* Proofs about SyncSyscalls for any number of threads, processes, table   *)
(* indices and objects.                                                    *)
(*                                                                         *)
(* Isolation holds whatever the programs do.  That no freed object is used *)
(* and nobody is left asleep on one holds for programs that never destroy  *)
(* anything and for those that keep all the rules (GoodStyles).            *)
(***************************************************************************)
EXTENDS SyncSyscalls, FiniteSetTheorems, WellFoundedInduction, TLAPS

Pointers == Addrs \cup {NoAddr}

(* Programs without Destroy, or with all the rules of good use.             *)
GoodStyles == \A st \in Styles : "Destroy" \notin st.calls \/ st.waived = {}

-----------------------------------------------------------------------------
(* The invariant, whatever the programs do                                  *)

(* What the table or a waiting thread points to was created.                *)
Created ==
    /\ ~Live(NoAddr)
    /\ \A k \in Kinds, i \in Indices :
          /\ The(k, i) # NoAddr => obj[The(k, i)].status # "unused"
          /\ table[k][i].space \in Spaces => The(k, i) # NoAddr
    /\ \A t \in Threads : loc[t].lock # NoAddr => obj[loc[t].lock].status # "unused"

(* A live object is in one entry of one table.                              *)
Unique ==
    \A k, m \in Kinds, i, j \in Indices :
        Live(The(k, i)) /\ The(k, i) = The(m, j) => k = m /\ i = j

(* The threads in a live object are of the process that created it.         *)
Users(a) == Elements(obj[a].queue) \cup {obj[a].owner}
Members ==
    \A k \in Kinds, i \in Indices : Live(The(k, i)) =>
        \A u \in Users(The(k, i)) : u = NoThread \/ Space[u] = table[k][i].space

(* So is a thread that will take a lock at the end of its Wait.             *)
WaitsAtHome ==
    \A t \in Threads, k \in Kinds, i \in Indices :
        The(k, i) = loc[t].lock /\ Live(The(k, i)) => table[k][i].space = Space[t]

(* Nobody is in an object that does not exist yet.                          *)
Untouched ==
    \A a \in Addrs : obj[a].status = "unused" => obj[a].owner = NoThread /\ obj[a].queue = <<>>

IsoInv == TypeOK /\ Created /\ Unique /\ Members /\ WaitsAtHome /\ Untouched

-----------------------------------------------------------------------------
(* Lists                                                                    *)

Distinct(q) == \A i, j \in 1..Len(q) : q[i] = q[j] => i = j

(* What Append does to the elements of a queue.                             *)
LEMMA AppendFacts ==
    ASSUME NEW q \in Seq(Threads), NEW x \in Threads
    PROVE  /\ Append(q, x) \in Seq(Threads) /\ Append(q, x) # <<>>
           /\ Elements(Append(q, x)) = Elements(q) \cup {x}
           /\ Distinct(q) /\ x \notin Elements(q) => Distinct(Append(q, x))
<1>1. /\ Append(q, x) \in Seq(Threads)
      /\ Len(Append(q, x)) = Len(q) + 1 /\ Len(q) \in Nat
      /\ \A i \in 1..Len(q) : Append(q, x)[i] = q[i]
      /\ Append(q, x)[Len(q) + 1] = x
  OBVIOUS
<1>2. Elements(Append(q, x)) = Elements(q) \cup {x}
  BY <1>1 DEF Elements
<1>3. Distinct(q) /\ x \notin Elements(q) => Distinct(Append(q, x))
  BY <1>1 DEF Elements, Distinct
<1>4. Append(q, x) # <<>>
  BY <1>1
<1> QED BY <1>1, <1>2, <1>3, <1>4

(* What Tail does to them.                                                  *)
LEMMA TailFacts ==
    ASSUME NEW q \in Seq(Threads), q # <<>>
    PROVE  /\ Head(q) \in Threads /\ Tail(q) \in Seq(Threads)
           /\ Head(q) \in Elements(q) /\ Elements(Tail(q)) \subseteq Elements(q)
           /\ Distinct(q) => /\ Distinct(Tail(q))
                             /\ Elements(Tail(q)) = Elements(q) \ {Head(q)}
<1>1. /\ Len(q) \in Nat \ {0} /\ Head(q) = q[1] /\ Head(q) \in Threads
      /\ Tail(q) \in Seq(Threads) /\ Len(Tail(q)) = Len(q) - 1
      /\ \A i \in 1..(Len(q) - 1) : Tail(q)[i] = q[i + 1]
  OBVIOUS
<1>2. Head(q) \in Elements(q)
  BY <1>1 DEF Elements
<1>3. Distinct(q) => Distinct(Tail(q))
  BY <1>1 DEF Distinct
<1>4. Elements(Tail(q)) \subseteq Elements(q)
  BY <1>1 DEF Elements
<1>5. Distinct(q) => Elements(Tail(q)) = Elements(q) \ {Head(q)}
  <2> SUFFICES ASSUME Distinct(q) PROVE Elements(Tail(q)) = Elements(q) \ {Head(q)}
    OBVIOUS
  <2>1. ASSUME NEW x \in Elements(Tail(q)) PROVE x # Head(q)
    BY <1>1, <2>1 DEF Elements, Distinct
  <2>2. ASSUME NEW x \in Elements(q) \ {Head(q)} PROVE x \in Elements(Tail(q))
    <3>1. PICK i \in 1..Len(q) : x = q[i]
      BY DEF Elements
    <3>2. i # 1 /\ i - 1 \in 1..(Len(q) - 1) /\ (i - 1) + 1 = i
      BY <1>1, <2>2, <3>1
    <3>3. x = Tail(q)[i - 1] /\ i - 1 \in 1..Len(Tail(q))
      BY <1>1, <3>1, <3>2
    <3> QED BY <3>3 DEF Elements
  <2> QED BY <1>4, <2>1, <2>2
<1> QED BY <1>1, <1>2, <1>3, <1>4, <1>5

(* The empty queue.                                                         *)
LEMMA EmptyFacts == <<>> \in Seq(Threads) /\ Elements(<<>>) = {} /\ Distinct(<<>>)
BY DEF Elements, Distinct

(* Only the empty queue has no elements.                                    *)
LEMMA NonEmpty == \A q \in Seq(Threads) : (q # <<>> <=> Elements(q) # {}) /\ Elements(q) \subseteq Threads
<1> SUFFICES ASSUME NEW q \in Seq(Threads) PROVE (q # <<>> <=> Elements(q) # {}) /\ Elements(q) \subseteq Threads
  OBVIOUS
<1>1. q # <<>> => Head(q) \in Elements(q)
  BY TailFacts
<1>2. q = <<>> => Elements(q) = {}
  BY EmptyFacts
<1>3. Elements(q) \subseteq Threads
  BY DEF Elements
<1> QED BY <1>1, <1>2, <1>3

(* The lowest number of a nonempty set is one of its numbers.               *)
LEMMA LowestIn ==
    ASSUME NEW S \in SUBSET Nat, S # {}
    PROVE  Lowest(S) \in S
<1> DEFINE R == OpToRel(<, Nat)
<1>1. IsWellFoundedOn(R, Nat)
  BY NatLessThanWellFounded
<1>2. \A m, n \in Nat : m < n => <<m, n>> \in R
  BY DEF OpToRel
<1> HIDE DEF R
<1>3. PICK n \in S : \A m \in S : ~ (<<m, n>> \in R)
  BY <1>1, WFMin
<1>4. \A m \in S : m \in Nat /\ n \in Nat /\ ~ (m < n)
  BY <1>2, <1>3
<1>5. \A m \in S : n <= m
  BY <1>4
<1> QED BY <1>5 DEF Lowest

-----------------------------------------------------------------------------
(* Objects                                                                  *)

(* The fields of an object.                                                 *)
LEMMA FieldFacts ==
    ASSUME NEW x \in Objects
    PROVE  /\ x.status \in {"unused", "live", "freed"} /\ x.owner \in Threads \cup {NoThread}
           /\ x.waitingLock \in Pointers /\ x.queue \in Seq(Threads)
BY DEF Objects, Pointers

(* All of an object but its status, and all of it.                          *)
SameInside(o, p, b) ==
    o[b].owner = p[b].owner /\ o[b].queue = p[b].queue /\ o[b].waitingLock = p[b].waitingLock

(* Lock::Acquire: the lock is taken, or the thread queues.                  *)
LEMMA TakeFacts ==
    ASSUME NEW o \in [Pointers -> Objects], NEW a \in Pointers, NEW t \in Threads
    PROVE  /\ Take(o, a, t) \in [Pointers -> Objects]
           /\ \A b \in Pointers : b # a => Take(o, a, t)[b] = o[b]
           /\ Take(o, a, t)[a].status = o[a].status
           /\ Take(o, a, t)[a].waitingLock = o[a].waitingLock
           /\ IF o[a].owner = NoThread
              THEN Take(o, a, t)[a].owner = t /\ Take(o, a, t)[a].queue = o[a].queue
              ELSE Take(o, a, t)[a].owner = o[a].owner /\ Take(o, a, t)[a].queue = Append(o[a].queue, t)
<1>0. PICK y \in Objects : y = o[a]
  OBVIOUS
<1>1. y.queue \in Seq(Threads)
  BY FieldFacts
<1>2. CASE o[a].owner = NoThread
  <2> DEFINE x == [y EXCEPT !.owner = t]
  <2>1. Take(o, a, t) = [o EXCEPT ![a] = x]
    BY <1>0, <1>2 DEF Take
  <2>2. /\ x \in Objects /\ x.owner = t /\ x.status = y.status /\ x.queue = y.queue
        /\ x.waitingLock = y.waitingLock
    BY DEF Objects
  <2> HIDE DEF x
  <2> QED BY <1>0, <1>2, <2>1, <2>2
<1>3. CASE o[a].owner # NoThread
  <2> DEFINE q == Append(y.queue, t)
  <2> DEFINE x == [y EXCEPT !.queue = q]
  <2>1. Take(o, a, t) = [o EXCEPT ![a] = x]
    BY <1>0, <1>3 DEF Take
  <2>2. q \in Seq(Threads)
    BY <1>1, AppendFacts
  <2> HIDE DEF q
  <2>3. /\ x \in Objects /\ x.owner = y.owner /\ x.status = y.status /\ x.queue = q
        /\ x.waitingLock = y.waitingLock
    BY <2>2 DEF Objects
  <2> HIDE DEF x
  <2> QED BY <1>0, <1>3, <2>1, <2>3 DEF q
<1> QED BY <1>2, <1>3

(* Lock::Release: the first in the queue gets the lock.                     *)
LEMMA PassOnFacts ==
    ASSUME NEW o \in [Pointers -> Objects], NEW a \in Pointers
    PROVE  /\ PassOn(o, a) \in [Pointers -> Objects]
           /\ \A b \in Pointers : b # a => PassOn(o, a)[b] = o[b]
           /\ PassOn(o, a)[a].status = o[a].status
           /\ PassOn(o, a)[a].waitingLock = o[a].waitingLock
           /\ IF o[a].queue = <<>>
              THEN PassOn(o, a)[a].owner = NoThread /\ PassOn(o, a)[a].queue = <<>>
              ELSE PassOn(o, a)[a].owner = Head(o[a].queue) /\ PassOn(o, a)[a].queue = Tail(o[a].queue)
<1>0. PICK y \in Objects : y = o[a]
  OBVIOUS
<1>1. y.queue \in Seq(Threads)
  BY FieldFacts
<1>2. CASE o[a].queue = <<>>
  <2> DEFINE x == [y EXCEPT !.owner = NoThread]
  <2>1. PassOn(o, a) = [o EXCEPT ![a] = x]
    BY <1>0, <1>2 DEF PassOn
  <2>2. /\ x \in Objects /\ x.owner = NoThread /\ x.status = y.status /\ x.queue = y.queue
        /\ x.waitingLock = y.waitingLock
    BY DEF Objects
  <2> HIDE DEF x
  <2> QED BY <1>0, <1>2, <2>1, <2>2
<1>3. CASE o[a].queue # <<>>
  <2> DEFINE h == Head(y.queue)
  <2> DEFINE q == Tail(y.queue)
  <2> DEFINE x == [y EXCEPT !.owner = h]
  <2> DEFINE z == [x EXCEPT !.queue = q]
  <2>0. h \in Threads /\ q \in Seq(Threads)
    BY <1>0, <1>1, <1>3, TailFacts
  <2>1. PassOn(o, a) = [o EXCEPT ![a] = [y EXCEPT !.owner = h, !.queue = q]]
    BY <1>0, <1>3 DEF PassOn
  <2> HIDE DEF h, q
  <2>2. /\ x \in Objects /\ x.owner = h /\ x.status = y.status /\ x.queue = y.queue
        /\ x.waitingLock = y.waitingLock
    BY <2>0 DEF Objects
  <2>3. PassOn(o, a) = [o EXCEPT ![a] = z]
    BY <2>1 DEF Objects
  <2> HIDE DEF x
  <2>4. /\ z \in Objects /\ z.owner = h /\ z.status = y.status /\ z.queue = q
        /\ z.waitingLock = y.waitingLock
    BY <2>0, <2>2 DEF Objects
  <2> HIDE DEF z
  <2> QED BY <1>0, <1>3, <2>3, <2>4 DEF h, q
<1> QED BY <1>2, <1>3

(* delete.                                                                  *)
LEMMA FreedFacts ==
    ASSUME NEW o \in [Pointers -> Objects], NEW a \in Pointers
    PROVE  /\ Freed(o, a) \in [Pointers -> Objects]
           /\ \A b \in Pointers : SameInside(Freed(o, a), o, b)
           /\ \A b \in Pointers : b # a => Freed(o, a)[b] = o[b]
           /\ Freed(o, a)[a].status = "freed"
<1> DEFINE x == [o[a] EXCEPT !.status = "freed"]
<1>1. Freed(o, a) = [o EXCEPT ![a] = x]
  BY DEF Freed
<1>2. /\ x \in Objects /\ x.owner = o[a].owner /\ x.status = "freed" /\ x.queue = o[a].queue
      /\ x.waitingLock = o[a].waitingLock
  <2>1. o[a] \in Objects
    OBVIOUS
  <2> QED BY <2>1 DEF Objects
<1> HIDE DEF x
<1> QED BY <1>1, <1>2 DEF SameInside

(* The end of Wait_Syscall.                                                 *)
LEMMA PostludeFacts ==
    ASSUME TypeOK, NEW o \in [Pointers -> Objects], NEW c \in Indices, NEW A, Postlude(c, o, A)
    PROVE  /\ obj' \in [Pointers -> Objects]
           /\ \A b \in Pointers : SameInside(obj', o, b)
           /\ \/ obj' = o /\ inUse' = inUse
              \/ /\ table["cond"][c].isToBeDeleted /\ o[The("cond", c)].queue = <<>>
                 /\ obj'[The("cond", c)].status = "freed"
                 /\ \A b \in Pointers : b # The("cond", c) => obj'[b] = o[b]
                 /\ inUse' = [inUse EXCEPT !["cond"] = inUse["cond"] \ {c}]
           /\ freedUse' = \/ \E a \in A : ~Live(a)
                          \/ table["cond"][c].isToBeDeleted /\ ~Live(The("cond", c))
           /\ table["cond"][c].isToBeDeleted /\ o[The("cond", c)].queue = <<>> =>
                 obj'[The("cond", c)].status = "freed"
<1> DEFINE e == table["cond"][c]
<1>1. e \in Entries /\ e.obj = The("cond", c) /\ e.obj \in Pointers /\ e.isToBeDeleted \in BOOLEAN
  BY DEF TypeOK, Entries, The, Pointers, Kinds
<1>2. CASE ~e.isToBeDeleted
  BY <1>1, <1>2 DEF Postlude, SameInside, Uses
<1>3. CASE e.isToBeDeleted
  <2>1. freedUse' = \E a \in A \cup {e.obj} : ~Live(a)
    BY <1>3 DEF Postlude, Uses
  <2>2. CASE o[e.obj].queue = <<>>
    <3>1. obj' = Freed(o, e.obj) /\ inUse' = [inUse EXCEPT !["cond"] = inUse["cond"] \ {c}]
      BY <1>3, <2>2 DEF Postlude
    <3> QED BY <1>1, <1>3, <2>1, <2>2, <3>1, FreedFacts
  <2>3. CASE o[e.obj].queue # <<>>
    <3>1. obj' = o /\ inUse' = inUse
      BY <1>3, <2>3 DEF Postlude
    <3> QED BY <1>1, <1>3, <2>1, <2>3, <3>1 DEF SameInside
  <2> QED BY <2>2, <2>3
<1> QED BY <1>1, <1>2, <1>3

-----------------------------------------------------------------------------
(* What each action does, and that it keeps the types                       *)

(* The entries but for acquireCount.                                        *)
SameEntries ==
    \A m \in Kinds, j \in Indices :
        /\ table'[m][j].obj = table[m][j].obj
        /\ table'[m][j].space = table[m][j].space
        /\ table'[m][j].isToBeDeleted = table[m][j].isToBeDeleted

OnlyPc(t, p) == pc' = [pc EXCEPT ![t] = p]

(* The types of an entry's fields.                                          *)
LEMMA EntryFacts ==
    ASSUME TypeOK, NEW k \in Kinds, NEW i \in Indices
    PROVE  /\ table[k][i] \in Entries /\ table[k] \in [Indices -> Entries]
           /\ The(k, i) \in Pointers
           /\ table[k][i].obj \in Pointers
           /\ table[k][i].space \in Spaces \cup {NoSpace}
           /\ table[k][i].isToBeDeleted \in BOOLEAN
           /\ table[k][i].acquireCount \in Int
BY DEF TypeOK, Entries, The, Pointers

(* Only the count of a lock's entry is assigned.                            *)
LEMMA CountStep ==
    ASSUME TypeOK, NEW i \in Indices, NEW n \in Int,
           table' = [table EXCEPT !["lock"][i].acquireCount = n]
    PROVE  table' \in [Kinds -> [Indices -> Entries]] /\ SameEntries
<1>1. "lock" \in Kinds
  BY DEF Kinds
<1>2. table["lock"][i] \in Entries
  BY <1>1, EntryFacts
<1>a. PICK e \in Entries : e = [table["lock"][i] EXCEPT !.acquireCount = n]
  BY <1>2 DEF Entries
<1>3. /\ e.obj = table["lock"][i].obj /\ e.space = table["lock"][i].space
      /\ e.isToBeDeleted = table["lock"][i].isToBeDeleted
  BY <1>2, <1>a DEF Entries
<1>4. PICK f \in [Indices -> Entries] : f = [table["lock"] EXCEPT ![i] = e]
  BY <1>1, EntryFacts
<1>b. f[i] = e /\ (\A j \in Indices : j # i => f[j] = table["lock"][j]) /\ table' = [table EXCEPT !["lock"] = f]
  BY <1>1, <1>a, <1>4, EntryFacts
<1>5. /\ table' \in [Kinds -> [Indices -> Entries]] /\ table'["lock"][i] = e
      /\ \A m \in Kinds, j \in Indices : m # "lock" \/ j # i => table'[m][j] = table[m][j]
  BY <1>1, <1>b DEF TypeOK
<1> QED BY <1>3, <1>5 DEF SameEntries

(* Only the mark of an entry is set.                                        *)
LEMMA MarkStep ==
    ASSUME TypeOK, NEW k \in Kinds, NEW i \in Indices,
           table' = [table EXCEPT ![k][i].isToBeDeleted = TRUE]
    PROVE  /\ table' \in [Kinds -> [Indices -> Entries]]
           /\ table'[k][i].isToBeDeleted
           /\ \A m \in Kinds, j \in Indices :
                 /\ table'[m][j].obj = table[m][j].obj
                 /\ table'[m][j].space = table[m][j].space
                 /\ m # k \/ j # i => table'[m][j].isToBeDeleted = table[m][j].isToBeDeleted
<1>2. table[k][i] \in Entries
  BY EntryFacts
<1>a. PICK e \in Entries : e = [table[k][i] EXCEPT !.isToBeDeleted = TRUE]
  BY <1>2 DEF Entries
<1>3. e.obj = table[k][i].obj /\ e.space = table[k][i].space /\ e.isToBeDeleted
  BY <1>2, <1>a DEF Entries
<1>4. PICK f \in [Indices -> Entries] : f = [table[k] EXCEPT ![i] = e]
  BY EntryFacts
<1>b. f[i] = e /\ (\A j \in Indices : j # i => f[j] = table[k][j]) /\ table' = [table EXCEPT ![k] = f]
  BY <1>a, <1>4, EntryFacts
<1>5. /\ table' \in [Kinds -> [Indices -> Entries]] /\ table'[k][i] = e
      /\ \A m \in Kinds, j \in Indices : m # k \/ j # i => table'[m][j] = table[m][j]
  BY <1>b DEF TypeOK
<1> QED BY <1>3, <1>5

(* One field of a thread's local variables is assigned, or all of them.     *)
LEMMA LocStep ==
    ASSUME TypeOK, NEW t \in Threads
    PROVE  /\ loc[t] \in Locals /\ loc[t].kind \in Kinds /\ loc[t].index \in Indices
           /\ loc[t].lock \in Pointers
           /\ \A k \in Kinds : loc' = [loc EXCEPT ![t].kind = k] =>
                 /\ loc' \in [Threads -> Locals]
                 /\ \A u \in Threads : u # t => loc'[u] = loc[u]
                 /\ loc'[t].kind = k /\ loc'[t].lock = loc[t].lock
           /\ \A i \in Indices : loc' = [loc EXCEPT ![t].index = i] =>
                 /\ loc' \in [Threads -> Locals]
                 /\ \A u \in Threads : u # t => loc'[u] = loc[u]
                 /\ loc'[t].index = i /\ loc'[t].lock = loc[t].lock /\ loc'[t].kind = loc[t].kind
           /\ \A x \in Locals : loc' = [loc EXCEPT ![t] = x] =>
                 /\ loc' \in [Threads -> Locals]
                 /\ \A u \in Threads : u # t => loc'[u] = loc[u]
                 /\ loc'[t] = x
           /\ NoLocals \in Locals /\ NoLocals.lock = NoAddr
<1>0. loc \in [Threads -> Locals]
  BY DEF TypeOK
<1>1. loc[t] \in Locals
  BY <1>0
<1>2. loc[t].kind \in Kinds /\ loc[t].index \in Indices /\ loc[t].lock \in Pointers
  BY <1>1 DEF Locals, Pointers
<1>3. ASSUME NEW x \in Locals, loc' = [loc EXCEPT ![t] = x]
      PROVE  /\ loc' \in [Threads -> Locals]
             /\ \A u \in Threads : u # t => loc'[u] = loc[u]
             /\ loc'[t] = x
  BY <1>0, <1>3
<1>4. ASSUME NEW k \in Kinds, loc' = [loc EXCEPT ![t].kind = k]
      PROVE  /\ loc' \in [Threads -> Locals]
             /\ \A u \in Threads : u # t => loc'[u] = loc[u]
             /\ loc'[t].kind = k /\ loc'[t].lock = loc[t].lock
  <2> DEFINE x == [loc[t] EXCEPT !.kind = k]
  <2>1. x \in Locals /\ x.kind = k /\ x.lock = loc[t].lock
    BY <1>1 DEF Locals
  <2>2. loc' = [loc EXCEPT ![t] = x]
    BY <1>4
  <2> HIDE DEF x
  <2> QED BY <1>3, <2>1, <2>2
<1>5. ASSUME NEW i \in Indices, loc' = [loc EXCEPT ![t].index = i]
      PROVE  /\ loc' \in [Threads -> Locals]
             /\ \A u \in Threads : u # t => loc'[u] = loc[u]
             /\ loc'[t].index = i /\ loc'[t].lock = loc[t].lock /\ loc'[t].kind = loc[t].kind
  <2> DEFINE x == [loc[t] EXCEPT !.index = i]
  <2>1. x \in Locals /\ x.index = i /\ x.lock = loc[t].lock /\ x.kind = loc[t].kind
    BY <1>1 DEF Locals
  <2>2. loc' = [loc EXCEPT ![t] = x]
    BY <1>5
  <2> HIDE DEF x
  <2> QED BY <1>3, <2>1, <2>2
<1>6. NoLocals \in Locals /\ NoLocals.lock = NoAddr
  BY SyncAssumption DEF NoLocals, Locals, Kinds, Indices
<1> QED BY <1>1, <1>2, <1>3, <1>4, <1>5, <1>6

(* Create, up to the table's lock.                                         *)
LEMMA CreateFacts ==
    ASSUME TypeOK, NEW t \in Threads, NEW k \in Kinds, Create(t, k)
    PROVE  /\ TypeOK'
           /\ OnlyPc(t, "find") /\ pc[t] = "user"
           /\ loc'[t].kind = k /\ loc'[t].lock = loc[t].lock
           /\ \A u \in Threads : u # t => loc'[u] = loc[u]
           /\ UNCHANGED <<inUse, table, obj, processIDLock, halted, freedUse,
                         handles, destroyers, style>>
<1>1. /\ OnlyPc(t, "find") /\ pc[t] = "user" /\ loc' = [loc EXCEPT ![t].kind = k]
      /\ tableLock' = [tableLock EXCEPT ![k] = t]
      /\ UNCHANGED <<inUse, table, obj, processIDLock, halted, freedUse,
                         handles, destroyers, style>>
  BY DEF Create, InUser, OnlyPc, objVars, progVars
<1>2. /\ loc' \in [Threads -> Locals] /\ loc'[t].kind = k /\ loc'[t].lock = loc[t].lock
      /\ \A u \in Threads : u # t => loc'[u] = loc[u]
  BY <1>1, LocStep
<1>3. TypeOK'
  BY <1>1, <1>2 DEF TypeOK, OnlyPc, Places
<1> QED BY <1>1, <1>2, <1>3

(* Acquire_Syscall: the count, and Lock::Acquire.                           *)
LEMMA AcquireFacts ==
    ASSUME TypeOK, NEW t \in Threads, NEW i \in Indices, Acquire(t, i)
    PROVE  /\ TypeOK' /\ SameEntries
           /\ pc[t] = "user" /\ Refers(t, "lock", i)
           /\ "unbalanced" \in style.waived \/ ~Owns(t, i)
           /\ freedUse' = ~Live(The("lock", i))
           /\ \/ UNCHANGED <<obj, pc, loc>> /\ Owns(t, i)
              \/ /\ obj[The("lock", i)].owner = NoThread
                 /\ obj' = Take(obj, The("lock", i), t)
                 /\ UNCHANGED <<pc, loc>>
              \/ /\ obj[The("lock", i)].owner \notin {t, NoThread}
                 /\ obj' = Take(obj, The("lock", i), t)
                 /\ OnlyPc(t, "Acquire")
                 /\ loc'[t].index = i /\ loc'[t].lock = loc[t].lock
                 /\ \A u \in Threads : u # t => loc'[u] = loc[u]
           /\ UNCHANGED <<inUse, tableLock, processIDLock, halted, handles, destroyers, style>>
<1> DEFINE a == The("lock", i)
<1>0. "lock" \in Kinds
  BY DEF Kinds
<1>a. a \in Pointers /\ table["lock"][i].acquireCount \in Int
  BY <1>0, EntryFacts
<1>1. /\ pc[t] = "user" /\ Refers(t, "lock", i) /\ ("unbalanced" \in style.waived \/ ~Owns(t, i))
      /\ UNCHANGED <<inUse, tableLock, processIDLock, halted, handles, destroyers, style>>
      /\ freedUse' = ~Live(a)
  BY DEF Acquire, InUser, progVars, Uses
<1>2. PICK n \in Int : n = table["lock"][i].acquireCount + 1
  BY <1>a
<1>3. table' = [table EXCEPT !["lock"][i].acquireCount = n]
  BY <1>2 DEF Acquire
<1>4. table' \in [Kinds -> [Indices -> Entries]] /\ SameEntries
  BY <1>3, CountStep
<1>5. \/ UNCHANGED <<obj, pc, loc>> /\ Owns(t, i)
      \/ /\ obj[a].owner = NoThread
         /\ obj' = Take(obj, a, t)
         /\ UNCHANGED <<pc, loc>>
      \/ /\ obj[a].owner \notin {t, NoThread}
         /\ obj' = Take(obj, a, t)
         /\ OnlyPc(t, "Acquire")
         /\ loc' = [loc EXCEPT ![t].index = i]
  BY DEF Acquire, OnlyPc
<1> HIDE DEF a
<1>6. obj \in [Pointers -> Objects] /\ pc \in [Threads -> Places] /\ loc \in [Threads -> Locals]
  BY DEF TypeOK, Pointers
<1>7. obj' \in [Pointers -> Objects]
  BY <1>a, <1>5, <1>6, TakeFacts
<1>8. loc' = [loc EXCEPT ![t].index = i] =>
      /\ loc' \in [Threads -> Locals] /\ loc'[t].index = i /\ loc'[t].lock = loc[t].lock
      /\ \A u \in Threads : u # t => loc'[u] = loc[u]
  BY LocStep
<1>9. pc' \in [Threads -> Places] /\ loc' \in [Threads -> Locals]
  BY <1>5, <1>6, <1>8 DEF OnlyPc, Places
<1>10. TypeOK'
  BY <1>1, <1>4, <1>7, <1>9 DEF TypeOK, Pointers
<1> QED BY <1>1, <1>4, <1>5, <1>8, <1>10 DEF a

(* Create, BitMap::Find.                                                    *)
LEMMA FindFacts ==
    ASSUME TypeOK, NEW t \in Threads, Find(t)
    PROVE  /\ TypeOK' /\ pc[t] = "find"
           /\ \/ UNCHANGED <<inUse, pc, loc>>
              \/ /\ loc'[t].index \in Indices \ inUse[loc[t].kind]
                 /\ loc'[t].kind = loc[t].kind /\ loc'[t].lock = loc[t].lock
                 /\ \A u \in Threads : u # t => loc'[u] = loc[u]
                 /\ inUse' = [inUse EXCEPT ![loc[t].kind] = inUse[loc[t].kind] \cup {loc'[t].index}]
                 /\ OnlyPc(t, "init")
           /\ UNCHANGED <<table, obj, processIDLock, freedUse, handles, destroyers, style>>
<1>0. PICK k \in Kinds : k = loc[t].kind
  BY LocStep
<1>a. inUse \in [Kinds -> SUBSET Indices] /\ inUse[k] \subseteq Indices
  BY DEF TypeOK
<1>1. pc[t] = "find" /\ UNCHANGED <<table, obj, processIDLock, freedUse, handles, destroyers, style>>
  BY DEF Find, progVars
<1>2. CASE inUse[k] = Indices
  <2>1. halted' = TRUE /\ UNCHANGED <<inUse, tableLock, pc, loc>>
    BY <1>0, <1>2 DEF Find
  <2>2. TypeOK'
    BY <1>1, <2>1 DEF TypeOK
  <2> QED BY <1>1, <2>1, <2>2
<1>3. CASE inUse[k] # Indices
  <2>1. Indices \ inUse[k] \in SUBSET Nat /\ Indices \ inUse[k] # {}
    <3>1. \A n \in Indices : n \in Nat
      BY SyncAssumption DEF Indices
    <3>2. Indices \ inUse[k] # {}
      BY <1>a, <1>3
    <3> QED BY <3>1, <3>2
  <2>a. PICK S \in SUBSET Nat : S = Indices \ inUse[k]
    BY <2>1
  <2>b. Lowest(S) \in S
    BY <2>1, <2>a, LowestIn
  <2>2. PICK i \in Indices \ inUse[k] : i = FirstClear(k)
    BY <2>a, <2>b DEF FirstClear
  <2>3. /\ inUse' = [inUse EXCEPT ![k] = inUse[k] \cup {i}]
        /\ loc' = [loc EXCEPT ![t].index = i]
        /\ tableLock' = [tableLock EXCEPT ![k] = NoThread]
        /\ OnlyPc(t, "init") /\ UNCHANGED halted
    BY <1>0, <1>3, <2>2 DEF Find, Reserve, OnlyPc
  <2>4. /\ loc' \in [Threads -> Locals] /\ loc'[t].index = i /\ loc'[t].lock = loc[t].lock
        /\ loc'[t].kind = loc[t].kind /\ \A u \in Threads : u # t => loc'[u] = loc[u]
    BY <2>2, <2>3, LocStep
  <2>5. TypeOK'
    BY <1>1, <2>2, <2>3, <2>4 DEF TypeOK, OnlyPc, Places
  <2> QED BY <1>0, <1>1, <2>2, <2>3, <2>4, <2>5
<1> QED BY <1>2, <1>3

(* Create, the new object and its entry.                                    *)
LEMMA InitFacts ==
    ASSUME TypeOK, NEW t \in Threads, InitEntry(t)
    PROVE  /\ TypeOK' /\ pc[t] = "init"
           /\ \E a \in Addrs :
                 /\ obj[a].status = "unused" /\ obj'[a].status = "live"
                 /\ SameInside(obj', obj, a)
                 /\ \A b \in Pointers : b # a => obj'[b] = obj[b]
                 /\ table'[loc[t].kind][loc[t].index].obj = a
           /\ table'[loc[t].kind][loc[t].index].space = Space[t]
           /\ ~table'[loc[t].kind][loc[t].index].isToBeDeleted
           /\ \A m \in Kinds, j \in Indices : m # loc[t].kind \/ j # loc[t].index =>
                 table'[m][j] = table[m][j]
           /\ \A m \in Kinds, s \in Spaces : handles'[m][s] =
                 IF m = loc[t].kind /\ s = Space[t] THEN handles[m][s] \cup {loc[t].index}
                 ELSE handles[m][s]
           /\ OnlyPc(t, "user") /\ loc' = [loc EXCEPT ![t] = NoLocals]
           /\ UNCHANGED <<inUse, tableLock, processIDLock, halted, freedUse, destroyers, style>>
<1>0. PICK k \in Kinds, i \in Indices, s \in Spaces : k = loc[t].kind /\ i = loc[t].index /\ s = Space[t]
  BY LocStep, SyncAssumption
<1>1. /\ pc[t] = "init" /\ OnlyPc(t, "user") /\ loc' = [loc EXCEPT ![t] = NoLocals]
      /\ UNCHANGED <<inUse, tableLock, processIDLock, halted, freedUse, destroyers, style>>
      /\ handles' = [handles EXCEPT ![k][s] = handles[k][s] \cup {i}]
  BY <1>0 DEF InitEntry, OnlyPc
<1>a. PICK a \in Addrs :
             /\ obj[a].status = "unused"
             /\ obj' = [obj EXCEPT ![a].status = "live"]
             /\ table' = [table EXCEPT ![loc[t].kind][loc[t].index] =
                             NewEntry(loc[t].kind, loc[t].index, a, Space[t])]
  BY Zenon DEF InitEntry
<1>2. /\ obj[a].status = "unused"
      /\ obj' = [obj EXCEPT ![a].status = "live"]
      /\ table' = [table EXCEPT ![k][i] = NewEntry(k, i, a, s)]
  BY <1>0, <1>a
<1>b. NewEntry(k, i, a, s) \in Entries
  BY DEF NewEntry, Entries
<1>c. PICK e \in Entries : e = NewEntry(k, i, a, s)
  BY <1>b
<1>3. e = NewEntry(k, i, a, s) /\ e.obj = a /\ e.space = s /\ ~e.isToBeDeleted
  BY <1>c DEF NewEntry
<1>4. PICK f \in [Indices -> Entries] : f = [table[k] EXCEPT ![i] = e]
  BY EntryFacts
<1>5. f[i] = e /\ (\A j \in Indices : j # i => f[j] = table[k][j]) /\ table' = [table EXCEPT ![k] = f]
  BY <1>2, <1>3, <1>4, EntryFacts
<1>6. /\ table' \in [Kinds -> [Indices -> Entries]] /\ table'[k][i] = e
      /\ \A m \in Kinds, j \in Indices : m # k \/ j # i => table'[m][j] = table[m][j]
  BY <1>5 DEF TypeOK
<1>7. PICK y \in Objects : y = obj[a]
  BY DEF TypeOK, Pointers
<1>8. PICK x \in Objects : x = [y EXCEPT !.status = "live"]
  BY DEF Objects
<1>9. /\ x.status = "live" /\ x.owner = y.owner /\ x.queue = y.queue
      /\ x.waitingLock = y.waitingLock
  BY <1>8 DEF Objects
<1>10. obj' = [obj EXCEPT ![a] = x]
  BY <1>2, <1>7, <1>8
<1>11. /\ obj' \in [Pointers -> Objects] /\ obj'[a] = x
       /\ \A b \in Pointers : b # a => obj'[b] = obj[b]
  BY <1>10 DEF TypeOK, Pointers
<1>12. SameInside(obj', obj, a)
  BY <1>7, <1>9, <1>11 DEF SameInside
<1>13. loc' \in [Threads -> Locals]
  BY <1>1, LocStep
<1>14. /\ handles' \in [Kinds -> [Spaces -> SUBSET Indices]]
       /\ \A m \in Kinds, r \in Spaces : handles'[m][r] =
                 IF m = k /\ r = s THEN handles[m][r] \cup {i} ELSE handles[m][r]
  <2>1. handles \in [Kinds -> [Spaces -> SUBSET Indices]] /\ handles[k] \in [Spaces -> SUBSET Indices]
    BY DEF TypeOK
  <2>2. PICK h \in [Spaces -> SUBSET Indices] : h = [handles[k] EXCEPT ![s] = handles[k][s] \cup {i}]
    BY <2>1
  <2>3. handles' = [handles EXCEPT ![k] = h]
    BY <1>1, <2>2
  <2>4. \A r \in Spaces : h[r] = IF r = s THEN handles[k][r] \cup {i} ELSE handles[k][r]
    BY <2>1, <2>2
  <2>5. /\ handles' \in [Kinds -> [Spaces -> SUBSET Indices]]
        /\ handles'[k] = h /\ \A m \in Kinds : m # k => handles'[m] = handles[m]
    BY <2>1, <2>3
  <2>6. ASSUME NEW m \in Kinds, NEW r \in Spaces
        PROVE  handles'[m][r] = IF m = k /\ r = s THEN handles[m][r] \cup {i} ELSE handles[m][r]
    <3>1. CASE m = k
      BY <2>4, <2>5, <3>1
    <3>2. CASE m # k
      BY <2>5, <3>2
    <3> QED BY <3>1, <3>2
  <2> QED BY <2>5, <2>6
<1>15. TypeOK'
  BY <1>1, <1>6, <1>11, <1>13, <1>14 DEF TypeOK, Pointers, OnlyPc, Places
<1>16. table'[k][i].obj = a /\ table'[k][i].space = s /\ ~table'[k][i].isToBeDeleted
  BY <1>3, <1>6
<1>17. \E b \in Addrs :
          /\ obj[b].status = "unused" /\ obj'[b].status = "live" /\ SameInside(obj', obj, b)
          /\ \A d \in Pointers : d # b => obj'[d] = obj[d]
          /\ table'[k][i].obj = b
  BY <1>2, <1>9, <1>11, <1>12, <1>16
<1>18. /\ \A m \in Kinds, j \in Indices : m # loc[t].kind \/ j # loc[t].index =>
                 table'[m][j] = table[m][j]
       /\ \A m \in Kinds, r \in Spaces : handles'[m][r] =
                 IF m = loc[t].kind /\ r = Space[t] THEN handles[m][r] \cup {loc[t].index}
                 ELSE handles[m][r]
  BY <1>0, <1>6, <1>14
<1> QED BY <1>0, <1>1, <1>15, <1>16, <1>17, <1>18

(* A lock is passed on: its new owner runs again.                           *)
LEMMA PassOnPcFacts ==
    ASSUME TypeOK, NEW a \in Pointers
    PROVE  /\ PassOnPc(a) \in [Threads -> Places]
           /\ obj[a].queue = <<>> => PassOnPc(a) = pc
           /\ obj[a].queue # <<>> => \A u \in Threads : PassOnPc(a)[u] =
                 IF u # Head(obj[a].queue) THEN pc[u]
                 ELSE IF pc[u] = "Acquire" THEN "user" ELSE "postlude"
<1>1. CASE obj[a].queue = <<>>
  BY <1>1 DEF PassOnPc, TypeOK
<1>2. CASE obj[a].queue # <<>>
  <2>1. obj[a] \in Objects /\ pc \in [Threads -> Places]
    BY DEF TypeOK, Pointers
  <2>2. obj[a].queue \in Seq(Threads)
    BY <2>1, FieldFacts
  <2>3. PICK h \in Threads : h = Head(obj[a].queue)
    BY <1>2, <2>2, TailFacts
  <2>4. PassOnPc(a) = [pc EXCEPT ![h] = IF pc[h] = "Acquire" THEN "user" ELSE "postlude"]
    BY <1>2, <2>3 DEF PassOnPc
  <2> QED BY <1>2, <2>1, <2>3, <2>4 DEF Places
<1> QED BY <1>1, <1>2

(* A process gives up an index.                                             *)
LEMMA HandleStep ==
    ASSUME TypeOK, NEW k \in Kinds, NEW s \in Spaces, NEW i \in Indices,
           handles' = [handles EXCEPT ![k][s] = handles[k][s] \ {i}]
    PROVE  /\ handles' \in [Kinds -> [Spaces -> SUBSET Indices]]
           /\ \A m \in Kinds, r \in Spaces : handles'[m][r] =
                 IF m = k /\ r = s THEN handles[m][r] \ {i} ELSE handles[m][r]
  <2>1. handles \in [Kinds -> [Spaces -> SUBSET Indices]] /\ handles[k] \in [Spaces -> SUBSET Indices]
    BY DEF TypeOK
  <2>2. PICK h \in [Spaces -> SUBSET Indices] : h = [handles[k] EXCEPT ![s] = handles[k][s] \ {i}]
    BY <2>1
  <2>3. handles' = [handles EXCEPT ![k] = h]
    BY <2>2
  <2>4. \A r \in Spaces : h[r] = IF r = s THEN handles[k][r] \ {i} ELSE handles[k][r]
    BY <2>1, <2>2
  <2>5. /\ handles' \in [Kinds -> [Spaces -> SUBSET Indices]]
        /\ handles'[k] = h /\ \A m \in Kinds : m # k => handles'[m] = handles[m]
    BY <2>1, <2>3
  <2>6. ASSUME NEW m \in Kinds, NEW r \in Spaces
        PROVE  handles'[m][r] = IF m = k /\ r = s THEN handles[m][r] \ {i} ELSE handles[m][r]
    <3>1. CASE m = k
      BY <2>4, <2>5, <3>1
    <3>2. CASE m # k
      BY <2>5, <3>2
    <3> QED BY <3>1, <3>2
  <2> QED BY <2>5, <2>6

(* Release_Syscall: the count, Lock::Release, and the deletion it may do.   *)
LEMMA ReleaseFacts ==
    ASSUME TypeOK, NEW t \in Threads, NEW i \in Indices, Release(t, i),
           NEW a, a = The("lock", i)
    PROVE  /\ TypeOK' /\ SameEntries /\ a \in Pointers
           /\ pc[t] = "user" /\ Refers(t, "lock", i)
           /\ "unbalanced" \in style.waived \/ Owns(t, i)
           /\ freedUse' = ~Live(a)
           /\ IF Owns(t, i)
              THEN pc' = PassOnPc(a) /\ \A b \in Pointers : SameInside(obj', PassOn(obj, a), b)
              ELSE pc' = pc /\ \A b \in Pointers : SameInside(obj', obj, b)
           /\ \/ inUse' = inUse /\ \A b \in Pointers : obj'[b].status = obj[b].status
              \/ /\ table["lock"][i].isToBeDeleted /\ obj'[a].status = "freed"
                 /\ \A b \in Pointers : b # a => obj'[b].status = obj[b].status
                 /\ inUse' = [inUse EXCEPT !["lock"] = inUse["lock"] \ {i}]
           /\ UNCHANGED <<tableLock, loc, processIDLock, halted, handles, destroyers, style>>
<1>0. "lock" \in Kinds
  BY DEF Kinds
<1>a. a \in Pointers /\ table["lock"][i].acquireCount \in Int
  BY <1>0, EntryFacts
<1>b. obj \in [Pointers -> Objects] /\ pc \in [Threads -> Places] /\ inUse \in [Kinds -> SUBSET Indices]
  BY DEF TypeOK, Pointers
<1>1. /\ pc[t] = "user" /\ Refers(t, "lock", i) /\ ("unbalanced" \in style.waived \/ Owns(t, i))
      /\ freedUse' = ~Live(a) /\ pc' = IF Owns(t, i) THEN PassOnPc(a) ELSE pc
      /\ UNCHANGED <<tableLock, loc, processIDLock, halted, handles, destroyers, style>>
  BY DEF Release, InUser, progVars, Uses
<1>2. PICK n \in Int : n = CountAfterRelease(i)
  BY <1>a DEF CountAfterRelease
<1>3. table' = [table EXCEPT !["lock"][i].acquireCount = n]
  BY <1>2 DEF Release
<1>4. table' \in [Kinds -> [Indices -> Entries]] /\ SameEntries
  BY <1>3, CountStep
<1>5. PICK o \in [Pointers -> Objects] : o = IF Owns(t, i) THEN PassOn(obj, a) ELSE obj
  BY <1>a, <1>b, PassOnFacts
<1>6. \A b \in Pointers : o[b].status = obj[b].status
  <2>1. \A b \in Pointers : b # a => PassOn(obj, a)[b] = obj[b]
    BY <1>a, <1>b, PassOnFacts
  <2>2. PassOn(obj, a)[a].status = obj[a].status
    BY <1>a, <1>b, PassOnFacts
  <2> QED BY <1>5, <2>1, <2>2
<1>7. \/ obj' = o /\ inUse' = inUse
      \/ /\ table["lock"][i].isToBeDeleted /\ obj' = Freed(o, a)
         /\ inUse' = [inUse EXCEPT !["lock"] = inUse["lock"] \ {i}]
  BY <1>5 DEF Release
<1>8. /\ obj' \in [Pointers -> Objects] /\ \A b \in Pointers : SameInside(obj', o, b)
      /\ \/ inUse' = inUse /\ \A b \in Pointers : obj'[b].status = obj[b].status
         \/ /\ table["lock"][i].isToBeDeleted /\ obj'[a].status = "freed"
            /\ \A b \in Pointers : b # a => obj'[b].status = obj[b].status
            /\ inUse' = [inUse EXCEPT !["lock"] = inUse["lock"] \ {i}]
  <2>1. CASE obj' = o /\ inUse' = inUse
    BY <1>6, <2>1 DEF SameInside
  <2>2. CASE /\ table["lock"][i].isToBeDeleted /\ obj' = Freed(o, a)
             /\ inUse' = [inUse EXCEPT !["lock"] = inUse["lock"] \ {i}]
    <3>1. /\ Freed(o, a) \in [Pointers -> Objects] /\ Freed(o, a)[a].status = "freed"
          /\ \A b \in Pointers : SameInside(Freed(o, a), o, b)
          /\ \A b \in Pointers : b # a => Freed(o, a)[b] = o[b]
      BY <1>a, FreedFacts
    <3> QED BY <1>6, <2>2, <3>1
  <2> QED BY <1>7, <2>1, <2>2
<1>9. pc' \in [Threads -> Places] /\ inUse' \in [Kinds -> SUBSET Indices]
  BY <1>a, <1>b, <1>1, <1>8, PassOnPcFacts
<1>10. TypeOK'
  BY <1>1, <1>4, <1>8, <1>9 DEF TypeOK, Pointers
<1> QED BY <1>a, <1>1, <1>4, <1>5, <1>8, <1>10

(* The process of t no longer has the index.                                *)
GivesBack(t, k, i) ==
    \A m \in Kinds, r \in Spaces : handles'[m][r] =
        IF m = k /\ r = Space[t] THEN handles[m][r] \ {i} ELSE handles[m][r]

(* DestroyLock: the lock is deleted or marked.                              *)
LEMMA DestroyLockFacts ==
    ASSUME TypeOK, NEW t \in Threads, NEW i \in Indices, DestroyLock(t, i),
           NEW a, a = The("lock", i)
    PROVE  /\ TypeOK' /\ "Destroy" \in style.calls /\ a \in Pointers
           /\ pc[t] = "user" /\ Refers(t, "lock", i)
           /\ \/ "inUse" \in style.waived
              \/ obj[a].owner = NoThread /\ \A u \in Threads : InWait(u) => loc[u].lock # a
           /\ freedUse' = ~Live(a)
           /\ \A m \in Kinds, j \in Indices :
                 table'[m][j].obj = table[m][j].obj /\ table'[m][j].space = table[m][j].space
           /\ \A b \in Pointers : SameInside(obj', obj, b)
           /\ \/ /\ obj'[a].status = "freed" /\ table' = table
                 /\ \A b \in Pointers : b # a => obj'[b].status = obj[b].status
                 /\ inUse' = [inUse EXCEPT !["lock"] = inUse["lock"] \ {i}]
              \/ obj[a].owner # NoThread /\ UNCHANGED <<obj, inUse>>
           /\ GivesBack(t, "lock", i)
           /\ destroyers' = destroyers \cup {Space[t]}
           /\ UNCHANGED <<tableLock, pc, loc, processIDLock, halted, style>>
<1>0. "lock" \in Kinds /\ Space[t] \in Spaces
  BY SyncAssumption DEF Kinds
<1>a. a \in Pointers
  BY <1>0, EntryFacts
<1>b. obj \in [Pointers -> Objects] /\ inUse \in [Kinds -> SUBSET Indices]
      /\ table \in [Kinds -> [Indices -> Entries]]
  BY DEF TypeOK, Pointers
<1>1. /\ "Destroy" \in style.calls /\ pc[t] = "user" /\ Refers(t, "lock", i)
      /\ \/ "inUse" \in style.waived
         \/ obj[a].owner = NoThread /\ \A u \in Threads : InWait(u) => loc[u].lock # a
      /\ freedUse' = ~Live(a) /\ destroyers' = destroyers \cup {Space[t]}
      /\ UNCHANGED <<tableLock, pc, loc, processIDLock, halted, style>>
  BY DEF DestroyLock, InUser, Uses
<1>2. handles' = [handles EXCEPT !["lock"][Space[t]] = handles["lock"][Space[t]] \ {i}]
  BY DEF DestroyLock
<1>3. handles' \in [Kinds -> [Spaces -> SUBSET Indices]] /\ GivesBack(t, "lock", i)
  BY <1>0, <1>2, HandleStep DEF GivesBack
<1>4. \/ obj' = Freed(obj, a) /\ inUse' = [inUse EXCEPT !["lock"] = inUse["lock"] \ {i}] /\ table' = table
      \/ /\ table' = [table EXCEPT !["lock"][i].isToBeDeleted = TRUE] /\ obj[a].owner # NoThread
         /\ UNCHANGED <<obj, inUse>>
  BY DEF DestroyLock
<1>5. CASE obj' = Freed(obj, a) /\ inUse' = [inUse EXCEPT !["lock"] = inUse["lock"] \ {i}] /\ table' = table
  <2>1. /\ Freed(obj, a) \in [Pointers -> Objects] /\ Freed(obj, a)[a].status = "freed"
        /\ \A b \in Pointers : SameInside(Freed(obj, a), obj, b)
        /\ \A b \in Pointers : b # a => Freed(obj, a)[b] = obj[b]
    BY <1>a, <1>b, FreedFacts
  <2>2. inUse' \in [Kinds -> SUBSET Indices]
    BY <1>b, <1>5
  <2>3. TypeOK'
    BY <1>0, <1>1, <1>3, <1>5, <2>1, <2>2 DEF TypeOK, Pointers
  <2> QED BY <1>a, <1>1, <1>3, <1>5, <2>1, <2>3
<1>6. CASE /\ table' = [table EXCEPT !["lock"][i].isToBeDeleted = TRUE] /\ obj[a].owner # NoThread
           /\ UNCHANGED <<obj, inUse>>
  <2>1. /\ table' \in [Kinds -> [Indices -> Entries]]
        /\ \A m \in Kinds, j \in Indices :
              table'[m][j].obj = table[m][j].obj /\ table'[m][j].space = table[m][j].space
    BY <1>0, <1>6, MarkStep
  <2>2. TypeOK'
    BY <1>0, <1>1, <1>3, <1>6, <2>1 DEF TypeOK
  <2> QED BY <1>a, <1>1, <1>3, <1>6, <2>1, <2>2 DEF SameInside
<1> QED BY <1>4, <1>5, <1>6

(* Wait returns at once, or the thread sleeps.                              *)
WaitRefused(c, v, l) ==
    /\ UNCHANGED <<pc, loc>>
    /\ freedUse' = \/ ~Live(v) \/ ~Live(l)
                   \/ table["cond"][c].isToBeDeleted /\ ~Live(v)
    /\ \A b \in Pointers : obj'[b].owner = obj[b].owner /\ obj'[b].queue = obj[b].queue
    /\ \/ inUse' = inUse /\ \A b \in Pointers : obj'[b].status = obj[b].status
       \/ /\ table["cond"][c].isToBeDeleted /\ obj'[v].status = "freed"
          /\ \A b \in Pointers : b # v => obj'[b].status = obj[b].status
          /\ inUse' = [inUse EXCEPT !["cond"] = inUse["cond"] \ {c}]

WaitAsleep(t, c, i, v, l) ==
    /\ Owns(t, i) /\ inUse' = inUse
    /\ freedUse' = (~Live(v) \/ ~Live(l))
    /\ \A b \in Pointers : /\ obj'[b].status = obj[b].status
                           /\ obj'[b].owner = PassOn(obj, l)[b].owner
    /\ \A b \in Pointers : b # v => obj'[b].queue = PassOn(obj, l)[b].queue
    /\ obj'[v].queue = Append(PassOn(obj, l)[v].queue, t)
    /\ pc' = [PassOnPc(l) EXCEPT ![t] = "Wait"]
    /\ loc'[t].index = c /\ loc'[t].lock = l
    /\ \A u \in Threads : u # t => loc'[u] = loc[u]

(* Wait_Syscall, up to the sleep or the refusal.                            *)
LEMMA WaitFacts ==
    ASSUME TypeOK, NEW t \in Threads, NEW c \in Indices, NEW i \in Indices, Wait(t, c, i),
           NEW v, v = The("cond", c), NEW l, l = The("lock", i)
    PROVE  /\ TypeOK' /\ v \in Pointers /\ l \in Pointers
           /\ pc[t] = "user" /\ Refers(t, "cond", c) /\ Refers(t, "lock", i)
           /\ WaitRefused(c, v, l) \/ WaitAsleep(t, c, i, v, l)
           /\ UNCHANGED <<table, tableLock, processIDLock, halted, handles, destroyers, style>>
<1>0. "lock" \in Kinds /\ "cond" \in Kinds
  BY DEF Kinds
<1>a. v \in Pointers /\ l \in Pointers
  BY <1>0, EntryFacts
<1>b. obj \in [Pointers -> Objects] /\ inUse \in [Kinds -> SUBSET Indices]
      /\ pc \in [Threads -> Places] /\ loc \in [Threads -> Locals]
  BY DEF TypeOK, Pointers
<1>1. /\ pc[t] = "user" /\ Refers(t, "cond", c) /\ Refers(t, "lock", i)
      /\ UNCHANGED <<table, tableLock, processIDLock, halted, handles, destroyers, style>>
  BY DEF Wait, InUser, progVars
<1>2. PICK y \in Objects : y = obj[v]
  BY <1>a, <1>b
<1>3. y.waitingLock \in Pointers
  BY FieldFacts
<1>4. PICK w \in Pointers : w = IF y.waitingLock = NoAddr THEN l ELSE y.waitingLock
  BY <1>a, <1>3
<1>5. PICK x \in Objects : x = [y EXCEPT !.waitingLock = w]
  BY DEF Objects, Pointers
<1>6. x.status = y.status /\ x.owner = y.owner /\ x.queue = y.queue
  BY <1>5 DEF Objects
<1>7. PICK o \in [Pointers -> Objects] : o = [obj EXCEPT ![v] = x]
  BY <1>b
<1>8. \A b \in Pointers : /\ o[b].status = obj[b].status
                          /\ o[b].owner = obj[b].owner /\ o[b].queue = obj[b].queue
  BY <1>b, <1>2, <1>6, <1>7
<1>9. o = [obj EXCEPT ![v].waitingLock = w]
  BY <1>2, <1>5, <1>7
<1>10. \/ Postlude(c, o, {v, l}) /\ UNCHANGED <<pc, loc>>
       \/ /\ Owns(t, i) /\ Uses({v, l}) /\ inUse' = inUse
          /\ obj' = [PassOn(o, l) EXCEPT ![v].queue = Append(PassOn(o, l)[v].queue, t)]
          /\ pc' = [PassOnPc(l) EXCEPT ![t] = "Wait"]
          /\ loc' = [loc EXCEPT ![t] = [kind |-> "cond", index |-> c, lock |-> l]]
  BY <1>2, <1>4, <1>9 DEF Wait
<1>11. CASE Postlude(c, o, {v, l}) /\ UNCHANGED <<pc, loc>>
  <2>1. /\ obj' \in [Pointers -> Objects]
        /\ \A b \in Pointers : SameInside(obj', o, b)
        /\ \/ obj' = o /\ inUse' = inUse
           \/ /\ table["cond"][c].isToBeDeleted
              /\ obj'[v].status = "freed"
              /\ \A b \in Pointers : b # v => obj'[b] = o[b]
              /\ inUse' = [inUse EXCEPT !["cond"] = inUse["cond"] \ {c}]
        /\ freedUse' = \/ \E a \in {v, l} : ~Live(a)
                       \/ table["cond"][c].isToBeDeleted /\ ~Live(v)
    <3>1. PICK A : A = {v, l}
      OBVIOUS
    <3>2. Postlude(c, o, A)
      BY <1>11, <3>1
    <3>3. /\ obj' \in [Pointers -> Objects]
          /\ \A b \in Pointers : SameInside(obj', o, b)
      BY <3>2, PostludeFacts
    <3>4. \/ obj' = o /\ inUse' = inUse
          \/ /\ table["cond"][c].isToBeDeleted
             /\ obj'[v].status = "freed"
             /\ \A b \in Pointers : b # v => obj'[b] = o[b]
             /\ inUse' = [inUse EXCEPT !["cond"] = inUse["cond"] \ {c}]
      BY <3>2, PostludeFacts
    <3>5. freedUse' = \/ \E a \in A : ~Live(a)
                      \/ table["cond"][c].isToBeDeleted /\ ~Live(v)
      BY <3>2, PostludeFacts
    <3> QED BY <3>1, <3>3, <3>4, <3>5
  <2>2. inUse' \in [Kinds -> SUBSET Indices] /\ freedUse' \in BOOLEAN
    BY <1>b, <2>1
  <2>3. TypeOK'
    BY <1>1, <1>11, <2>1, <2>2 DEF TypeOK, Pointers
  <2>4. freedUse' = \/ ~Live(v) \/ ~Live(l)
                    \/ table["cond"][c].isToBeDeleted /\ ~Live(v)
    BY <2>1
  <2>5. \A b \in Pointers : obj'[b].owner = obj[b].owner /\ obj'[b].queue = obj[b].queue
    BY <1>8, <2>1 DEF SameInside
  <2>6. \/ inUse' = inUse /\ \A b \in Pointers : obj'[b].status = obj[b].status
        \/ /\ table["cond"][c].isToBeDeleted /\ obj'[v].status = "freed"
           /\ \A b \in Pointers : b # v => obj'[b].status = obj[b].status
           /\ inUse' = [inUse EXCEPT !["cond"] = inUse["cond"] \ {c}]
    BY <1>8, <2>1
  <2>7. WaitRefused(c, v, l)
    BY <1>11, <2>4, <2>5, <2>6 DEF WaitRefused
  <2> QED BY <1>a, <1>1, <2>3, <2>7
<1>12. CASE /\ Owns(t, i) /\ Uses({v, l}) /\ inUse' = inUse
            /\ obj' = [PassOn(o, l) EXCEPT ![v].queue = Append(PassOn(o, l)[v].queue, t)]
            /\ pc' = [PassOnPc(l) EXCEPT ![t] = "Wait"]
            /\ loc' = [loc EXCEPT ![t] = [kind |-> "cond", index |-> c, lock |-> l]]
  <2>1. PICK p \in [Pointers -> Objects] : p = PassOn(o, l)
    BY <1>a, PassOnFacts
  <2>2. /\ \A b \in Pointers : b # l => p[b] = o[b]
        /\ p[l].status = o[l].status
        /\ IF o[l].queue = <<>> THEN p[l].owner = NoThread /\ p[l].queue = <<>>
           ELSE p[l].owner = Head(o[l].queue) /\ p[l].queue = Tail(o[l].queue)
    BY <1>a, <2>1, PassOnFacts
  <2>3. /\ \A b \in Pointers : b # l => PassOn(obj, l)[b] = obj[b]
        /\ IF obj[l].queue = <<>> THEN PassOn(obj, l)[l].owner = NoThread /\ PassOn(obj, l)[l].queue = <<>>
           ELSE PassOn(obj, l)[l].owner = Head(obj[l].queue) /\ PassOn(obj, l)[l].queue = Tail(obj[l].queue)
    BY <1>a, <1>b, PassOnFacts
  <2>4. \A b \in Pointers : /\ p[b].status = obj[b].status
                            /\ p[b].owner = PassOn(obj, l)[b].owner
                            /\ p[b].queue = PassOn(obj, l)[b].queue
    BY <1>a, <1>8, <2>2, <2>3
  <2>5. PICK z \in Objects : z = p[v]
    BY <1>a
  <2>6. z.queue \in Seq(Threads)
    BY FieldFacts
  <2>7. PICK q \in Seq(Threads) : q = Append(z.queue, t)
    BY <2>6, AppendFacts
  <2>8. PICK n \in Objects : n = [z EXCEPT !.queue = q]
    BY DEF Objects
  <2>9. n.queue = q /\ n.status = z.status /\ n.owner = z.owner
    BY <2>8 DEF Objects
  <2>10. obj' = [p EXCEPT ![v] = n]
    BY <1>12, <2>1, <2>5, <2>7, <2>8
  <2>11. /\ obj' \in [Pointers -> Objects]
         /\ \A b \in Pointers : /\ obj'[b].status = obj[b].status
                                /\ obj'[b].owner = PassOn(obj, l)[b].owner
         /\ \A b \in Pointers : b # v => obj'[b].queue = PassOn(obj, l)[b].queue
         /\ obj'[v].queue = Append(PassOn(obj, l)[v].queue, t)
    BY <1>a, <2>4, <2>5, <2>7, <2>9, <2>10
  <2>a. [kind |-> "cond", index |-> c, lock |-> l] \in Locals
    BY <1>0, <1>a DEF Locals, Pointers
  <2>b. PICK d \in Locals : d = [kind |-> "cond", index |-> c, lock |-> l]
    BY <2>a
  <2>12. d = [kind |-> "cond", index |-> c, lock |-> l] /\ d.index = c /\ d.lock = l
    BY <2>b
  <2>13. /\ loc' \in [Threads -> Locals] /\ loc'[t].index = c /\ loc'[t].lock = l
         /\ \A u \in Threads : u # t => loc'[u] = loc[u]
    BY <1>b, <1>12, <2>12
  <2>14. pc' \in [Threads -> Places]
    BY <1>a, <1>12, PassOnPcFacts DEF Places
  <2>15. freedUse' = (~Live(v) \/ ~Live(l))
    BY <1>12 DEF Uses
  <2>16. TypeOK'
    BY <1>1, <1>12, <2>11, <2>13, <2>14, <2>15 DEF TypeOK, Pointers
  <2>17. WaitAsleep(t, c, i, v, l)
    BY <1>12, <2>11, <2>13, <2>15 DEF WaitAsleep
  <2> QED BY <1>a, <1>1, <2>16, <2>17
<1> QED BY <1>10, <1>11, <1>12

(* The Postlude, with the objects as in o: everything but one status.       *)
AfterWait(c, o) ==
    /\ \A b \in Pointers : obj'[b].owner = o[b].owner /\ obj'[b].queue = o[b].queue
    /\ \/ /\ inUse' = inUse /\ \A b \in Pointers : obj'[b].status = o[b].status
          /\ table["cond"][c].isToBeDeleted => o[The("cond", c)].queue # <<>>
       \/ /\ table["cond"][c].isToBeDeleted
          /\ obj'[The("cond", c)].status = "freed"
          /\ \A b \in Pointers : b # The("cond", c) => obj'[b].status = o[b].status
          /\ inUse' = [inUse EXCEPT !["cond"] = inUse["cond"] \ {c}]

(* What a Postlude does.                                                    *)
LEMMA AfterWaitFacts ==
    ASSUME TypeOK, NEW o \in [Pointers -> Objects], NEW c \in Indices, NEW A, Postlude(c, o, A)
    PROVE  /\ obj' \in [Pointers -> Objects] /\ inUse' \in [Kinds -> SUBSET Indices]
           /\ AfterWait(c, o) /\ freedUse' \in BOOLEAN
           /\ freedUse' = \/ \E a \in A : ~Live(a)
                          \/ table["cond"][c].isToBeDeleted /\ ~Live(The("cond", c))
<1>1. /\ obj' \in [Pointers -> Objects]
      /\ \A b \in Pointers : SameInside(obj', o, b)
  BY PostludeFacts
<1>2. \/ obj' = o /\ inUse' = inUse
      \/ /\ table["cond"][c].isToBeDeleted
         /\ obj'[The("cond", c)].status = "freed"
         /\ \A b \in Pointers : b # The("cond", c) => obj'[b] = o[b]
         /\ inUse' = [inUse EXCEPT !["cond"] = inUse["cond"] \ {c}]
  BY PostludeFacts
<1>3. freedUse' = \/ \E a \in A : ~Live(a)
                  \/ table["cond"][c].isToBeDeleted /\ ~Live(The("cond", c))
  BY PostludeFacts
<1>5. inUse' \in [Kinds -> SUBSET Indices]
  BY <1>2 DEF TypeOK
<1>6. AfterWait(c, o)
  <2>1. \A b \in Pointers : obj'[b].owner = o[b].owner /\ obj'[b].queue = o[b].queue
    BY <1>1 DEF SameInside
  <2>2. table["cond"][c].isToBeDeleted /\ o[The("cond", c)].queue = <<>> =>
           obj'[The("cond", c)].status = "freed" /\ inUse' = [inUse EXCEPT !["cond"] = inUse["cond"] \ {c}]
           /\ \A b \in Pointers : b # The("cond", c) => obj'[b] = o[b]
    <3> SUFFICES ASSUME table["cond"][c].isToBeDeleted, o[The("cond", c)].queue = <<>>
                 PROVE  obj'[The("cond", c)].status = "freed" /\ inUse' = [inUse EXCEPT !["cond"] = inUse["cond"] \ {c}]
                     /\ \A b \in Pointers : b # The("cond", c) => obj'[b] = o[b]
      OBVIOUS
    <3>1. obj' = Freed(o, The("cond", c)) /\ inUse' = [inUse EXCEPT !["cond"] = inUse["cond"] \ {c}]
      BY DEF Postlude, The
    <3>2. The("cond", c) \in Pointers
      BY EntryFacts DEF Kinds
    <3> QED BY <3>1, <3>2, FreedFacts
  <2> QED BY <1>2, <2>1, <2>2 DEF AfterWait
<1> QED BY <1>1, <1>3, <1>5, <1>6

(* The woken thread asks for its lock.                                      *)
LEMMA ResumeFacts ==
    ASSUME TypeOK, NEW t \in Threads, ResumeWait(t), NEW l, l = loc[t].lock,
           NEW c, c = loc[t].index
    PROVE  /\ TypeOK' /\ pc[t] = "woken" /\ l \in Pointers /\ c \in Indices
           /\ \/ /\ obj[l].owner = NoThread
                 /\ OnlyPc(t, "user") /\ loc' = [loc EXCEPT ![t] = NoLocals]
                 /\ AfterWait(c, Take(obj, l, t))
                 /\ freedUse' = \/ ~Live(l)
                                \/ table["cond"][c].isToBeDeleted /\ ~Live(The("cond", c))
              \/ /\ obj[l].owner # NoThread
                 /\ OnlyPc(t, "relock") /\ obj' = Take(obj, l, t) /\ freedUse' = ~Live(l)
                 /\ UNCHANGED <<inUse, loc>>
           /\ UNCHANGED <<table, tableLock, processIDLock, halted, handles, destroyers, style>>
<1>a. l \in Pointers /\ c \in Indices
  BY LocStep
<1>b. obj \in [Pointers -> Objects] /\ pc \in [Threads -> Places]
  BY DEF TypeOK, Pointers
<1>1. /\ pc[t] = "woken"
      /\ UNCHANGED <<table, tableLock, processIDLock, halted, handles, destroyers, style>>
  BY DEF ResumeWait, progVars
<1>2. PICK o \in [Pointers -> Objects] : o = Take(obj, l, t)
  BY <1>a, <1>b, TakeFacts
<1>3. \/ /\ obj[l].owner = NoThread /\ OnlyPc(t, "user")
         /\ loc' = [loc EXCEPT ![t] = NoLocals] /\ Postlude(c, o, {l})
      \/ /\ obj[l].owner # NoThread
         /\ OnlyPc(t, "relock") /\ obj' = o /\ Uses({l})
         /\ UNCHANGED <<inUse, loc>>
  BY <1>2 DEF ResumeWait, OnlyPc
<1>4. CASE /\ obj[l].owner = NoThread /\ OnlyPc(t, "user")
           /\ loc' = [loc EXCEPT ![t] = NoLocals] /\ Postlude(c, o, {l})
  <2>1. PICK A : A = {l}
    OBVIOUS
  <2>2. /\ obj' \in [Pointers -> Objects] /\ inUse' \in [Kinds -> SUBSET Indices]
        /\ AfterWait(c, o) /\ freedUse' \in BOOLEAN
        /\ freedUse' = \/ \E a \in A : ~Live(a)
                       \/ table["cond"][c].isToBeDeleted /\ ~Live(The("cond", c))
    BY <1>a, <1>4, <2>1, AfterWaitFacts
  <2>3. loc' \in [Threads -> Locals]
    BY <1>4, LocStep
  <2>4. pc' \in [Threads -> Places]
    BY <1>b, <1>4 DEF OnlyPc, Places
  <2>5. TypeOK'
    BY <1>1, <2>2, <2>3, <2>4 DEF TypeOK, Pointers
  <2>6. freedUse' = \/ ~Live(l)
                    \/ table["cond"][c].isToBeDeleted /\ ~Live(The("cond", c))
    BY <2>1, <2>2
  <2> QED BY <1>a, <1>1, <1>2, <1>4, <2>2, <2>5, <2>6
<1>5. CASE /\ obj[l].owner # NoThread
           /\ OnlyPc(t, "relock") /\ obj' = o /\ Uses({l})
           /\ UNCHANGED <<inUse, loc>>
  <2>1. pc' \in [Threads -> Places]
    BY <1>b, <1>5 DEF OnlyPc, Places
  <2>2. freedUse' = ~Live(l)
    BY <1>5 DEF Uses
  <2>3. TypeOK'
    BY <1>1, <1>5, <2>1, <2>2 DEF TypeOK, Pointers
  <2> QED BY <1>a, <1>1, <1>2, <1>5, <2>2, <2>3
<1> QED BY <1>3, <1>4, <1>5

(* The thread that was handed its lock leaves Wait_Syscall.                 *)
LEMMA FinishFacts ==
    ASSUME TypeOK, NEW t \in Threads, FinishWait(t), NEW c, c = loc[t].index
    PROVE  /\ TypeOK' /\ pc[t] = "postlude" /\ c \in Indices
           /\ OnlyPc(t, "user") /\ loc' = [loc EXCEPT ![t] = NoLocals]
           /\ AfterWait(c, obj)
           /\ freedUse' = (table["cond"][c].isToBeDeleted /\ ~Live(The("cond", c)))
           /\ UNCHANGED <<table, tableLock, processIDLock, halted, handles, destroyers, style>>
<1>a. c \in Indices
  BY LocStep
<1>b. obj \in [Pointers -> Objects] /\ pc \in [Threads -> Places]
  BY DEF TypeOK, Pointers
<1>1. /\ pc[t] = "postlude" /\ OnlyPc(t, "user") /\ loc' = [loc EXCEPT ![t] = NoLocals]
      /\ Postlude(c, obj, {})
      /\ UNCHANGED <<table, tableLock, processIDLock, halted, handles, destroyers, style>>
  BY DEF FinishWait, progVars, OnlyPc
<1>2. PICK A : A = {}
  OBVIOUS
<1>3. PICK o \in [Pointers -> Objects] : o = obj
  BY <1>b
<1>4. /\ obj' \in [Pointers -> Objects] /\ inUse' \in [Kinds -> SUBSET Indices]
      /\ AfterWait(c, o) /\ freedUse' \in BOOLEAN
      /\ freedUse' = \/ \E a \in A : ~Live(a)
                     \/ table["cond"][c].isToBeDeleted /\ ~Live(The("cond", c))
  BY <1>a, <1>1, <1>2, <1>3, AfterWaitFacts
<1>5. loc' \in [Threads -> Locals]
  BY <1>1, LocStep
<1>6. pc' \in [Threads -> Places]
  BY <1>b, <1>1 DEF OnlyPc, Places
<1>7. TypeOK'
  BY <1>1, <1>4, <1>5, <1>6 DEF TypeOK, Pointers
<1>8. freedUse' = (table["cond"][c].isToBeDeleted /\ ~Live(The("cond", c)))
  BY <1>2, <1>4
<1> QED BY <1>a, <1>1, <1>3, <1>4, <1>7, <1>8

(* Some of the threads in a queue, W, leave it and run.                     *)
WakesSome(v) ==
    \E W \in SUBSET Elements(obj[v].queue) :
        /\ Elements(obj'[v].queue) \subseteq Elements(obj[v].queue)
        /\ Distinct(obj[v].queue) => /\ Elements(obj'[v].queue) = Elements(obj[v].queue) \ W
                                     /\ Distinct(obj'[v].queue)
        /\ pc' = [u \in Threads |-> IF u \in W THEN "woken" ELSE pc[u]]

(* Signal and Broadcast.                                                    *)
LEMMA WakeFacts ==
    ASSUME TypeOK, NEW t \in Threads, NEW c \in Indices, NEW i \in Indices,
           NEW all \in BOOLEAN, Wake(t, c, i, all),
           NEW v, v = The("cond", c), NEW l, l = The("lock", i)
    PROVE  /\ TypeOK' /\ v \in Pointers /\ l \in Pointers
           /\ pc[t] = "user" /\ Valid(t, "cond", c) /\ Refers(t, "lock", i)
           /\ \/ "staleId" \in style.waived
              \/ c \in handles["cond"][Space[t]]
              \/ Waiters(Space[t], c) # {}
           /\ freedUse' = (~Live(v) \/ ~Live(l))
           /\ \A b \in Pointers : obj'[b].status = obj[b].status /\ obj'[b].owner = obj[b].owner
           /\ \A b \in Pointers : b # v => obj'[b].queue = obj[b].queue
           /\ WakesSome(v)
           /\ UNCHANGED <<inUse, table, tableLock, loc, processIDLock, halted, handles,
                         destroyers, style>>
<1>0. "lock" \in Kinds /\ "cond" \in Kinds
  BY DEF Kinds
<1>a. v \in Pointers /\ l \in Pointers
  BY <1>0, EntryFacts
<1>b. obj \in [Pointers -> Objects] /\ pc \in [Threads -> Places]
  BY DEF TypeOK, Pointers
<1>1. /\ pc[t] = "user" /\ Valid(t, "cond", c) /\ Refers(t, "lock", i)
      /\ \/ "staleId" \in style.waived
         \/ c \in handles["cond"][Space[t]]
         \/ Waiters(Space[t], c) # {}
      /\ Uses({v, l})
      /\ UNCHANGED <<inUse, table, tableLock, loc, processIDLock, halted, handles,
                    destroyers, style>>
  BY DEF Wake, MayWake, InUser, progVars
<1>2. PICK y \in Objects : y = obj[v]
  BY <1>a, <1>b
<1>3. PICK q \in Seq(Threads) : q = y.queue
  BY FieldFacts
<1>4. q # <<>>
  BY <1>2, <1>3 DEF Wake
<1>c. PICK W : W = IF all THEN Elements(q) ELSE {Head(q)}
  OBVIOUS
<1>d. PICK r \in Seq(Threads) : r = IF all THEN <<>> ELSE Tail(q)
  BY <1>4, TailFacts, EmptyFacts
<1>5. W = (IF all THEN Elements(q) ELSE {Head(q)}) /\ r = IF all THEN <<>> ELSE Tail(q)
  BY <1>c, <1>d
<1>6. PICK w \in Pointers : w = IF r = <<>> THEN NoAddr ELSE y.waitingLock
  BY FieldFacts DEF Pointers
<1>7. PICK x \in Objects : x = [y EXCEPT !.queue = r]
  BY DEF Objects
<1>8. x.queue = r /\ x.status = y.status /\ x.owner = y.owner /\ x.waitingLock = y.waitingLock
  BY <1>7 DEF Objects
<1>9. PICK z \in Objects : z = [x EXCEPT !.waitingLock = w]
  BY DEF Objects, Pointers
<1>10. z.queue = r /\ z.status = y.status /\ z.owner = y.owner
  BY <1>8, <1>9 DEF Objects
<1>11. obj' = [obj EXCEPT ![v].queue = r, ![v].waitingLock = w]
  BY <1>2, <1>3, <1>5, <1>6 DEF Wake
<1>12. obj' = [obj EXCEPT ![v] = z]
  BY <1>a, <1>b, <1>2, <1>7, <1>8, <1>9, <1>11 DEF Objects
<1>13. pc' = [u \in Threads |-> IF u \in W THEN "woken" ELSE pc[u]]
  BY <1>2, <1>3, <1>5 DEF Wake
<1>14. /\ W \subseteq Elements(q) /\ Elements(r) \subseteq Elements(q)
       /\ Distinct(q) => Elements(r) = Elements(q) \ W /\ Distinct(r)
  BY <1>4, <1>5, TailFacts, EmptyFacts
<1>15. /\ obj' \in [Pointers -> Objects]
       /\ \A b \in Pointers : obj'[b].status = obj[b].status /\ obj'[b].owner = obj[b].owner
       /\ \A b \in Pointers : b # v => obj'[b].queue = obj[b].queue
       /\ obj'[v].queue = r
  BY <1>a, <1>b, <1>2, <1>10, <1>12
<1>16. pc' \in [Threads -> Places]
  BY <1>b, <1>13 DEF Places
<1>17. freedUse' = (~Live(v) \/ ~Live(l))
  BY <1>1 DEF Uses
<1>18. TypeOK'
  BY <1>1, <1>15, <1>16, <1>17 DEF TypeOK, Pointers
<1>19. \E V \in SUBSET Elements(obj[v].queue) :
          /\ Elements(obj'[v].queue) \subseteq Elements(obj[v].queue)
          /\ Distinct(obj[v].queue) => /\ Elements(obj'[v].queue) = Elements(obj[v].queue) \ V
                                       /\ Distinct(obj'[v].queue)
          /\ pc' = [u \in Threads |-> IF u \in V THEN "woken" ELSE pc[u]]
  BY <1>2, <1>3, <1>13, <1>14, <1>15
<1>20. WakesSome(v)
  BY <1>19 DEF WakesSome
<1> QED BY <1>a, <1>1, <1>15, <1>17, <1>18, <1>20

(* Signal and Broadcast that wake nobody.                                   *)
LEMMA WakeNobodyFacts ==
    ASSUME TypeOK, NEW t \in Threads, NEW c \in Indices, NEW i \in Indices, WakeNobody(t, c, i),
           NEW v, v = The("cond", c), NEW l, l = The("lock", i)
    PROVE  /\ TypeOK' /\ Valid(t, "cond", c) /\ Refers(t, "lock", i)
           /\ \/ "staleId" \in style.waived
              \/ c \in handles["cond"][Space[t]]
              \/ Waiters(Space[t], c) # {}
           /\ Live(v) /\ Live(l) => ~freedUse'
           /\ UNCHANGED <<objVars, tableLock, pc, loc, processIDLock, halted, progVars>>
<1>1. /\ MayWake(t, c, i) /\ UNCHANGED <<objVars, tableLock, pc, loc, processIDLock, halted, progVars>>
      /\ Uses({v, l}) \/ Uses({v})
  BY DEF WakeNobody
<1>2. freedUse' \in BOOLEAN /\ (Live(v) /\ Live(l) => ~freedUse')
  <2>1. CASE Uses({v, l})
    BY <2>1 DEF Uses
  <2>2. CASE Uses({v})
    BY <2>2 DEF Uses
  <2> QED BY <1>1, <2>1, <2>2
<1>3. TypeOK'
  BY <1>1, <1>2 DEF TypeOK, objVars, progVars
<1> QED BY <1>1, <1>2, <1>3 DEF MayWake

(* DestroyCondition: the condition is deleted or marked.                    *)
LEMMA DestroyCondFacts ==
    ASSUME TypeOK, NEW t \in Threads, NEW c \in Indices, DestroyCondition(t, c),
           NEW v, v = The("cond", c)
    PROVE  /\ TypeOK' /\ "Destroy" \in style.calls /\ v \in Pointers
           /\ pc[t] = "user" /\ Refers(t, "cond", c)
           /\ "manyWaiters" \in style.waived \/ Cardinality(Waiters(Space[t], c)) <= 1
           /\ "wokenWaiter" \in style.waived \/ \A u \in Waiters(Space[t], c) : pc[u] = "Wait"
           /\ freedUse' = ~Live(v)
           /\ \A m \in Kinds, j \in Indices :
                 table'[m][j].obj = table[m][j].obj /\ table'[m][j].space = table[m][j].space
           /\ \A b \in Pointers : SameInside(obj', obj, b)
           /\ \/ /\ obj[v].queue = <<>> /\ obj'[v].status = "freed" /\ table' = table
                 /\ \A b \in Pointers : b # v => obj'[b].status = obj[b].status
                 /\ inUse' = [inUse EXCEPT !["cond"] = inUse["cond"] \ {c}]
              \/ /\ obj[v].queue # <<>> /\ UNCHANGED <<obj, inUse>>
                 /\ table'["cond"][c].isToBeDeleted
                 /\ \A m \in Kinds, j \in Indices : m # "cond" \/ j # c =>
                       table'[m][j].isToBeDeleted = table[m][j].isToBeDeleted
           /\ GivesBack(t, "cond", c)
           /\ destroyers' = destroyers \cup {Space[t]}
           /\ UNCHANGED <<tableLock, pc, loc, processIDLock, halted, style>>
<1>0. "cond" \in Kinds /\ Space[t] \in Spaces
  BY SyncAssumption DEF Kinds
<1>a. v \in Pointers
  BY <1>0, EntryFacts
<1>b. obj \in [Pointers -> Objects] /\ inUse \in [Kinds -> SUBSET Indices]
      /\ table \in [Kinds -> [Indices -> Entries]]
  BY DEF TypeOK, Pointers
<1>1. /\ "Destroy" \in style.calls /\ pc[t] = "user" /\ Refers(t, "cond", c)
      /\ "manyWaiters" \in style.waived \/ Cardinality(Waiters(Space[t], c)) <= 1
      /\ "wokenWaiter" \in style.waived \/ \A u \in Waiters(Space[t], c) : pc[u] = "Wait"
      /\ freedUse' = ~Live(v) /\ destroyers' = destroyers \cup {Space[t]}
      /\ UNCHANGED <<tableLock, pc, loc, processIDLock, halted, style>>
  BY DEF DestroyCondition, InUser, Uses
<1>2. handles' = [handles EXCEPT !["cond"][Space[t]] = handles["cond"][Space[t]] \ {c}]
  BY DEF DestroyCondition
<1>3. handles' \in [Kinds -> [Spaces -> SUBSET Indices]] /\ GivesBack(t, "cond", c)
  BY <1>0, <1>2, HandleStep DEF GivesBack
<1>4. \/ /\ obj[v].queue = <<>> /\ obj' = Freed(obj, v) /\ table' = table
         /\ inUse' = [inUse EXCEPT !["cond"] = inUse["cond"] \ {c}]
      \/ /\ obj[v].queue # <<>> /\ table' = [table EXCEPT !["cond"][c].isToBeDeleted = TRUE]
         /\ UNCHANGED <<obj, inUse>>
  BY DEF DestroyCondition, HasWaiting
<1>5. CASE /\ obj[v].queue = <<>> /\ obj' = Freed(obj, v) /\ table' = table
           /\ inUse' = [inUse EXCEPT !["cond"] = inUse["cond"] \ {c}]
  <2>1. /\ Freed(obj, v) \in [Pointers -> Objects] /\ Freed(obj, v)[v].status = "freed"
        /\ \A b \in Pointers : SameInside(Freed(obj, v), obj, b)
        /\ \A b \in Pointers : b # v => Freed(obj, v)[b] = obj[b]
    BY <1>a, <1>b, FreedFacts
  <2>2. inUse' \in [Kinds -> SUBSET Indices]
    BY <1>b, <1>5
  <2>3. TypeOK'
    BY <1>0, <1>1, <1>3, <1>5, <2>1, <2>2 DEF TypeOK, Pointers
  <2> QED BY <1>a, <1>1, <1>3, <1>5, <2>1, <2>3
<1>6. CASE /\ obj[v].queue # <<>> /\ table' = [table EXCEPT !["cond"][c].isToBeDeleted = TRUE]
           /\ UNCHANGED <<obj, inUse>>
  <2>1. /\ table' \in [Kinds -> [Indices -> Entries]] /\ table'["cond"][c].isToBeDeleted
        /\ \A m \in Kinds, j \in Indices :
              /\ table'[m][j].obj = table[m][j].obj /\ table'[m][j].space = table[m][j].space
              /\ m # "cond" \/ j # c => table'[m][j].isToBeDeleted = table[m][j].isToBeDeleted
    BY <1>0, <1>6, MarkStep
  <2>2. TypeOK'
    BY <1>0, <1>1, <1>3, <1>6, <2>1 DEF TypeOK
  <2> QED BY <1>a, <1>1, <1>3, <1>6, <2>1, <2>2 DEF SameInside
<1> QED BY <1>4, <1>5, <1>6

(* Exit: a thread leaves, the machine halts, or the process begins to end.  *)
LEMMA ExitFacts ==
    ASSUME TypeOK, NEW t \in Threads, Exit(t)
    PROVE  /\ TypeOK' /\ pc[t] = "user"
           /\ "exitAfterDestroy" \in style.waived \/ Space[t] \notin destroyers
           /\ \/ pc' = pc \/ OnlyPc(t, "exited")
              \/ LastThread(t) /\ OnlyPc(t, "exitLocks")
           /\ UNCHANGED <<inUse, table, obj, tableLock, loc, freedUse, handles, destroyers, style>>
<1>1. /\ pc[t] = "user" /\ ("exitAfterDestroy" \in style.waived \/ Space[t] \notin destroyers)
      /\ UNCHANGED <<inUse, table, obj, tableLock, loc, freedUse, handles, destroyers, style>>
      /\ \/ pc' = pc \/ OnlyPc(t, "exited")
         \/ LastThread(t) /\ OnlyPc(t, "exitLocks")
      /\ processIDLock' \in {processIDLock, t} /\ halted' \in {halted, TRUE}
  BY DEF Exit, InUser, objVars, progVars, OnlyPc
<1>2. TypeOK'
  BY <1>1 DEF TypeOK, OnlyPc, Places
<1> QED BY <1>1, <1>2

(* Exit frees what the entries of its space in one table point to.          *)
LEMMA FreeAllFacts ==
    ASSUME TypeOK, NEW k \in Kinds, NEW s \in Spaces, FreeAll(k, s)
    PROVE  /\ table' \in [Kinds -> [Indices -> Entries]]
           /\ obj' \in [Pointers -> Objects] /\ inUse' \in [Kinds -> SUBSET Indices]
           /\ freedUse' \in BOOLEAN
           /\ freedUse' = \E i \in Indices : table[k][i].space = s /\ ~Live(The(k, i))
           /\ \A b \in Pointers : SameInside(obj', obj, b)
           /\ \A b \in Pointers : obj'[b].status =
                 IF \E i \in Indices : table[k][i].space = s /\ b = The(k, i) THEN "freed"
                 ELSE obj[b].status
           /\ \A m \in Kinds, j \in Indices :
                 /\ table'[m][j].obj = table[m][j].obj
                 /\ IF m = k /\ table[m][j].space = s
                    THEN table'[m][j].space = NoSpace /\ ~table'[m][j].isToBeDeleted
                    ELSE table'[m][j] = table[m][j]
<1> DEFINE mine == {i \in Indices : table[k][i].space = s}
<1> DEFINE gone == {The(k, i) : i \in mine}
<1>b. obj \in [Pointers -> Objects] /\ inUse \in [Kinds -> SUBSET Indices]
      /\ table \in [Kinds -> [Indices -> Entries]]
  BY DEF TypeOK, Pointers
<1>1. /\ freedUse' = \E a \in gone : ~Live(a)
      /\ table' = [table EXCEPT ![k] = Forgotten(k, s)]
      /\ obj' = [a \in Pointers |-> IF a \in gone THEN [obj[a] EXCEPT !.status = "freed"] ELSE obj[a]]
      /\ inUse' = [inUse EXCEPT ![k] = inUse[k] \ mine]
  BY DEF FreeAll, Uses, Pointers
<1>2. freedUse' \in BOOLEAN /\ freedUse' = \E i \in Indices : table[k][i].space = s /\ ~Live(The(k, i))
  BY <1>1
<1>3. ASSUME NEW b \in Pointers
      PROVE  /\ obj'[b] \in Objects /\ SameInside(obj', obj, b)
             /\ obj'[b].status = IF \E i \in Indices : table[k][i].space = s /\ b = The(k, i)
                                 THEN "freed" ELSE obj[b].status
  <2>1. PICK y \in Objects : y = obj[b]
    BY <1>b
  <2>2. PICK x \in Objects : x = [y EXCEPT !.status = "freed"]
    BY DEF Objects
  <2>3. x.status = "freed" /\ x.owner = y.owner /\ x.queue = y.queue /\ x.waitingLock = y.waitingLock
    BY <2>2 DEF Objects
  <2>4. obj'[b] = IF b \in gone THEN [obj[b] EXCEPT !.status = "freed"] ELSE obj[b]
    BY <1>1
  <2>5. b \in gone <=> \E i \in Indices : table[k][i].space = s /\ b = The(k, i)
    OBVIOUS
  <2> HIDE DEF gone
  <2>6. CASE b \in gone
    <3>1. obj'[b] = x
      BY <2>1, <2>2, <2>4, <2>6
    <3> QED BY <2>1, <2>3, <2>5, <2>6, <3>1 DEF SameInside
  <2>7. CASE b \notin gone
    <3>1. obj'[b] = y
      BY <2>1, <2>4, <2>7
    <3> QED BY <2>1, <2>5, <2>7, <3>1 DEF SameInside
  <2> QED BY <2>6, <2>7
<1>4. obj' \in [Pointers -> Objects]
  <2>1. obj' = [a \in Pointers |-> obj'[a]]
    BY <1>1
  <2> QED BY <1>3, <2>1
<1>5. ASSUME NEW j \in Indices
      PROVE  /\ Forgotten(k, s)[j] \in Entries /\ Forgotten(k, s)[j].obj = table[k][j].obj
             /\ IF table[k][j].space = s
                THEN Forgotten(k, s)[j].space = NoSpace /\ ~Forgotten(k, s)[j].isToBeDeleted
                ELSE Forgotten(k, s)[j] = table[k][j]
  <2>1. PICK y \in Entries : y = table[k][j]
    BY <1>b
  <2>2. PICK x \in Entries : x = [y EXCEPT !.space = NoSpace]
    BY DEF Entries
  <2>3. x.obj = y.obj /\ x.space = NoSpace
    BY <2>2 DEF Entries
  <2>4. PICK z \in Entries : z = [x EXCEPT !.isToBeDeleted = FALSE]
    BY DEF Entries
  <2>5. z.obj = y.obj /\ z.space = NoSpace /\ ~z.isToBeDeleted
    BY <2>3, <2>4 DEF Entries
  <2>6. z = [y EXCEPT !.space = NoSpace, !.isToBeDeleted = FALSE]
    BY <2>2, <2>4 DEF Entries
  <2>7. CASE table[k][j].space = s
    <3>1. Forgotten(k, s)[j] = z
      BY <2>1, <2>6, <2>7 DEF Forgotten
    <3> QED BY <2>1, <2>5, <2>7, <3>1
  <2>8. CASE table[k][j].space # s
    <3>1. Forgotten(k, s)[j] = y
      BY <2>1, <2>8 DEF Forgotten
    <3> QED BY <2>1, <2>8, <3>1
  <2> QED BY <2>7, <2>8
<1>6. PICK f \in [Indices -> Entries] : f = Forgotten(k, s)
  <2>1. Forgotten(k, s) = [j \in Indices |-> Forgotten(k, s)[j]]
    BY DEF Forgotten
  <2> QED BY <1>5, <2>1
<1>7. /\ table' \in [Kinds -> [Indices -> Entries]]
      /\ table'[k] = f /\ \A m \in Kinds : m # k => table'[m] = table[m]
  BY <1>b, <1>1, <1>6
<1>8. ASSUME NEW m \in Kinds, NEW j \in Indices
      PROVE  /\ table'[m][j].obj = table[m][j].obj
             /\ IF m = k /\ table[m][j].space = s
                THEN table'[m][j].space = NoSpace /\ ~table'[m][j].isToBeDeleted
                ELSE table'[m][j] = table[m][j]
  <2>1. CASE m = k
    BY <1>5, <1>6, <1>7, <2>1
  <2>2. CASE m # k
    BY <1>7, <2>2
  <2> QED BY <2>1, <2>2
<1>9. inUse' \in [Kinds -> SUBSET Indices]
  BY <1>b, <1>1
<1> QED BY <1>2, <1>3, <1>4, <1>7, <1>8, <1>9

(* The two loops of Exit.                                                   *)
LEMMA ExitLocksFacts ==
    ASSUME TypeOK, NEW t \in Threads, ExitLocks(t)
    PROVE  /\ TypeOK' /\ pc[t] = "exitLocks" /\ FreeAll("lock", Space[t]) /\ OnlyPc(t, "exitConds")
           /\ UNCHANGED <<loc, handles, destroyers, style>>
<1>1. /\ pc[t] = "exitLocks" /\ FreeAll("lock", Space[t]) /\ OnlyPc(t, "exitConds")
      /\ UNCHANGED <<loc, tableLock, processIDLock, halted, handles, destroyers, style>>
  BY DEF ExitLocks, OnlyPc, progVars
<1>2. "lock" \in Kinds /\ Space[t] \in Spaces
  BY SyncAssumption DEF Kinds
<1>3. /\ table' \in [Kinds -> [Indices -> Entries]] /\ obj' \in [Pointers -> Objects]
      /\ inUse' \in [Kinds -> SUBSET Indices] /\ freedUse' \in BOOLEAN
  BY <1>1, <1>2, FreeAllFacts
<1>4. TypeOK'
  BY <1>1, <1>3 DEF TypeOK, Pointers, OnlyPc, Places
<1> QED BY <1>1, <1>4

(* The second one, after which the process is gone.                         *)
LEMMA ExitCondsFacts ==
    ASSUME TypeOK, NEW t \in Threads, ExitConds(t)
    PROVE  /\ TypeOK' /\ pc[t] = "exitConds" /\ FreeAll("cond", Space[t]) /\ OnlyPc(t, "exited")
           /\ UNCHANGED <<loc, handles, destroyers, style>>
<1>1. /\ pc[t] = "exitConds" /\ FreeAll("cond", Space[t]) /\ OnlyPc(t, "exited")
      /\ processIDLock' = NoThread
      /\ UNCHANGED <<loc, tableLock, halted, handles, destroyers, style>>
  BY DEF ExitConds, OnlyPc, progVars
<1>2. "cond" \in Kinds /\ Space[t] \in Spaces
  BY SyncAssumption DEF Kinds
<1>3. /\ table' \in [Kinds -> [Indices -> Entries]] /\ obj' \in [Pointers -> Objects]
      /\ inUse' \in [Kinds -> SUBSET Indices] /\ freedUse' \in BOOLEAN
  BY <1>1, <1>2, FreeAllFacts
<1>4. TypeOK'
  BY <1>1, <1>3 DEF TypeOK, Pointers, OnlyPc, Places
<1> QED BY <1>1, <1>4

-----------------------------------------------------------------------------
(* Isolation, whatever the programs do                                      *)

(* No object is created, and no thread of another process enters one.       *)
IsoStep ==
    /\ \A m \in Kinds, j \in Indices :
          /\ table'[m][j].obj = table[m][j].obj
          /\ \/ table'[m][j].space = table[m][j].space
             \/ table'[m][j].space = NoSpace /\ obj'[table[m][j].obj].status # "live"
    /\ \A b \in Pointers :
          /\ obj'[b].status = "live" => obj[b].status = "live"
          /\ obj[b].status # "unused" => obj'[b].status # "unused"
          /\ obj[b].status = "unused" /\ b # NoAddr =>
                obj'[b].owner = obj[b].owner /\ obj'[b].queue = obj[b].queue
    /\ \A m \in Kinds, j \in Indices : obj'[table[m][j].obj].status = "live" =>
          \A u \in Elements(obj'[table[m][j].obj].queue) \cup {obj'[table[m][j].obj].owner} :
             u \in Users(table[m][j].obj) \/ u = NoThread \/ Space[u] = table[m][j].space
    /\ \A u \in Threads :
          \/ loc'[u].lock \in {loc[u].lock, NoAddr}
          \/ \E i \in Indices : loc'[u].lock = table["lock"][i].obj /\ table["lock"][i].space = Space[u]

(* Such a step keeps the invariant.                                         *)
LEMMA IsoKeep ==
    ASSUME IsoInv, TypeOK', IsoStep
    PROVE  IsoInv'
<1>1. TypeOK /\ Created /\ Unique /\ Members /\ WaitsAtHome
  BY DEF IsoInv
<1>2. \A m \in Kinds, j \in Indices :
        table'[m][j].obj = table[m][j].obj /\ table[m][j].obj \in Pointers
  BY <1>1, EntryFacts DEF IsoStep
<1>3. \A b \in Pointers :
          /\ obj'[b].status = "live" => obj[b].status = "live"
          /\ obj[b].status # "unused" => obj'[b].status # "unused"
  BY DEF IsoStep
<1>4. \A m \in Kinds, j \in Indices :
          /\ table'[m][j].space \in Spaces => table[m][j].space = table'[m][j].space
          /\ obj'[table[m][j].obj].status = "live" => table'[m][j].space = table[m][j].space
  BY SyncAssumption DEF IsoStep
<1>5. \A u \in Threads : /\ loc[u].lock \in Pointers /\ loc'[u].lock \in Pointers
                         /\ \/ loc'[u].lock \in {loc[u].lock, NoAddr}
                            \/ \E i \in Indices : /\ loc'[u].lock = table["lock"][i].obj
                                                  /\ table["lock"][i].space = Space[u]
  <2>1. loc \in [Threads -> Locals] /\ loc' \in [Threads -> Locals]
    BY <1>1 DEF TypeOK
  <2>2. \A u \in Threads : loc[u].lock \in Pointers /\ loc'[u].lock \in Pointers
    BY <2>1 DEF Locals, Pointers
  <2> QED BY <2>2 DEF IsoStep
<1>6. NoAddr \in Pointers /\ "lock" \in Kinds
  BY DEF Pointers, Kinds
<1>7. Created'
  <2>1. obj'[NoAddr].status # "live"
    BY <1>1, <1>3, <1>6 DEF Created, Live
  <2>2. \A k \in Kinds, i \in Indices :
           /\ table[k][i].obj # NoAddr => obj'[table[k][i].obj].status # "unused"
           /\ table'[k][i].space \in Spaces => table[k][i].obj # NoAddr
    BY <1>1, <1>2, <1>3, <1>4 DEF Created, The
  <2>3. \A u \in Threads : loc'[u].lock # NoAddr => obj'[loc'[u].lock].status # "unused"
    BY <1>1, <1>3, <1>5, <1>6, <2>2 DEF Created
  <2> QED BY <1>2, <2>1, <2>2, <2>3 DEF Created, Live, The
<1>8. Unique'
  BY <1>1, <1>2, <1>3 DEF Unique, Live, The
<1>9. Members'
  <2>1. SUFFICES ASSUME NEW k \in Kinds, NEW i \in Indices, obj'[table[k][i].obj].status = "live",
                        NEW u \in Elements(obj'[table[k][i].obj].queue) \cup {obj'[table[k][i].obj].owner}
                 PROVE  u = NoThread \/ Space[u] = table'[k][i].space
    BY <1>2 DEF Members, Users, Live, The
  <2>2. obj[table[k][i].obj].status = "live" /\ table'[k][i].space = table[k][i].space
    BY <1>2, <1>3, <1>4, <2>1
  <2>3. u \in Users(table[k][i].obj) \/ u = NoThread \/ Space[u] = table[k][i].space
    BY <2>1 DEF IsoStep
  <2>4. u \in Users(table[k][i].obj) => u = NoThread \/ Space[u] = table[k][i].space
    BY <1>1, <2>2 DEF Members, Live, The
  <2> QED BY <2>2, <2>3, <2>4
<1>10. WaitsAtHome'
  <2>1. SUFFICES ASSUME NEW u \in Threads, NEW k \in Kinds, NEW i \in Indices,
                        table[k][i].obj = loc'[u].lock, obj'[table[k][i].obj].status = "live"
                 PROVE  table'[k][i].space = Space[u]
    BY <1>2 DEF WaitsAtHome, Live, The
  <2>2. obj[table[k][i].obj].status = "live" /\ table'[k][i].space = table[k][i].space
    BY <1>2, <1>3, <1>4, <2>1
  <2>3. table[k][i].obj # NoAddr
    BY <1>1, <2>2 DEF Created, Live
  <2>4. CASE loc'[u].lock = loc[u].lock
    BY <1>1, <2>1, <2>2, <2>4 DEF WaitsAtHome, Live, The
  <2>5. CASE \E j \in Indices : loc'[u].lock = table["lock"][j].obj /\ table["lock"][j].space = Space[u]
    <3>1. PICK j \in Indices : loc'[u].lock = table["lock"][j].obj /\ table["lock"][j].space = Space[u]
      BY <2>5
    <3>2. k = "lock" /\ i = j
      BY <1>1, <1>6, <2>1, <2>2, <3>1 DEF Unique, Live, The
    <3> QED BY <2>2, <3>1, <3>2
  <2> QED BY <1>5, <2>1, <2>3, <2>4, <2>5
<1>11. Untouched'
  <2>1. \A a \in Addrs : a \in Pointers /\ a # NoAddr
    BY SyncAssumption DEF Pointers, Addrs, NoAddr
  <2> QED BY <1>3, <2>1 DEF IsoStep, IsoInv, Untouched
<1> QED BY <1>7, <1>8, <1>9, <1>10, <1>11 DEF IsoInv

UsersIn(o, b) == Elements(o[b].queue) \cup {o[b].owner}

(* Who is in an object after Lock::Acquire and Lock::Release.               *)
LEMMA TakeUsers ==
    ASSUME TypeOK, NEW a \in Pointers, NEW t \in Threads, NEW b \in Pointers
    PROVE  /\ b # a => UsersIn(Take(obj, a, t), b) = Users(b)
           /\ UsersIn(Take(obj, a, t), b) \subseteq Users(b) \cup {t}
           /\ Take(obj, a, t)[b].status = obj[b].status
<1>1. obj \in [Pointers -> Objects] /\ obj[a] \in Objects
  BY DEF TypeOK, Pointers
<1>2. obj[a].queue \in Seq(Threads)
  BY <1>1, FieldFacts
<1>3. /\ \A d \in Pointers : d # a => Take(obj, a, t)[d] = obj[d]
      /\ Take(obj, a, t)[a].status = obj[a].status
      /\ IF obj[a].owner = NoThread
         THEN Take(obj, a, t)[a].owner = t /\ Take(obj, a, t)[a].queue = obj[a].queue
         ELSE /\ Take(obj, a, t)[a].owner = obj[a].owner
              /\ Take(obj, a, t)[a].queue = Append(obj[a].queue, t)
  BY <1>1, TakeFacts
<1>4. Elements(Append(obj[a].queue, t)) = Elements(obj[a].queue) \cup {t}
  BY <1>2, AppendFacts
<1>5. CASE b # a
  BY <1>3, <1>5 DEF UsersIn, Users
<1>6. CASE b = a
  BY <1>3, <1>4, <1>6 DEF UsersIn, Users
<1> QED BY <1>5, <1>6

(* Lock::Release lets nobody new into any object.                           *)
LEMMA PassOnUsers ==
    ASSUME TypeOK, NEW a \in Pointers, NEW b \in Pointers
    PROVE  /\ UsersIn(PassOn(obj, a), b) \subseteq Users(b) \cup {NoThread}
           /\ PassOn(obj, a)[b].queue \in Seq(Threads)
<1>1. obj \in [Pointers -> Objects] /\ obj[a] \in Objects
  BY DEF TypeOK, Pointers
<1>2. obj[a].queue \in Seq(Threads)
  BY <1>1, FieldFacts
<1>3. /\ \A d \in Pointers : d # a => PassOn(obj, a)[d] = obj[d]
      /\ IF obj[a].queue = <<>>
         THEN PassOn(obj, a)[a].owner = NoThread /\ PassOn(obj, a)[a].queue = <<>>
         ELSE /\ PassOn(obj, a)[a].owner = Head(obj[a].queue)
              /\ PassOn(obj, a)[a].queue = Tail(obj[a].queue)
  BY <1>1, PassOnFacts
<1>4. obj[a].queue # <<>> => /\ Elements(Tail(obj[a].queue)) \subseteq Elements(obj[a].queue)
                             /\ Head(obj[a].queue) \in Elements(obj[a].queue)
  BY <1>2, TailFacts
<1>5. UsersIn(PassOn(obj, a), b) \subseteq Users(b) \cup {NoThread}
  <2>1. CASE b # a
    BY <1>3, <2>1 DEF UsersIn, Users
  <2>2. CASE b = a
    BY <1>3, <1>4, <2>2, EmptyFacts DEF UsersIn, Users
  <2> QED BY <2>1, <2>2
<1>7. PassOn(obj, a) \in [Pointers -> Objects]
  BY <1>1, PassOnFacts
<1>8. PICK y \in Objects : y = PassOn(obj, a)[b]
  BY <1>7
<1>9. y.queue \in Seq(Threads)
  BY FieldFacts
<1> QED BY <1>5, <1>8, <1>9

(* A live object that t may use is its own process's in every entry.        *)
LEMMA HomeOf ==
    ASSUME IsoInv, NEW t \in Threads, NEW k \in Kinds, NEW i \in Indices, Valid(t, k, i),
           NEW m \in Kinds, NEW j \in Indices, Live(table[m][j].obj),
           table[m][j].obj = The(k, i)
    PROVE  table[m][j].space = Space[t]
<1>1. m = k /\ j = i
  BY DEF IsoInv, Unique, The
<1> QED BY <1>1 DEF Valid

(* What the table or a waiting thread points to is not an unused object.    *)
LEMMA UsedOnly ==
    ASSUME IsoInv, NEW b, b # NoAddr, obj[b].status = "unused"
    PROVE  /\ \A k \in Kinds, i \in Indices : The(k, i) # b
           /\ \A t \in Threads : loc[t].lock # b
BY DEF IsoInv, Created

(* An index that passed the check is good.                                  *)
LEMMA RefersValid ==
    ASSUME NEW t, NEW k, NEW i, Refers(t, k, i)
    PROVE  Valid(t, k, i)
BY DEF Refers

(* Each action that creates nothing is such a step.                         *)
LEMMA IsoQuiet ==
    ASSUME IsoInv, TypeOK', SameEntries, UNCHANGED obj,
           \A u \in Threads : loc'[u].lock = loc[u].lock
    PROVE  IsoInv'
<1>1. IsoStep
  BY DEF IsoStep, SameEntries, Users
<1> QED BY <1>1, IsoKeep

(* Acquire: the thread that enters the lock may.                            *)
LEMMA IsoAcquire ==
    ASSUME IsoInv, NEW t \in Threads, NEW i \in Indices, Acquire(t, i)
    PROVE  IsoInv'
<1>0. TypeOK /\ "lock" \in Kinds
  BY DEF IsoInv, Kinds
<1>1. PICK a \in Pointers : a = The("lock", i)
  BY <1>0, EntryFacts
<1>2. TypeOK' /\ SameEntries /\ Refers(t, "lock", i) /\ (obj' = obj \/ obj' = Take(obj, a, t))
  BY <1>0, <1>1, AcquireFacts
<1>3. \A u \in Threads : loc'[u].lock = loc[u].lock
  BY <1>0, AcquireFacts
<1>4. CASE obj' = obj
  BY <1>2, <1>3, <1>4, IsoQuiet
<1>5. CASE obj' = Take(obj, a, t)
  <2>1. \A b \in Pointers : /\ obj'[b].status = obj[b].status
                            /\ b # a => UsersIn(obj', b) = Users(b)
                            /\ UsersIn(obj', b) \subseteq Users(b) \cup {t}
    BY <1>0, <1>5, TakeUsers
  <2>2. Valid(t, "lock", i)
    BY <1>2, RefersValid
  <2>3. ASSUME NEW m \in Kinds, NEW j \in Indices, obj'[table[m][j].obj].status = "live",
               NEW u \in UsersIn(obj', table[m][j].obj)
        PROVE  u \in Users(table[m][j].obj) \/ u = NoThread \/ Space[u] = table[m][j].space
    <3>1. PICK b \in Pointers : b = table[m][j].obj
      BY <1>0, EntryFacts
    <3>2. CASE b # a
      BY <2>1, <2>3, <3>1, <3>2 DEF UsersIn, Users
    <3>3. CASE b = a
      <4>1. Live(table[m][j].obj) /\ table[m][j].obj = The("lock", i)
        BY <1>1, <2>1, <2>3, <3>1, <3>3 DEF Live
      <4>2. table[m][j].space = Space[t]
        BY <1>0, <2>2, <4>1, HomeOf
      <4> QED BY <2>1, <2>3, <3>1, <4>2 DEF UsersIn, Users
    <3> QED BY <3>2, <3>3
  <2>a. \A m \in Kinds, j \in Indices : table[m][j].obj \in Pointers
    BY <1>0, EntryFacts
  <2>b. \A b \in Pointers : obj[b].status = "unused" /\ b # NoAddr =>
           obj'[b].owner = obj[b].owner /\ obj'[b].queue = obj[b].queue
    <3>1. obj \in [Pointers -> Objects]
      BY <1>0 DEF TypeOK, Pointers
    <3>2. \A b \in Pointers : b # a => obj'[b] = obj[b]
      BY <1>5, <3>1, TakeFacts
    <3> QED BY <1>0, <1>1, <3>2, UsedOnly
  <2>4. IsoStep
    BY <1>2, <1>3, <2>1, <2>3, <2>a, <2>b DEF IsoStep, SameEntries, UsersIn
  <2> QED BY <1>2, <2>4, IsoKeep
<1> QED BY <1>2, <1>4, <1>5

(* Release: the lock goes to one of its queue.                              *)
LEMMA IsoRelease ==
    ASSUME IsoInv, NEW t \in Threads, NEW i \in Indices, Release(t, i)
    PROVE  IsoInv'
<1>0. TypeOK /\ "lock" \in Kinds
  BY DEF IsoInv, Kinds
<1>1. PICK a \in Pointers : a = The("lock", i)
  BY <1>0, EntryFacts
<1>2. /\ TypeOK' /\ SameEntries /\ loc' = loc
      /\ \/ \A b \in Pointers : SameInside(obj', PassOn(obj, a), b)
         \/ \A b \in Pointers : SameInside(obj', obj, b)
  BY <1>0, <1>1, ReleaseFacts
<1>3. \A b \in Pointers : obj'[b].status = obj[b].status \/ obj'[b].status = "freed"
  BY <1>0, <1>1, ReleaseFacts
<1>4. \A b \in Pointers : UsersIn(obj', b) \subseteq Users(b) \cup {NoThread}
  BY <1>0, <1>2, PassOnUsers DEF SameInside, UsersIn, Users
<1>5. \A m \in Kinds, j \in Indices : table[m][j].obj \in Pointers
  BY <1>0, EntryFacts
<1>a. \A b \in Pointers : obj[b].status = "unused" /\ b # NoAddr =>
         obj'[b].owner = obj[b].owner /\ obj'[b].queue = obj[b].queue
  <2>1. obj \in [Pointers -> Objects]
    BY <1>0 DEF TypeOK, Pointers
  <2>2. \A b \in Pointers : b # a => PassOn(obj, a)[b] = obj[b]
    BY <2>1, PassOnFacts
  <2> QED BY <1>0, <1>1, <1>2, <2>2, UsedOnly DEF SameInside
<1>6. IsoStep
  BY <1>2, <1>3, <1>4, <1>5, <1>a DEF IsoStep, SameEntries, UsersIn
<1> QED BY <1>2, <1>6, IsoKeep

(* The Destroy calls change no queue.                                       *)
LEMMA IsoDestroy ==
    ASSUME IsoInv, NEW t \in Threads, NEW i \in Indices, DestroyLock(t, i) \/ DestroyCondition(t, i)
    PROVE  IsoInv'
<1>0. TypeOK /\ "lock" \in Kinds /\ "cond" \in Kinds
  BY DEF IsoInv, Kinds
<1>1. PICK a \in Pointers, v \in Pointers : a = The("lock", i) /\ v = The("cond", i)
  BY <1>0, EntryFacts
<1>2. /\ TypeOK' /\ loc' = loc /\ \A b \in Pointers : SameInside(obj', obj, b)
      /\ \A m \in Kinds, j \in Indices :
            table'[m][j].obj = table[m][j].obj /\ table'[m][j].space = table[m][j].space
  BY <1>0, <1>1, DestroyLockFacts, DestroyCondFacts
<1>3. \A b \in Pointers : obj'[b].status = obj[b].status \/ obj'[b].status = "freed"
  BY <1>0, <1>1, DestroyLockFacts, DestroyCondFacts
<1>5. \A m \in Kinds, j \in Indices : table[m][j].obj \in Pointers
  BY <1>0, EntryFacts
<1>6. IsoStep
  BY <1>2, <1>3, <1>5 DEF IsoStep, Users, SameInside
<1> QED BY <1>2, <1>6, IsoKeep

(* Wait: the thread that enters the condition may, and its lock is its own. *)
LEMMA IsoWait ==
    ASSUME IsoInv, NEW t \in Threads, NEW c \in Indices, NEW i \in Indices, Wait(t, c, i)
    PROVE  IsoInv'
<1>0. TypeOK /\ "lock" \in Kinds /\ "cond" \in Kinds
  BY DEF IsoInv, Kinds
<1>1. PICK l \in Pointers, v \in Pointers : l = The("lock", i) /\ v = The("cond", c)
  BY <1>0, EntryFacts
<1>2. TypeOK' /\ Refers(t, "cond", c) /\ Refers(t, "lock", i) /\ table' = table
  BY <1>0, <1>1, WaitFacts
<1>3. Valid(t, "cond", c) /\ Valid(t, "lock", i)
  BY <1>2, RefersValid
<1>4. \A b \in Pointers : obj'[b].status = obj[b].status \/ obj'[b].status = "freed"
  <2>1. WaitRefused(c, v, l) \/ WaitAsleep(t, c, i, v, l)
    BY <1>0, <1>1, WaitFacts
  <2> QED BY <2>1 DEF WaitRefused, WaitAsleep
<1>5. \/ \A b \in Pointers : obj'[b].owner = obj[b].owner /\ obj'[b].queue = obj[b].queue
      \/ /\ \A b \in Pointers : obj'[b].owner = PassOn(obj, l)[b].owner
         /\ \A b \in Pointers : b # v => obj'[b].queue = PassOn(obj, l)[b].queue
         /\ obj'[v].queue = Append(PassOn(obj, l)[v].queue, t)
  <2>1. WaitRefused(c, v, l) \/ WaitAsleep(t, c, i, v, l)
    BY <1>0, <1>1, WaitFacts
  <2> QED BY <2>1 DEF WaitRefused, WaitAsleep
<1>6. \A u \in Threads :
          \/ loc'[u].lock = loc[u].lock
          \/ \E j \in Indices : loc'[u].lock = table["lock"][j].obj /\ table["lock"][j].space = Space[u]
  <2>1. \/ loc' = loc
        \/ loc'[t].lock = l /\ \A u \in Threads : u # t => loc'[u] = loc[u]
    <3>1. WaitRefused(c, v, l) \/ WaitAsleep(t, c, i, v, l)
      BY <1>0, <1>1, WaitFacts
    <3> QED BY <3>1 DEF WaitRefused, WaitAsleep
  <2> QED BY <1>1, <1>3, <2>1 DEF Valid, The
<1>7. \A b \in Pointers : /\ b # v => UsersIn(obj', b) \subseteq Users(b) \cup {NoThread}
                          /\ UsersIn(obj', b) \subseteq Users(b) \cup {NoThread, t}
  <2>1. \A b \in Pointers : /\ UsersIn(PassOn(obj, l), b) \subseteq Users(b) \cup {NoThread}
                            /\ PassOn(obj, l)[b].queue \in Seq(Threads)
    BY <1>0, PassOnUsers
  <2>2. Elements(Append(PassOn(obj, l)[v].queue, t)) = Elements(PassOn(obj, l)[v].queue) \cup {t}
    BY <2>1, AppendFacts
  <2> QED BY <1>5, <2>1, <2>2 DEF UsersIn, Users
<1>8. ASSUME NEW m \in Kinds, NEW j \in Indices, obj'[table[m][j].obj].status = "live",
             NEW u \in UsersIn(obj', table[m][j].obj)
      PROVE  u \in Users(table[m][j].obj) \/ u = NoThread \/ Space[u] = table[m][j].space
  <2>1. PICK b \in Pointers : b = table[m][j].obj
    BY <1>0, EntryFacts
  <2>2. CASE b # v
    BY <1>7, <1>8, <2>1, <2>2 DEF UsersIn, Users
  <2>3. CASE b = v
    <3>1. Live(table[m][j].obj) /\ table[m][j].obj = The("cond", c)
      BY <1>1, <1>4, <1>8, <2>1, <2>3 DEF Live
    <3>2. table[m][j].space = Space[t]
      BY <1>0, <1>3, <3>1, HomeOf
    <3> QED BY <1>7, <1>8, <2>1, <3>2 DEF UsersIn, Users
  <2> QED BY <2>2, <2>3
<1>9. \A m \in Kinds, j \in Indices : table[m][j].obj \in Pointers
  BY <1>0, EntryFacts
<1>a. \A b \in Pointers : obj[b].status = "unused" /\ b # NoAddr =>
         obj'[b].owner = obj[b].owner /\ obj'[b].queue = obj[b].queue
  <2>1. obj \in [Pointers -> Objects]
    BY <1>0 DEF TypeOK, Pointers
  <2>2. \A b \in Pointers : b # l => PassOn(obj, l)[b] = obj[b]
    BY <2>1, PassOnFacts
  <2> QED BY <1>0, <1>1, <1>5, <2>2, UsedOnly
<1>10. IsoStep
  BY <1>2, <1>4, <1>6, <1>8, <1>9, <1>a DEF IsoStep, UsersIn
<1> QED BY <1>2, <1>10, IsoKeep

(* The end of Wait: the thread enters the lock it waited with.              *)
LEMMA IsoResume ==
    ASSUME IsoInv, NEW t \in Threads, ResumeWait(t)
    PROVE  IsoInv'
<1>0. TypeOK
  BY DEF IsoInv
<1>1. PICK l \in Pointers, c \in Indices : l = loc[t].lock /\ c = loc[t].index
  BY <1>0, LocStep
<1>2. TypeOK' /\ table' = table
  BY <1>0, <1>1, ResumeFacts
<1>3. (AfterWait(c, Take(obj, l, t)) /\ loc' = [loc EXCEPT ![t] = NoLocals])
      \/ (obj' = Take(obj, l, t) /\ loc' = loc)
  BY <1>0, <1>1, ResumeFacts
<1>4. \A b \in Pointers :
         /\ b # l => UsersIn(Take(obj, l, t), b) = Users(b)
         /\ UsersIn(Take(obj, l, t), b) \subseteq Users(b) \cup {t}
         /\ Take(obj, l, t)[b].status = obj[b].status
  BY <1>0, TakeUsers
<1>5. \A b \in Pointers :
         /\ UsersIn(obj', b) = UsersIn(Take(obj, l, t), b)
         /\ obj'[b].status = obj[b].status \/ obj'[b].status = "freed"
  BY <1>3, <1>4 DEF AfterWait, UsersIn
<1>6. \A u \in Threads : loc'[u].lock \in {loc[u].lock, NoAddr}
  <2>1. loc \in [Threads -> Locals] /\ NoLocals.lock = NoAddr
    BY <1>0 DEF TypeOK, NoLocals
  <2> QED BY <1>3, <2>1
<1>7. ASSUME NEW m \in Kinds, NEW j \in Indices, obj'[table[m][j].obj].status = "live",
             NEW u \in UsersIn(obj', table[m][j].obj)
      PROVE  u \in Users(table[m][j].obj) \/ u = NoThread \/ Space[u] = table[m][j].space
  <2>1. PICK b \in Pointers : b = table[m][j].obj
    BY <1>0, EntryFacts
  <2>2. CASE b # l
    BY <1>4, <1>5, <1>7, <2>1, <2>2 DEF UsersIn, Users
  <2>3. CASE b = l
    <3>1. Live(table[m][j].obj) /\ table[m][j].obj = loc[t].lock
      BY <1>1, <1>5, <1>7, <2>1, <2>3 DEF Live
    <3>2. table[m][j].space = Space[t]
      BY <3>1 DEF IsoInv, WaitsAtHome, The
    <3> QED BY <1>4, <1>5, <1>7, <2>1, <3>2 DEF UsersIn, Users
  <2> QED BY <2>2, <2>3
<1>8. \A m \in Kinds, j \in Indices : table[m][j].obj \in Pointers
  BY <1>0, EntryFacts
<1>a. \A b \in Pointers : obj[b].status = "unused" /\ b # NoAddr =>
         obj'[b].owner = obj[b].owner /\ obj'[b].queue = obj[b].queue
  <2>1. obj \in [Pointers -> Objects]
    BY <1>0 DEF TypeOK, Pointers
  <2>2. \A b \in Pointers : b # l => Take(obj, l, t)[b] = obj[b]
    BY <2>1, TakeFacts
  <2> QED BY <1>1, <1>3, <2>2, UsedOnly DEF AfterWait
<1>9. IsoStep
  BY <1>2, <1>5, <1>6, <1>7, <1>8, <1>a DEF IsoStep, UsersIn
<1> QED BY <1>2, <1>9, IsoKeep

(* The end of Wait when the lock was handed over.                           *)
LEMMA IsoFinish ==
    ASSUME IsoInv, NEW t \in Threads, FinishWait(t)
    PROVE  IsoInv'
<1>0. TypeOK
  BY DEF IsoInv
<1>1. PICK c \in Indices : c = loc[t].index
  BY <1>0, LocStep
<1>2. TypeOK' /\ table' = table /\ AfterWait(c, obj) /\ loc' = [loc EXCEPT ![t] = NoLocals]
  BY <1>0, <1>1, FinishFacts
<1>3. \A u \in Threads : loc'[u].lock \in {loc[u].lock, NoAddr}
  <2>1. loc \in [Threads -> Locals] /\ NoLocals.lock = NoAddr
    BY <1>0 DEF TypeOK, NoLocals
  <2> QED BY <1>2, <2>1
<1>4. \A m \in Kinds, j \in Indices : table[m][j].obj \in Pointers
  BY <1>0, EntryFacts
<1>5. IsoStep
  BY <1>2, <1>3, <1>4 DEF IsoStep, AfterWait, Users
<1> QED BY <1>2, <1>5, IsoKeep

(* Signal and Broadcast let nobody into an object.                          *)
LEMMA IsoWake ==
    ASSUME IsoInv, NEW t \in Threads, NEW c \in Indices, NEW i \in Indices,
           NEW all \in BOOLEAN, Wake(t, c, i, all)
    PROVE  IsoInv'
<1>0. TypeOK /\ "lock" \in Kinds /\ "cond" \in Kinds
  BY DEF IsoInv, Kinds
<1>1. PICK l \in Pointers, v \in Pointers : l = The("lock", i) /\ v = The("cond", c)
  BY <1>0, EntryFacts
<1>2. /\ TypeOK' /\ table' = table /\ loc' = loc
      /\ \A b \in Pointers : obj'[b].status = obj[b].status /\ obj'[b].owner = obj[b].owner
      /\ \A b \in Pointers : b # v => obj'[b].queue = obj[b].queue
      /\ Elements(obj'[v].queue) \subseteq Elements(obj[v].queue)
  BY <1>0, <1>1, WakeFacts DEF WakesSome
<1>3. \A b \in Pointers : UsersIn(obj', b) \subseteq Users(b)
  BY <1>2 DEF UsersIn, Users
<1>4. \A m \in Kinds, j \in Indices : table[m][j].obj \in Pointers
  BY <1>0, EntryFacts
<1>a. \A b \in Pointers : obj[b].status = "unused" /\ b # NoAddr =>
         obj'[b].owner = obj[b].owner /\ obj'[b].queue = obj[b].queue
  BY <1>0, <1>1, <1>2, UsedOnly
<1>5. IsoStep
  BY <1>2, <1>3, <1>4, <1>a DEF IsoStep, UsersIn
<1> QED BY <1>2, <1>5, IsoKeep

LEMMA IsoWakeNobody ==
    ASSUME IsoInv, NEW t \in Threads, NEW c \in Indices, NEW i \in Indices, WakeNobody(t, c, i)
    PROVE  IsoInv'
<1>1. TypeOK
  BY DEF IsoInv
<1>2. TypeOK' /\ UNCHANGED <<objVars, loc>>
  BY <1>1, WakeNobodyFacts
<1> QED BY <1>2, IsoQuiet DEF objVars, SameEntries

(* Exit frees what its process created.                                     *)
LEMMA IsoFree ==
    ASSUME IsoInv, TypeOK', NEW k \in Kinds, NEW s \in Spaces, FreeAll(k, s), loc' = loc
    PROVE  IsoInv'
<1>0. TypeOK
  BY DEF IsoInv
<1>1. \A b \in Pointers : SameInside(obj', obj, b)
  BY <1>0, FreeAllFacts
<1>2. \A b \in Pointers : obj'[b].status =
         IF \E i \in Indices : table[k][i].space = s /\ b = The(k, i) THEN "freed"
         ELSE obj[b].status
  BY <1>0, FreeAllFacts
<1>3. \A m \in Kinds, j \in Indices :
         /\ table'[m][j].obj = table[m][j].obj
         /\ IF m = k /\ table[m][j].space = s
            THEN table'[m][j].space = NoSpace /\ ~table'[m][j].isToBeDeleted
            ELSE table'[m][j] = table[m][j]
  BY <1>0, FreeAllFacts
<1>4. \A m \in Kinds, j \in Indices : table[m][j].obj \in Pointers
  BY <1>0, EntryFacts
<1>5. \A m \in Kinds, j \in Indices :
         \/ table'[m][j].space = table[m][j].space
         \/ table'[m][j].space = NoSpace /\ obj'[table[m][j].obj].status # "live"
  BY <1>2, <1>3, <1>4 DEF The
<1>6. IsoStep
  BY <1>1, <1>2, <1>3, <1>4, <1>5 DEF IsoStep, SameInside, Users
<1> QED BY <1>6, IsoKeep

(* Create fills the entry with a new object, which nobody is in.            *)
LEMMA IsoInit ==
    ASSUME IsoInv, NEW t \in Threads, InitEntry(t)
    PROVE  IsoInv'
<1>0. TypeOK /\ Created /\ Unique /\ Members /\ WaitsAtHome
  BY DEF IsoInv
<1>1. PICK k \in Kinds, i \in Indices : k = loc[t].kind /\ i = loc[t].index
  BY <1>0, LocStep
<1>2. /\ TypeOK' /\ table'[k][i].space = Space[t] /\ loc' = [loc EXCEPT ![t] = NoLocals]
      /\ \A m \in Kinds, j \in Indices : m # k \/ j # i => table'[m][j] = table[m][j]
  BY <1>0, <1>1, InitFacts
<1>3. PICK a \in Addrs :
         /\ obj[a].status = "unused" /\ obj'[a].status = "live"
         /\ SameInside(obj', obj, a)
         /\ \A b \in Pointers : b # a => obj'[b] = obj[b]
         /\ table'[k][i].obj = a
  BY <1>0, <1>1, InitFacts
<1>4. a \in Pointers /\ a # NoAddr /\ NoAddr \in Pointers
  BY SyncAssumption DEF Pointers, Addrs, NoAddr
<1>5. \A m \in Kinds, j \in Indices : table[m][j].obj \in Pointers /\ table[m][j].obj # a
  BY <1>0, <1>3, <1>4, EntryFacts DEF Created, The
<1>6. \A u \in Threads : /\ loc[u].lock \in Pointers /\ loc[u].lock # a
                         /\ loc'[u].lock \in {loc[u].lock, NoAddr}
  <2>1. loc \in [Threads -> Locals] /\ NoLocals.lock = NoAddr
    BY <1>0 DEF TypeOK, NoLocals
  <2>2. \A u \in Threads : loc[u].lock \in Pointers
    BY <1>0, LocStep
  <2> QED BY <1>0, <1>2, <1>3, <1>4, <2>1, <2>2 DEF Created
<1>7. Created'
  <2>1. obj'[NoAddr].status # "live"
    BY <1>0, <1>3, <1>4 DEF Created, Live
  <2>2. ASSUME NEW m \in Kinds, NEW j \in Indices
        PROVE  /\ table'[m][j].obj # NoAddr => obj'[table'[m][j].obj].status # "unused"
               /\ table'[m][j].space \in Spaces => table'[m][j].obj # NoAddr
    <3>1. CASE m = k /\ j = i
      BY <1>3, <1>4, <3>1
    <3>2. CASE ~(m = k /\ j = i)
      BY <1>0, <1>2, <1>3, <1>5, <3>2 DEF Created, The
    <3> QED BY <3>1, <3>2
  <2>3. \A u \in Threads : loc'[u].lock # NoAddr => obj'[loc'[u].lock].status # "unused"
    BY <1>0, <1>3, <1>6 DEF Created
  <2> QED BY <2>1, <2>2, <2>3 DEF Created, Live, The
<1>8. Unique'
  <2>1. ASSUME NEW m \in Kinds, NEW n \in Kinds, NEW j \in Indices, NEW r \in Indices,
               obj'[table'[m][j].obj].status = "live", table'[m][j].obj = table'[n][r].obj
        PROVE  m = n /\ j = r
    <3>1. CASE m = k /\ j = i
      BY <1>2, <1>3, <1>5, <2>1, <3>1
    <3>2. CASE n = k /\ r = i
      BY <1>2, <1>3, <1>5, <2>1, <3>2
    <3>3. CASE ~(m = k /\ j = i) /\ ~(n = k /\ r = i)
      <4>1. table'[m][j] = table[m][j] /\ table'[n][r] = table[n][r]
        BY <1>2, <3>3
      <4>2. obj[table[m][j].obj].status = "live"
        BY <1>3, <1>5, <2>1, <4>1
      <4> QED BY <1>0, <2>1, <4>1, <4>2 DEF Unique, Live, The
    <3> QED BY <3>1, <3>2, <3>3
  <2> QED BY <2>1 DEF Unique, Live, The
<1>9. Members'
  <2>1. ASSUME NEW m \in Kinds, NEW j \in Indices, obj'[table'[m][j].obj].status = "live",
               NEW u \in UsersIn(obj', table'[m][j].obj)
        PROVE  u = NoThread \/ Space[u] = table'[m][j].space
    <3>1. CASE m = k /\ j = i
      <4>1. UsersIn(obj', a) = Users(a) /\ Users(a) = {NoThread}
        BY <1>3, <1>4, EmptyFacts DEF IsoInv, Untouched, UsersIn, Users, SameInside
      <4> QED BY <1>3, <2>1, <3>1, <4>1
    <3>2. CASE ~(m = k /\ j = i)
      <4>1. table'[m][j] = table[m][j]
        BY <1>2, <3>2
      <4>2. PICK b \in Pointers : b = table[m][j].obj /\ b # a
        BY <1>5
      <4>3. obj'[b] = obj[b] /\ obj[b].status = "live"
        BY <1>3, <2>1, <4>1, <4>2
      <4>4. u \in Users(b)
        BY <2>1, <4>1, <4>2, <4>3 DEF UsersIn, Users
      <4> QED BY <1>0, <4>1, <4>2, <4>3, <4>4 DEF Members, Live, The
    <3> QED BY <3>1, <3>2
  <2> QED BY <2>1 DEF Members, Live, The, Users, UsersIn
<1>10. WaitsAtHome'
  <2>1. ASSUME NEW u \in Threads, NEW m \in Kinds, NEW j \in Indices,
               obj'[table'[m][j].obj].status = "live", table'[m][j].obj = loc'[u].lock
        PROVE  table'[m][j].space = Space[u]
    <3>1. loc'[u].lock # NoAddr /\ loc'[u].lock = loc[u].lock /\ loc[u].lock # a
      BY <1>0, <1>3, <1>4, <1>6, <2>1 DEF Created, Live
    <3>2. ~(m = k /\ j = i)
      BY <1>3, <2>1, <3>1
    <3>3. table'[m][j] = table[m][j]
      BY <1>2, <3>2
    <3>4. obj[table[m][j].obj].status = "live"
      BY <1>3, <1>5, <2>1, <3>3
    <3> QED BY <1>0, <2>1, <3>1, <3>3, <3>4 DEF WaitsAtHome, Live, The
  <2> QED BY <2>1 DEF WaitsAtHome, Live, The
<1>11. Untouched'
  <2>1. \A b \in Addrs : b \in Pointers
    BY DEF Pointers
  <2> QED BY <1>3, <2>1 DEF IsoInv, Untouched
<1> QED BY <1>2, <1>7, <1>8, <1>9, <1>10, <1>11 DEF IsoInv

(* Every step of a thread keeps the invariant.                              *)
LEMMA IsoNext ==
    ASSUME IsoInv, NEW t \in Threads, ThreadNext(t)
    PROVE  IsoInv'
<1>0. TypeOK /\ "lock" \in Kinds /\ "cond" \in Kinds /\ Space[t] \in Spaces
  BY SyncAssumption DEF IsoInv, Kinds
<1>1. CASE \E k \in Kinds : Create(t, k)
  <2>1. PICK k \in Kinds : Create(t, k)
    BY <1>1
  <2>2. TypeOK' /\ UNCHANGED <<table, obj>> /\ \A u \in Threads : loc'[u].lock = loc[u].lock
    BY <1>0, <2>1, CreateFacts
  <2> QED BY <2>2, IsoQuiet DEF SameEntries
<1>2. CASE Find(t)
  <2>1. TypeOK' /\ UNCHANGED <<table, obj>> /\ \A u \in Threads : loc'[u].lock = loc[u].lock
    BY <1>0, <1>2, FindFacts
  <2> QED BY <2>1, IsoQuiet DEF SameEntries
<1>3. CASE Exit(t)
  <2>1. TypeOK' /\ UNCHANGED <<table, obj, loc>>
    BY <1>0, <1>3, ExitFacts
  <2> QED BY <2>1, IsoQuiet DEF SameEntries
<1>4. CASE ExitLocks(t)
  BY <1>0, <1>4, ExitLocksFacts, IsoFree
<1>5. CASE ExitConds(t)
  BY <1>0, <1>5, ExitCondsFacts, IsoFree
<1>6. CASE InitEntry(t)
  BY <1>6, IsoInit
<1>7. CASE \E i \in Indices : Acquire(t, i) \/ Release(t, i) \/ DestroyLock(t, i)
  BY <1>7, IsoAcquire, IsoRelease, IsoDestroy
<1>8. CASE \E c, i \in Indices : \/ Wait(t, c, i) \/ Signal(t, c, i) \/ Broadcast(t, c, i)
                                  \/ WakeNobody(t, c, i)
  BY <1>8, IsoWait, IsoWake, IsoWakeNobody DEF Signal, Broadcast
<1>9. CASE ResumeWait(t) \/ FinishWait(t)
  BY <1>9, IsoResume, IsoFinish
<1>10. CASE \E c \in Indices : DestroyCondition(t, c)
  BY <1>10, IsoDestroy
<1> QED BY <1>1, <1>2, <1>3, <1>4, <1>5, <1>6, <1>7, <1>8, <1>9, <1>10 DEF ThreadNext

(* The start: empty tables, no object.                                      *)
LEMMA IsoStart == Init => IsoInv
<1> SUFFICES ASSUME Init PROVE IsoInv
  OBVIOUS
<1>1. [obj |-> NoAddr, space |-> NoSpace, isToBeDeleted |-> FALSE, acquireCount |-> 0] \in Entries
  BY DEF Entries
<1>2. [status |-> "unused", owner |-> NoThread, waitingLock |-> NoAddr, queue |-> <<>>] \in Objects
  BY EmptyFacts DEF Objects
<1>3. NoLocals \in Locals
  BY SyncAssumption DEF NoLocals, Locals, Kinds, Indices
<1>4. TypeOK
  BY <1>1, <1>2, <1>3 DEF Init, TypeOK, Places
<1>5. \A b \in Pointers : obj[b].status = "unused" /\ obj[b].owner = NoThread /\ obj[b].queue = <<>>
  BY DEF Init, Pointers
<1>6. \A k \in Kinds, i \in Indices : table[k][i].obj = NoAddr /\ table[k][i].space = NoSpace
  BY DEF Init
<1>7. \A t \in Threads : loc[t].lock = NoAddr
  BY DEF Init, NoLocals
<1>8. NoAddr \in Pointers
  BY DEF Pointers
<1>9. Created /\ Unique /\ Members /\ WaitsAtHome
  BY <1>5, <1>6, <1>7, <1>8, SyncAssumption DEF Created, Unique, Members, WaitsAtHome, Live, The
<1>10. Untouched
  BY <1>5 DEF Untouched, Pointers
<1> QED BY <1>4, <1>9, <1>10 DEF IsoInv

(* A step that changes nothing keeps it.                                    *)
LEMMA IsoStutter ==
    ASSUME IsoInv, UNCHANGED vars
    PROVE  IsoInv'
BY DEF vars, objVars, progVars, IsoInv, TypeOK, Created, Unique, Members, WaitsAtHome, Untouched,
       Users, Live, The

(* The invariant holds whatever the programs do, types included.            *)
THEOREM IsoInvHolds == Spec => []IsoInv
<1>1. ASSUME IsoInv, [Next]_vars
      PROVE  IsoInv'
  <2>1. CASE Next
    BY <1>1, <2>1, IsoNext DEF Next
  <2>2. CASE UNCHANGED vars
    BY <1>1, <2>2, IsoStutter
  <2> QED BY <1>1, <2>1, <2>2
<1> QED BY <1>1, IsoStart, PTL DEF Spec

(* The threads that hold a lock or sleep in an object of the tables are of
   the process that created it, whatever indices the programs pass.         *)
THEOREM IsolationHolds == Spec => []Isolation
<1>1. ASSUME IsoInv
      PROVE  Isolation
  BY <1>1 DEF IsoInv, TypeOK, Members, Users, Isolation
<1> QED BY <1>1, IsoInvHolds, PTL
=============================================================================
