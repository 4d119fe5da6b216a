---------------------------- MODULE JsonTreeProofs ----------------------------
(***************************************************************************)
(* The tree of the parser, and the walk that releases it, for every text:  *)
(* NoBadFree, LeaksOnlyOpenValues and CrashesAtRootOnly.                   *)
(*                                                                         *)
(* While pass 0 runs, each value that it has taken is stored in its parent *)
(* unless it is on the way from top to the root.  The walk of              *)
(* json_value_free_ex is at the end of such a way, too: the values on it   *)
(* have been taken out of their parents' lists, everything else in the     *)
(* tree is still in its parent's.                                          *)
(***************************************************************************)
EXTENDS JsonProofs

Parent(n) == values[n].parent
Places(n) == 1 .. Len(values[n].kids)

(* S: n, its parent, and so on up to the root.  There is nothing above 0. *)
Branch(S, n) ==
    /\ S \subseteq 1 .. Len(values)
    /\ n \in S \/ (n = 0 /\ S = {})
    /\ \A m \in S :
         /\ m <= n
         /\ IF Parent(m) = 0 THEN m = root ELSE Parent(m) \in S
         /\ \A k \in S : m < k => m <= Parent(k)

(* The values that pass 0 has taken; behind it, and in pass 1, all. *)
Given == {n \in 1 .. Len(values) : first_pass = 0 => alloc = 0 \/ n < alloc}

(* The value that pass 0 is in the middle of. *)
Tip == IF first_pass = 0 /\ "done" \notin flags THEN top ELSE 0

(* O: the values that are not complete.  The others are in their parents. *)
IsEntry(n) ==
    Parent(n) \in Given /\ \E i \in Places(Parent(n)) : values[Parent(n)].kids[i] = n

Child(n, i) ==
    LET k == values[n].kids[i] IN
    /\ values[n].type \in Containers /\ Parent(k) = n
    /\ \A j \in Places(n) : values[n].kids[j] = k => j = i

Growing(O) ==
    /\ Branch(O, Tip)
    /\ \A n \in Given : n \in O \/ n = root \/ IsEntry(n)
    /\ \A n \in 1 .. Len(values) : \A i \in Places(n) :
         Child(n, i) /\ n \in Given /\ values[n].kids[i] \in Given \ O
    /\ root # 0 => root \in Given /\ Parent(root) = 0
    /\ top = 0 => root = 0

(* Its blocks are there, and it says which. *)
Held(n) == Value(n) \in live /\ (Data(n) \in live <=> Allocated(values[n]))

(* Its entries are there. *)
Sound(n) == HasKids(values[n]) => Stored(values[n])

(* Pass 0 is over, or has failed in the middle of top. *)
Over(O) ==
    /\ Growing(O) /\ root # 0
    /\ \A n \in 1 .. Len(values) : Held(n)
    /\ first_pass = 0 => top \in O
    /\ \A n \in Given : /\ Sound(n) \/ (first_pass = 0 /\ n = top)
                        /\ \A i \in Places(n) : i <= values[n].length
    /\ \A n \in (1 .. Len(values)) \ Given : ~Allocated(values[n])

Blocks(S) == UNION {{Value(n), Data(n)} : n \in S}

(* L: not in the tree, for they are below a value that is not complete. *)
OutOfTree(L, O) ==
    /\ Branch(O, Tip)
    /\ L \subseteq Given
    /\ \A n \in L : n \in O \ {root} \/ Parent(n) \in L

(* W: what is left of the tree.  A: from c to the root. *)
Walking(W, A, c) ==
    /\ Branch(A, c)
    /\ A \subseteq W /\ W \subseteq 1 .. Len(values)
    /\ \A n \in W :
         /\ Held(n)
         /\ Sound(n) \/ (n = top /\ n = root)
         /\ \/ n \in A
            \/ /\ Parent(n) \in W
               /\ \E i \in Places(Parent(n)) :
                     i <= values[Parent(n)].length /\ values[Parent(n)].kids[i] = n
         /\ \A i \in Places(n) :
              Child(n, i) /\ (i <= values[n].length => values[n].kids[i] \in W \ A)

(* Pass 1 allocates values, and nothing for them. *)
ChainHeld == live = {Value(n) : n \in 1 .. Len(values)}

(* What holds of the tree at each label. *)
TreeOf ==
    /\ pc \in {"scan", "e_failed", "e_alloc_failure"} /\ first_pass = 1 =>
         ChainHeld /\ root = (IF Len(values) = 0 THEN 0 ELSE 1)
    /\ pc = "scan" /\ first_pass = 0 =>
         /\ \E O : Growing(O) /\ \A n \in 1 .. Len(values) : Held(n)
         /\ "done" \in flags => root # 0
    /\ pc = "returned" \/ (pc = "e_alloc_failure" /\ first_pass = 0) => \E O : Over(O)
    /\ pc = "free" =>
         \E O, L, W, A : OutOfTree(L, O) /\ Walking(W, A, cur) /\ live \subseteq Blocks(W \cup L)
    /\ pc \in {"failed", "freed"} => \E O, L : OutOfTree(L, O) /\ live \subseteq Blocks(L)
    /\ pc \in {"e_failed", "e_alloc_failure"} => first_pass \in {0, 1}
    /\ pc \in {"returned", "freed"} => first_pass = -1
    /\ pc = "free" => first_pass # 1
    /\ pc = "crashed" => cur = root /\ top = root /\ values[root].type \in Containers

TreeInv == PassesInv /\ ~badFree /\ TreeOf

----------------------------------------------------------------------------
(* Blocks have their numbers. *)
LEMMA BlockNames ==
    \A n, m : /\ Value(n) # Data(m)
              /\ (Value(n) = Value(m) => n = m) /\ (Data(n) = Data(m) => n = m)
BY DEF Value, Data

(* The chain is a sequence. *)
LEMMA ChainIs ==
    ASSUME Inv
    PROVE  values \in Seq(Records) /\ Len(values) \in Nat
<1>1. values \in Seq(Records)
  BY DEF Inv, TypeOK
<1>2. QED
  BY <1>1

(* Where a value of the chain leads to. *)
LEMMA ParentBelow ==
    ASSUME Inv, NEW n \in 1 .. Len(values)
    PROVE  /\ values[n] \in Records /\ Parent(n) \in Nat /\ Parent(n) < n /\ n \in Nat /\ n # 0
           /\ Len(values) \in Nat /\ Parent(n) \in 0 .. Len(values)
<1>1. values \in Seq(Records) /\ Len(values) \in Nat
  BY ChainIs
<1>2. Parent(n) \in 0 .. n - 1 /\ values[n] \in Records
  BY <1>1 DEF Inv, ChainOK, Parent
<1>3. QED
  BY <1>1, <1>2

(* So are its entries. *)
LEMMA KidBelow ==
    ASSUME Inv, NEW n \in 1 .. Len(values), NEW i \in Places(n)
    PROVE  values[n].kids[i] \in 1 .. Len(values)
<1>1. values[n].kids \in Seq(1 .. Len(values))
  BY DEF Inv, ChainOK
<1>2. QED
  BY <1>1 DEF Places

(* One step up a branch. *)
LEMMA BranchUp ==
    ASSUME Inv, NEW S, NEW n, Branch(S, n), n # 0
    PROVE  Branch(S \ {n}, Parent(n))
<1>0. n \in S /\ S \subseteq 1 .. Len(values) /\ n \in 1 .. Len(values)
  BY DEF Branch
<1>1. Parent(n) \in S \ {n} \/ (Parent(n) = 0 /\ S \ {n} = {})
  <2>1. CASE Parent(n) = 0
    <3>1. ASSUME NEW m \in S, m # n
          PROVE  FALSE
      <4>1. m <= n /\ m \in Nat /\ n \in Nat /\ m >= 1
        BY <1>0, <3>1, ParentBelow DEF Branch
      <4>2. m <= Parent(n)
        BY <1>0, <3>1, <4>1 DEF Branch
      <4>3. QED
        BY <2>1, <4>1, <4>2
    <3>2. QED
      BY <2>1, <3>1
  <2>2. CASE Parent(n) # 0
    <3>1. Parent(n) \in S
      BY <1>0, <2>2 DEF Branch
    <3>2. Parent(n) # n
      BY <1>0, ParentBelow
    <3>3. QED
      BY <3>1, <3>2
  <2>3. QED
    BY <2>1, <2>2
<1>2. ASSUME NEW m \in S \ {n}
      PROVE  /\ m <= Parent(n)
             /\ IF Parent(m) = 0 THEN m = root ELSE Parent(m) \in S \ {n}
  <2>1. m <= n /\ m \in 1 .. Len(values)
    BY <1>0 DEF Branch
  <2>2. Parent(m) < m /\ m \in Nat /\ n \in Nat /\ Parent(m) \in Nat
    BY <1>0, <2>1, ParentBelow
  <2>3. m < n /\ Parent(m) # n
    BY <2>1, <2>2
  <2>4. QED
    BY <1>0, <2>3 DEF Branch
<1>3. QED
  BY <1>0, <1>1, <1>2 DEF Branch

(* One step down, to a child. *)
LEMMA BranchDown ==
    ASSUME Inv, NEW S, NEW n, Branch(S, n), NEW k \in 1 .. Len(values), Parent(k) = n,
           n = 0 => k = root
    PROVE  Branch(S \cup {k}, k)
<1>0. S \subseteq 1 .. Len(values) /\ n \in Nat /\ k \in Nat /\ n < k
  BY ParentBelow DEF Branch
<1>1. ASSUME NEW m \in S
      PROVE  m <= n /\ m < k /\ Parent(m) # k /\ Parent(m) < k
  <2>1. m <= n /\ m \in Nat /\ Parent(m) < m /\ Parent(m) \in Nat
    BY <1>0, ParentBelow DEF Branch
  <2>2. QED
    BY <1>0, <2>1
<1>2. IF Parent(k) = 0 THEN k = root ELSE Parent(k) \in S
  BY DEF Branch
<1>3. ASSUME NEW m \in S \cup {k}
      PROVE  /\ m <= k
             /\ IF Parent(m) = 0 THEN m = root ELSE Parent(m) \in S \cup {k}
             /\ \A j \in S \cup {k} : m < j => m <= Parent(j)
  <2>1. CASE m = k
    BY <1>0, <1>1, <1>2, <2>1
  <2>2. CASE m \in S
    <3>1. m <= k /\ m \in Nat
      BY <1>0, <1>1, <2>2
    <3>2. QED
      BY <1>1, <2>2, <3>1 DEF Branch
  <2>3. QED
    BY <2>1, <2>2
<1>4. QED
  BY <1>0, <1>3 DEF Branch

(* The chain and the way up it stay as they are. *)
SameParents ==
    /\ Len(values') = Len(values)
    /\ \A n \in 1 .. Len(values) : values'[n].parent = values[n].parent

LEMMA BranchStays ==
    ASSUME NEW S, NEW n, Branch(S, n), SameParents, root' = root \/ S = {}
    PROVE  Branch(S, n)'
BY DEF Branch, SameParents, Parent

(* The root has no parent, so the way up from 0 is empty. *)
LEMMA NoBranch ==
    ASSUME Inv, NEW S, Branch(S, 0)
    PROVE  S = {}
<1>1. ASSUME NEW m \in S
      PROVE  FALSE
  <2>1. m <= 0 /\ m \in 1 .. Len(values)
    BY DEF Branch
  <2>2. QED
    BY <2>1, ParentBelow
<1>2. QED
  BY <1>1

----------------------------------------------------------------------------
(* Path is defined by recursion on the chain: such a function exists. *)
Upwards(C) == \A k \in C \ {0} : Parent(k) # 0 => Parent(k) \in C

Above ==
    [n \in 0 .. Len(values) |->
       IF n = 0 THEN {}
       ELSE {m \in 1 .. Len(values) :
               \A C \in SUBSET (1 .. Len(values)) : n \in C /\ Upwards(C) => m \in C}]

LEMMA AboveIs ==
    ASSUME Inv
    PROVE  Above = [n \in 0 .. Len(values) |-> IF n = 0 THEN {} ELSE {n} \cup Above[values[n].parent]]
<1>1. ASSUME NEW n \in 1 .. Len(values)
      PROVE  Above[n] = {n} \cup Above[Parent(n)]
  <2>0. /\ Parent(n) \in 0 .. Len(values) /\ n \in 0 .. Len(values) /\ n # 0
        /\ Parent(n) # 0 => Parent(n) \in 1 .. Len(values)
    <3>1. Parent(n) \in 0 .. Len(values) /\ n \in Nat /\ Len(values) \in Nat /\ n # 0
      BY ParentBelow
    <3>2. QED
      BY <3>1
  <2>1. Above[n] = {m \in 1 .. Len(values) :
                      \A C \in SUBSET (1 .. Len(values)) : n \in C /\ Upwards(C) => m \in C}
    BY <2>0 DEF Above
  <2>2. CASE Parent(n) = 0
    <3>1. Above[Parent(n)] = {}
      BY <2>0, <2>2 DEF Above
    <3>2. Upwards({n})
      BY <2>2 DEF Upwards
    <3>3. \A m \in Above[n] : m \in {n}
      BY <2>1, <3>2
    <3>4. n \in Above[n]
      BY <2>1
    <3>5. QED
      BY <3>1, <3>3, <3>4
  <2>3. CASE Parent(n) # 0
    <3>1. Above[Parent(n)] = {m \in 1 .. Len(values) :
             \A C \in SUBSET (1 .. Len(values)) : Parent(n) \in C /\ Upwards(C) => m \in C}
      BY <2>0, <2>3 DEF Above
    <3>2. n \in Above[n] /\ Above[Parent(n)] \subseteq Above[n]
      BY <2>0, <2>1, <2>3, <3>1 DEF Upwards
    <3>3. ASSUME NEW m \in Above[n], m # n
          PROVE  m \in Above[Parent(n)]
      <4>1. ASSUME NEW C \in SUBSET (1 .. Len(values)), Parent(n) \in C, Upwards(C)
            PROVE  m \in C
        <5>1. Upwards(C \cup {n}) /\ C \cup {n} \in SUBSET (1 .. Len(values)) /\ n \in C \cup {n}
          BY <4>1 DEF Upwards
        <5>2. m \in C \cup {n}
          BY <2>1, <5>1
        <5>3. QED
          BY <3>3, <5>2
      <4>2. QED
        BY <2>1, <3>1, <4>1
    <3>4. QED
      BY <3>2, <3>3
  <2>4. QED
    BY <2>2, <2>3
<1>2. Len(values) \in Nat
  BY ChainIs
<1>3. \A n \in 0 .. Len(values) : n = 0 \/ n \in 1 .. Len(values)
  BY <1>2
<1>4. QED
  <2> DEFINE F == [n \in 0 .. Len(values) |-> IF n = 0 THEN {} ELSE {n} \cup Above[values[n].parent]]
  <2>1. Above = [n \in 0 .. Len(values) |-> Above[n]]
    BY DEF Above
  <2>2. ASSUME NEW n \in 0 .. Len(values)
        PROVE  Above[n] = IF n = 0 THEN {} ELSE {n} \cup Above[values[n].parent]
    <3>1. CASE n = 0
      BY <1>2, <3>1 DEF Above
    <3>2. CASE n # 0
      BY <1>1, <1>3, <3>2 DEF Parent
    <3>3. QED
      BY <3>1, <3>2
  <2>3. QED
    BY <2>1, <2>2

(* So Path is one. *)
LEMMA PathIs ==
    ASSUME Inv
    PROVE  /\ Path[0] = {}
           /\ \A n \in 1 .. Len(values) : Path[n] = {n} \cup Path[Parent(n)]
<1>1. Path = [n \in 0 .. Len(values) |-> IF n = 0 THEN {} ELSE {n} \cup Path[values[n].parent]]
  BY AboveIs DEF Path
<1>2. Len(values) \in Nat
  BY ChainIs
<1>3. ASSUME NEW n \in 1 .. Len(values)
      PROVE  n \in 0 .. Len(values) /\ n # 0
  BY <1>2
<1>4. 0 \in 0 .. Len(values)
  BY <1>2
<1>5. QED
  BY <1>1, <1>3, <1>4 DEF Parent

(* A branch is a part of the path of its lower end. *)
LEMMA BranchInPath ==
    ASSUME Inv, NEW S, NEW n, Branch(S, n), NEW m \in S
    PROVE  n \in 1 .. Len(values) /\ m \in Path[n]
<1>0. S \subseteq 1 .. Len(values) /\ n \in S /\ m <= n /\ n \in 1 .. Len(values)
  BY DEF Branch
<1>1. \A k \in 1 .. Len(values) : k \in Nat /\ Parent(k) \in Nat /\ Parent(k) < k
  BY ParentBelow
<1> DEFINE T == {k \in S : m <= k /\ Path[k] \subseteq Path[n]}
<1>2. T \in SUBSET Nat /\ T # {}
  BY <1>0, <1>1
<1>3. PICK k \in T : \A j \in T : k <= j
  BY <1>2, Least
<1>4. k = m
  <2>1. SUFFICES ASSUME k # m
                 PROVE  FALSE
    OBVIOUS
  <2>2. m < k /\ k \in S /\ Parent(k) < k /\ m \in Nat /\ k \in Nat /\ Parent(k) \in Nat
    BY <1>0, <1>1, <2>1
  <2>3. m <= Parent(k)
    BY <2>2 DEF Branch
  <2>4. Parent(k) # 0
    BY <1>0, <2>2, <2>3
  <2>5. Parent(k) \in S
    BY <2>2, <2>4 DEF Branch
  <2>6. Path[Parent(k)] \subseteq Path[n]
    BY <1>0, <1>3, PathIs
  <2>7. Parent(k) \in T
    BY <2>3, <2>5, <2>6
  <2>8. QED
    BY <1>3, <2>2, <2>7
<1>5. QED
  BY <1>0, <1>3, <1>4, PathIs

(* What is out of the tree is below a value that was not complete. *)
LEMMA OutOfTreeIsLost ==
    ASSUME Inv, NEW O, NEW L, OutOfTree(L, O)
    PROVE  /\ Tip = 0 => L = {}
           /\ first_pass = 0 => L \subseteq Lost
<1>0. L \subseteq 1 .. Len(values) /\ L \subseteq Given
  BY DEF OutOfTree, Given
<1>1. \A k \in 1 .. Len(values) : k \in Nat /\ Parent(k) \in Nat /\ Parent(k) < k
  BY ParentBelow
<1>2. ASSUME NEW n \in L
      PROVE  \E m \in O : m # root /\ m \in Path[n]
  <2> DEFINE T == {k \in L : ~ \E m \in O : m # root /\ m \in Path[k]}
  <2>1. SUFFICES ASSUME T # {}
                 PROVE  FALSE
    OBVIOUS
  <2>2. T \in SUBSET Nat
    BY <1>0, <1>1
  <2>3. PICK k \in T : \A j \in T : k <= j
    BY <2>1, <2>2, Least
  <2>4. k \in Path[k] /\ Path[Parent(k)] \subseteq Path[k]
    BY <1>0, PathIs
  <2>5. Parent(k) \in L
    BY <2>4 DEF OutOfTree
  <2>6. Parent(k) \in T
    BY <2>4, <2>5
  <2>7. k \in 1 .. Len(values)
    BY <1>0
  <2>8. Parent(k) < k /\ k \in Nat /\ Parent(k) \in Nat
    BY <1>1, <2>7
  <2>9. k <= Parent(k)
    BY <2>3, <2>6
  <2>10. QED
    BY <2>8, <2>9
<1>3. Branch(O, Tip)
  BY DEF OutOfTree
<1>4. ASSUME Tip = 0
      PROVE  L = {}
  BY <1>2, <1>3, <1>4, NoBranch
<1>5. ASSUME first_pass = 0, NEW n \in L
      PROVE  n \in Lost
  <2>1. PICK m \in O : m # root /\ m \in Path[n]
    BY <1>2, <1>5
  <2>2. Tip \in 1 .. Len(values) /\ m \in Path[Tip]
    BY <1>3, BranchInPath
  <2>3. Tip = top
    BY <1>4, <1>5 DEF Tip
  <2>4. n \in Taken
    BY <1>0, <1>5, ChainIs DEF Taken, Given
  <2>5. QED
    BY <2>1, <2>2, <2>3, <2>4 DEF Lost
<1>6. QED
  BY <1>4, <1>5

----------------------------------------------------------------------------
(* Where the walk begins: what is not below an incomplete value is the tree. *)
LEMMA WalkBegins ==
    ASSUME Inv, NEW O, Over(O), first_pass # 1
    PROVE  \E L, W : OutOfTree(L, O) /\ Walking(W, {root}, root) /\ W \cup L = Given
<1>0. /\ Growing(O) /\ root \in Given /\ Parent(root) = 0 /\ root # 0
      /\ O \subseteq 1 .. Len(values)
  BY DEF Over, Growing, Branch
<1>1. Given \subseteq 1 .. Len(values)
  BY DEF Given
<1>2. \A k \in 1 .. Len(values) : k \in Nat /\ Parent(k) \in Nat /\ Parent(k) < k /\ k # 0
  BY ParentBelow
<1> DEFINE B == O \ {root}
           W == {n \in Given : Path[n] \cap B = {}}
           L == Given \ W
<1>3. root \in W
  BY <1>0, <1>1, PathIs
<1>4. ASSUME NEW n \in L
      PROVE  n \in B \/ Parent(n) \in L
  <2>1. SUFFICES ASSUME n \notin B
                 PROVE  Parent(n) \in L
    OBVIOUS
  <2>2. Path[Parent(n)] \cap B # {}
    BY <1>1, <2>1, PathIs
  <2>3. Parent(n) # 0
    BY <2>2, PathIs
  <2>4. Parent(n) \in Given
    BY <1>0, <1>3, <2>1, <2>3 DEF Growing, IsEntry
  <2>5. QED
    BY <2>2, <2>4
<1>5. OutOfTree(L, O)
  BY <1>0, <1>4 DEF OutOfTree, Growing
<1>6. Branch({root}, root)
  BY <1>0, <1>1, <1>2 DEF Branch
<1>7. ASSUME NEW n \in W
      PROVE  /\ Held(n)
             /\ Sound(n) \/ (n = top /\ n = root)
  <2>1. Held(n)
    BY <1>1 DEF Over
  <2>2. n \in Path[n]
    BY <1>1, PathIs
  <2>3. first_pass = 0 /\ n = top => n = root
    BY <2>2 DEF Over
  <2>4. QED
    BY <2>1, <2>3 DEF Over
<1>8. ASSUME NEW n \in W, n # root
      PROVE  /\ Parent(n) \in W
             /\ \E i \in Places(Parent(n)) :
                   i <= values[Parent(n)].length /\ values[Parent(n)].kids[i] = n
  <2>1. n \in Path[n] /\ Path[Parent(n)] \subseteq Path[n]
    BY <1>1, PathIs
  <2>2. IsEntry(n)
    BY <1>0, <1>8, <2>1 DEF Growing
  <2>3. Parent(n) \in W
    BY <2>1, <2>2 DEF IsEntry
  <2>4. QED
    BY <2>2, <2>3 DEF IsEntry, Over
<1>9. ASSUME NEW n \in W, NEW i \in Places(n)
      PROVE  Child(n, i) /\ values[n].kids[i] \in W \ {root}
  <2> DEFINE k == values[n].kids[i]
  <2>1. Child(n, i) /\ k \in Given \ O /\ n \in 1 .. Len(values)
    BY <1>0, <1>1 DEF Growing
  <2>2. Parent(k) = n /\ n # 0
    BY <1>2, <2>1 DEF Child
  <2>3. Path[k] = {k} \cup Path[n]
    BY <1>1, <2>1, <2>2, PathIs
  <2>4. QED
    BY <1>0, <2>1, <2>2, <2>3
<1>10. Walking(W, {root}, root)
  <2>1. {root} \subseteq W /\ W \subseteq 1 .. Len(values)
    BY <1>1, <1>3
  <2> HIDE DEF W
  <2>2. QED
    BY <1>6, <1>7, <1>8, <1>9, <2>1 DEF Walking
<1>11. W \cup L = Given
  OBVIOUS
<1>12. QED
  BY <1>5, <1>10, <1>11

(* Nothing is out of the tree that was not. *)
LEMMA OutOfTreeStays ==
    ASSUME NEW O, NEW L, OutOfTree(L, O), UNCHANGED <<first_pass, top, root, alloc, flags>>, SameParents
    PROVE  OutOfTree(L, O)'
<1>1. Tip' = Tip /\ Given' = Given
  BY DEF Tip, Given, SameParents
<1>2. Branch(O, Tip)'
  BY <1>1, BranchStays DEF OutOfTree
<1>3. \A n \in L : n \in 1 .. Len(values)
  BY DEF OutOfTree, Given
<1>4. QED
  BY <1>1, <1>2, <1>3 DEF OutOfTree, SameParents, Parent

(* json_parse_ex has failed, or the caller has used the document. *)
LEMMA FreeBegins ==
    ASSUME TreeInv, FreeChain \/ FreeDocument
    PROVE  ~badFree' /\ TreeOf'
<1>0. Inv /\ ~badFree /\ TreeOf
  BY DEF TreeInv, PassesInv
<1>1. UNCHANGED <<first_pass, flags, top, root, alloc, values>>
  BY DEF FreeChain, FreeDocument, scanner, tree
<1>2. SameParents /\ Tip' = Tip /\ Given' = Given
  BY <1>1 DEF SameParents, Tip, Given
<1>3. CASE FreeChain /\ first_pass = 1
  <2>1. ChainHeld /\ root = (IF Len(values) = 0 THEN 0 ELSE 1)
    BY <1>0, <1>3 DEF FreeChain, TreeOf
  <2>2. Free(live) /\ pc' = "failed"
    <3>1. 1 .. Len(values) = IF root = 0 THEN {} ELSE root .. Len(values)
      BY <1>0, <2>1, ChainIs
    <3>2. CASE root = 0
      <4>1. live = {}
        BY <2>1, <3>1, <3>2 DEF ChainHeld
      <4>2. QED
        BY <1>3, <3>2, <4>1 DEF FreeChain
    <3>3. CASE root # 0
      BY <1>3, <2>1, <3>1, <3>3 DEF FreeChain, ChainHeld
    <3>4. QED
      BY <3>2, <3>3
  <2>3. live' = {} /\ ~badFree'
    BY <1>0, <2>2 DEF Free
  <2>4. OutOfTree({}, {})'
    <3>1. Tip = 0
      BY <1>3 DEF Tip
    <3>2. QED
      BY <1>2, <3>1 DEF OutOfTree, Branch
  <2>5. QED
    BY <1>1, <1>3, <2>2, <2>3, <2>4 DEF TreeOf
<1>4. CASE FreeDocument \/ (FreeChain /\ first_pass # 1)
  <2>1. first_pass # 1 /\ pc' = "free" /\ cur' = root
    BY <1>0, <1>4 DEF FreeDocument, FreeChain, TreeOf
  <2>2. PICK O : Over(O)
    <3>1. CASE FreeDocument
      BY <1>0, <3>1 DEF FreeDocument, TreeOf
    <3>2. CASE FreeChain /\ first_pass # 1
      <4>1. pc = "e_alloc_failure" /\ first_pass = 0
        BY <1>0, <3>2 DEF FreeChain, TreeOf, TreeInv, PassesInv
      <4>2. QED
        BY <1>0, <4>1 DEF TreeOf
    <3>3. QED
      BY <1>4, <3>1, <3>2
  <2>3. PICK L, W : OutOfTree(L, O) /\ Walking(W, {root}, root) /\ W \cup L = Given
    BY <1>0, <2>1, <2>2, WalkBegins
  <2>4. /\ live' \subseteq live /\ ~badFree'
        /\ \A n \in Given : {Value(n), Data(n)} \cap live \subseteq live'
        /\ \A n \in (1 .. Len(values)) \ Given : {Value(n), Data(n)} \cap live' = {}
    <3>1. CASE FreeDocument
      <4>1. Given = 1 .. Len(values)
        BY <1>0, <3>1 DEF FreeDocument, TreeOf, Given
      <4>2. QED
        BY <1>0, <3>1, <4>1 DEF FreeDocument
    <3>2. CASE FreeChain /\ first_pass # 1
      <4>1. first_pass = 0
        BY <1>0, <3>2 DEF FreeChain, TreeOf
      <4> DEFINE others == IF alloc = 0 THEN {} ELSE alloc .. Len(values)
      <4>2. Free({Value(n) : n \in others})
        BY <3>2, <4>1 DEF FreeChain
      <4>3. others = (1 .. Len(values)) \ Given
        <5>1. alloc \in Nat /\ Len(values) \in Nat
          BY <1>0, ChainIs, TreeOfInv DEF TreeOK
        <5>2. QED
          BY <4>1, <5>1 DEF Given
      <4> HIDE DEF others
      <4>4. \A n \in 1 .. Len(values) : Held(n) /\ (n \notin Given => ~Allocated(values[n]))
        BY <2>2 DEF Over
      <4>5. {Value(n) : n \in others} \subseteq live
        BY <4>3, <4>4 DEF Held
      <4>6. live' = live \ {Value(n) : n \in others} /\ ~badFree'
        BY <1>0, <4>2, <4>5 DEF Free
      <4>7. ASSUME NEW n \in Given
            PROVE  {Value(n), Data(n)} \cap live \subseteq live'
        BY <4>3, <4>6, <4>7, BlockNames
      <4>8. ASSUME NEW n \in (1 .. Len(values)) \ Given
            PROVE  {Value(n), Data(n)} \cap live' = {}
        BY <4>3, <4>4, <4>6 DEF Held
      <4>9. QED
        BY <4>6, <4>7, <4>8
    <3>3. QED
      BY <1>4, <2>1, <3>1, <3>2
  <2>5. OutOfTree(L, O)'
    BY <1>1, <1>2, <2>3, OutOfTreeStays
  <2>6. Walking(W, {root}, root)'
    <3>1. ASSUME NEW n \in W
          PROVE  Held(n)'
      <4>1. Held(n) /\ n \in Given
        BY <2>3 DEF Walking
      <4>2. QED
        BY <1>1, <2>4, <4>1 DEF Held
    <3>2. QED
      BY <1>1, <2>3, <3>1 DEF Walking, Branch, Sound, Child, Places, Parent
  <2>7. live' \subseteq Blocks(W \cup L)
    <3>1. ASSUME NEW b \in live'
          PROVE  b \in Blocks(Given)
      <4>1. live \subseteq {"value", "data"} \X (1 .. Len(values))
        BY <1>0, TreeOfInv DEF TreeOK
      <4>2. PICK n \in 1 .. Len(values) : b \in {Value(n), Data(n)}
        BY <2>4, <4>1 DEF Value, Data
      <4>3. n \in Given
        BY <2>4, <4>2
      <4>4. QED
        BY <4>2, <4>3 DEF Blocks
    <3>2. QED
      BY <2>3, <3>1
  <2>8. QED
    <3>1. Walking(W, {root}, cur)'
      BY <1>1, <2>1, <2>6
    <3>2. QED
      BY <1>1, <2>1, <2>4, <2>5, <2>7, <3>1 DEF TreeOf
<1>5. QED
  BY <1>3, <1>4

(* json_value_free_ex releases a value that has no entries left. *)
LEMMA WalkReleases ==
    ASSUME Inv, NEW W, NEW A, NEW L, Walking(W, A, cur), live \subseteq Blocks(W \cup L), ~badFree,
           Release
    PROVE  \E W2, A2 : /\ Walking(W2, A2, cur)' /\ ~badFree'
                       /\ live' \subseteq Blocks(W2 \cup L)
<1>1. /\ cur # 0 /\ ~HasKids(values[cur]) /\ cur' = Parent(cur)
      /\ Free({Value(cur)} \cup (IF Allocated(values[cur]) THEN {Data(cur)} ELSE {}))
      /\ UNCHANGED <<values, top, root>>
  BY DEF Release, tree, Parent
<1>2. cur \in A /\ cur \in W /\ A \subseteq W /\ W \subseteq 1 .. Len(values) /\ Held(cur)
  BY <1>1 DEF Walking, Branch
<1>3. live' = live \ {Value(cur), Data(cur)} /\ ~badFree'
  BY <1>1, <1>2 DEF Held, Free
<1>0. PICK W2, A2 : W2 = W \ {cur} /\ A2 = A \ {cur}
  OBVIOUS
<1>4. Branch(A2, Parent(cur))
  BY <1>0, <1>1, BranchUp DEF Walking
<1>5. ASSUME NEW n \in W2
      PROVE  Held(n)' /\ (Sound(n) \/ (n = top /\ n = root))
  <2>1. Held(n) /\ n # cur /\ (Sound(n) \/ (n = top /\ n = root))
    BY <1>0 DEF Walking
  <2>2. Value(n) \in live' /\ (Data(n) \in live' <=> Data(n) \in live)
    BY <1>3, <2>1, BlockNames DEF Held
  <2>3. Held(n)'
    BY <1>1, <2>1, <2>2 DEF Held
  <2>4. QED
    BY <2>1, <2>3
<1>6. ASSUME NEW n \in W2, n \notin A2
      PROVE  /\ Parent(n) \in W2
             /\ \E i \in Places(Parent(n)) :
                   i <= values[Parent(n)].length /\ values[Parent(n)].kids[i] = n
  <2>1. /\ Parent(n) \in W
        /\ \E i \in Places(Parent(n)) :
              i <= values[Parent(n)].length /\ values[Parent(n)].kids[i] = n
    <3>1. n \in W /\ n \notin A
      BY <1>0, <1>6
    <3>2. QED
      BY <3>1 DEF Walking
  <2>2. ASSUME Parent(n) = cur
        PROVE  FALSE
    <3>1. PICK i \in Places(cur) : i <= values[cur].length
      BY <2>1, <2>2
    <3>2. values[cur].type \in Containers
      BY <1>2, <3>1 DEF Walking, Child
    <3>3. values[cur].length \in Nat /\ Len(values[cur].kids) \in Nat
      BY <1>2, ParentBelow, RecordFields DEF Records
    <3>4. values[cur].length > 0
      BY <3>1, <3>3 DEF Places
    <3>5. QED
      BY <1>1, <3>2, <3>4 DEF HasKids, Containers
  <2>3. QED
    BY <1>0, <2>1, <2>2
<1>7. ASSUME NEW n \in W2, NEW i \in Places(n)
      PROVE  Child(n, i) /\ (i <= values[n].length => values[n].kids[i] \in W2 \ A2)
  BY <1>0, <1>2 DEF Walking
<1>8. Walking(W2, A2, cur)'
  <2>1. A2 \subseteq W2 /\ W2 \subseteq 1 .. Len(values)
    BY <1>0, <1>2
  <2>2. PICK p : p = cur' /\ p = Parent(cur)
    BY <1>1
  <2>3. Branch(A2, p)'
    BY <1>1, <1>4, <2>2 DEF Branch, Parent
  <2>4. Walking(W2, A2, p)'
    <3>1. ASSUME NEW n \in W2
          PROVE  /\ (Sound(n) \/ (n = top /\ n = root))'
                 /\ \/ n \in A2
                    \/ /\ Parent(n)' \in W2
                       /\ (\E i \in Places(Parent(n)) :
                             i <= values[Parent(n)].length /\ values[Parent(n)].kids[i] = n)'
      BY <1>1, <1>5, <1>6 DEF Sound, Places, Parent
    <3>2. ASSUME NEW n \in W2, NEW i \in Places(n)'
          PROVE  (Child(n, i) /\ (i <= values[n].length => values[n].kids[i] \in W2 \ A2))'
      BY <1>1, <1>7 DEF Child, Places, Parent
    <3>3. W2 \subseteq 1 .. Len(values')
      BY <1>1, <2>1
    <3>4. QED
      BY <1>5, <2>1, <2>3, <3>1, <3>2, <3>3 DEF Walking
  <2>5. QED
    BY <2>2, <2>4
<1>9. live' \subseteq Blocks(W2 \cup L)
  <2>1. ASSUME NEW b \in live'
        PROVE  b \in Blocks(W2 \cup L)
    <3>1. b \in live /\ b # Value(cur) /\ b # Data(cur)
      BY <1>3
    <3>2. PICK n \in W \cup L : b \in {Value(n), Data(n)}
      BY <3>1 DEF Blocks
    <3>3. n \in W2 \cup L
      BY <1>0, <3>1, <3>2
    <3>4. QED
      BY <3>2, <3>3 DEF Blocks
  <2>2. QED
    BY <2>1
<1>10. QED
  BY <1>3, <1>8, <1>9

(* It goes down to the last entry, and takes it off the list. *)
LEMMA WalkDescends ==
    ASSUME Inv, NEW W, NEW A, Walking(W, A, cur), Descend, Stored(values[cur])
    PROVE  \E A2 : Walking(W, A2, cur)'
<1>1. cur \in A /\ cur \in W /\ A \subseteq W /\ W \subseteq 1 .. Len(values)
  BY DEF Walking, Branch, Descend
<1> DEFINE u == values[cur]
<1>2. u \in Records /\ u.length \in Nat /\ Len(u.kids) \in Nat /\ cur \in Nat
  BY <1>1, ParentBelow, RecordFields DEF Records
<1>3. /\ u.length > 0 /\ u.length <= Len(u.kids) /\ u.length - 1 \in Nat
      /\ u.length \in Places(cur) /\ u.type \in Containers
  BY <1>2 DEF Descend, HasKids, Stored, Places, Containers
<1>4. PICK v \in Records : v = [u EXCEPT !.length = u.length - 1]
  BY <1>2, <1>3 DEF Records
<1>5. /\ v.type = u.type /\ v.parent = u.parent /\ v.size = u.size /\ v.room = u.room
      /\ v.kids = u.kids /\ v.length = u.length - 1
  BY <1>2, <1>4 DEF Records
<1>6. /\ values' = [values EXCEPT ![cur] = v] /\ cur' = u.kids[u.length]
      /\ UNCHANGED <<top, root, live>>
  BY <1>4 DEF Descend
<1>7. Changed(values', values, cur, v)
  <2>1. Changed([values EXCEPT ![cur] = v], values, cur, v)
    BY <1>1, ChainIs, ExceptIs
  <2>2. QED
    BY <1>6, <2>1
<1>8. PICK k : k = u.kids[u.length]
  OBVIOUS
<1>9. Child(cur, u.length) /\ k \in W \ A /\ Parent(k) = cur /\ k \in 1 .. Len(values)
  <2>1. \A i \in Places(cur) :
          Child(cur, i) /\ (i <= u.length => u.kids[i] \in W \ A)
    BY <1>1 DEF Walking
  <2>2. Child(cur, u.length) /\ k \in W \ A
    BY <1>2, <1>3, <1>8, <2>1
  <2>3. Parent(k) = cur
    BY <1>8, <2>2 DEF Child
  <2>4. QED
    BY <1>1, <2>2, <2>3
<1>10. Branch(A \cup {k}, k)
  <2>1. cur # 0
    BY DEF Descend
  <2>2. QED
    BY <1>9, <2>1, BranchDown DEF Walking
<1>11. PICK A2 : A2 = A \cup {k}
  OBVIOUS
<1> HIDE DEF u
<1>12. /\ Len(values') = Len(values) /\ SameParents
       /\ \A n \in 1 .. Len(values) : Places(n)' = Places(n) /\ values'[n].kids = values[n].kids
       /\ \A n \in 1 .. Len(values) : values'[n].type = values[n].type
       /\ \A n \in 1 .. Len(values) : Allocated(values[n])' = Allocated(values[n])
       /\ \A n \in 1 .. Len(values) : n # cur => values'[n] = values[n]
       /\ values'[cur].length = values[cur].length - 1
  BY <1>1, <1>5, <1>7 DEF Changed, SameParents, Places, Allocated, u
<1>13. Branch(A2, k)'
  BY <1>6, <1>10, <1>11, <1>12, BranchStays
<1>14. ASSUME NEW n \in W
       PROVE  (Held(n) /\ (Sound(n) \/ (n = top /\ n = root)))'
  <2>1. Held(n) /\ (Sound(n) \/ (n = top /\ n = root)) /\ n \in 1 .. Len(values)
    BY <1>1 DEF Walking
  <2>2. Held(n)'
    BY <1>6, <1>12, <2>1 DEF Held
  <2>3. CASE n = cur
    <3>1. Allocated(values[cur]) /\ values[cur].length - 1 <= Len(values[cur].kids)
      BY <1>2, <1>3 DEF Stored, u
    <3>2. Stored(values[n])'
      BY <1>1, <1>12, <2>3, <3>1 DEF Stored
    <3>3. QED
      BY <2>2, <3>2 DEF Sound
  <2>4. CASE n # cur
    BY <1>6, <1>12, <2>1, <2>2, <2>4 DEF Sound
  <2>5. QED
    BY <2>3, <2>4
<1>15. ASSUME NEW n \in W, n \notin A2
       PROVE  (/\ Parent(n) \in W
               /\ \E i \in Places(Parent(n)) :
                     i <= values[Parent(n)].length /\ values[Parent(n)].kids[i] = n)'
  <2>1. n \in 1 .. Len(values) /\ n \notin A /\ n # k
    BY <1>1, <1>11, <1>15
  <2>2. Parent(n) \in W /\ Parent(n) \in 1 .. Len(values)
    BY <1>1, <2>1 DEF Walking
  <2>3. PICK i \in Places(Parent(n)) :
               i <= values[Parent(n)].length /\ values[Parent(n)].kids[i] = n
    BY <2>1 DEF Walking
  <2>4. i <= values'[Parent(n)].length
    <3>1. CASE Parent(n) = cur
      <4>1. i # u.length
        BY <1>8, <2>1, <2>3, <3>1 DEF u
      <4>2. i \in Nat /\ i <= u.length
        BY <2>3, <3>1 DEF Places, u
      <4>3. values'[Parent(n)].length = u.length - 1
        BY <1>12, <3>1 DEF u
      <4>4. QED
        BY <1>2, <4>1, <4>2, <4>3
    <3>2. CASE Parent(n) # cur
      BY <1>12, <2>2, <2>3, <3>2
    <3>3. QED
      BY <3>1, <3>2
  <2>5. PICK q : q = Parent(n)
    OBVIOUS
  <2>6. Parent(n)' = q
    BY <1>12, <2>1, <2>5 DEF SameParents, Parent
  <2>7. i \in Places(q)' /\ values'[q].kids[i] = n /\ i <= values'[q].length
    BY <1>12, <2>2, <2>3, <2>4, <2>5
  <2>8. q \in W
    BY <2>2, <2>5
  <2>9. QED
    BY <2>6, <2>7, <2>8 DEF Places
<1>16. ASSUME NEW n \in W, NEW i \in Places(n)'
       PROVE  (Child(n, i) /\ (i <= values[n].length => values[n].kids[i] \in W \ A2))'
  <2>1. n \in 1 .. Len(values) /\ i \in Places(n)
    BY <1>1, <1>12, <1>16
  <2>2. PICK j : j = values[n].kids[i] /\ j \in 1 .. Len(values)
    BY <2>1, KidBelow
  <2>3. Child(n, i) /\ (i <= values[n].length => j \in W \ A)
    BY <2>1, <2>2 DEF Walking
  <2>4. Child(n, i)'
    <3>1. values'[n].kids = values[n].kids /\ values'[n].type = values[n].type /\ Places(n)' = Places(n)
      BY <1>12, <2>1
    <3>2. values'[j].parent = values[j].parent
      BY <1>12, <2>2 DEF SameParents
    <3>3. QED
      BY <2>2, <2>3, <3>1, <3>2 DEF Child, Parent
  <2>5. ASSUME i <= values'[n].length
        PROVE  j \in W \ A2
    <3>1. CASE n = cur
      <4>1. i <= u.length - 1 /\ i \in Nat
        BY <1>12, <2>1, <2>5, <3>1 DEF u, Places
      <4>2. i <= u.length /\ i # u.length
        BY <1>2, <4>1
      <4>3. j # k
        <5>1. \A x \in Places(cur) : u.kids[x] = k => x = u.length
          BY <1>8, <1>9 DEF Child, u
        <5>2. QED
          BY <2>1, <2>2, <3>1, <4>2, <5>1 DEF u
      <4>4. QED
        BY <1>11, <2>3, <3>1, <4>2, <4>3 DEF u
    <3>2. CASE n # cur
      <4>1. values'[n].length = values[n].length
        BY <1>12, <2>1, <3>2
      <4>2. j # k
        BY <1>9, <2>2, <2>3, <3>2 DEF Child
      <4>3. QED
        BY <1>11, <2>3, <2>5, <4>1, <4>2
    <3>3. QED
      BY <3>1, <3>2
  <2>6. values'[n].kids[i] = j
    BY <1>12, <2>1, <2>2
  <2>7. QED
    BY <2>4, <2>5, <2>6
<1>17. QED
  <2>1. A2 \subseteq W /\ W \subseteq 1 .. Len(values')
    BY <1>1, <1>9, <1>11, <1>12
  <2>2. Walking(W, A2, k)'
    BY <1>13, <1>14, <1>15, <1>16, <2>1 DEF Walking
  <2>3. cur' = k
    BY <1>6, <1>8 DEF u
  <2>4. QED
    BY <2>2, <2>3

(* When the walk is at an end, there is nothing left of the tree. *)
LEMMA WalkEnds ==
    ASSUME Inv, NEW W, NEW A, Walking(W, A, 0)
    PROVE  W = {}
<1>1. A = {} /\ W \subseteq 1 .. Len(values)
  BY NoBranch DEF Walking
<1>2. \A n \in W : Parent(n) \in W /\ n \in Nat /\ Parent(n) \in Nat /\ Parent(n) < n
  BY <1>1, ParentBelow DEF Walking
<1>3. SUFFICES ASSUME W # {}
               PROVE  FALSE
  OBVIOUS
<1>4. PICK n \in W : \A m \in W : n <= m
  BY <1>2, <1>3, Least
<1>5. QED
  BY <1>2, <1>4

(* Every step behind the scan. *)
LEMMA FreeingTree ==
    ASSUME TreeInv, FreeChain \/ FreeDocument \/ Descend \/ Release \/ FreeDone
    PROVE  ~badFree' /\ TreeOf'
<1>0. Inv /\ ~badFree /\ TreeOf
  BY DEF TreeInv, PassesInv
<1>1. CASE Descend \/ Release \/ FreeDone
  <2>1. pc = "free" /\ first_pass # 1 /\ UNCHANGED <<first_pass, top, root, alloc, flags>>
    BY <1>0, <1>1 DEF Descend, Release, FreeDone, TreeOf, scanner, tree
  <2>2. PICK O, L, W, A : OutOfTree(L, O) /\ Walking(W, A, cur) /\ live \subseteq Blocks(W \cup L)
    BY <1>0, <2>1 DEF TreeOf
  <2>3. CASE Descend /\ Stored(values[cur])
    <3>1. PICK A2 : Walking(W, A2, cur)'
      BY <1>0, <2>2, <2>3, WalkDescends
    <3>2. SameParents
      <4>1. values[cur] \in Records /\ values[cur].length \in Nat /\ cur \in 1 .. Len(values)
        BY <1>0, <2>2, <2>3, ParentBelow, RecordFields DEF Walking, Branch, Descend
      <4>2. values' = [values EXCEPT ![cur].length = @ - 1]
        BY <2>3 DEF Descend
      <4>3. QED
        BY <1>0, <4>1, <4>2, ChainIs DEF SameParents, Records
    <3>3. OutOfTree(L, O)'
      BY <2>1, <2>2, <3>2, OutOfTreeStays
    <3>4. pc' = "free" /\ UNCHANGED <<live, badFree>>
      BY <2>1, <2>3 DEF Descend
    <3>5. QED
      BY <1>0, <2>1, <2>2, <3>1, <3>3, <3>4 DEF TreeOf
  <2>4. CASE Descend /\ ~Stored(values[cur])
    <3>1. cur \in W /\ HasKids(values[cur])
      BY <2>2, <2>4 DEF Walking, Branch, Descend
    <3>2. cur = top /\ cur = root
      BY <2>2, <2>4, <3>1 DEF Walking, Sound
    <3>3. pc' = "crashed" /\ UNCHANGED <<cur, values, badFree>>
      BY <2>4 DEF Descend
    <3>4. QED
      BY <1>0, <2>1, <3>1, <3>2, <3>3 DEF TreeOf, HasKids, Containers
  <2>5. CASE Release
    <3>1. PICK W2, A2 : Walking(W2, A2, cur)' /\ ~badFree' /\ live' \subseteq Blocks(W2 \cup L)
      BY <1>0, <2>2, <2>5, WalkReleases
    <3>2. SameParents /\ pc' = pc
      BY <2>5 DEF Release, SameParents, tree
    <3>3. OutOfTree(L, O)'
      BY <2>1, <2>2, <3>2, OutOfTreeStays
    <3>4. QED
      BY <2>1, <3>1, <3>2, <3>3 DEF TreeOf
  <2>6. CASE FreeDone
    <3>1. W = {} /\ UNCHANGED <<live, badFree, values>>
      BY <1>0, <2>2, <2>6, WalkEnds DEF FreeDone, tree
    <3>2. OutOfTree(L, O)'
      BY <2>1, <2>2, <3>1, OutOfTreeStays DEF SameParents
    <3>3. live' \subseteq Blocks(L)
      BY <2>2, <3>1
    <3>4. first_pass \in {0, -1} /\ pc' = IF first_pass = 0 THEN "failed" ELSE "freed"
      <4>1. first_pass \in {1, 0, -1}
        BY <1>0 DEF Inv, TypeOK
      <4>2. QED
        BY <2>1, <2>6, <4>1 DEF FreeDone
    <3>5. QED
      BY <1>0, <2>1, <3>1, <3>2, <3>3, <3>4 DEF TreeOf
  <2>7. QED
    BY <1>1, <2>3, <2>4, <2>5, <2>6
<1>2. QED
  BY <1>1, FreeBegins

----------------------------------------------------------------------------
(***************************************************************************)
(* What pass 0 has made of the chain, by PassesInv.                        *)
(***************************************************************************)
LEMMA PassZeroChain ==
    ASSUME PassesInv, pc = "scan", first_pass = 0
    PROVE  /\ \A n \in Given :
                IF values[n].type \in Containers
                THEN values[n].length = Len(values[n].kids) /\ values[n].length <= values[n].size
                ELSE values[n].kids = <<>>
           /\ \A n \in (1 .. Len(values)) \ Given : ~Allocated(values[n]) /\ values[n].kids = <<>>
           /\ root = IF Given = {} THEN 0 ELSE 1
           /\ top \in Given \cup {0}
           /\ top # 0 /\ Parent(top) # 0 =>
                Parent(top) \in Given /\ values[Parent(top)].type \in Containers
           /\ IsDone => Given = 1 .. Len(values)
<1>0. Inv /\ PassZero /\ TypeOK
  BY DEF PassesInv, Inv
<1>1. PICK G, e, s : Final(G, e) /\ s \in G /\ Follows(s, e)
  BY <1>0 DEF PassZero, PassesInv
<1>2. /\ s \in Snapshots /\ e \in Snapshots /\ Fits(s) /\ Fits(e) /\ Below(s, e)
      /\ s.top = top
      /\ Len(s.vals) \in Nat /\ Len(e.vals) \in Nat /\ Len(s.vals) <= Len(e.vals)
  BY <1>0, <1>1, Following
<1> DEFINE M == Len(s.vals)
<1>3. Len(values) = Len(e.vals) /\ alloc = IF M < Len(e.vals) THEN M + 1 ELSE 0
  BY <1>1 DEF Follows
<1>4. Given = 1 .. M
  BY <1>2, <1>3 DEF Given
<1> HIDE DEF M
<1>5. ASSUME NEW n \in Given
      PROVE  /\ Filled(values[n], s.vals[n], e.vals[n], s.named[n])
             /\ n \in 1 .. Len(s.vals) /\ n \in 1 .. Len(e.vals)
             /\ s.vals[n].type = e.vals[n].type /\ s.vals[n].parent = e.vals[n].parent
             /\ s.vals[n].length <= e.vals[n].length
             /\ s.vals[n].length \in Nat /\ e.vals[n].length \in Nat
             /\ values[n].kids \in Seq(Nat)
  <2>1. n \in 1 .. Len(s.vals) /\ n \in 1 .. Len(e.vals)
    BY <1>2, <1>4 DEF M
  <2>2. Filled(values[n], s.vals[n], e.vals[n], s.named[n])
    BY <1>1, <2>1 DEF Follows
  <2>3. /\ s.vals[n].type = e.vals[n].type /\ s.vals[n].parent = e.vals[n].parent
        /\ s.vals[n].length <= e.vals[n].length
    BY <1>2, <2>1 DEF Below
  <2>4. values[n] \in Records
    BY <1>0, <1>3, <2>1, ParentBelow
  <2>5. QED
    BY <1>2, <2>1, <2>2, <2>3, <2>4, CountedFields DEF Records
<1>6. ASSUME NEW n \in Given
      PROVE  IF values[n].type \in Containers
             THEN values[n].length = Len(values[n].kids) /\ values[n].length <= values[n].size
             ELSE values[n].kids = <<>>
  BY <1>5 DEF Filled, SizeOf
<1>7. ASSUME NEW n \in (1 .. Len(values)) \ Given
      PROVE  ~Allocated(values[n]) /\ values[n].kids = <<>>
  <2>1. n \in 1 .. Len(e.vals) /\ n > Len(s.vals)
    BY <1>2, <1>3, <1>4 DEF M
  <2>2. values[n] = e.vals[n]
    BY <1>1, <2>1 DEF Follows
  <2>3. e.vals[n].kids = <<>> /\ e.vals[n].size = 0 /\ e.vals[n].room = 0
    BY <1>2, <2>1, LeftByPassOne
  <2>4. QED
    BY <2>2, <2>3 DEF Allocated
<1>8. root = IF Given = {} THEN 0 ELSE 1
  <2>1. root = IF M = 0 THEN 0 ELSE 1
    BY <1>1 DEF Follows, M
  <2>2. M \in Nat
    BY <1>2 DEF M
  <2>3. 1 .. M = {} <=> M = 0
    BY <2>2
  <2>4. QED
    BY <1>4, <2>1, <2>3
<1>9. top \in Given \cup {0}
  BY <1>2, <1>4 DEF Fits, M
<1>10. ASSUME top # 0, Parent(top) # 0
       PROVE  Parent(top) \in Given /\ values[Parent(top)].type \in Containers
  <2>1. top \in Given /\ top \in 1 .. Len(s.vals)
    BY <1>4, <1>9, <1>10 DEF M
  <2>2. Counted(s, top) /\ Parent(top) = s.vals[top].parent
    BY <1>2, <1>5, <2>1 DEF Fits, Filled, Parent
  <2>3. Parent(top) \in 0 .. top - 1 /\ s.vals[Parent(top)].type \in Containers
    BY <1>10, <2>2 DEF Counted
  <2>4. Parent(top) \in Given
    BY <1>2, <1>4, <1>10, <2>1, <2>3 DEF M
  <2>5. QED
    BY <1>5, <2>3, <2>4 DEF Filled
<1>11. ASSUME IsDone
       PROVE  Given = 1 .. Len(values)
  <2>1. alloc = 0
    BY <1>0, <1>11, FollowingAgrees
  <2>2. M \in Nat /\ M <= Len(e.vals) /\ Len(e.vals) \in Nat
    BY <1>2 DEF M
  <2>3. ~(M < Len(e.vals))
    BY <1>3, <2>1, <2>2
  <2>4. M = Len(e.vals)
    BY <2>2, <2>3
  <2>5. QED
    BY <1>3, <1>4, <2>4
<1>12. QED
  BY <1>6, <1>7, <1>8, <1>9, <1>10, <1>11

----------------------------------------------------------------------------
(* The scanner goes on, and leaves the tree as it is. *)
Quiet ==
    /\ UNCHANGED <<pc, first_pass, top, root, alloc, live, badFree>>
    /\ "done" \in flags' <=> "done" \in flags
    /\ Len(values') = Len(values)
    /\ \A n \in 1 .. Len(values) :
         LET u == values[n]
             v == values'[n]
         IN  /\ v.parent = u.parent /\ v.kids = u.kids /\ v.size = u.size /\ v.room = u.room
             /\ v.type \in Containers <=> u.type \in Containers

LEMMA QuietTree ==
    ASSUME TreeInv, pc = "scan", Quiet
    PROVE  ~badFree' /\ TreeOf'
<1>0. Inv /\ ~badFree /\ TreeOf
  BY DEF TreeInv, PassesInv
<1>1. /\ SameParents /\ pc' = "scan" /\ ~badFree' /\ UNCHANGED <<first_pass, top, root, alloc, live>>
      /\ Len(values') = Len(values) /\ Given' = Given /\ Tip' = Tip
  BY <1>0 DEF Quiet, SameParents, Given, Tip
<1>2. CASE first_pass = 1
  BY <1>0, <1>1, <1>2 DEF TreeOf, ChainHeld
<1>3. CASE first_pass = 0
  <2>1. PICK O : Growing(O) /\ \A n \in 1 .. Len(values) : Held(n)
    BY <1>0, <1>3 DEF TreeOf
  <2>2. \A n \in 1 .. Len(values) : Held(n)'
    BY <1>1, <2>1 DEF Quiet, Held, Allocated
  <2>3. Branch(O, Tip)'
    BY <1>1, <2>1, BranchStays DEF Growing
  <2>4. \A n \in Given : n \in 1 .. Len(values)
    BY DEF Given
  <2>5. ASSUME NEW n \in Given, IsEntry(n)
        PROVE  IsEntry(n)'
    <3>1. PICK q \in Given : q = Parent(n) /\ \E i \in Places(q) : values[q].kids[i] = n
      BY <2>5 DEF IsEntry
    <3>2. values'[q].kids = values[q].kids /\ Parent(n)' = q
      BY <1>1, <2>4, <3>1 DEF Quiet, SameParents, Parent
    <3>3. QED
      BY <1>1, <3>1, <3>2 DEF IsEntry, Places
  <2>6. ASSUME NEW n \in 1 .. Len(values), NEW i \in Places(n)
        PROVE  Child(n, i)' /\ values'[n].kids = values[n].kids
    <3>1. PICK k : k = values[n].kids[i] /\ k \in 1 .. Len(values)
      BY <1>0, KidBelow
    <3>2. Child(n, i)
      BY <2>1 DEF Growing
    <3>3. /\ values'[n].kids = values[n].kids /\ values'[k].parent = values[k].parent
          /\ values'[n].type \in Containers <=> values[n].type \in Containers
      BY <3>1 DEF Quiet
    <3>4. QED
      BY <3>1, <3>2, <3>3 DEF Child, Places, Parent
  <2>7. \A n \in 1 .. Len(values) : Places(n)' = Places(n)
    BY DEF Quiet, Places
  <2>8. root # 0 => (root \in Given /\ Parent(root) = 0)'
    BY <1>1, <2>1, <2>4 DEF Growing, SameParents, Parent
  <2>9. Growing(O)'
    BY <1>1, <2>1, <2>3, <2>5, <2>6, <2>7, <2>8 DEF Growing
  <2>10. "done" \in flags' => root' # 0
    BY <1>0, <1>1, <1>3 DEF Quiet, TreeOf
  <2>11. QED
    BY <1>1, <1>3, <2>2, <2>9, <2>10 DEF TreeOf
<1>4. QED
  BY <1>0, <1>2, <1>3 DEF Inv, ScanOK

(* Most steps are. *)
LEMMA QuietSteps ==
    ASSUME Inv, pc = "scan",
           \/ StringChar \/ StartEscape \/ Escape \/ CloseString \/ CloseName
           \/ StartLineComment \/ StartBlockComment
           \/ CommentChar \/ EndLineComment \/ EndBlockComment
           \/ SkipBlank \/ CloseArray \/ Comma \/ Colon
           \/ StartName \/ CloseObject
           \/ Digit \/ ExponentSign \/ Point \/ Exponent \/ EndNumber
    PROVE  Quiet
<1>0. values \in Seq(Records) /\ Len(values) \in Nat /\ \A n \in 1 .. Len(values) : values[n] \in Records
  BY ChainIs
<1>1. CASE ~CloseString /\ ~CloseName /\ ~Point /\ ~Exponent
  <2>1. UNCHANGED <<pc, first_pass, top, root, alloc, live, badFree, values>>
    BY <1>1 DEF StringChar, StartEscape, Escape, StartLineComment,
       StartBlockComment, CommentChar, EndLineComment, EndBlockComment, SkipBlank, CloseArray,
       Comma, Colon, StartName, CloseObject, Digit, ExponentSign, EndNumber, rest, tree
  <2>2. "done" \in flags' <=> "done" \in flags
    BY <1>1 DEF StringChar, StartEscape, Escape, StartLineComment,
       StartBlockComment, CommentChar, EndLineComment, EndBlockComment, SkipBlank, CloseArray,
       Comma, Colon, StartName, CloseObject, Digit, ExponentSign, EndNumber, Continue, Complete
  <2>3. QED
    BY <2>1, <2>2 DEF Quiet
<1>2. CASE CloseString \/ CloseName \/ Point \/ Exponent
  <2>1. /\ UNCHANGED <<pc, first_pass, top, root, alloc, live, badFree>>
        /\ "done" \in flags' <=> "done" \in flags
    BY <1>2 DEF CloseString, CloseName, Point, Exponent, rest, Continue, Complete
  <2>2. \/ values' = [values EXCEPT ![top].length = string_length]
        \/ values' = [values EXCEPT ![top].names = @ + string_length + 1,
                                    ![top].keys = IF first_pass = 1 THEN @ ELSE Append(@, string_length)]
        \/ values' = [values EXCEPT ![top].type = "double"] /\ values[top].type \in {"integer", "double"}
    BY <1>2 DEF CloseString, CloseName, Point, Exponent, InNumber
  <2>3. top \in 1 .. Len(values)
    <3>1. top \in 0 .. Len(values) /\ FlagsOK
      BY TreeOfInv DEF TreeOK
    <3>2. flags \cap {"done", "seek_value"} = {}
      BY <1>2, <3>1 DEF CloseString, CloseName, Point, Exponent, InNumber, InValue, InString, InJson,
         IsDone, Seeking, FlagsOK
    <3>3. QED
      BY <3>1, <3>2 DEF FlagsOK
  <2> DEFINE u == values[top]
  <2>4. u \in Records
    BY <1>0, <2>3
  <2>5. PICK v \in Records :
          /\ values' = [values EXCEPT ![top] = v]
          /\ v.parent = u.parent /\ v.kids = u.kids /\ v.size = u.size /\ v.room = u.room
          /\ v.type \in Containers <=> u.type \in Containers
    <3>0. string_length \in Nat
      BY DEF Inv, TypeOK
    <3>1. CASE values' = [values EXCEPT ![top].length = string_length]
      <4>1. PICK w \in Records : w = [u EXCEPT !.length = string_length]
        BY <2>4, <3>0 DEF Records
      <4>2. /\ w.parent = u.parent /\ w.kids = u.kids /\ w.size = u.size /\ w.room = u.room
            /\ w.type = u.type
        BY <2>4, <4>1 DEF Records
      <4>3. values' = [values EXCEPT ![top] = w]
        BY <3>1, <4>1
      <4>4. QED
        BY <4>2, <4>3
    <3>2. CASE values' = [values EXCEPT ![top].names = @ + string_length + 1,
                                        ![top].keys = IF first_pass = 1 THEN @
                                                      ELSE Append(@, string_length)]
      <4>1. PICK x, y : /\ x = u.names + string_length + 1
                        /\ y = IF first_pass = 1 THEN u.keys ELSE Append(u.keys, string_length)
        OBVIOUS
      <4>2. x \in Nat /\ y \in Seq(Nat)
        BY <2>4, <3>0, <4>1, RecordFields DEF Records
      <4>3. PICK w \in Records : w = [u EXCEPT !.names = x, !.keys = y]
        BY <2>4, <4>2 DEF Records
      <4>4. /\ w.parent = u.parent /\ w.kids = u.kids /\ w.size = u.size /\ w.room = u.room
            /\ w.type = u.type
        BY <2>4, <4>3 DEF Records
      <4>5. values' = [values EXCEPT ![top] = w]
        BY <1>0, <2>3, <3>2, <4>1, <4>3
      <4>6. QED
        BY <4>4, <4>5
    <3>3. CASE /\ values' = [values EXCEPT ![top].type = "double"]
               /\ values[top].type \in {"integer", "double"}
      <4>1. PICK w \in Records : w = [u EXCEPT !.type = "double"]
        BY <2>4 DEF Records
      <4>2. /\ w.parent = u.parent /\ w.kids = u.kids /\ w.size = u.size /\ w.room = u.room
            /\ w.type \in Containers <=> u.type \in Containers
        BY <2>4, <3>3, <4>1 DEF Records, Containers
      <4>3. values' = [values EXCEPT ![top] = w]
        BY <3>3, <4>1
      <4>4. QED
        BY <4>2, <4>3
    <3>4. QED
      BY <2>2, <3>1, <3>2, <3>3
  <2>6. Changed(values', values, top, v)
    <3>1. Changed([values EXCEPT ![top] = v], values, top, v)
      BY <1>0, <2>3, ExceptIs
    <3>2. QED
      BY <2>5, <3>1
  <2>7. QED
    BY <2>1, <2>5, <2>6 DEF Quiet, Changed
<1>3. QED
  BY <1>1, <1>2

----------------------------------------------------------------------------
(* The chain with blocks, or other types, for what it holds: the tree is the same. *)
SameTree ==
    /\ Len(values') = Len(values)
    /\ \A n \in 1 .. Len(values) :
         /\ values'[n].parent = values[n].parent /\ values'[n].kids = values[n].kids
         /\ values'[n].type = values[n].type

(* What pass 0 finds in the chain where the text has a value. *)
LEMMA AllocIs ==
    ASSUME PassesInv, pc = "scan", first_pass = 0, AtValue, NEW b \in ValueStarts, Scanning(b)
    PROVE  /\ alloc \in 1 .. Len(values) /\ alloc \in Nat /\ alloc # 0 /\ Len(values) \in Nat
           /\ Parent(alloc) = top /\ alloc \notin Given
           /\ Given = {n \in 1 .. Len(values) : n < alloc}
           /\ Tip = top
<1>0. Inv /\ PassZero /\ TypeOK
  BY DEF PassesInv, Inv
<1>1. PICK G, e, s : Final(G, e) /\ s \in G /\ Follows(s, e)
  BY <1>0 DEF PassZero
<1>2. text[ptr] \in ValueStarts
  BY <1>0, <1>1, Following
<1>3. alloc # 0 /\ values[alloc].parent = top
  BY <1>0, <1>2, FollowingAgrees
<1>4. alloc \in 0 .. Len(values) /\ Len(values) \in Nat
  BY <1>0, ChainIs, TreeOfInv DEF TreeOK
<1>5. alloc \in 1 .. Len(values) /\ alloc \in Nat
  BY <1>3, <1>4
<1>6. Given = {n \in 1 .. Len(values) : n < alloc}
  BY <1>3 DEF Given
<1>7. Tip = top
  BY DEF Tip, AtValue, Seeking, IsDone
<1>8. QED
  BY <1>3, <1>4, <1>5, <1>6, <1>7 DEF Parent

(* Pass 0 takes a value: it is the end of the way from the root. *)
LEMMA TakenGrows ==
    ASSUME PassesInv, pc = "scan", first_pass = 0, AtValue, NEW b \in ValueStarts, Scanning(b),
           NEW O, Growing(O), TakeValue, first_pass' = 0, "done" \notin flags', SameTree
    PROVE  /\ \E P : P = O \cup {alloc} /\ Growing(P)'
           /\ root' # 0 /\ top' = alloc
           /\ Given' = Given \cup {alloc}
<1>0. Inv
  BY DEF PassesInv
<1>1. PICK a : a = alloc
  OBVIOUS
<1>2. /\ a \in 1 .. Len(values) /\ a \in Nat /\ a # 0 /\ Len(values) \in Nat
      /\ Parent(a) = top /\ a \notin Given
      /\ Given = {n \in 1 .. Len(values) : n < a}
      /\ Tip = top
  BY <1>1, AllocIs
<1>3. /\ top' = a /\ alloc' = (IF a < Len(values) THEN a + 1 ELSE 0)
      /\ root' = (IF root = 0 THEN a ELSE root)
  BY <1>1 DEF TakeValue
<1>4. Given' = Given \cup {a} /\ Tip' = a
  <2>1. Given' = {n \in 1 .. Len(values) : alloc' = 0 \/ n < alloc'}
    BY DEF Given, SameTree
  <2>2. ASSUME NEW n \in 1 .. Len(values)
        PROVE  (alloc' = 0 \/ n < alloc') <=> (n < a \/ n = a)
    BY <1>2, <1>3
  <2>3. Tip' = a
    BY <1>3 DEF Tip
  <2>4. QED
    BY <1>2, <2>1, <2>2, <2>3
<1>5. SameParents /\ top \in Given \cup {0} /\ (root = 0 <=> Given = {})
      /\ \A n \in 1 .. Len(values) : n # 0
  BY <1>2, PassZeroChain DEF SameTree, SameParents
<1>6. PICK P : P = O \cup {a}
  OBVIOUS
<1>7. Branch(P, Tip)'
  <2>1. CASE top = 0
    <3>1. root = 0 /\ O = {}
      BY <1>0, <1>2, <2>1, NoBranch DEF Growing
    <3>2. root' = a /\ P = {a} /\ values'[a].parent = 0
      BY <1>2, <1>3, <1>6, <2>1, <3>1 DEF SameTree, Parent
    <3>3. QED
      BY <1>2, <1>4, <3>2 DEF Branch, Parent, SameTree
  <2>2. CASE top # 0
    <3>1. Branch(P, a)
      BY <1>0, <1>2, <1>6, <2>2, BranchDown DEF Growing
    <3>2. root' = root
      BY <1>3, <1>5, <2>2
    <3>3. QED
      BY <1>4, <1>5, <3>1, <3>2, BranchStays
  <2>3. QED
    BY <2>1, <2>2
<1>8. ASSUME NEW n \in Given'
      PROVE  n \in P \/ n = root' \/ IsEntry(n)'
  <2>1. CASE n = a
    BY <1>6, <2>1
  <2>2. CASE n # a
    <3>1. n \in Given /\ n \in 1 .. Len(values)
      BY <1>2, <1>4, <2>2
    <3>2. n \in O \/ n = root \/ IsEntry(n)
      BY <3>1 DEF Growing
    <3>3. CASE n \in O
      BY <1>6, <3>3
    <3>4. CASE n = root
      BY <1>3, <1>5, <3>1, <3>4
    <3>5. CASE IsEntry(n)
      <4>1. PICK q \in Given : q = Parent(n) /\ \E i \in Places(q) : values[q].kids[i] = n
        BY <3>5 DEF IsEntry
      <4>2. values'[q].kids = values[q].kids /\ Parent(n)' = q /\ q \in Given'
        BY <1>2, <1>4, <3>1, <4>1 DEF SameTree, Parent
      <4>3. QED
        BY <4>1, <4>2 DEF IsEntry, Places
    <3>6. QED
      BY <3>2, <3>3, <3>4, <3>5
  <2>3. QED
    BY <2>1, <2>2
<1>9. ASSUME NEW n \in 1 .. Len(values'), NEW i \in Places(n)'
      PROVE  Child(n, i)' /\ n \in Given' /\ values'[n].kids[i] \in Given' \ P
  <2>1. n \in 1 .. Len(values) /\ values'[n].kids = values[n].kids /\ values'[n].type = values[n].type
        /\ i \in Places(n)
    BY DEF SameTree, Places
  <2>2. PICK k : k = values[n].kids[i] /\ k \in 1 .. Len(values)
    BY <1>0, <2>1, KidBelow
  <2>3. Child(n, i) /\ n \in Given /\ k \in Given \ O
    BY <2>1, <2>2 DEF Growing
  <2>4. values'[k].parent = values[k].parent
    BY <2>2 DEF SameTree
  <2>5. Child(n, i)'
    BY <2>1, <2>2, <2>3, <2>4 DEF Child, Places, Parent
  <2>6. k \in Given' \ P
    BY <1>2, <1>4, <1>6, <2>3
  <2>7. QED
    BY <1>4, <2>1, <2>2, <2>3, <2>5, <2>6
<1>10. root' # 0 /\ root' \in Given' /\ (Parent(root) = 0)'
  <2>1. CASE root = 0
    <3>1. top = 0
      BY <1>5, <2>1
    <3>2. values'[a].parent = 0
      BY <1>2, <3>1 DEF SameTree, Parent
    <3>3. QED
      BY <1>2, <1>3, <1>4, <2>1, <3>2 DEF Parent
  <2>2. CASE root # 0
    <3>1. root \in Given /\ Parent(root) = 0 /\ root' = root /\ root \in 1 .. Len(values)
      BY <1>2, <1>3, <2>2 DEF Growing
    <3>2. QED
      BY <1>4, <2>2, <3>1 DEF SameTree, Parent
  <2>3. QED
    BY <2>1, <2>2
<1>11. Growing(P)'
  <2>1. \A n \in Given' : (n \in P \/ n = root \/ IsEntry(n))'
    BY <1>8
  <2>2. \A n \in 1 .. Len(values') : \A i \in Places(n)' :
          (Child(n, i) /\ n \in Given /\ values[n].kids[i] \in Given \ P)'
    BY <1>9
  <2>3. top' # 0
    BY <1>2, <1>3
  <2>4. QED
    BY <1>7, <1>10, <2>1, <2>2, <2>3 DEF Growing
<1>12. QED
  BY <1>1, <1>3, <1>4, <1>6, <1>10, <1>11

(* Nothing has been allocated for a value of the chain before it is taken. *)
LEMMA BlockIsHeld ==
    ASSUME PassesInv, pc = "scan", first_pass = 0, AtValue, NEW b \in ValueStarts, Scanning(b),
           \A n \in 1 .. Len(values) : Held(n), NEW type, NewValue(type)
    PROVE  SameTree /\ \A n \in 1 .. Len(values) : Held(n)'
<1>0. Inv
  BY DEF PassesInv
<1>1. PICK a : a = alloc
  OBVIOUS
<1>2. a \in 1 .. Len(values) /\ a \notin Given
  BY <1>1, AllocIs
<1>3. /\ IF HasData(values[a])
         THEN /\ values' = [values EXCEPT ![a] = WithData(@)]
              /\ live' = live \cup {Data(a)}
         ELSE UNCHANGED <<values, live>>
  BY <1>1 DEF NewValue, AppendValue
<1>4. ~Allocated(values[a]) /\ values[a] \in Records /\ values[a].length \in Nat
  BY <1>0, <1>2, PassZeroChain, ParentBelow, RecordFields
<1>5. CASE ~HasData(values[a])
  BY <1>3, <1>5 DEF SameTree, Held
<1>6. CASE HasData(values[a])
  <2> DEFINE w == values[a]
             v == WithData(w)
  <2>1. values' = [values EXCEPT ![a] = v] /\ live' = live \cup {Data(a)}
    BY <1>3, <1>6
  <2>2. v \in Records /\ v.parent = w.parent /\ v.kids = w.kids
    BY <1>4, WithDataType
  <2>3. v.type = w.type /\ Allocated(v)
    <3>0. w.length + 1 \in Nat /\ w.length + 1 > 0 /\ w.names \in Nat
      BY <1>4, RecordFields
    <3>1. CASE w.type = "string"
      <4>1. v = [w EXCEPT !.room = w.length + 1, !.length = 0]
        BY <3>1 DEF WithData
      <4>2. v.type = w.type /\ v.room = w.length + 1
        BY <1>4, <3>0, <4>1 DEF Records
      <4>3. QED
        BY <3>0, <4>2 DEF Allocated
    <3>2. CASE w.type # "string"
      <4>1. w.length > 0 /\ v = [w EXCEPT !.size = w.length, !.room = w.names, !.length = 0, !.names = 0]
        BY <1>6, <3>2 DEF WithData, HasData
      <4>2. v.type = w.type /\ v.size = w.length
        BY <1>4, <3>0, <4>1 DEF Records
      <4>3. QED
        BY <4>1, <4>2 DEF Allocated
    <3>3. QED
      BY <3>1, <3>2
  <2> HIDE DEF v
  <2>4. Changed(values', values, a, v)
    <3>1. Changed([values EXCEPT ![a] = v], values, a, v)
      BY <1>0, <1>2, <2>2, ChainIs, ExceptIs
    <3>2. QED
      BY <2>1, <3>1
  <2>5. SameTree
    BY <2>2, <2>3, <2>4 DEF Changed, SameTree
  <2>6. ASSUME NEW n \in 1 .. Len(values)
        PROVE  Held(n)'
    <3>1. Held(n)
      OBVIOUS
    <3>2. CASE n = a
      BY <1>2, <2>1, <2>3, <2>4, <3>1, <3>2 DEF Held, Changed
    <3>3. CASE n # a
      <4>1. values'[n] = values[n]
        BY <2>4, <3>3 DEF Changed
      <4>2. Data(n) \in live' <=> Data(n) \in live
        BY <2>1, <3>3, BlockNames
      <4>3. Value(n) \in live'
        BY <2>1, <3>1 DEF Held
      <4>4. QED
        BY <3>1, <4>1, <4>2, <4>3 DEF Held
    <3>4. QED
      BY <3>2, <3>3
  <2>7. QED
    BY <2>5, <2>6
<1>7. QED
  BY <1>5, <1>6

(* A value in pass 1 is one more of the chain. *)
LEMMA AppendTree ==
    ASSUME TreeInv, pc = "scan", NEW type \in Types, AppendValue(type), UNCHANGED <<pc, first_pass, badFree>>
    PROVE  ~badFree' /\ TreeOf'
<1>0. Inv /\ ~badFree /\ first_pass = 1
  BY DEF TreeInv, PassesInv, AppendValue
<1>1. ChainHeld /\ root = (IF Len(values) = 0 THEN 0 ELSE 1)
  BY <1>0 DEF TreeInv, TreeOf
<1>2. values \in Seq(Records) /\ Len(values) \in Nat /\ top \in Nat
  BY <1>0, ChainIs, TreeOfInv DEF TreeOK
<1>3. Len(values') = Len(values) + 1
  <2>1. NewRecord(type, top) \in Records
    BY <1>2, NewRecordIs
  <2>2. values' = Append(values, NewRecord(type, top))
    BY DEF AppendValue
  <2>3. QED
    BY <1>2, <2>1, <2>2
<1>4. PICK m : m = Len(values) + 1
  OBVIOUS
<1>5. live' = live \cup {Value(m)} /\ root' = (IF root = 0 THEN m ELSE root)
  BY <1>4 DEF AppendValue
<1>6. 1 .. Len(values') = (1 .. Len(values)) \cup {m}
  BY <1>2, <1>3, <1>4
<1>7. ChainHeld'
  BY <1>1, <1>5, <1>6 DEF ChainHeld
<1>8. root' = IF Len(values') = 0 THEN 0 ELSE 1
  BY <1>1, <1>2, <1>3, <1>4, <1>5
<1>9. QED
  BY <1>0, <1>7, <1>8 DEF TreeOf

(* In pass 0 it is one more that is not complete. *)
LEMMA NewValueTree ==
    ASSUME TreeInv, pc = "scan", NEW b \in ValueStarts, Scanning(b), AtValue,
           NEW type \in Types, NewValue(type), UNCHANGED <<pc, first_pass, badFree>>, "done" \notin flags'
    PROVE  ~badFree' /\ TreeOf'
<1>0. PassesInv /\ ~badFree
  BY DEF TreeInv
<1>1. CASE AppendValue(type)
  BY <1>1, AppendTree
<1>2. CASE ~AppendValue(type)
  <2>1. TakeValue /\ first_pass = 0
    BY <1>2 DEF NewValue, TakeValue
  <2>2. PICK O : Growing(O) /\ \A n \in 1 .. Len(values) : Held(n)
    BY <2>1 DEF TreeInv, TreeOf
  <2>3. SameTree /\ \A n \in 1 .. Len(values) : Held(n)'
    BY <1>0, <2>1, <2>2, BlockIsHeld
  <2>4. \E P : Growing(P)'
    BY <1>0, <2>1, <2>2, <2>3, TakenGrows
  <2>5. \A n \in 1 .. Len(values') : Held(n)'
    BY <2>3 DEF SameTree
  <2>6. QED
    BY <1>0, <2>1, <2>4, <2>5 DEF TreeOf
<1>3. QED
  BY <1>1, <1>2

(* Of the complete values, each has what it says. *)
LEMMA FilledIsSound ==
    ASSUME PassesInv, pc = "scan", first_pass = 0, NEW n \in Given
    PROVE  Sound(n) /\ \A i \in Places(n) : i <= values[n].length
<1>0. Inv /\ n \in 1 .. Len(values)
  BY DEF PassesInv, Given
<1>1. values[n] \in Records /\ values[n].length \in Nat /\ values[n].size \in Nat
  BY <1>0, ParentBelow, RecordFields
<1>2. CASE values[n].type \in Containers
  <2>1. values[n].length = Len(values[n].kids) /\ values[n].length <= values[n].size
    BY <1>2, PassZeroChain
  <2>2. \A i \in Places(n) : i <= values[n].length
    BY <1>1, <2>1 DEF Places
  <2>3. values[n].length > 0 => values[n].size > 0
    BY <1>1, <2>1
  <2>4. QED
    BY <1>1, <2>1, <2>2, <2>3 DEF Sound, HasKids, Stored, Allocated
<1>3. CASE values[n].type \notin Containers
  <2>1. values[n].kids = <<>>
    BY <1>3, PassZeroChain
  <2>2. QED
    BY <1>3, <2>1 DEF Sound, HasKids, Containers, Places
<1>4. QED
  BY <1>2, <1>3

(* When there is no memory for what it will hold, it is the one that is not. *)
LEMMA FailingTree ==
    ASSUME TreeInv, AllocationFails
    PROVE  ~badFree' /\ TreeOf'
<1>0. PassesInv /\ Inv /\ ~badFree /\ pc = "scan"
  BY DEF TreeInv, PassesInv, AllocationFails, Scanning
<1>1. PICK b \in ValueStarts :
        /\ Scanning(b) /\ AtValue /\ NewValueFails
        /\ pc' = "e_alloc_failure"
        /\ UNCHANGED <<first_pass, live, badFree, cur, ptr, flags, string_length, num_digits>>
  BY DEF AllocationFails
<1>2. CASE first_pass = 1
  <2>1. UNCHANGED tree
    BY <1>1, <1>2 DEF NewValueFails, TakeValue
  <2>2. ChainHeld /\ root = (IF Len(values) = 0 THEN 0 ELSE 1)
    BY <1>0, <1>2 DEF TreeInv, TreeOf
  <2>3. QED
    BY <1>0, <1>1, <1>2, <2>1, <2>2 DEF TreeOf, ChainHeld, tree
<1>3. CASE first_pass # 1
  <2>1. TakeValue /\ first_pass = 0 /\ UNCHANGED values /\ "done" \notin flags'
    BY <1>1, <1>3 DEF NewValueFails, TakeValue, AtValue, Seeking, IsDone
  <2>2. PICK O : Growing(O) /\ \A n \in 1 .. Len(values) : Held(n)
    BY <1>0, <2>1 DEF TreeInv, TreeOf
  <2>3. SameTree /\ first_pass' = 0
    BY <1>1, <2>1 DEF SameTree
  <2>4. PICK a : a = alloc /\ a \in 1 .. Len(values)
    BY <1>0, <1>1, <2>1, AllocIs
  <2>5. PICK P : P = O \cup {a} /\ Growing(P)' /\ root' # 0 /\ top' = a /\ Given' = Given \cup {a}
    BY <1>0, <1>1, <2>1, <2>2, <2>3, <2>4, TakenGrows
  <2>6. ASSUME NEW n \in Given'
        PROVE  (/\ Sound(n) \/ (first_pass = 0 /\ n = top)
                /\ \A i \in Places(n) : i <= values[n].length)'
    <3>1. CASE n = a
      <4>1. values[a].kids = <<>>
        BY <1>0, <1>1, <2>1, <2>4, AllocIs, PassZeroChain
      <4>2. Places(n)' = {}
        BY <2>1, <3>1, <4>1 DEF Places
      <4>3. QED
        BY <2>3, <2>5, <3>1, <4>2
    <3>2. CASE n # a
      <4>1. Sound(n) /\ \A i \in Places(n) : i <= values[n].length
        BY <1>0, <2>1, <2>5, <3>2, FilledIsSound
      <4>2. QED
        BY <2>1, <4>1 DEF Sound, Places
    <3>3. QED
      BY <3>1, <3>2
  <2>7. ASSUME NEW n \in (1 .. Len(values')) \ Given'
        PROVE  ~Allocated(values'[n])
    <3>1. n \in (1 .. Len(values)) \ Given
      BY <2>1, <2>5
    <3>2. QED
      BY <1>0, <2>1, <3>1, PassZeroChain
  <2>8. \A n \in 1 .. Len(values') : Held(n)'
    BY <1>1, <2>1, <2>2 DEF Held
  <2>9. Over(P)'
    <3>1. top' \in P
      BY <2>5
    <3>2. \A n \in Given' : (/\ Sound(n) \/ (first_pass = 0 /\ n = top)
                             /\ \A i \in Places(n) : i <= values[n].length)'
      BY <2>6
    <3>3. QED
      BY <2>5, <2>7, <2>8, <3>1, <3>2 DEF Over
  <2>10. QED
    BY <1>0, <1>1, <2>3, <2>9 DEF TreeOf
<1>4. QED
  BY <1>2, <1>3

(* What flag_next does to the chain in pass 0. *)
LEMMA FinishedParent ==
    ASSUME Inv, FinishValue, NEW t, t = top, NEW p, p = Parent(top), p # 0
    PROVE  /\ t \in 1 .. Len(values) /\ p \in 1 .. Len(values) /\ top' = p
           /\ Len(values') = Len(values)
           /\ \A n \in 1 .. Len(values) :
                /\ values'[n].parent = values[n].parent /\ values'[n].type = values[n].type
                /\ values'[n].size = values[n].size /\ values'[n].room = values[n].room
                /\ (n # p => values'[n].kids = values[n].kids)
           /\ first_pass = 0 => Appended(values'[p].kids, values[p].kids, t)
           /\ Len(values[p].kids) \in Nat
<1>1. FlagsOK /\ TreeOK /\ values \in Seq(Records) /\ Len(values) \in Nat
  BY TreeOfInv DEF FinishValue, TreeOK
<1>2. t \in 1 .. Len(values)
  BY <1>1 DEF FinishValue, FlagsOK, TreeOK
<1>3. p \in 1 .. Len(values)
  BY <1>1, <1>2, ParentBelow
<1> DEFINE q == values[p]
           kids == IF first_pass = 1 THEN q.kids ELSE Append(q.kids, t)
<1>4. q \in Records /\ q.length + 1 \in Nat /\ q.kids \in Seq(Nat) /\ t \in Nat
  BY <1>1, <1>2, <1>3, ParentBelow, RecordFields
<1>5. kids \in Seq(Nat) /\ Len(q.kids) \in Nat
  BY <1>4
<1>6. first_pass = 0 => Appended(kids, q.kids, t)
  BY <1>4 DEF Appended
<1> HIDE DEF kids
<1>7. PICK v : v = [q EXCEPT !.length = q.length + 1, !.kids = kids]
  OBVIOUS
<1>8. v \in Records
  BY <1>4, <1>5, <1>7 DEF Records
<1>9. /\ v.type = q.type /\ v.parent = q.parent /\ v.size = q.size /\ v.room = q.room /\ v.kids = kids
  BY <1>4, <1>7 DEF Records
<1>10. top' = p /\ values' = [values EXCEPT ![p] = v]
  BY <1>1, <1>3, <1>7 DEF FinishValue, Parent, kids
<1> HIDE DEF q
<1>11. Changed(values', values, p, v)
  <2>1. Changed([values EXCEPT ![p] = v], values, p, v)
    BY <1>1, <1>3, <1>8, ExceptIs
  <2>2. QED
    BY <1>10, <2>1
<1>12. values'[p] = v
  BY <1>3, <1>11 DEF Changed
<1>13. \A n \in 1 .. Len(values) :
         /\ values'[n].parent = values[n].parent /\ values'[n].type = values[n].type
         /\ values'[n].size = values[n].size /\ values'[n].room = values[n].room
         /\ (n # p => values'[n].kids = values[n].kids)
  BY <1>9, <1>11 DEF Changed, q
<1>14. QED
  BY <1>2, <1>3, <1>5, <1>6, <1>9, <1>10, <1>11, <1>12, <1>13 DEF Changed, q

(* A complete value goes into its parent: the way from the root ends there. *)
LEMMA FinishedGrows ==
    ASSUME PassesInv, first_pass = 0, FinishValue, NEW O, Growing(O)
    PROVE  \E P : Growing(P)'
<1>0. Inv /\ pc = "scan" /\ FlagsOK /\ TreeOK /\ "next" \in flags
  BY TreeOfInv DEF PassesInv, FinishValue
<1>1. PICK t : t = top
  OBVIOUS
<1>2. PICK p : p = Parent(top)
  OBVIOUS
<1>3. t \in 1 .. Len(values) /\ t \in Given /\ t # 0 /\ Tip = t
  <2>1. t # 0 /\ top \in 0 .. Len(values) /\ Tip = t
    BY <1>0, <1>1 DEF FlagsOK, Tip, TreeOK
  <2>2. t \in Given
    BY <1>0, <1>1, <2>1, PassZeroChain
  <2>3. QED
    BY <2>1, <2>2 DEF Given
<1>4. PICK P : P = O \ {t}
  OBVIOUS
<1>5. Branch(P, p) /\ t \in O /\ (p = 0 => t = root)
  <2>1. Branch(O, t)
    BY <1>3 DEF Growing
  <2>2. Branch(O \ {t}, Parent(t))
    BY <1>0, <1>3, <2>1, BranchUp
  <2>3. t \in O /\ (Parent(t) = 0 => t = root)
    BY <1>3, <2>1 DEF Branch
  <2>4. QED
    BY <1>1, <1>2, <1>4, <2>2, <2>3
<1>6. UNCHANGED <<first_pass, root, alloc>>
  BY DEF FinishValue, rest
<1>7. Tip' = p
  <2>1. flags' = (flags \ {"next", "reproc"}) \cup {"need_comma"}
         \cup (IF p = 0 THEN {"done"}
               ELSE IF values[p].type = "array" THEN {"seek_value"} ELSE {})
    BY <1>2 DEF FinishValue, Parent
  <2>2. "done" \in flags' <=> p = 0
    BY <1>0, <2>1 DEF FlagsOK
  <2>3. p # 0 => top' = p
    BY <1>2 DEF FinishValue, Parent
  <2>4. QED
    BY <1>6, <2>2, <2>3 DEF Tip
<1>8. CASE p = 0
  <2>1. UNCHANGED <<top, values>>
    BY <1>2, <1>8 DEF FinishValue, Parent
  <2>2. Branch(P, Tip)'
    BY <1>5, <1>6, <1>7, <2>1 DEF Branch, Parent
  <2>3. Given' = Given
    BY <1>6, <2>1 DEF Given
  <2>4. \A n \in Given' : (n \in P \/ n = root \/ IsEntry(n))'
    BY <1>4, <1>5, <1>6, <1>8, <2>1, <2>3 DEF Growing, IsEntry, Places, Parent
  <2>5. \A n \in 1 .. Len(values') : \A i \in Places(n)' :
          (Child(n, i) /\ n \in Given /\ values[n].kids[i] \in Given \ P)'
    BY <1>4, <2>1, <2>3 DEF Growing, Child, Places, Parent
  <2>6. (root # 0 => root \in Given /\ Parent(root) = 0)' /\ top' # 0
    BY <1>1, <1>3, <1>6, <2>1, <2>3 DEF Growing, Parent
  <2>7. Growing(P)'
    BY <2>2, <2>4, <2>5, <2>6 DEF Growing
  <2>8. QED
    BY <2>7
<1>9. CASE p # 0
  <2>1. /\ p \in 1 .. Len(values) /\ top' = p
        /\ Len(values') = Len(values)
        /\ \A n \in 1 .. Len(values) :
             /\ values'[n].parent = values[n].parent /\ values'[n].type = values[n].type
             /\ (n # p => values'[n].kids = values[n].kids)
        /\ Appended(values'[p].kids, values[p].kids, t)
        /\ Len(values[p].kids) \in Nat
    BY <1>0, <1>1, <1>2, <1>9, FinishedParent
  <2>2. Given' = Given /\ SameParents
    BY <1>6, <2>1 DEF Given, SameParents
  <2>3. Branch(P, Tip)'
    BY <1>5, <1>6, <1>7, <2>2, BranchStays
  <2>4. /\ p \in Given /\ values[p].type \in Containers
    BY <1>0, <1>1, <1>2, <1>3, <1>9, PassZeroChain
  <2>5. /\ Len(values'[p].kids) = Len(values[p].kids) + 1
        /\ values'[p].kids[Len(values[p].kids) + 1] = t
        /\ \A i \in Places(p) : values'[p].kids[i] = values[p].kids[i]
    BY <2>1 DEF Appended, Places
  <2>6. PICK last : last = Len(values[p].kids) + 1
    OBVIOUS
  <2>7. /\ Places(p)' = Places(p) \cup {last} /\ last \notin Places(p)
        /\ \A n \in 1 .. Len(values) : n # p => Places(n)' = Places(n)
    BY <2>1, <2>5, <2>6 DEF Places
  <2>8. ASSUME NEW n \in Given'
        PROVE  (n \in P \/ n = root \/ IsEntry(n))'
    <3>1. n \in Given /\ n \in 1 .. Len(values)
      BY <2>2 DEF Given
    <3>2. CASE n = t
      <4>1. values'[t].parent = p
        BY <1>1, <1>2, <1>3, <2>1 DEF Parent
      <4>2. QED
        BY <2>2, <2>4, <2>5, <2>6, <2>7, <3>2, <4>1 DEF IsEntry, Parent
    <3>3. CASE n # t /\ IsEntry(n)
      <4>1. PICK q \in Given : q = Parent(n) /\ \E i \in Places(q) : values[q].kids[i] = n
        BY <3>3 DEF IsEntry
      <4>2. PICK i \in Places(q) : values[q].kids[i] = n
        BY <4>1
      <4>3. q \in 1 .. Len(values) /\ values'[n].parent = q
        BY <2>1, <3>1, <4>1 DEF Given, Parent
      <4>4. i \in Places(q)' /\ values'[q].kids[i] = n
        BY <2>1, <2>5, <2>7, <4>2, <4>3
      <4>5. QED
        BY <2>2, <4>3, <4>4 DEF IsEntry, Parent
    <3>4. CASE n # t /\ ~IsEntry(n)
      BY <1>4, <1>6, <3>1, <3>4 DEF Growing
    <3>5. QED
      BY <3>2, <3>3, <3>4
  <2>9. ASSUME NEW n \in 1 .. Len(values'), NEW i \in Places(n)'
        PROVE  (Child(n, i) /\ n \in Given /\ values[n].kids[i] \in Given \ P)'
    <3>1. n \in 1 .. Len(values)
      BY <2>1
    <3>2. CASE n # p
      <4>1. i \in Places(n) /\ values'[n].kids = values[n].kids /\ values'[n].type = values[n].type
            /\ Places(n)' = Places(n)
        BY <2>1, <2>7, <3>1, <3>2
      <4>2. PICK k : k = values[n].kids[i] /\ k \in 1 .. Len(values)
        BY <1>0, <3>1, <4>1, KidBelow
      <4>3. Child(n, i) /\ n \in Given /\ k \in Given \ O
        BY <3>1, <4>1, <4>2 DEF Growing
      <4>4. values'[k].parent = values[k].parent
        BY <2>1, <4>2
      <4>5. Child(n, i)'
        BY <4>1, <4>2, <4>3, <4>4 DEF Child, Parent
      <4>6. QED
        BY <1>4, <2>2, <4>1, <4>2, <4>3, <4>5
    <3>3. CASE n = p /\ i # last
      <4>1. i \in Places(p) /\ values'[p].kids[i] = values[p].kids[i]
        BY <2>5, <2>7, <3>3
      <4>2. PICK k : k = values[p].kids[i] /\ k \in 1 .. Len(values)
        BY <1>0, <2>1, <4>1, KidBelow
      <4>3. Child(p, i) /\ k \in Given \ O
        BY <2>1, <4>1, <4>2 DEF Growing
      <4>4. values'[k].parent = values[k].parent /\ values'[p].type = values[p].type
        BY <2>1, <4>2
      <4>5. k # t
        BY <1>5, <4>3
      <4>6. \A j \in Places(p)' : values'[p].kids[j] = k => j = i
        BY <2>5, <2>6, <2>7, <4>2, <4>3, <4>5, SMTT(60) DEF Child
      <4>7. Child(p, i)'
        BY <4>1, <4>2, <4>3, <4>4, <4>6 DEF Child, Parent
      <4>8. QED
        BY <1>4, <2>2, <2>4, <3>3, <4>1, <4>2, <4>3, <4>7
    <3>4. CASE n = p /\ i = last
      <4>1. values'[p].kids[i] = t /\ values'[t].parent = p /\ values'[p].type \in Containers
        BY <1>1, <1>2, <1>3, <2>1, <2>4, <2>5, <2>6, <3>4 DEF Parent
      <4>2. ASSUME NEW j \in Places(p)', values'[p].kids[j] = t
            PROVE  j = i
        <5>1. SUFFICES ASSUME j \in Places(p)
                       PROVE  FALSE
          BY <2>7, <3>4
        <5>2. values[p].kids[j] = t
          BY <2>5, <4>2, <5>1
        <5>3. values[p].kids[j] \notin O
          BY <2>1, <5>1 DEF Growing
        <5>4. QED
          BY <1>5, <5>2, <5>3
      <4>3. Child(p, i)'
        BY <4>1, <4>2 DEF Child, Parent
      <4>4. QED
        BY <1>3, <1>4, <2>2, <2>4, <3>4, <4>1, <4>3, SMTT(60)
    <3>5. QED
      BY <3>2, <3>3, <3>4
  <2>10. (root # 0 => root \in Given /\ Parent(root) = 0)' /\ top' # 0
    <3>1. root # 0 => root \in Given /\ Parent(root) = 0 /\ root \in 1 .. Len(values)
      BY DEF Growing, Given
    <3>2. QED
      BY <1>6, <1>9, <2>1, <2>2, <3>1 DEF Parent
  <2>11. Growing(P)'
    <3>1. \A n \in Given' : (n \in P \/ n = root \/ IsEntry(n))'
      BY <2>8
    <3>2. \A n \in 1 .. Len(values') : \A i \in Places(n)' :
            (Child(n, i) /\ n \in Given /\ values[n].kids[i] \in Given \ P)'
      BY <2>9
    <3>3. QED
      BY <2>3, <2>10, <3>1, <3>2 DEF Growing
  <2>12. QED
    BY <2>11
<1>10. QED
  BY <1>8, <1>9

(* The end of a value, in either pass. *)
LEMMA FinishTree ==
    ASSUME TreeInv, FinishValue
    PROVE  ~badFree' /\ TreeOf'
<1>0. PassesInv /\ Inv /\ ~badFree /\ pc = "scan" /\ "next" \in flags
  BY DEF TreeInv, PassesInv, FinishValue
<1>1. UNCHANGED <<pc, first_pass, live, badFree, root, alloc>>
  BY DEF FinishValue, rest
<1>2. top # 0 /\ top \in 1 .. Len(values)
  BY <1>0, TreeOfInv DEF FlagsOK, TreeOK
<1>3. PICK t, p : t = top /\ p = Parent(top)
  OBVIOUS
<1>4. /\ Len(values') = Len(values)
      /\ \A n \in 1 .. Len(values) : Allocated(values'[n]) = Allocated(values[n])
  <2>1. CASE p = 0
    BY <1>3, <2>1 DEF FinishValue, Parent
  <2>2. CASE p # 0
    BY <1>0, <1>3, <2>2, FinishedParent DEF Allocated
  <2>3. QED
    BY <2>1, <2>2
<1>5. CASE first_pass = 1
  BY <1>0, <1>1, <1>4, <1>5 DEF TreeInv, TreeOf, ChainHeld
<1>6. CASE first_pass = 0
  <2>1. PICK O : Growing(O) /\ \A n \in 1 .. Len(values) : Held(n)
    BY <1>0, <1>6 DEF TreeInv, TreeOf
  <2>2. \E P : Growing(P)'
    BY <1>0, <1>6, <2>1, FinishedGrows
  <2>3. \A n \in 1 .. Len(values') : Held(n)'
    BY <1>1, <1>4, <2>1 DEF Held
  <2>4. root' # 0
    <3>1. top \in Given \cup {0} /\ root = IF Given = {} THEN 0 ELSE 1
      BY <1>0, <1>6, PassZeroChain
    <3>2. QED
      BY <1>1, <1>2, <3>1
  <2>5. QED
    BY <1>0, <1>1, <1>6, <2>2, <2>3, <2>4 DEF TreeOf
<1>7. QED
  BY <1>0, <1>5, <1>6 DEF Inv, ScanOK

(* Pass 1 leaves values that hold nothing. *)
LEMMA LeftEmpty ==
    ASSUME PassesInv, EndPass, first_pass = 1
    PROVE  \A n \in 1 .. Len(values) : ~Allocated(values[n]) /\ values[n].kids = <<>>
<1>0. pc = "scan" /\ ChainEnds /\ Tracing /\ TypeOK /\ Inv
  BY PassOneIs DEF EndPass, Scanning, Inv, PassesInv
<1>1. PICK G, S, s : Trace(G, S, s) /\ (s = Now(s.named) \/ InNumberFrom(s))
  BY <1>0 DEF Tracing
<1>2. s \in Snapshots /\ Fits(s)
  BY <1>1 DEF Trace
<1>3. Scanning(NUL) /\ IsDone
  BY DEF EndPass
<1>4. s = Now(s.named)
  BY <1>0, <1>1, <1>2, <1>3, NumberMode DEF NotInNumber
<1>5. s.vals = values
  BY <1>4 DEF Now
<1>6. \A n \in 1 .. Len(values) : Counted(s, n)
  BY <1>2, <1>5 DEF Fits
<1>7. QED
  BY <1>5, <1>6 DEF Counted, Allocated

(* The end of a pass: the values wait in the chain, or all are in the tree. *)
LEMMA EndTree ==
    ASSUME TreeInv, EndPass
    PROVE  ~badFree' /\ TreeOf'
<1>0. PassesInv /\ Inv /\ ~badFree /\ pc = "scan" /\ IsDone
  BY DEF TreeInv, PassesInv, EndPass, Scanning
<1>1. UNCHANGED <<values, live, badFree>> /\ first_pass' = first_pass - 1
  BY DEF EndPass
<1>2. CASE first_pass = 1
  <2>1. first_pass' = 0 /\ flags' = {"seek_value"} /\ alloc' = root /\ top' = 0 /\ root' = 0 /\ pc' = "scan"
    BY <1>0, <1>2 DEF EndPass
  <2>2. ChainHeld /\ root = (IF Len(values) = 0 THEN 0 ELSE 1)
    BY <1>0, <1>2 DEF TreeInv, TreeOf
  <2>3. \A n \in 1 .. Len(values) : ~Allocated(values[n]) /\ values[n].kids = <<>>
    BY <1>0, <1>2, LeftEmpty
  <2>4. Given' = {}
    <3>1. alloc' = 1 \/ Len(values) = 0
      BY <2>1, <2>2
    <3>2. Len(values) \in Nat /\ Given' = {n \in 1 .. Len(values) : alloc' = 0 \/ n < alloc'}
      BY <1>0, <1>1, <2>1, ChainIs DEF Given
    <3>3. QED
      BY <3>1, <3>2
  <2>5. Tip' = 0
    BY <2>1 DEF Tip
  <2>6. Growing({})'
    <3>1. \A n \in 1 .. Len(values) : Places(n)' = {}
      BY <1>1, <2>3 DEF Places
    <3>2. QED
      BY <1>1, <2>1, <2>4, <2>5, <3>1 DEF Growing, Branch
  <2>7. \A n \in 1 .. Len(values') : Held(n)'
    BY <1>1, <2>2, <2>3, BlockNames DEF Held, ChainHeld
  <2>8. QED
    BY <1>0, <1>1, <2>1, <2>6, <2>7 DEF TreeOf
<1>3. CASE first_pass = 0
  <2>1. UNCHANGED <<flags, top, root>> /\ first_pass' = -1 /\ pc' = "returned"
    BY <1>0, <1>1, <1>3 DEF EndPass
  <2>2. PICK O : Growing(O) /\ \A n \in 1 .. Len(values) : Held(n)
    BY <1>0, <1>3 DEF TreeInv, TreeOf
  <2>3. root # 0 /\ Tip = 0 /\ Tip' = 0
    BY <1>0, <1>3, <2>1 DEF TreeInv, TreeOf, IsDone, Tip
  <2>4. O = {}
    BY <1>0, <2>2, <2>3, NoBranch DEF Growing
  <2>5. Given = 1 .. Len(values) /\ Given' = Given
    <3>1. Given = 1 .. Len(values)
      BY <1>0, <1>3, PassZeroChain
    <3>2. QED
      BY <1>1, <2>1, <3>1 DEF Given
  <2>6. Growing({})'
    <3>1. Branch({}, Tip)'
      BY <2>3 DEF Branch
    <3>2. \A n \in Given' : (n \in {} \/ n = root \/ IsEntry(n))'
      BY <1>1, <2>1, <2>2, <2>4, <2>5 DEF Growing, IsEntry, Places, Parent
    <3>3. \A n \in 1 .. Len(values') : \A i \in Places(n)' :
            (Child(n, i) /\ n \in Given /\ values[n].kids[i] \in Given \ {})'
      BY <1>1, <2>2, <2>4, <2>5 DEF Growing, Child, Places, Parent
    <3>4. (root # 0 => root \in Given /\ Parent(root) = 0)' /\ (top = 0 => root = 0)'
      BY <1>1, <2>1, <2>2, <2>5 DEF Growing, Parent
    <3>5. QED
      BY <3>1, <3>2, <3>3, <3>4 DEF Growing
  <2>7. \A n \in 1 .. Len(values') : Held(n)'
    BY <1>1, <2>2 DEF Held
  <2>8. \A n \in Given' : (Sound(n) /\ \A i \in Places(n) : i <= values[n].length)'
    <3>1. \A n \in Given : Sound(n) /\ \A i \in Places(n) : i <= values[n].length
      BY <1>0, <1>3, FilledIsSound
    <3>2. QED
      BY <1>1, <2>5, <3>1 DEF Sound, Places
  <2>9. Over({})'
    BY <1>1, <2>1, <2>3, <2>5, <2>6, <2>7, <2>8 DEF Over
  <2>10. QED
    BY <1>0, <1>1, <2>1, <2>9 DEF TreeOf
<1>4. QED
  BY <1>0, <1>2, <1>3 DEF Inv, ScanOK

(* Pass 1 rejects the text, and nothing is taken from the chain. *)
LEMMA RejectTree ==
    ASSUME TreeInv, PassesInv', Reject
    PROVE  ~badFree' /\ TreeOf'
<1>0. PassesInv /\ Inv /\ ~badFree /\ pc = "scan"
  BY DEF TreeInv, PassesInv, Reject, Scanning
<1>1. pc' = "e_failed" /\ UNCHANGED <<first_pass, top, root, alloc, values, live, badFree>>
  BY DEF Reject, tree
<1>2. first_pass = 1
  BY <1>0, <1>1 DEF PassesInv, Inv, ScanOK
<1>3. ChainHeld /\ root = (IF Len(values) = 0 THEN 0 ELSE 1)
  BY <1>0, <1>2 DEF TreeInv, TreeOf
<1>4. QED
  BY <1>0, <1>1, <1>2, <1>3 DEF TreeOf, ChainHeld

(* The values of a text begin where the scanner looks for them. *)
LEMMA NewValueSteps ==
    ASSUME TreeInv, StartContainer \/ StartString \/ ReadLiteral \/ StartNumber \/ SkipNumber
    PROVE  ~badFree' /\ TreeOf'
<1>1. PICK b \in ValueStarts, type \in Types :
        /\ Scanning(b) /\ AtValue /\ NewValue(type)
        /\ flags' \subseteq flags \cup {"string", "next", "reproc"}
        /\ UNCHANGED <<pc, first_pass, badFree>>
  <2>1. CASE StartContainer
    <3>1. PICK b \in {"{", "["} :
            /\ Scanning(b) /\ AtValue /\ NewValue(TypeOfStart(b))
            /\ Continue(IF b = "[" THEN flags ELSE Found)
            /\ UNCHANGED <<pc, first_pass, badFree, cur, string_length, num_digits>>
      BY <2>1 DEF StartContainer
    <3>2. b \in ValueStarts /\ TypeOfStart(b) \in Types
      BY <3>1 DEF ValueStarts, TypeOfStart, Types
    <3>3. QED
      BY <3>1, <3>2 DEF Continue, Found
  <2>2. CASE StartString
    BY <2>2 DEF StartString, Continue, Found, ValueStarts, Types
  <2>3. CASE ReadLiteral
    BY <2>3 DEF ReadLiteral, Complete, Found, ValueStarts, Types
  <2>4. CASE StartNumber
    BY <2>4 DEF StartNumber, Found, ValueStarts, Types
  <2>5. CASE SkipNumber
    BY <2>5 DEF SkipNumber, Found, ValueStarts, Types
  <2>6. QED
    BY <2>1, <2>2, <2>3, <2>4, <2>5
<1>2. "done" \notin flags' /\ pc = "scan"
  BY <1>1 DEF AtValue, Seeking, IsDone, Scanning
<1>3. QED
  BY <1>1, <1>2, NewValueTree

----------------------------------------------------------------------------
(* There is nothing yet. *)
LEMMA InitTree == Init => TreeInv
<1> SUFFICES ASSUME Init
             PROVE  TreeInv
  OBVIOUS
<1>1. PassesInv
  BY InitPasses
<1>2. Len(values) = 0 /\ root = 0 /\ live = {}
  BY DEF Init
<1>3. ChainHeld
  BY <1>2 DEF ChainHeld
<1>4. QED
  BY <1>1, <1>2, <1>3 DEF Init, TreeInv, TreeOf

(* The invariant is inductive. *)
LEMMA StepTree == TreeInv /\ [Next]_vars => TreeInv'
<1> SUFFICES ASSUME TreeInv, [Next]_vars
             PROVE  TreeInv'
  OBVIOUS
<1>0. PassesInv /\ Inv /\ ~badFree
  BY DEF TreeInv, PassesInv
<1>1. PassesInv'
  BY <1>0, StepPasses
<1>2. ~badFree' /\ TreeOf'
  <2>1. CASE \/ StringChar \/ StartEscape \/ Escape \/ CloseString \/ CloseName
             \/ StartLineComment \/ StartBlockComment
             \/ CommentChar \/ EndLineComment \/ EndBlockComment
             \/ SkipBlank \/ CloseArray \/ Comma \/ Colon
             \/ StartName \/ CloseObject
             \/ Digit \/ ExponentSign \/ Point \/ Exponent \/ EndNumber
    <3>1. pc = "scan"
      BY <2>1 DEF StringChar, StartEscape, Escape, CloseString, CloseName, StartLineComment,
         StartBlockComment, CommentChar, EndLineComment, EndBlockComment, SkipBlank, CloseArray,
         Comma, Colon, StartName, CloseObject, Digit, ExponentSign, Point, Exponent, EndNumber,
         Scanning
    <3>2. Quiet
      BY <1>0, <2>1, <3>1, QuietSteps
    <3>3. QED
      BY <3>1, <3>2, QuietTree
  <2>2. CASE StartContainer \/ StartString \/ ReadLiteral \/ StartNumber \/ SkipNumber
    BY <2>2, NewValueSteps
  <2>3. CASE AllocationFails
    BY <2>3, FailingTree
  <2>4. CASE ReadPastEnd
    BY <1>0, <2>4 DEF ReadPastEnd, TreeOf
  <2>5. CASE FinishValue
    BY <2>5, FinishTree
  <2>6. CASE EndPass
    BY <2>6, EndTree
  <2>7. CASE Reject
    BY <1>1, <2>7, RejectTree
  <2>8. CASE FreeChain \/ FreeDocument \/ Descend \/ Release \/ FreeDone
    BY <2>8, FreeingTree
  <2>9. CASE UNCHANGED vars
    <3>1. UNCHANGED <<pc, first_pass, flags, top, root, alloc, values, live, badFree, cur>>
      BY <2>9 DEF vars, scanner, tree
    <3>2. TreeOf
      BY DEF TreeInv
    <3>3. Given' = Given /\ Tip' = Tip
      BY <3>1 DEF Given, Tip
    <3>4. \A O : Growing(O) => Growing(O)'
      BY <3>1, <3>3 DEF Growing, Branch, IsEntry, Child, Places, Parent
    <3>5. \A n : Held(n) => Held(n)'
      BY <3>1 DEF Held
    <3>6. \A O : Over(O) => Over(O)'
      BY <3>1, <3>3, <3>4, <3>5 DEF Over, Sound, Places
    <3>7. \A L, O : OutOfTree(L, O) => OutOfTree(L, O)'
      BY <3>1, <3>3 DEF OutOfTree, Branch, Parent
    <3>8. \A W, A : Walking(W, A, cur) => Walking(W, A, cur)'
      BY <3>1, <3>5 DEF Walking, Branch, Sound, Child, Places, Parent
    <3>9. ChainHeld => ChainHeld'
      BY <3>1 DEF ChainHeld
    <3>10. TreeOf'
      BY <3>1, <3>2, <3>4, <3>5, <3>6, <3>7, <3>8, <3>9 DEF TreeOf
    <3>11. QED
      BY <1>0, <3>1, <3>10
  <2>10. QED
    BY <2>1, <2>2, <2>3, <2>4, <2>5, <2>6, <2>7, <2>8, <2>9 DEF Next
<1>3. QED
  BY <1>1, <1>2 DEF TreeInv

(***************************************************************************)
(* Whatever the text and whichever allocation fails, what pass 0 has taken *)
(* from the chain is in the tree or on the way to the value at work, and   *)
(* the walk of json_value_free_ex comes by what is in the tree once.       *)
(***************************************************************************)
THEOREM TreeInvariance == Spec => []TreeInv
BY InitTree, StepTree, PTL DEF Spec

(***************************************************************************)
(* Neither json_parse_ex nor json_value_free_ex releases a block that is   *)
(* not allocated, or releases one twice.                                   *)
(***************************************************************************)
THEOREM NothingReleasedTwice == Spec => []NoBadFree
<1>1. TreeInv => NoBadFree
  BY DEF TreeInv, NoBadFree
<1>2. QED
  BY TreeInvariance, <1>1, PTL

(***************************************************************************)
(* When json_value_free has returned, nothing of the document is left; and *)
(* a parse that fails leaves nothing behind but the values that pass 0 was *)
(* in the middle of, those below them, and what they hold.                 *)
(***************************************************************************)
THEOREM LeaksAreOpenValues == Spec => []LeaksOnlyOpenValues
<1>1. TreeInv => LeaksOnlyOpenValues
  <2> SUFFICES ASSUME TreeInv
               PROVE  LeaksOnlyOpenValues
    OBVIOUS
  <2>0. Inv /\ TreeOf
    BY DEF TreeInv, PassesInv
  <2>1. ASSUME pc \in {"failed", "freed"}
        PROVE  \E O, L : OutOfTree(L, O) /\ live \subseteq Blocks(L)
    BY <2>0, <2>1 DEF TreeOf
  <2>2. ASSUME pc = "freed"
        PROVE  live = {}
    <3>1. PICK O, L : OutOfTree(L, O) /\ live \subseteq Blocks(L)
      BY <2>1, <2>2
    <3>2. Tip = 0
      BY <2>0, <2>2 DEF TreeOf, Tip
    <3>3. L = {}
      BY <2>0, <3>1, <3>2, OutOfTreeIsLost
    <3>4. QED
      BY <3>1, <3>3 DEF Blocks
  <2>3. ASSUME pc = "failed"
        PROVE  live \subseteq UNION {{Value(n), Data(n)} : n \in Lost}
    <3>1. PICK O, L : OutOfTree(L, O) /\ live \subseteq Blocks(L)
      BY <2>1, <2>3
    <3>2. L \subseteq Lost
      <4>1. CASE first_pass = 0
        BY <2>0, <3>1, <4>1, OutOfTreeIsLost
      <4>2. CASE first_pass # 0
        <5>1. Tip = 0
          BY <4>2 DEF Tip
        <5>2. L = {}
          BY <2>0, <3>1, <5>1, OutOfTreeIsLost
        <5>3. QED
          BY <5>2
      <4>3. QED
        BY <4>1, <4>2
    <3>3. QED
      BY <3>1, <3>2 DEF Blocks
  <2>4. QED
    BY <2>2, <2>3 DEF LeaksOnlyOpenValues
<1>2. QED
  BY TreeInvariance, <1>1, PTL

(***************************************************************************)
(* json_value_free_ex goes through a NULL block in one place only: at the  *)
(* root, when there was no memory for the entries of the root.             *)
(***************************************************************************)
THEOREM CrashesInOnePlace == Spec => []CrashesAtRootOnly
<1>1. TreeInv => CrashesAtRootOnly
  BY DEF TreeInv, TreeOf, CrashesAtRootOnly, Containers
<1>2. QED
  BY TreeInvariance, <1>1, PTL
=============================================================================
