------------------------------ MODULE ListProofs ------------------------------
(***************************************************************************)
(* Proofs about the lists of threads: the list of every event, mutex and   *)
(* timer ends, holds whoever waits for it and nobody else, and its back     *)
(* pointers lead to the links they stand for; behind its first thread the   *)
(* list of an event or a mutex is sorted by priority, and the list of a     *)
(* timer by the times its ticks stand for.  So no thread is lost, nobody    *)
(* who waits with a timeout wakes before its time, and a tick wakes those   *)
(* whose time has come.                                                     *)
(*                                                                         *)
(* The code keeps this only under conditions, which the theorems state and  *)
(* the runs that fail show to be necessary: the lists of a thread that      *)
(* waits in two lists at once are its own (Apart), and no other thread      *)
(* aborts such a wait.                                                      *)
(***************************************************************************)
EXTENDS KernelProofs

-----------------------------------------------------------------------------
(* Lists that end.  What a put, a removal and a write elsewhere make of one.   *)

\* From every thread of a list that ends the rest is a part of it, ends too, and
\* does not come back.
LEMMA ChainEnds ==
  ASSUME NEW next, next \in [Threads -> Pointer], NEW start, start \in Pointer,
         Terminates(next, start), NEW x \in Chain(next, start)
  PROVE  /\ Terminates(next, x) /\ Terminates(next, next[x])
         /\ x \in Threads /\ x \notin Chain(next, next[x])
<1>1. start \in Threads /\ NULL \notin Threads
  BY ListAssumption, ChainNull DEF Pointer
<1>2. PICK last \in Chain(next, start) : next[last] = NULL
  BY <1>1 DEF Terminates
<1> DEFINE A == Chain(next, start)
           S == {y \in A : last \in Chain(next, y)}
<1>3. A \subseteq Threads /\ start \in A /\ S \subseteq Threads
  BY <1>1, ChainThreads, ChainStart
<1>4. start \in S  BY <1>2, <1>3
<1>5. ASSUME NEW y \in S PROVE next[y] \in S \cup {NULL}
  <2>1. y \in Threads /\ y \in A /\ last \in Chain(next, y)
    BY <1>3
  <2>2. next[y] \in A \cup {NULL}
    BY <2>1, ChainClosed
  <2>3. last = y \/ last \in Chain(next, next[y])
    BY <2>1, ChainUnfold
  <2> QED  BY <1>2, <2>2, <2>3
<1>6. A \subseteq S
  <2> HIDE DEF S
  <2> QED  BY <1>3, <1>4, <1>5, ChainLeast
<1>7. x \in Threads /\ last \in Chain(next, x)
  BY <1>3, <1>6
<1>8. x \notin Chain(next, next[x])
  <2>1. CASE x = last  BY <1>2, <2>1, ChainNull
  <2>2. CASE x # last
    <3>1. Chain(next, next[x]) = Chain(next, x) \ {x}
      BY <1>2, <1>7, <2>2, ChainRest
    <3> QED  BY <3>1
  <2> QED  BY <2>1, <2>2
<1>9. next[x] # NULL => last \in Chain(next, next[x])
  BY <1>2, <1>7, ChainUnfold
<1> QED  BY <1>2, <1>7, <1>8, <1>9 DEF Terminates

\* Only one thread of a list that ends links to another.
LEMMA ChainMeet ==
  ASSUME NEW next, next \in [Threads -> Pointer], NEW start, start \in Pointer,
         Terminates(next, start),
         NEW i \in Chain(next, start), NEW j \in Chain(next, start),
         next[i] = next[j], next[i] # NULL
  PROVE  i = j
<1>1. start \in Threads /\ NULL \notin Threads
  BY ListAssumption, ChainNull DEF Pointer
<1> DEFINE A == Chain(next, start)
           S == {y \in A : i \in Chain(next, y) \/ y \in Chain(next, i)}
<1>2. A \subseteq Threads /\ start \in A /\ S \subseteq Threads
  BY <1>1, ChainThreads, ChainStart
<1>3. start \in S  BY <1>2
<1>4. ASSUME NEW y \in S PROVE next[y] \in S \cup {NULL}
  <2>1. y \in Threads /\ y \in A
    BY <1>2
  <2>2. next[y] \in A \cup {NULL}
    BY <2>1, ChainClosed
  <2>3. CASE i \in Chain(next, next[y])
    BY <2>2, <2>3
  <2>4. CASE y \in Chain(next, i)
    <3>1. next[y] \in Chain(next, i) \cup {NULL}
      BY <2>4, ChainClosed
    <3> QED  BY <2>2, <3>1
  <2>5. CASE i = y
    <3>1. y \in Chain(next, i)
      BY <2>1, <2>5, ChainStart
    <3> QED  BY <2>4, <3>1
  <2> QED  BY <2>1, <2>3, <2>4, <2>5, ChainUnfold
<1>5. A \subseteq S
  <2> HIDE DEF S
  <2> QED  BY <1>2, <1>3, <1>4, ChainLeast
<1>6. i \in Chain(next, j) \/ j \in Chain(next, i)
  BY <1>5
<1>7. i \in Threads /\ j \in Threads
  BY <1>2
<1>8. i = j \/ i \in Chain(next, next[j]) \/ j \in Chain(next, next[i])
  BY <1>6, <1>7, ChainUnfold
<1>9. i \notin Chain(next, next[i]) /\ j \notin Chain(next, next[j])
  BY ChainEnds
<1> QED  BY <1>8, <1>9

\* Writes elsewhere.
LEMMA EndsFrame ==
  ASSUME NEW next, next \in [Threads -> Pointer], NEW other,
         other \in [Threads -> Pointer], NEW start, start \in Pointer,
         \A j \in Chain(next, start) : other[j] = next[j]
  PROVE  /\ Chain(other, start) = Chain(next, start)
         /\ Terminates(next, start) => Terminates(other, start)
<1>1. Chain(other, start) = Chain(next, start)
  BY ChainFrame
<1> QED  BY <1>1 DEF Terminates

\* A thread that is put before the first one.
LEMMA ChainPush ==
  ASSUME NEW next, next \in [Threads -> Pointer], NEW other,
         other \in [Threads -> Pointer], NEW start, start \in Pointer,
         Terminates(next, start), NEW th \in Threads,
         other[th] = start, \A j \in Chain(next, start) : other[j] = next[j]
  PROVE  Chain(other, th) = Chain(next, start) \cup {th} /\ Terminates(other, th)
<1>1. Chain(other, start) = Chain(next, start) /\ Terminates(other, start)
  BY EndsFrame
<1>2. Chain(other, th) = {th} \cup Chain(other, start)
  BY ChainUnfold
<1> QED  BY <1>1, <1>2 DEF Terminates

\* A thread that is put behind another one.
LEMMA ChainInsert ==
  ASSUME NEW next, next \in [Threads -> Pointer], NEW other,
         other \in [Threads -> Pointer], NEW start, start \in Pointer,
         Terminates(next, start), NEW i \in Chain(next, start),
         NEW th \in Threads, th \notin Chain(next, start),
         other[i] = th, other[th] = next[i],
         \A j \in Chain(next, start) \ {i} : other[j] = next[j]
  PROVE  Chain(other, start) = Chain(next, start) \cup {th} /\ Terminates(other, start)
<1>1. start \in Threads /\ NULL \notin Threads
  BY ListAssumption, ChainNull DEF Pointer
<1> DEFINE A == Chain(next, start)
           B == Chain(other, start)
           C == A \cup {th}
<1>2. A \subseteq Threads /\ B \subseteq Threads /\ start \in A /\ start \in B
  BY <1>1, ChainThreads, ChainStart
<1>3. \A j \in A : next[j] \in A \cup {NULL}
  BY ChainClosed
<1>4. \A j \in B : other[j] \in B \cup {NULL}
  BY ChainClosed
<1>5. B \subseteq C
  <2>1. C \subseteq Threads /\ start \in C \cup {NULL}
    BY <1>2
  <2>2. \A j \in C : other[j] \in C \cup {NULL}
    BY <1>3
  <2> HIDE DEF A, C
  <2> QED  BY <2>1, <2>2, ChainLeast
<1>6. A \subseteq A \cap B
  <2>1. A \cap B \subseteq Threads /\ start \in (A \cap B) \cup {NULL}
    BY <1>2
  <2>2. ASSUME NEW j \in A \cap B PROVE next[j] \in (A \cap B) \cup {NULL}
    <3>1. CASE j # i  BY <1>3, <1>4, <3>1
    <3>2. CASE j = i
      <4>1. th \in B
        BY <1>1, <1>4, <3>2
      <4>2. other[th] \in B \cup {NULL}
        BY <1>4, <4>1
      <4> QED  BY <1>3, <3>2, <4>2
    <3> QED  BY <3>1, <3>2
  <2> HIDE DEF B
  <2> QED  BY <2>1, <2>2, ChainLeast DEF A
<1>7. th \in B
  <2>1. i \in B /\ other[i] = th /\ th # NULL
    BY <1>1, <1>6
  <2> QED  BY <1>4, <2>1
<1>8. B = C
  BY <1>5, <1>6, <1>7
<1>9. PICK last \in A : next[last] = NULL
  BY <1>1 DEF Terminates
<1>10. \E j \in C : other[j] = NULL
  BY <1>9
<1> QED  BY <1>8, <1>10 DEF Terminates

\* The first thread leaves.
LEMMA ChainPop ==
  ASSUME NEW next, next \in [Threads -> Pointer], NEW start \in Threads,
         Terminates(next, start)
  PROVE  /\ Chain(next, next[start]) = Chain(next, start) \ {start}
         /\ Terminates(next, next[start])
<1>1. start \in Chain(next, start) /\ start \in Pointer
  BY ChainStart DEF Pointer
<1>2. start \notin Chain(next, next[start]) /\ Terminates(next, next[start])
  BY <1>1, ChainEnds
<1> QED  BY <1>2, ChainUnfold

\* A thread behind another one leaves.
LEMMA ChainCut ==
  ASSUME NEW next, next \in [Threads -> Pointer], NEW other,
         other \in [Threads -> Pointer], NEW start, start \in Pointer,
         Terminates(next, start), NEW i \in Chain(next, start),
         NEW th \in Threads, next[i] = th, other[i] = next[th],
         \A j \in Chain(next, start) \ {i, th} : other[j] = next[j]
  PROVE  Chain(other, start) = Chain(next, start) \ {th} /\ Terminates(other, start)
<1>1. start \in Threads /\ NULL \notin Threads
  BY ListAssumption, ChainNull DEF Pointer
<1> DEFINE A == Chain(next, start)
           B == Chain(other, start)
           C == A \ {th}
<1>2. A \subseteq Threads /\ B \subseteq Threads /\ start \in A /\ start \in B
  BY <1>1, ChainThreads, ChainStart
<1>3. \A j \in A : next[j] \in A \cup {NULL}
  BY ChainClosed
<1>4. \A j \in B : other[j] \in B \cup {NULL}
  BY ChainClosed
<1>5. th \in A /\ i \in Threads
  BY <1>1, <1>2, <1>3
<1>6. i \notin Chain(next, th) /\ th \notin Chain(next, next[th])
  BY <1>5, ChainEnds
<1>7. i # th /\ next[th] # th /\ th # start
  <2>1. th \in Chain(next, th)
    BY ChainStart
  <2> QED  BY <1>6, <2>1
<1>8. \A j \in A : next[j] = th => j = i
  BY <1>1, ChainMeet
<1>9. B \subseteq C
  <2>1. C \subseteq Threads /\ start \in C \cup {NULL}
    BY <1>2, <1>7
  <2>2. ASSUME NEW j \in C PROVE other[j] \in C \cup {NULL}
    <3>1. CASE j = i  BY <1>3, <1>5, <1>7, <3>1
    <3>2. CASE j # i  BY <1>3, <1>8, <3>2
    <3> QED  BY <3>1, <3>2
  <2> HIDE DEF A, C
  <2> QED  BY <2>1, <2>2, ChainLeast
<1>10. A \subseteq B \cup {th}
  <2> DEFINE S == A \cap (B \cup {th})
  <2>1. S \subseteq Threads /\ start \in S \cup {NULL}
    BY <1>2
  <2>2. i \in B => next[th] \in B \cup {NULL}
    BY <1>4
  <2>3. i \in B
    <3> DEFINE R == A \cap B
    <3>1. ASSUME i \notin B PROVE FALSE
      <4>1. \A j \in R : next[j] \in R \cup {NULL}
        BY <1>3, <1>4, <1>8, <1>9, <3>1
      <4>2. R \subseteq Threads /\ start \in R \cup {NULL}
        BY <1>2
      <4>3. A \subseteq R
        <5> HIDE DEF R
        <5> QED  BY <4>1, <4>2, ChainLeast
      <4> QED  BY <3>1, <4>3
    <3> QED  BY <3>1
  <2>4. ASSUME NEW j \in S PROVE next[j] \in S \cup {NULL}
    <3>1. CASE j = th  BY <1>3, <1>5, <2>2, <2>3, <3>1
    <3>2. CASE j # th  BY <1>3, <1>4, <1>5, <3>2
    <3> QED  BY <3>1, <3>2
  <2>5. A \subseteq S
    <3> HIDE DEF S
    <3> QED  BY <2>1, <2>4, ChainLeast
  <2> QED  BY <2>5
<1>11. B = C
  BY <1>9, <1>10
<1>12. PICK last \in A : next[last] = NULL
  BY <1>1 DEF Terminates
<1>13. \E j \in C : other[j] = NULL
  <2>1. CASE last = th
    <3>1. other[i] = NULL /\ i \in C
      BY <1>7, <1>12, <2>1
    <3> QED  BY <3>1
  <2>2. CASE last # th
    <3>1. last # i
      BY <1>1, <1>12
    <3>2. other[last] = NULL /\ last \in C
      BY <1>12, <2>2, <3>1
    <3> QED  BY <3>2
  <2> QED  BY <2>1, <2>2
<1> QED  BY <1>11, <1>13 DEF Terminates

\* The loops of the lists end inside of the list.
LEMMA LoopEndChain ==
  ASSUME NEW next, next \in [Threads -> Pointer], NEW start \in Threads, NEW go
  PROVE  LoopEnd(next, start, go) \in Chain(next, start)
<1>1. start \in Chain(next, start)  BY ChainStart
<1>2. Visits(next, start, go) \subseteq Chain(next, start)
  <2> SUFFICES ASSUME NEW i \in Visits(next, start, go),
                      NEW S \in SUBSET Threads, start \in S,
                      \A j \in S \cap {x \in Threads : next[x] # NULL} :
                        next[j] \in S \cup {NULL}
               PROVE  i \in S
    BY ListAssumption DEF Chain, Visits
  <2>1. \A j \in S \cap go : next[j] \in S \cup {NULL}
    OBVIOUS
  <2> QED  BY <2>1 DEF Visits
<1> QED  BY <1>1, <1>2 DEF LoopEnd

\* The loop that looks for a thread finds the one before it.
LEMMA LoopFinds ==
  ASSUME NEW next, next \in [Threads -> Pointer], NEW start \in Threads,
         NEW th \in Chain(next, start), th # start
  PROVE  LET i == LoopEnd(next, start, {j \in Threads : next[j] # th})
         IN  i \in Chain(next, start) /\ next[i] = th
<1> DEFINE go == {j \in Threads : next[j] # th}
           V == Visits(next, start, go)
           i == LoopEnd(next, start, go)
<1>1. V \subseteq Threads /\ start \in V /\ NULL \notin Threads /\ th \in Threads
  BY ListAssumption, ChainThreads DEF Visits
<1>2. \E j \in V : j \notin go
  <2> SUFFICES ASSUME V \subseteq go PROVE FALSE
    OBVIOUS
  <2>1. ASSUME NEW j \in V PROVE next[j] \in V \cup {NULL}
    <3> SUFFICES ASSUME next[j] # NULL, NEW S \in SUBSET Threads, start \in S,
                        \A x \in S \cap go : next[x] \in S \cup {NULL}
                 PROVE  next[j] \in S
      BY <1>1, ListAssumption DEF Visits, Pointer
    <3>1. j \in S  BY DEF Visits
    <3> QED  BY <3>1
  <2>2. \A j \in V \ {th} : next[j] \in (V \ {th}) \cup {NULL}
    BY <1>1, <2>1
  <2>3. V \ {th} \subseteq Threads /\ start \in V \ {th}
    BY <1>1
  <2>4. Chain(next, start) \subseteq V \ {th}
    <3> DEFINE S == V \ {th}
    <3> HIDE DEF V
    <3>1. S \subseteq Threads /\ start \in S \cup {NULL} /\ \A j \in S : next[j] \in S \cup {NULL}
      BY <2>2, <2>3
    <3> HIDE DEF S
    <3>2. Chain(next, start) \subseteq S
      BY <3>1, ChainLeast
    <3> QED  BY <3>2 DEF S
  <2> QED  BY <2>4
<1>3. i \in V /\ i \notin go
  BY <1>2 DEF LoopEnd
<1>4. i \in Chain(next, start)
  BY LoopEndChain
<1> QED  BY <1>1, <1>3, <1>4

\* A loop that goes on only where there is a next thread ends, at the first thread or
\* behind one it went on from.
LEMMA LoopStops ==
  ASSUME NEW next, next \in [Threads -> Pointer], NEW start \in Threads,
         Terminates(next, start), NEW go, go \subseteq Threads, \A j \in go : next[j] # NULL,
         NEW i, i = LoopEnd(next, start, go)
  PROVE  i \notin go /\ (i # start => \E j \in go : next[j] = i)
<1> DEFINE V == Visits(next, start, go)
<1>1. V \subseteq Threads /\ start \in V /\ NULL \notin Threads
  BY ListAssumption DEF Visits
<1>2. ASSUME NEW j \in V \cap go PROVE next[j] \in V
  <2> SUFFICES ASSUME NEW S \in SUBSET Threads, start \in S,
                      \A x \in S \cap go : next[x] \in S \cup {NULL}
               PROVE  next[j] \in S
    BY <1>1, ListAssumption DEF Visits, Pointer
  <2>1. j \in S  BY DEF Visits
  <2> QED  BY <2>1
<1>3. \E j \in V : j \notin go
  <2> SUFFICES ASSUME V \subseteq go PROVE FALSE
    OBVIOUS
  <2>1. \A j \in V : next[j] \in V \cup {NULL}
    BY <1>2
  <2>2. Chain(next, start) \subseteq V
    <3> HIDE DEF V
    <3> QED  BY <1>1, <2>1, ChainLeast
  <2>3. PICK last \in Chain(next, start) : next[last] = NULL
    BY <1>1 DEF Terminates
  <2> QED  BY <2>2, <2>3
<1>4. i \in V /\ i \notin go
  BY <1>3 DEF LoopEnd
<1>5. ASSUME i # start, \A j \in go : next[j] # i PROVE FALSE
  <2> DEFINE S == V \ {i}
  <2>1. S \subseteq Threads /\ start \in S
    BY <1>1, <1>5
  <2>2. \A j \in S \cap go : next[j] \in S \cup {NULL}
    BY <1>2, <1>5
  <2>3. V \subseteq S
    <3> HIDE DEF S
    <3> QED  BY <2>1, <2>2 DEF Visits
  <2> QED  BY <1>4, <2>3
<1> QED  BY <1>4, <1>5

-----------------------------------------------------------------------------
(* Ticks, and the times they stand for. *)

\* The residue of a time before another, less than a round later.
LEMMA ResidueBefore ==
  ASSUME NEW n \in Nat \ {0}, NEW a \in Int, NEW b \in Int, a < b, b - a < n
  PROVE  ((a % n) - (b % n)) % n = n - (b - a)
<1> DEFINE r == a % n
           q == a \div n
           s == b % n
           p == b \div n
           d == b - a
<1>1. /\ r \in Int /\ 0 <= r /\ r < n /\ q \in Int /\ a = n * q + r
      /\ s \in Int /\ 0 <= s /\ s < n /\ p \in Int /\ b = n * p + s
  OBVIOUS
<1>2. d \in Int /\ 0 < d /\ d < n /\ d = b - a /\ n \in Int
  OBVIOUS
<1> HIDE DEF r, q, s, p, d
<1>3. r - s = n * (p - q) - d
  <2>1. n * (p - q) = n * p - n * q
    BY <1>1, <1>2
  <2> QED
    BY <1>1, <1>2, <2>1
<1>4. p - q \in {0, 1}
  <2> DEFINE c == p - q
  <2>1. c \in Int /\ r - s = n * c - d
    BY <1>1, <1>3
  <2> HIDE DEF c
  <2>2. c >= 2 => n * c >= n + n
    BY <1>2, <2>1
  <2>3. c <= -1 => n * c <= -n
    BY <1>2, <2>1
  <2>4. n * c \in Int
    BY <1>2, <2>1
  <2>5. c < 2 /\ c > -1
    BY <1>1, <1>2, <2>1, <2>2, <2>3, <2>4
  <2> QED
    BY <2>1, <2>5 DEF c
<1>5. r - s = -d \/ r - s = n - d
  BY <1>1, <1>2, <1>3, <1>4
<1>6. (-d) % n = n - d
  <2> DEFINE e == (-d) % n
             c == (-d) \div n
  <2>1. e \in Int /\ 0 <= e /\ e < n /\ c \in Int /\ -d = n * c + e
    BY <1>2
  <2> HIDE DEF e, c
  <2>2. c >= 0 => n * c >= 0
    BY <1>2, <2>1
  <2>3. c <= -2 => n * c <= -(n + n)
    BY <1>2, <2>1
  <2>4. n * c \in Int
    BY <1>2, <2>1
  <2>5. c = -1
    <3>1. c < 0 /\ c > -2
      BY <1>2, <2>1, <2>2, <2>3, <2>4
    <3> QED
      BY <2>1, <3>1
  <2>6. e = n - d
    BY <1>2, <2>1, <2>5
  <2> QED
    BY <2>6 DEF e
<1>7. (n - d) % n = n - d
  <2> DEFINE e == (n - d) % n
             c == (n - d) \div n
  <2>1. e \in Int /\ 0 <= e /\ e < n /\ c \in Int /\ n - d = n * c + e
    BY <1>2
  <2> HIDE DEF e, c
  <2>2. c >= 1 => n * c >= n
    BY <1>2, <2>1
  <2>3. c <= -1 => n * c <= -n
    BY <1>2, <2>1
  <2>4. n * c \in Int
    BY <1>2, <2>1
  <2>5. c = 0
    <3>1. c < 1 /\ c > -1
      BY <1>2, <2>1, <2>2, <2>3, <2>4
    <3> QED
      BY <2>1, <3>1
  <2>6. e = n - d
    BY <1>2, <2>1, <2>5
  <2> QED
    BY <2>6 DEF e
<1>8. (r - s) % n = n - d
  BY <1>5, <1>6, <1>7
<1> QED
  BY <1>8 DEF r, s, d

\* The residue of a time less than a round later.
LEMMA ResidueAfter ==
  ASSUME NEW n \in Nat \ {0}, NEW a \in Int, NEW b \in Int, b <= a, a - b < n
  PROVE  ((a % n) - (b % n)) % n = a - b
<1>1. CASE a = b
  BY <1>1
<1>2. CASE b < a
  <2> DEFINE c == a - n
  <2>1. c \in Int /\ c < b /\ b - c < n /\ n - (b - c) = a - b
    BY <1>2
  <2>2. c % n = a % n
    <3> DEFINE r == a % n
               q == a \div n
               s == c % n
               p == c \div n
    <3>1. /\ r \in Int /\ 0 <= r /\ r < n /\ q \in Int /\ a = n * q + r
          /\ s \in Int /\ 0 <= s /\ s < n /\ p \in Int /\ c = n * p + s
      BY <2>1
    <3>2. n \in Int /\ a - c = n
      BY <2>1
    <3> HIDE DEF r, q, s, p, c
    <3> DEFINE e == q - p - 1
    <3>3. e \in Int /\ s - r = n * e
      <4>1. n * e = n * q - n * p - n
        BY <3>1, <3>2
      <4> QED
        BY <3>1, <3>2, <4>1
    <3> HIDE DEF e
    <3>4. e >= 1 => n * e >= n
      BY <3>2, <3>3
    <3>5. e <= -1 => n * e <= -n
      BY <3>2, <3>3
    <3>6. e = 0
      <4>1. e < 1 /\ e > -1
        BY <3>1, <3>2, <3>3, <3>4, <3>5
      <4> QED
        BY <3>3, <4>1
    <3>7. s = r
      BY <3>1, <3>2, <3>3, <3>6
    <3> QED
      BY <3>7 DEF r, s
  <2> HIDE DEF c
  <2>3. ((c % n) - (b % n)) % n = n - (b - c)
    BY <2>1, ResidueBefore
  <2> QED
    BY <2>1, <2>2, <2>3
<1> QED
  BY <1>1, <1>2

LEMMA HalfRoundType ==
  /\ TickMod \in Nat \ {0} /\ HalfRound \in Int /\ 0 <= HalfRound
  /\ HalfRound + HalfRound < TickMod
BY ListAssumption DEF HalfRound

\* Of two times within half a round, the ticks tell which is over the other.
LEMMA TicksTell ==
  ASSUME NEW a \in Int, NEW b \in Int, a - b <= HalfRound, b - a <= HalfRound
  PROVE  tick_isOver(a % TickMod, b % TickMod) <=> b <= a
<1>1. CASE b <= a
  <2>1. ((a % TickMod) - (b % TickMod)) % TickMod = a - b
    <3>1. a - b < TickMod
      BY HalfRoundType
    <3> QED
      BY <1>1, <3>1, HalfRoundType, ResidueAfter
  <2> QED
    BY <1>1, <2>1 DEF tick_isOver, HalfRound
<1>2. CASE a < b
  <2>1. ((a % TickMod) - (b % TickMod)) % TickMod = TickMod - (b - a)
    <3>1. b - a < TickMod
      BY HalfRoundType
    <3> QED
      BY <1>2, <3>1, HalfRoundType, ResidueBefore
  <2>2. ~ (TickMod - (b - a) <= HalfRound)
    BY HalfRoundType
  <2> QED
    BY <1>2, <2>1, <2>2 DEF tick_isOver, HalfRound
<1> QED
  BY <1>1, <1>2

\* Ticks that stand for times within half a round stand for their distance.
LEMMA SameGap ==
  ASSUME NEW a \in Int, NEW b \in Int, a - b <= HalfRound, b - a <= HalfRound,
         NEW c \in Int, NEW d \in Int, c - d <= HalfRound, d - c <= HalfRound,
         a % TickMod = c % TickMod, b % TickMod = d % TickMod
  PROVE  a - b = c - d
<1> DEFINE g == ((a % TickMod) - (b % TickMod)) % TickMod
<1>1. /\ a - b < TickMod /\ b - a < TickMod /\ c - d < TickMod /\ d - c < TickMod
  BY HalfRoundType
<1>2. IF b <= a THEN g = a - b ELSE g = TickMod - (b - a)
  <2>1. TickMod \in Nat \ {0}
    BY HalfRoundType
  <2>2. CASE b <= a
    BY <1>1, <2>1, <2>2, ResidueAfter
  <2>3. CASE a < b
    <3>1. g = TickMod - (b - a)
      BY ONLY <1>1, <2>1, <2>3, a \in Int, b \in Int, ResidueBefore
    <3> HIDE DEF g
    <3> QED
      BY <2>3, <3>1
  <2> QED
    BY <2>2, <2>3
<1>3. IF d <= c THEN g = c - d ELSE g = TickMod - (d - c)
  <2>1. g = ((c % TickMod) - (d % TickMod)) % TickMod
    OBVIOUS
  <2> HIDE DEF g
  <2>2. TickMod \in Nat \ {0}
    BY HalfRoundType
  <2>3. CASE d <= c
    BY <1>1, <2>1, <2>2, <2>3, ResidueAfter
  <2>4. CASE c < d
    <3>1. ((c % TickMod) - (d % TickMod)) % TickMod = TickMod - (d - c)
      BY ONLY <1>1, <2>2, <2>4, c \in Int, d \in Int, ResidueBefore
    <3> QED
      BY <2>1, <2>4, <3>1
  <2> QED
    BY <2>3, <2>4
<1> HIDE DEF g
<1> QED
  BY <1>2, <1>3, HalfRoundType

-----------------------------------------------------------------------------
(* What the lists hold.  h[t] is the set of lists that hold t: a thread hangs    *)
(* in at most one list by each of its links, and one that hangs by both is     *)
(* alone in both lists, so that its back pointers are those of a first thread. *)
(* Behind its first thread a prior list is sorted.                             *)

Links(m, l) == IF l \in TickLists THEN TkLinks(m) ELSE m.nextPr
On(m, l)    == Chain(Links(m, l), m.head[l])

\* The lists l and o are linked by the same member.
OneLink(l, o) == BasicMode \/ (l \in TickLists <=> o \in TickLists)

\* The links and back pointers of a thread.
HangsBy(m, h, t) ==
  /\ \A l \in h[t] : \A o \in h[t] : OneLink(l, o) => l = o
  /\ h[t] \cap PriorLists = {} => m.prevPr[t] = NULL
  /\ h[t] \cap TickLists = {} => m.prevTk[t] \in {NULL, REMOVED}
  /\ \A l \in h[t] \cap PriorLists : \A tm \in h[t] \cap TickLists :
       /\ m.prevPr[t] = HeadOf(l) /\ m.prevTk[t] = HeadOf(tm)
       /\ \A u \in Threads : l \in h[u] \/ tm \in h[u] => u = t

\* The threads behind the first one of a list come in the order of their priorities.
LineSorted(m, l) ==
  \A t \in On(m, l) : t # m.head[l] /\ Links(m, l)[t] # NULL =>
    m.prior[t] <= m.prior[Links(m, l)[t]]

\* The ticks of the threads of X stand for the times d, and these lie within half a round.
Spaced(m, X, d) ==
  \A t \in X : m.tick[t] = d[t] % TickMod /\ \A u \in X : d[t] - d[u] <= HalfRound

\* A tick alone stands for a time.
LEMMA SpacedAlone ==
  ASSUME NEW m, m \in Memory, NEW t \in Threads
  PROVE  \E d \in [Threads -> Int] : Spaced(m, {t}, d)
<1> DEFINE d == [u \in Threads |-> m.tick[t]]
<1>1. m.tick[t] \in 0 .. TickMod - 1 /\ TickMod \in Nat \ {0}
  BY ListAssumption DEF Memory, Ticks
<1>2. m.tick[t] \in Int /\ m.tick[t] % TickMod = m.tick[t] /\ m.tick[t] - m.tick[t] <= HalfRound
  BY <1>1, HalfRoundType
<1>3. d \in [Threads -> Int] /\ \A u \in {t} : d[u] = m.tick[t]
  BY <1>2
<1> HIDE DEF d
<1>4. Spaced(m, {t}, d)
  BY <1>2, <1>3 DEF Spaced
<1> QED
  BY <1>3, <1>4

\* The threads of a list come in the order of such times.
RowSorted(m, l) ==
  \E d \in [Threads -> Int] :
    /\ Spaced(m, On(m, l), d)
    /\ \A t \in On(m, l) : Links(m, l)[t] # NULL => d[t] <= d[Links(m, l)[t]]

\* What clients ask of a timer lies within half a round of its counter, before and after.
Near == MaxDelay + MaxLate <= HalfRound /\ MaxLate < HalfRound

InOrder(m, l) ==
  /\ l \in PriorLists => LineSorted(m, l)
  /\ l \in TickLists /\ Near => RowSorted(m, l)

Hung(m, h) ==
  /\ m \in Memory
  /\ h \in [Threads -> SUBSET Lists]
  /\ \A l \in Lists : /\ Terminates(Links(m, l), m.head[l])
                      /\ On(m, l) = {t \in Threads : l \in h[t]}
  /\ \A t \in Threads : HangsBy(m, h, t)
  /\ \A l \in Lists : InOrder(m, l)

LEMMA LinksTypes ==
  ASSUME NEW m, m \in Memory, NEW l \in Lists
  PROVE  /\ Links(m, l) \in [Threads -> Pointer]
         /\ m.head[l] \in Pointer
BY DEF Links, TkLinks, Memory

\* Between m and n at most links of the threads of X were written, of the member that
\* links l, and the head of l.
Relinked(m, n, l, X) ==
  /\ n \in Memory /\ SameRunners(m, n)
  /\ \A o \in Lists : o # l => n.head[o] = m.head[o]
  /\ \A o \in Lists : \A j \in Threads :
       Links(n, o)[j] # Links(m, o)[j] => OneLink(l, o) /\ j \in X

\* The back pointers of other threads are not written.
SameBacks(m, n, th) ==
  \A t \in Threads : t # th => n.prevPr[t] = m.prevPr[t] /\ n.prevTk[t] = m.prevTk[t]

\* A list whose links and priorities are not written.
LEMMA LineFrame ==
  ASSUME NEW m, m \in Memory, NEW n, NEW l \in Lists, LineSorted(m, l),
         n.head[l] = m.head[l], On(n, l) = On(m, l),
         \A j \in On(m, l) : Links(n, l)[j] = Links(m, l)[j] /\ n.prior[j] = m.prior[j]
  PROVE  LineSorted(n, l)
<1>1. \A j \in On(m, l) : Links(m, l)[j] \in On(m, l) \cup {NULL}
  BY LinksTypes, ChainClosed DEF On
<1> QED
  BY <1>1 DEF LineSorted

\* A thread that is put between its higher and its lower equals.
LEMMA LineInsert ==
  ASSUME NEW m, m \in Memory, NEW n, n \in Memory, NEW l \in Lists, LineSorted(m, l),
         n.head[l] = m.head[l], n.prior = m.prior,
         NEW i \in On(m, l), NEW th \in Threads \ On(m, l), On(n, l) = On(m, l) \cup {th},
         Links(n, l)[i] = th, Links(n, l)[th] = Links(m, l)[i],
         \A j \in On(m, l) \ {i} : Links(n, l)[j] = Links(m, l)[j],
         i # m.head[l] => m.prior[i] <= m.prior[th],
         Links(m, l)[i] # NULL => m.prior[th] <= m.prior[Links(m, l)[i]]
  PROVE  LineSorted(n, l)
<1> SUFFICES ASSUME NEW t \in On(n, l), t # n.head[l], Links(n, l)[t] # NULL
             PROVE  n.prior[t] <= n.prior[Links(n, l)[t]]
  BY DEF LineSorted
<1>1. CASE t = th  BY <1>1
<1>2. CASE t = i   BY <1>2
<1>3. CASE t # th /\ t # i
  BY <1>3 DEF LineSorted
<1> QED  BY <1>1, <1>2, <1>3

\* A thread that leaves: the first, or one behind another.
LEMMA LineRemove ==
  ASSUME NEW m, m \in Memory, NEW n, n \in Memory, NEW l \in Lists, LineSorted(m, l),
         n.prior = m.prior,
         NEW th \in On(m, l), On(n, l) = On(m, l) \ {th},
         \/ m.head[l] = th /\ \A j \in Threads : Links(n, l)[j] = Links(m, l)[j]
         \/ \E i \in On(m, l) :
              /\ n.head[l] = m.head[l] /\ m.head[l] # th
              /\ Links(m, l)[i] = th /\ Links(n, l)[i] = Links(m, l)[th]
              /\ \A j \in On(m, l) \ {i} : Links(n, l)[j] = Links(m, l)[j]
  PROVE  LineSorted(n, l)
<1> SUFFICES ASSUME NEW t \in On(n, l), t # n.head[l], Links(n, l)[t] # NULL
             PROVE  m.prior[t] <= m.prior[Links(n, l)[t]]
  BY DEF LineSorted
<1>1. t \in On(m, l) /\ t # th /\ t \in Threads /\ th \in Threads
  BY ChainThreads DEF On
<1>2. CASE m.head[l] = th /\ \A j \in Threads : Links(n, l)[j] = Links(m, l)[j]
  BY <1>1, <1>2 DEF LineSorted
<1>3. ASSUME NEW i \in On(m, l), n.head[l] = m.head[l], m.head[l] # th,
             Links(m, l)[i] = th, Links(n, l)[i] = Links(m, l)[th],
             \A j \in On(m, l) \ {i} : Links(n, l)[j] = Links(m, l)[j]
      PROVE  m.prior[t] <= m.prior[Links(n, l)[t]]
  <2>1. CASE t # i
    BY <1>1, <1>3, <2>1 DEF LineSorted
  <2>2. CASE t = i
    <3>1. th # NULL /\ Links(m, l)[th] # NULL
      BY <1>1, <1>3, <2>2, ListAssumption
    <3>2. m.prior[t] <= m.prior[th] /\ m.prior[th] <= m.prior[Links(m, l)[th]]
      BY <1>1, <1>3, <2>2, <3>1 DEF LineSorted
    <3>3. Links(m, l)[th] \in Threads
      BY <1>1, <3>1, LinksTypes DEF Pointer
    <3>4. m.prior[t] \in Int /\ m.prior[th] \in Int /\ m.prior[Links(m, l)[th]] \in Int
      BY <1>1, <3>3, ListAssumption DEF Memory, Priors
    <3> QED
      BY <1>3, <2>2, <3>2, <3>4
  <2> QED  BY <2>1, <2>2
<1> QED  BY <1>2, <1>3

\* The list of a timer whose links and ticks are not written.
LEMMA RowFrame ==
  ASSUME NEW m, m \in Memory, NEW n, NEW l \in Lists, RowSorted(m, l), On(n, l) = On(m, l),
         \A j \in On(m, l) : Links(n, l)[j] = Links(m, l)[j] /\ n.tick[j] = m.tick[j]
  PROVE  RowSorted(n, l)
<1>1. PICK d \in [Threads -> Int] :
        /\ Spaced(m, On(m, l), d)
        /\ \A t \in On(m, l) : Links(m, l)[t] # NULL => d[t] <= d[Links(m, l)[t]]
  BY DEF RowSorted
<1>2. Spaced(n, On(n, l), d)
  BY <1>1 DEF Spaced
<1> QED
  BY <1>1, <1>2 DEF RowSorted

LEMMA OrderFrame ==
  ASSUME NEW m, m \in Memory, NEW n, NEW l \in Lists, InOrder(m, l),
         n.head[l] = m.head[l], On(n, l) = On(m, l),
         \A j \in On(m, l) : /\ Links(n, l)[j] = Links(m, l)[j]
                             /\ n.prior[j] = m.prior[j] /\ n.tick[j] = m.tick[j]
  PROVE  InOrder(n, l)
BY LineFrame, RowFrame DEF InOrder

\* A thread leaves the list of a timer: the first, or one behind another.
LEMMA RowRemove ==
  ASSUME NEW m, m \in Memory, NEW n, n \in Memory, NEW l \in Lists, RowSorted(m, l),
         n.tick = m.tick, NEW th \in On(m, l), On(n, l) = On(m, l) \ {th},
         \/ \A j \in Threads : Links(n, l)[j] = Links(m, l)[j]
         \/ \E i \in On(m, l) :
              /\ Links(m, l)[i] = th /\ Links(n, l)[i] = Links(m, l)[th]
              /\ \A j \in On(m, l) \ {i} : Links(n, l)[j] = Links(m, l)[j]
  PROVE  RowSorted(n, l)
<1>1. PICK d \in [Threads -> Int] :
        /\ Spaced(m, On(m, l), d)
        /\ \A t \in On(m, l) : Links(m, l)[t] # NULL => d[t] <= d[Links(m, l)[t]]
  BY DEF RowSorted
<1>2. On(m, l) \subseteq Threads /\ Links(m, l) \in [Threads -> Pointer] /\ th # NULL
  BY ChainThreads, LinksTypes, ListAssumption DEF On
<1>3. ASSUME NEW t \in On(n, l), Links(n, l)[t] # NULL PROVE d[t] <= d[Links(n, l)[t]]
  <2>1. t \in On(m, l)
    OBVIOUS
  <2>2. CASE Links(n, l)[t] = Links(m, l)[t]
    BY <1>1, <1>3, <2>1, <2>2
  <2>3. CASE Links(n, l)[t] # Links(m, l)[t]
    <3>1. Links(m, l)[t] = th /\ Links(n, l)[t] = Links(m, l)[th]
      BY <1>2, <2>1, <2>3
    <3>2. d[t] <= d[th] /\ d[th] <= d[Links(m, l)[th]]
      BY <1>1, <1>2, <1>3, <2>1, <3>1
    <3>3. Links(m, l)[th] \in Threads
      BY <1>2, <1>3, <3>1 DEF Pointer
    <3>4. d[t] \in Int /\ d[th] \in Int /\ d[Links(m, l)[th]] \in Int
      BY <1>1, <1>2, <2>1, <3>3
    <3> QED
      BY <3>1, <3>2, <3>4
  <2> QED
    BY <2>2, <2>3
<1>4. Spaced(n, On(n, l), d)
  BY <1>1 DEF Spaced
<1> QED
  BY <1>1, <1>3, <1>4 DEF RowSorted

\* A thread is put before one that is over it, and behind one that is not.
RowPlaced(m, n, l, th) ==
  /\ On(n, l) = On(m, l) \cup {th}
  /\ Links(n, l)[th] # NULL =>
       Links(n, l)[th] \in On(m, l) /\ tick_isOver(m.tick[Links(n, l)[th]], m.tick[th])
  /\ \A j \in On(m, l) :
       \/ Links(n, l)[j] = Links(m, l)[j]
       \/ Links(n, l)[j] = th /\ ~ tick_isOver(m.tick[j], m.tick[th])

LEMMA RowPut ==
  ASSUME NEW m, m \in Memory, NEW n, n \in Memory, NEW l \in Lists, RowSorted(m, l),
         n.tick = m.tick,
         NEW th \in Threads \ On(m, l), RowPlaced(m, n, l, th),
         NEW e \in [Threads -> Int], Spaced(m, On(m, l) \cup {th}, e)
  PROVE  RowSorted(n, l)
<1>1. PICK d \in [Threads -> Int] :
        /\ Spaced(m, On(m, l), d)
        /\ \A t \in On(m, l) : Links(m, l)[t] # NULL => d[t] <= d[Links(m, l)[t]]
  BY DEF RowSorted
<1>2. On(m, l) \subseteq Threads /\ Links(m, l) \in [Threads -> Pointer]
  BY ChainThreads, LinksTypes DEF On
<1>3. \A t \in On(m, l) : \A u \in On(m, l) : d[t] - d[u] = e[t] - e[u]
  <2> SUFFICES ASSUME NEW t \in On(m, l), NEW u \in On(m, l) PROVE d[t] - d[u] = e[t] - e[u]
    OBVIOUS
  <2>1. d[t] \in Int /\ d[u] \in Int /\ e[t] \in Int /\ e[u] \in Int
    BY <1>1, <1>2
  <2>2. /\ d[t] - d[u] <= HalfRound /\ d[u] - d[t] <= HalfRound
        /\ e[t] - e[u] <= HalfRound /\ e[u] - e[t] <= HalfRound
        /\ d[t] % TickMod = e[t] % TickMod /\ d[u] % TickMod = e[u] % TickMod
    BY <1>1 DEF Spaced
  <2> DEFINE a == d[t]
             b == d[u]
             f == e[t]
             g == e[u]
  <2> HIDE DEF a, b, f, g
  <2>3. a - b = f - g
    <3>1. a \in Int /\ b \in Int /\ f \in Int /\ g \in Int
      BY <2>1 DEF a, b, f, g
    <3>2. /\ a - b <= HalfRound /\ b - a <= HalfRound /\ f - g <= HalfRound /\ g - f <= HalfRound
          /\ a % TickMod = f % TickMod /\ b % TickMod = g % TickMod
      BY <2>2 DEF a, b, f, g
    <3> QED
      BY ONLY <3>1, <3>2, SameGap
  <2> QED
    BY <2>3 DEF a, b, f, g
<1>4. \A j \in On(m, l) : tick_isOver(m.tick[j], m.tick[th]) <=> e[th] <= e[j]
  <2> SUFFICES ASSUME NEW j \in On(m, l)
               PROVE  tick_isOver(m.tick[j], m.tick[th]) <=> e[th] <= e[j]
    OBVIOUS
  <2>1. /\ e[j] \in Int /\ e[th] \in Int
        /\ e[j] - e[th] <= HalfRound /\ e[th] - e[j] <= HalfRound
        /\ m.tick[j] = e[j] % TickMod /\ m.tick[th] = e[th] % TickMod
    BY <1>2 DEF Spaced
  <2> QED
    BY <2>1, TicksTell
<1>5. ASSUME NEW t \in On(n, l), Links(n, l)[t] # NULL PROVE e[t] <= e[Links(n, l)[t]]
  <2>1. CASE t = th
    BY <1>4, <1>5, <2>1 DEF RowPlaced
  <2>2. CASE t # th /\ Links(n, l)[t] = Links(m, l)[t]
    <3>1. t \in On(m, l) /\ Links(m, l)[t] \in On(m, l)
      <4>1. t \in On(m, l)
        BY <2>2 DEF RowPlaced
      <4> QED
        BY <1>2, <1>5, <2>2, <4>1, ChainClosed DEF On
    <3>2. d[t] <= d[Links(m, l)[t]] /\ d[t] - d[Links(m, l)[t]] = e[t] - e[Links(m, l)[t]]
      BY <1>1, <1>3, <1>5, <2>2, <3>1
    <3>3. /\ d[t] \in Int /\ d[Links(m, l)[t]] \in Int
          /\ e[t] \in Int /\ e[Links(m, l)[t]] \in Int
      BY <1>1, <1>2, <3>1
    <3> QED
      BY <2>2, <3>2, <3>3
  <2>3. CASE t # th /\ Links(n, l)[t] # Links(m, l)[t]
    <3>1. t \in On(m, l) /\ Links(n, l)[t] = th /\ ~ (e[th] <= e[t])
      BY <1>4, <2>3 DEF RowPlaced
    <3>2. e[t] \in Int /\ e[th] \in Int
      BY <1>2, <3>1
    <3> QED
      BY <3>1, <3>2
  <2> QED
    BY <2>1, <2>2, <2>3
<1>6. Spaced(n, On(n, l), e)
  BY DEF Spaced, RowPlaced
<1> QED
  BY <1>5, <1>6 DEF RowSorted

\* The first thread of a sorted list is before all others.
LEMMA RowFirst ==
  ASSUME NEW m, m \in Memory, NEW l \in Lists, NEW d \in [Threads -> Int],
         m.head[l] # NULL,
         \A t \in On(m, l) : Links(m, l)[t] # NULL => d[t] <= d[Links(m, l)[t]]
  PROVE  m.head[l] \in On(m, l) /\ \A t \in On(m, l) : d[m.head[l]] <= d[t]
<1> DEFINE hd == m.head[l]
           next == Links(m, l)
           S == {t \in On(m, l) : d[hd] <= d[t]}
<1>1. hd \in Threads /\ next \in [Threads -> Pointer] /\ hd \in On(m, l) /\ On(m, l) \subseteq Threads
  BY LinksTypes, ChainStart, ChainThreads DEF On, Pointer
<1>2. hd \in S
  BY <1>1
<1>3. ASSUME NEW j \in S PROVE next[j] \in S \cup {NULL}
  <2>1. CASE next[j] # NULL
    <3>1. next[j] \in On(m, l) /\ d[j] <= d[next[j]] /\ d[hd] <= d[j]
      BY <1>1, <2>1, ChainClosed DEF On
    <3>2. d[hd] \in Int /\ d[j] \in Int /\ d[next[j]] \in Int
      BY <1>1, <3>1
    <3> QED
      BY <3>1, <3>2
  <2> QED
    BY <2>1
<1>4. On(m, l) \subseteq S
  <2>1. S \subseteq Threads
    BY <1>1
  <2> HIDE DEF S
  <2>2. Chain(next, hd) \subseteq S
    BY <1>2, <1>3, <2>1, ChainLeast
  <2> QED
    BY <2>2 DEF On
<1> QED
  BY <1>1, <1>4

\* The threads of X are in l, or in no list of its link.
Loose(h, l, X) ==
  \A j \in X \cap Threads : l \in h[j] \/ \A o \in h[j] : ~ OneLink(l, o)

\* The other lists, when only links of such threads were written.
LEMMA OthersHung ==
  ASSUME NEW m, NEW h, Hung(m, h), NEW n, NEW l \in Lists, NEW X, Relinked(m, n, l, X),
         Loose(h, l, X), NEW o \in Lists, o # l
  PROVE  /\ On(n, o) = On(m, o) /\ Terminates(Links(n, o), n.head[o])
         /\ InOrder(n, o)
<1>1. /\ Links(m, o) \in [Threads -> Pointer] /\ Links(n, o) \in [Threads -> Pointer]
      /\ m.head[o] \in Pointer /\ n.head[o] = m.head[o]
  BY LinksTypes DEF Hung, Relinked
<1>2. ASSUME NEW j \in On(m, o) PROVE Links(n, o)[j] = Links(m, o)[j]
  <2>1. j \in Threads /\ o \in h[j]
    BY DEF Hung
  <2>2. CASE Links(n, o)[j] # Links(m, o)[j]
    <3>1. OneLink(l, o) /\ j \in X
      BY <2>1, <2>2 DEF Relinked
    <3>2. l \in h[j]
      BY <2>1, <3>1 DEF Loose
    <3>3. HangsBy(m, h, j)
      BY <2>1 DEF Hung
    <3> QED
      BY <2>1, <3>1, <3>2, <3>3 DEF HangsBy
  <2> QED  BY <2>2
<1>3. Terminates(Links(m, o), m.head[o])
  BY DEF Hung
<1>4. On(n, o) = On(m, o) /\ Terminates(Links(n, o), n.head[o])
  BY <1>1, <1>2, <1>3, EndsFrame DEF On
<1>5. InOrder(n, o)
  <2>1. m \in Memory /\ n.prior = m.prior /\ n.tick = m.tick /\ InOrder(m, o)
    BY DEF Hung, Relinked, SameRunners
  <2> QED
    BY <1>1, <1>2, <1>4, <2>1, OrderFrame
<1> QED
  BY <1>4, <1>5

\* A thread is put in a list, before the first or behind another one.
LEMMA InsertHung ==
  ASSUME NEW m, NEW h, Hung(m, h), NEW n, NEW l \in Lists, NEW th \in Threads,
         \A o \in h[th] : ~ OneLink(l, o),
         \/ /\ n.head[l] = th /\ Links(n, l)[th] = m.head[l]
            /\ Relinked(m, n, l, {th})
         \/ \E i \in On(m, l) :
              /\ n.head[l] = m.head[l]
              /\ Links(n, l)[i] = th /\ Links(n, l)[th] = Links(m, l)[i]
              /\ Relinked(m, n, l, {i, th}),
         SameBacks(m, n, th),
         \A u \in Threads \ {th} : l \in h[u] => \A o \in h[u] : OneLink(l, o),
         NEW g, g = [h EXCEPT ![th] = h[th] \cup {l}],
         HangsBy(n, g, th), InOrder(n, l)
  PROVE  Hung(n, g)
<1>1. /\ n \in Memory /\ m \in Memory /\ h \in [Threads -> SUBSET Lists]
      /\ \A t \in Threads : g[t] = IF t = th THEN h[th] \cup {l} ELSE h[t]
      /\ g \in [Threads -> SUBSET Lists]
  BY DEF Relinked, Hung
<1>2. l \notin h[th]
  BY DEF OneLink
<1>3. /\ Links(m, l) \in [Threads -> Pointer] /\ Links(n, l) \in [Threads -> Pointer]
      /\ m.head[l] \in Pointer /\ n.head[l] \in Pointer
      /\ Terminates(Links(m, l), m.head[l])
      /\ On(m, l) = {t \in Threads : l \in h[t]}
  BY <1>1, LinksTypes DEF Hung
<1>4. On(n, l) = On(m, l) \cup {th} /\ Terminates(Links(n, l), n.head[l])
  <2>1. CASE /\ n.head[l] = th /\ Links(n, l)[th] = m.head[l]
             /\ Relinked(m, n, l, {th})
    <3>1. \A j \in On(m, l) : Links(n, l)[j] = Links(m, l)[j]
      BY <1>2, <1>3, <2>1 DEF Relinked
    <3> QED
      BY <1>3, <2>1, <3>1, ChainPush DEF On
  <2>2. ASSUME NEW i \in On(m, l), n.head[l] = m.head[l],
               Links(n, l)[i] = th, Links(n, l)[th] = Links(m, l)[i],
               Relinked(m, n, l, {i, th})
        PROVE  On(n, l) = On(m, l) \cup {th} /\ Terminates(Links(n, l), n.head[l])
    <3>1. \A j \in On(m, l) \ {i} : Links(n, l)[j] = Links(m, l)[j]
      BY <1>2, <1>3, <2>2 DEF Relinked
    <3>2. th \notin On(m, l)
      BY <1>2, <1>3
    <3> QED
      BY <1>3, <2>2, <3>1, <3>2, ChainInsert DEF On
  <2> QED  BY <2>1, <2>2
<1>5. On(n, l) = {t \in Threads : l \in g[t]}
  BY <1>1, <1>3, <1>4
<1>6. ASSUME NEW o \in Lists, o # l
      PROVE  /\ On(n, o) = {t \in Threads : o \in g[t]} /\ Terminates(Links(n, o), n.head[o])
             /\ InOrder(n, o)
  <2>1. ASSUME NEW X, Relinked(m, n, l, X),
               \A j \in X \cap Threads : j = th \/ j \in On(m, l)
        PROVE  /\ On(n, o) = On(m, o) /\ Terminates(Links(n, o), n.head[o])
               /\ InOrder(n, o)
    <3>1. Loose(h, l, X)
      BY <1>3, <2>1 DEF Loose
    <3> QED
      BY <1>6, <2>1, <3>1, OthersHung
  <2>2. /\ On(n, o) = On(m, o) /\ Terminates(Links(n, o), n.head[o])
        /\ InOrder(n, o)
    <3>1. ASSUME Relinked(m, n, l, {th})
          PROVE  /\ On(n, o) = On(m, o) /\ Terminates(Links(n, o), n.head[o])
                 /\ InOrder(n, o)
      BY <2>1, <3>1
    <3>2. ASSUME NEW i \in On(m, l), Relinked(m, n, l, {i, th})
          PROVE  /\ On(n, o) = On(m, o) /\ Terminates(Links(n, o), n.head[o])
                 /\ InOrder(n, o)
      BY <2>1, <3>2
    <3> QED  BY <3>1, <3>2
  <2>3. On(m, o) = {t \in Threads : o \in h[t]}
    BY DEF Hung
  <2> QED
    BY <1>1, <1>6, <2>2, <2>3
<1>7. ASSUME NEW u \in Threads PROVE HangsBy(n, g, u)
  <2>1. CASE u = th  BY <2>1
  <2>2. CASE u # th
    <3>1. HangsBy(m, h, u) /\ g[u] = h[u] /\ n.prevPr[u] = m.prevPr[u] /\ n.prevTk[u] = m.prevTk[u]
      BY <1>1, <2>2 DEF Hung, SameBacks
    <3>2. ASSUME NEW a \in h[u] \cap PriorLists, NEW tm \in h[u] \cap TickLists,
                 NEW t \in Threads, a \in g[t] \/ tm \in g[t]
          PROVE  t = u
      <4>1. CASE t # th
        BY <1>1, <3>1, <3>2, <4>1 DEF HangsBy
      <4>2. CASE t = th
        <5>1. h[th] \cap {a, tm} # {} => t = u
          BY <3>1, <4>2 DEF HangsBy
        <5>2. l = a \/ l = tm \/ t = u
          BY <1>1, <3>2, <4>2, <5>1
        <5>3. l \in h[u] => OneLink(l, a) /\ OneLink(l, tm)
          BY <2>2
        <5>4. OneLink(a, tm) => a = tm
          BY <3>1 DEF HangsBy
        <5>5. a # tm
          BY ListAssumption
        <5> QED
          BY <5>2, <5>3, <5>4, <5>5, ListAssumption DEF OneLink
      <4> QED  BY <4>1, <4>2
    <3> QED
      BY <3>1, <3>2 DEF HangsBy
  <2> QED  BY <2>1, <2>2
<1>8. \A o \in Lists : /\ Terminates(Links(n, o), n.head[o])
                       /\ On(n, o) = {t \in Threads : o \in g[t]}
  BY <1>4, <1>5, <1>6
<1>9. \A o \in Lists : InOrder(n, o)
  BY <1>6
<1> QED
  BY <1>1, <1>7, <1>8, <1>9 DEF Hung

\* A thread leaves a list, as the first or from behind another one.
LEMMA RemoveHung ==
  ASSUME NEW m, NEW h, Hung(m, h), NEW n, NEW l \in Lists, NEW th \in Threads, l \in h[th],
         \/ /\ m.head[l] = th /\ n.head[l] = Links(m, l)[th]
            /\ Relinked(m, n, l, {})
         \/ \E i \in On(m, l) :
              /\ n.head[l] = m.head[l]
              /\ Links(m, l)[i] = th /\ Links(n, l)[i] = Links(m, l)[th]
              /\ Relinked(m, n, l, {i}),
         SameBacks(m, n, th),
         NEW g, g = [h EXCEPT ![th] = h[th] \ {l}],
         HangsBy(n, g, th)
  PROVE  Hung(n, g)
<1>1. /\ n \in Memory /\ m \in Memory /\ h \in [Threads -> SUBSET Lists]
      /\ \A t \in Threads : g[t] = IF t = th THEN h[th] \ {l} ELSE h[t]
      /\ g \in [Threads -> SUBSET Lists]
  BY DEF Relinked, Hung
<1>2. /\ Links(m, l) \in [Threads -> Pointer] /\ Links(n, l) \in [Threads -> Pointer]
      /\ m.head[l] \in Pointer /\ n.head[l] \in Pointer
      /\ Terminates(Links(m, l), m.head[l])
      /\ On(m, l) = {t \in Threads : l \in h[t]}
  BY <1>1, LinksTypes DEF Hung
<1>3. On(n, l) = On(m, l) \ {th} /\ Terminates(Links(n, l), n.head[l])
  <2>1. CASE /\ m.head[l] = th /\ n.head[l] = Links(m, l)[th]
             /\ Relinked(m, n, l, {})
    <3>1. \A j \in Threads : Links(n, l)[j] = Links(m, l)[j]
      BY <2>1 DEF Relinked
    <3>2. /\ Chain(Links(m, l), n.head[l]) = On(m, l) \ {th}
          /\ Terminates(Links(m, l), n.head[l])
      BY <1>2, <2>1, ChainPop DEF On
    <3>3. Chain(Links(m, l), n.head[l]) \subseteq Threads
      BY ChainThreads
    <3> QED
      BY <1>2, <3>1, <3>2, <3>3, EndsFrame DEF On
  <2>2. ASSUME NEW i \in On(m, l), n.head[l] = m.head[l],
               Links(m, l)[i] = th, Links(n, l)[i] = Links(m, l)[th],
               Relinked(m, n, l, {i})
        PROVE  On(n, l) = On(m, l) \ {th} /\ Terminates(Links(n, l), n.head[l])
    <3>1. \A j \in On(m, l) \ {i, th} : Links(n, l)[j] = Links(m, l)[j]
      BY <1>2, <2>2 DEF Relinked
    <3> QED
      BY <1>2, <2>2, <3>1, ChainCut DEF On
  <2> QED  BY <2>1, <2>2
<1>4. On(n, l) = {t \in Threads : l \in g[t]}
  BY <1>1, <1>2, <1>3
<1>5. ASSUME NEW o \in Lists, o # l
      PROVE  /\ On(n, o) = {t \in Threads : o \in g[t]} /\ Terminates(Links(n, o), n.head[o])
             /\ InOrder(n, o)
  <2>1. ASSUME NEW X, Relinked(m, n, l, X), \A j \in X \cap Threads : j \in On(m, l)
        PROVE  /\ On(n, o) = On(m, o) /\ Terminates(Links(n, o), n.head[o])
               /\ InOrder(n, o)
    <3>1. Loose(h, l, X)
      BY <1>2, <2>1 DEF Loose
    <3> QED
      BY <1>5, <2>1, <3>1, OthersHung
  <2>2. /\ On(n, o) = On(m, o) /\ Terminates(Links(n, o), n.head[o])
        /\ InOrder(n, o)
    <3>1. ASSUME Relinked(m, n, l, {})
          PROVE  /\ On(n, o) = On(m, o) /\ Terminates(Links(n, o), n.head[o])
                 /\ InOrder(n, o)
      BY <2>1, <3>1
    <3>2. ASSUME NEW i \in On(m, l), Relinked(m, n, l, {i})
          PROVE  /\ On(n, o) = On(m, o) /\ Terminates(Links(n, o), n.head[o])
                 /\ InOrder(n, o)
      BY <2>1, <3>2
    <3> QED  BY <3>1, <3>2
  <2>3. On(m, o) = {t \in Threads : o \in h[t]}
    BY DEF Hung
  <2> QED
    BY <1>1, <1>5, <2>2, <2>3
<1>6. ASSUME NEW u \in Threads PROVE HangsBy(n, g, u)
  <2>1. CASE u = th  BY <2>1
  <2>2. CASE u # th
    <3>1. HangsBy(m, h, u) /\ g[u] = h[u] /\ n.prevPr[u] = m.prevPr[u] /\ n.prevTk[u] = m.prevTk[u]
      BY <1>1, <2>2 DEF Hung, SameBacks
    <3>2. \A t \in Threads : g[t] \subseteq h[t]
      BY <1>1
    <3> QED
      BY <3>1, <3>2 DEF HangsBy
  <2> QED  BY <2>1, <2>2
<1>7. \A o \in Lists : /\ Terminates(Links(n, o), n.head[o])
                       /\ On(n, o) = {t \in Threads : o \in g[t]}
  BY <1>3, <1>4, <1>5
<1>8. InOrder(n, l)
  <2>1. InOrder(m, l) /\ n.prior = m.prior /\ n.tick = m.tick /\ th \in On(m, l)
    BY <1>2 DEF Hung, Relinked, SameRunners
  <2>2. CASE /\ m.head[l] = th /\ n.head[l] = Links(m, l)[th]
             /\ Relinked(m, n, l, {})
    <3>1. \A j \in Threads : Links(n, l)[j] = Links(m, l)[j]
      BY <2>2 DEF Relinked
    <3> QED
      BY <1>1, <1>3, <2>1, <2>2, <3>1, LineRemove, RowRemove DEF InOrder
  <2>3. ASSUME NEW i \in On(m, l), n.head[l] = m.head[l],
               Links(m, l)[i] = th, Links(n, l)[i] = Links(m, l)[th],
               Relinked(m, n, l, {i})
        PROVE  InOrder(n, l)
    <3>1. m.head[l] # th
      <4>1. m.head[l] # NULL
        BY <2>1, ChainNull DEF On
      <4>2. n.head[l] \in Threads
        BY <1>2, <2>3, <4>1 DEF Pointer
      <4>3. n.head[l] \in On(n, l)
        BY <4>2, ChainStart DEF On
      <4> QED  BY <1>3, <2>3, <4>3
    <3>2. \A j \in On(m, l) \ {i} : Links(n, l)[j] = Links(m, l)[j]
      BY <1>2, <2>3 DEF Relinked
    <3> QED
      BY <1>1, <1>3, <2>1, <2>3, <3>1, <3>2, LineRemove, RowRemove DEF InOrder
  <2> QED  BY <2>2, <2>3
<1>9. \A o \in Lists : InOrder(n, o)
  BY <1>5, <1>8
<1> QED
  BY <1>1, <1>6, <1>7, <1>9 DEF Hung
-----------------------------------------------------------------------------
(* What the list operations write. *)

\* A thread is linked to the head of a list, or to the link of another thread.
LEMMA PointedPrFields ==
  ASSUME NEW m, m \in Memory, NEW th \in Threads, NEW a, NEW n,
         n = thread_pointedByPriorList(m, th, a)
  PROVE  /\ \A l \in Lists : a = HeadOf(l) =>
              n.head = [m.head EXCEPT ![l] = th] /\ n.nextPr = m.nextPr
         /\ \A i \in Threads : a = NextPrOf(i) =>
              n.head = m.head /\ n.nextPr = [m.nextPr EXCEPT ![i] = th]
         /\ a \in PrAddress =>
              /\ n.nextTk = m.nextTk /\ n.prevTk = m.prevTk
              /\ n.prevPr = IF BasicMode THEN m.prevPr ELSE [m.prevPr EXCEPT ![th] = a]
<1> DEFINE q == Store(m, a, th)
<1>1. /\ \A l \in Lists : a = HeadOf(l) =>
           q.head = [m.head EXCEPT ![l] = th] /\ q.nextPr = m.nextPr
      /\ \A i \in Threads : a = NextPrOf(i) =>
           q.head = m.head /\ q.nextPr = [m.nextPr EXCEPT ![i] = th]
      /\ a \in PrAddress =>
           q.nextTk = m.nextTk /\ q.prevTk = m.prevTk /\ q.prevPr = m.prevPr
  BY DEF Store, HeadOf, NextPrOf, PrAddress, Memory
<1>2. a \in PrAddress => q \in Memory
  <2>1. CASE \E l \in PriorLists : a = HeadOf(l)
    BY <2>1 DEF Store, HeadOf, Memory, Lists, Pointer
  <2>2. CASE \E i \in Threads : a = NextPrOf(i)
    BY <2>2 DEF Store, NextPrOf, Memory, Pointer
  <2> QED  BY <2>1, <2>2 DEF PrAddress
<1> HIDE DEF q
<1>3. n = IF BasicMode THEN q ELSE [q EXCEPT !.prevPr[th] = a]
  BY DEF thread_pointedByPriorList, q
<1> QED
  BY <1>1, <1>2, <1>3 DEF Memory

LEMMA PointedTkFields ==
  ASSUME NEW m, m \in Memory, NEW th \in Threads, NEW a, NEW n,
         n = thread_pointedByTickList(m, th, a)
  PROVE  /\ \A l \in Lists : a = HeadOf(l) =>
              /\ n.head = [m.head EXCEPT ![l] = th]
              /\ n.nextPr = m.nextPr /\ n.nextTk = m.nextTk
         /\ \A i \in Threads : a = NextTkOf(i) =>
              /\ n.head = m.head /\ TkLinks(n) = [TkLinks(m) EXCEPT ![i] = th]
              /\ BasicMode \/ n.nextPr = m.nextPr
         /\ a \in TkAddress =>
              /\ n.prevPr = m.prevPr
              /\ n.prevTk = IF BasicMode THEN m.prevTk ELSE [m.prevTk EXCEPT ![th] = a]
<1> DEFINE q == Store(m, a, th)
<1>1. /\ \A l \in Lists : a = HeadOf(l) =>
           /\ q.head = [m.head EXCEPT ![l] = th]
           /\ q.nextPr = m.nextPr /\ q.nextTk = m.nextTk
      /\ \A i \in Threads : a = NextTkOf(i) =>
           /\ q.head = m.head /\ TkLinks(q) = [TkLinks(m) EXCEPT ![i] = th]
           /\ BasicMode \/ q.nextPr = m.nextPr
      /\ a \in TkAddress => q.prevTk = m.prevTk /\ q.prevPr = m.prevPr
  BY ListAssumption DEF Store, HeadOf, NextTkOf, TkAddress, Memory, TkLinks
<1>2. a \in TkAddress => q \in Memory
  <2>1. CASE \E l \in TickLists : a = HeadOf(l)
    BY <2>1 DEF Store, HeadOf, Memory, Lists, Pointer
  <2>2. CASE \E i \in Threads : a = NextTkOf(i)
    <3>1. PICK i \in Threads : a = NextTkOf(i)
      BY <2>2
    <3>2. CASE BasicMode
      <4>1. q = [m EXCEPT !.nextPr[i] = th]
        BY <3>1, <3>2 DEF Store, NextTkOf
      <4> HIDE DEF q
      <4> QED  BY <4>1 DEF Memory, Pointer
    <3>3. CASE ~ BasicMode
      <4>1. q = [m EXCEPT !.nextTk[i] = th]
        BY <3>1, <3>3 DEF Store, NextTkOf
      <4> HIDE DEF q
      <4> QED  BY <4>1 DEF Memory, Pointer
    <3> QED  BY <3>2, <3>3
  <2> QED  BY <2>1, <2>2 DEF TkAddress
<1> HIDE DEF q
<1>3. n = IF BasicMode THEN q ELSE [q EXCEPT !.prevTk[th] = a]
  BY DEF thread_pointedByTickList, q
<1>4. ~ BasicMode /\ a \in TkAddress => n.prevTk = [q.prevTk EXCEPT ![th] = a]
  BY <1>2, <1>3 DEF Memory
<1>5. n.head = q.head /\ n.nextPr = q.nextPr /\ n.nextTk = q.nextTk /\ n.prevPr = q.prevPr
  BY <1>3
<1> QED
  BY <1>1, <1>3, <1>4, <1>5 DEF TkLinks

LEMMA LinkTkFields ==
  ASSUME NEW m, m \in Memory, NEW th \in Threads, NEW v \in Pointer, NEW n,
         n = LinkTk(m, th, v)
  PROVE  /\ n \in Memory /\ n.head = m.head
         /\ n.prevPr = m.prevPr /\ n.prevTk = m.prevTk
         /\ TkLinks(n) = [TkLinks(m) EXCEPT ![th] = v]
         /\ BasicMode \/ n.nextPr = m.nextPr
BY DEF LinkTk, TkLinks, Memory

\* A thread is taken out of the other list it is in, which it is the first of.
LEMMA RemoveTkFields ==
  ASSUME NEW m, m \in Memory, NEW th \in Threads, NEW n,
         n = thread_removeFromTickList(m, th)
  PROVE  /\ m.prevTk[th] \in {NULL, REMOVED} => n = m
         /\ \A tm \in TickLists :
              m.prevTk[th] = HeadOf(tm) /\ ~ (m.prevTk[th] \in {NULL, REMOVED}) =>
                /\ n.head = [m.head EXCEPT ![tm] = m.nextTk[th]]
                /\ n.nextPr = m.nextPr /\ n.nextTk = m.nextTk /\ n.prevPr = m.prevPr
                /\ n.prevTk = [m.prevTk EXCEPT ![th] = REMOVED]
<1>1. m.prevTk[th] \in {NULL, REMOVED} => n = m
  BY DEF thread_removeFromTickList
<1>2. ASSUME NEW tm \in TickLists, m.prevTk[th] = HeadOf(tm),
             ~ (m.prevTk[th] \in {NULL, REMOVED})
      PROVE  /\ n.head = [m.head EXCEPT ![tm] = m.nextTk[th]]
             /\ n.nextPr = m.nextPr /\ n.nextTk = m.nextTk /\ n.prevPr = m.prevPr
             /\ n.prevTk = [m.prevTk EXCEPT ![th] = REMOVED]
  <2> DEFINE q == [m EXCEPT !.head[tm] = m.nextTk[th]]
  <2>1. Store(m, m.prevTk[th], m.nextTk[th]) = q
    BY <1>2 DEF Store, HeadOf
  <2>2. n = [q EXCEPT !.prevTk[th] = REMOVED]
    BY <1>2, <2>1 DEF thread_removeFromTickList
  <2>3. /\ q \in [running : Pointer, first : [Priors -> Pointer], last : [Priors -> Pointer],
                  head : {[m.head EXCEPT ![tm] = m.nextTk[th]]}, nextPr : {m.nextPr},
                  nextTk : {m.nextTk}, prevPr : {m.prevPr}, prevTk : {m.prevTk},
                  prior : {m.prior}, tick : {m.tick}]
    BY DEF Memory
  <2> HIDE DEF q
  <2> QED  BY <2>2, <2>3
<1> QED  BY <1>1, <1>2

LEMMA RemovePrFields ==
  ASSUME NEW m, m \in Memory, NEW th \in Threads, NEW n,
         n = thread_removeFromPriorList(m, th)
  PROVE  /\ m.prevPr[th] = NULL => n = m
         /\ \A l \in PriorLists :
              m.prevPr[th] = HeadOf(l) /\ m.prevPr[th] # NULL =>
                /\ n.head = [m.head EXCEPT ![l] = m.nextPr[th]]
                /\ n.nextPr = m.nextPr /\ n.nextTk = m.nextTk /\ n.prevTk = m.prevTk
                /\ n.prevPr = [m.prevPr EXCEPT ![th] = NULL]
<1>1. m.prevPr[th] = NULL => n = m
  BY DEF thread_removeFromPriorList
<1>2. ASSUME NEW l \in PriorLists, m.prevPr[th] = HeadOf(l), m.prevPr[th] # NULL
      PROVE  /\ n.head = [m.head EXCEPT ![l] = m.nextPr[th]]
             /\ n.nextPr = m.nextPr /\ n.nextTk = m.nextTk /\ n.prevTk = m.prevTk
             /\ n.prevPr = [m.prevPr EXCEPT ![th] = NULL]
  <2> DEFINE q == [m EXCEPT !.head[l] = m.nextPr[th]]
  <2>1. Store(m, m.prevPr[th], m.nextPr[th]) = q
    BY <1>2 DEF Store, HeadOf
  <2>2. n = [q EXCEPT !.prevPr[th] = NULL]
    BY <1>2, <2>1 DEF thread_removeFromPriorList
  <2>3. /\ q \in [running : Pointer, first : [Priors -> Pointer], last : [Priors -> Pointer],
                  head : {[m.head EXCEPT ![l] = m.nextPr[th]]}, nextPr : {m.nextPr},
                  nextTk : {m.nextTk}, prevPr : {m.prevPr}, prevTk : {m.prevTk},
                  prior : {m.prior}, tick : {m.tick}]
    BY DEF Memory
  <2> HIDE DEF q
  <2> QED  BY <2>2, <2>3
<1> QED  BY <1>1, <1>2

-----------------------------------------------------------------------------
(* The list operations, on the lists they are used for. *)

LEMMA RelinkedPr ==
  ASSUME NEW m, NEW n, n \in Memory, SameRunners(m, n), NEW l \in PriorLists, NEW X,
         \A o \in Lists : o # l => n.head[o] = m.head[o],
         \A j \in Threads : n.nextPr[j] # m.nextPr[j] => j \in X,
         n.nextTk = m.nextTk
  PROVE  Relinked(m, n, l, X)
BY ListAssumption DEF Relinked, Links, TkLinks, OneLink

LEMMA RelinkedTk ==
  ASSUME NEW m, NEW n, n \in Memory, SameRunners(m, n), NEW l \in TickLists, NEW X,
         \A o \in Lists : o # l => n.head[o] = m.head[o],
         \A j \in Threads : TkLinks(n)[j] # TkLinks(m)[j] => j \in X,
         BasicMode \/ n.nextPr = m.nextPr
  PROVE  Relinked(m, n, l, X)
BY ListAssumption DEF Relinked, Links, TkLinks, OneLink

\* Nobody in the list waits for something else as well.
Single(h, l) == \A u \in Threads : l \in h[u] => \A o \in h[u] : OneLink(l, o)

\* What the operations on a list leave alone.
SameQueues(m, n, X) ==
  /\ SameRunners(m, n)
  /\ \A j \in Threads : n.nextPr[j] # m.nextPr[j] => j \in X

\* What a put in a prior list leaves of the tick lists and of the other heads, and
\* what it writes in the back pointer of the first thread.
PutBacks(m, n, l, th) ==
  /\ n.nextTk = m.nextTk /\ n.prevTk = m.prevTk
  /\ \A o \in Lists : o # l => n.head[o] = m.head[o]
  /\ m.head[l] = NULL /\ ~ BasicMode => n.prevPr[th] = HeadOf(l)

LEMMA priorListPutHung ==
  ASSUME NEW m, NEW h, Fenced(m), Hung(m, h), NEW l \in PriorLists,
         NEW th \in Threads \ {Background}, h[th] = {}, m.nextPr[th] = NULL, Single(h, l),
         NEW n, n = priorList_put(m, l, th),
         NEW g, g = [h EXCEPT ![th] = {l}]
  PROVE  /\ Hung(n, g)
         /\ SameQueues(m, n, On(m, l) \cup {th}) /\ PutBacks(m, n, l, th)
<1>1. /\ Fenced(n) /\ SameRunners(m, n) /\ n \in Memory /\ m \in Memory
      /\ l \in Lists /\ l \notin TickLists
  BY priorListPutFenced, FencedTypes, ListAssumption DEF Lists
<1>2. /\ m.nextPr \in [Threads -> Pointer] /\ m.head \in [Lists -> Pointer]
      /\ h \in [Threads -> SUBSET Lists]
      /\ n.nextPr \in [Threads -> Pointer] /\ n.head \in [Lists -> Pointer]
      /\ m.prevPr \in [Threads -> PrAddress \cup {NULL}]
  BY <1>1 DEF Memory, Hung
<1>3. /\ Links(m, l) = m.nextPr /\ Links(n, l) = n.nextPr
      /\ On(m, l) = {t \in Threads : l \in h[t]}
  BY <1>1 DEF Links, Hung
<1>4. ASSUME n.prevTk = m.prevTk, SameBacks(m, n, th), LineSorted(n, l),
             \/ n.head[l] = th /\ Links(n, l)[th] = m.head[l] /\ Relinked(m, n, l, {th})
             \/ \E i \in On(m, l) :
                  /\ n.head[l] = m.head[l] /\ Links(n, l)[i] = th
                  /\ Links(n, l)[th] = Links(m, l)[i] /\ Relinked(m, n, l, {i, th})
      PROVE  Hung(n, g)
  <2>1. g = [h EXCEPT ![th] = h[th] \cup {l}] /\ g[th] = {l}
    BY <1>2
  <2>2. HangsBy(m, h, th)
    BY DEF Hung
  <2>3. HangsBy(n, g, th)
    BY <1>1, <1>4, <2>1, <2>2, ListAssumption DEF HangsBy
  <2>4. \A u \in Threads \ {th} : l \in h[u] => \A o \in h[u] : OneLink(l, o)
    BY DEF Single
  <2>5. th \in Threads /\ \A o \in h[th] : ~ OneLink(l, o)
    OBVIOUS
  <2>6. l \in Lists /\ InOrder(n, l)
    BY <1>1, <1>4 DEF InOrder
  <2> QED
    BY ONLY <1>4, <2>1, <2>3, <2>4, <2>5, <2>6, Hung(m, h), InsertHung
<1>5. CASE m.head[l] = NULL
  <2>1. n = thread_pointedByPriorList(m, th, HeadOf(l)) /\ HeadOf(l) \in PrAddress
    BY <1>5 DEF priorList_put, PrAddress
  <2>2. /\ n.head = [m.head EXCEPT ![l] = th] /\ n.nextPr = m.nextPr
        /\ n.nextTk = m.nextTk /\ n.prevTk = m.prevTk
        /\ n.prevPr = IF BasicMode THEN m.prevPr ELSE [m.prevPr EXCEPT ![th] = HeadOf(l)]
    BY <1>1, <2>1, PointedPrFields
  <2>3. Relinked(m, n, l, {th})
    BY <1>1, <1>2, <2>2, RelinkedPr
  <2>4. n.head[l] = th /\ Links(n, l)[th] = m.head[l]
    BY <1>1, <1>2, <1>3, <1>5, <2>2
  <2>5. SameBacks(m, n, th)
    BY <1>2, <2>2 DEF SameBacks
  <2>6. LineSorted(n, l)
    <3>1. th \in Threads /\ Links(n, l) \in [Threads -> Pointer] /\ Links(n, l)[th] = NULL
      BY <1>2, <1>3, <1>5, <2>4
    <3>2. On(n, l) = {th}
      BY <2>4, <3>1, ChainUnfold, ChainNull DEF On
    <3> QED
      BY <2>4, <3>2 DEF LineSorted
  <2>7. Hung(n, g)
    BY <1>1, <1>4, <2>2, <2>3, <2>4, <2>5, <2>6
  <2> QED
    BY <1>1, <1>2, <2>2, <2>7 DEF SameQueues, PutBacks
<1>6. CASE m.head[l] # NULL
  <2> DEFINE before == {i \in Threads : /\ m.nextPr[i] # NULL
                                       /\ m.prior[m.nextPr[i]] < m.prior[th]}
             i == LoopEnd(m.nextPr, m.head[l], before)
             q == [m EXCEPT !.nextPr[th] = m.nextPr[i]]
  <2>1. /\ i \in On(m, l) /\ i \in Threads
        /\ i \notin before /\ (i # m.head[l] => \E j \in before : m.nextPr[j] = i)
    <3>1. m.head[l] \in Threads
      BY <1>1, <1>2, <1>6 DEF Pointer
    <3>2. before \subseteq Threads /\ \A j \in before : m.nextPr[j] # NULL
      OBVIOUS
    <3>3. Terminates(m.nextPr, m.head[l])
      BY <1>1, <1>3 DEF Hung
    <3> HIDE DEF before
    <3>4. i \in On(m, l) /\ i \in Threads
      BY <1>2, <1>3, <3>1, LoopEndChain, LoopEndThread DEF On
    <3> QED
      BY <1>2, <3>1, <3>2, <3>3, <3>4, LoopStops
  <2>2. n = thread_pointedByPriorList(q, th, NextPrOf(i))
    BY <1>6 DEF priorList_put
  <2> HIDE DEF i
  <2>3. /\ q \in Memory /\ q.head = m.head /\ q.nextTk = m.nextTk
        /\ q.prevTk = m.prevTk /\ q.prevPr = m.prevPr
        /\ q.nextPr = [m.nextPr EXCEPT ![th] = m.nextPr[i]]
    BY <1>1, <1>2, <2>1 DEF Memory
  <2> HIDE DEF q
  <2>4. NextPrOf(i) \in PrAddress
    BY <2>1 DEF PrAddress
  <2>5. /\ n.head = m.head /\ n.nextPr = [q.nextPr EXCEPT ![i] = th]
        /\ n.nextTk = m.nextTk /\ n.prevTk = m.prevTk
        /\ n.prevPr = IF BasicMode THEN m.prevPr ELSE [m.prevPr EXCEPT ![th] = NextPrOf(i)]
    BY <2>1, <2>2, <2>3, <2>4, PointedPrFields
  <2>6. i # th
    BY <1>3, <2>1
  <2>7. Relinked(m, n, l, {i, th})
    BY <1>1, <1>2, <2>3, <2>5, RelinkedPr
  <2>8. /\ n.head[l] = m.head[l] /\ Links(n, l)[i] = th
        /\ Links(n, l)[th] = Links(m, l)[i]
    BY <1>2, <1>3, <2>1, <2>3, <2>5, <2>6
  <2>9. SameBacks(m, n, th)
    BY <1>2, <2>5 DEF SameBacks
  <2>10. LineSorted(n, l)
    <3>1. /\ m.prior \in [Threads -> Priors] /\ n.prior = m.prior /\ LineSorted(m, l)
          /\ Terminates(Links(m, l), m.head[l])
      BY <1>1 DEF Memory, Hung, SameRunners, InOrder
    <3>2. i # m.head[l] => m.prior[i] <= m.prior[th]
      <4>1. m.prior[i] \in Int /\ m.prior[th] \in Int
        BY <2>1, <3>1, ListAssumption DEF Priors
      <4> QED
        BY <2>1, <4>1
    <3>3. Links(m, l)[i] # NULL => m.prior[th] <= m.prior[Links(m, l)[i]]
      <4>1. CASE m.nextPr[i] # NULL
        <5>1. m.nextPr[i] \in Threads
          BY <1>2, <2>1, <4>1 DEF Pointer
        <5>2. m.prior[m.nextPr[i]] \in Int /\ m.prior[th] \in Int
          BY <3>1, <5>1, ListAssumption DEF Priors
        <5> QED
          BY <1>3, <2>1, <4>1, <5>2
      <4> QED  BY <1>3, <4>1
    <3>4. th \in Threads \ On(m, l)
      BY <1>3
    <3>5. \A j \in On(m, l) \ {i} : Links(n, l)[j] = Links(m, l)[j]
      BY <1>1, <1>3, <2>7, <3>4 DEF Relinked
    <3>6. On(n, l) = On(m, l) \cup {th}
      <4>1. /\ Links(m, l) \in [Threads -> Pointer] /\ Links(n, l) \in [Threads -> Pointer]
            /\ m.head[l] \in Pointer /\ i \in On(m, l) /\ th \in Threads
        BY <1>1, <1>2, <1>3, <2>1
      <4> HIDE DEF before
      <4> QED
        BY ONLY <2>8, <3>1, <3>4, <3>5, <4>1, ChainInsert DEF On
    <3> HIDE DEF before
    <3> QED
      BY <1>1, <2>1, <2>8, <3>1, <3>2, <3>3, <3>4, <3>5, <3>6, LineInsert
  <2>11. Hung(n, g)
    BY <1>1, <1>4, <2>1, <2>5, <2>7, <2>8, <2>9, <2>10
  <2> QED
    BY <1>1, <1>2, <1>6, <2>1, <2>3, <2>5, <2>11 DEF SameQueues, PutBacks
<1> QED
  BY <1>5, <1>6

LEMMA tickListPutHung ==
  ASSUME NEW m, NEW h, Fenced(m), Hung(m, h), NEW l \in TickLists,
         NEW th \in Threads \ {Background}, Single(h, l),
         \/ h[th] = {}
         \/ \E e \in PriorLists :
              /\ ~ BasicMode /\ h[th] = {e} /\ m.prevPr[th] = HeadOf(e)
              /\ \A u \in Threads \ {th} : e \notin h[u] /\ l \notin h[u],
         Near => \E d \in [Threads -> Int] : Spaced(m, On(m, l) \cup {th}, d),
         NEW n, n = tickList_put(m, l, th),
         NEW g, g = [h EXCEPT ![th] = h[th] \cup {l}]
  PROVE  /\ Hung(n, g)
         /\ SameQueues(m, n, On(m, l) \cup {th}) /\ SameBacks(m, n, th)
<1>1. /\ Fenced(n) /\ SameRunners(m, n) /\ n \in Memory /\ m \in Memory
      /\ l \in Lists /\ th \in Threads /\ l \notin PriorLists
  BY tickListPutFenced, FencedTypes, ListAssumption DEF Lists
<1>2. /\ TkLinks(m) \in [Threads -> Pointer] /\ m.head \in [Lists -> Pointer]
      /\ h \in [Threads -> SUBSET Lists]
      /\ TkLinks(n) \in [Threads -> Pointer] /\ n.head \in [Lists -> Pointer]
      /\ m.prevTk \in [Threads -> TkAddress \cup {NULL, REMOVED}]
  BY <1>1, TkLinksFenced DEF Memory, Hung
<1>3. /\ Links(m, l) = TkLinks(m) /\ Links(n, l) = TkLinks(n)
      /\ On(m, l) = {t \in Threads : l \in h[t]}
  BY <1>1 DEF Links, Hung
<1>4. \A o \in h[th] : ~ OneLink(l, o)
  BY ListAssumption DEF OneLink
<1>5. l \notin h[th]
  BY <1>4 DEF OneLink
<1>6. ASSUME n.prevPr = m.prevPr, SameBacks(m, n, th), InOrder(n, l),
             \A e \in PriorLists : h[th] = {e} /\ ~ BasicMode => n.prevTk[th] = HeadOf(l),
             \/ n.head[l] = th /\ Links(n, l)[th] = m.head[l] /\ Relinked(m, n, l, {th})
             \/ \E i \in On(m, l) :
                  /\ n.head[l] = m.head[l] /\ Links(n, l)[i] = th
                  /\ Links(n, l)[th] = Links(m, l)[i] /\ Relinked(m, n, l, {i, th})
      PROVE  Hung(n, g)
  <2>1. g \in [Threads -> SUBSET Lists] /\ g[th] = h[th] \cup {l}
        /\ \A u \in Threads \ {th} : g[u] = h[u]
    BY <1>1, <1>2
  <2>2. HangsBy(m, h, th)
    BY <1>1 DEF Hung
  <2>3. CASE h[th] = {}
    <3>1. HangsBy(n, g, th)
      BY <1>1, <1>6, <2>1, <2>2, <2>3, ListAssumption DEF HangsBy
    <3> QED
      BY ONLY <1>1, <1>4, <1>6, <3>1, Hung(m, h), Single(h, l), g = [h EXCEPT ![th] = h[th] \cup {l}],
         InsertHung DEF Single
  <2>4. ASSUME NEW e \in PriorLists, ~ BasicMode, h[th] = {e}, m.prevPr[th] = HeadOf(e),
               \A u \in Threads \ {th} : e \notin h[u] /\ l \notin h[u]
        PROVE  Hung(n, g)
    <3>1. g[th] = {e, l} /\ e \notin TickLists /\ l \notin PriorLists
          /\ n.prevPr[th] = HeadOf(e) /\ n.prevTk[th] = HeadOf(l)
      BY <1>6, <2>1, <2>4, ListAssumption
    <3>2. \A u \in Threads : e \in g[u] \/ l \in g[u] => u = th
      BY <2>1, <2>4
    <3>3. HangsBy(n, g, th)
      BY <2>4, <3>1, <3>2 DEF HangsBy, OneLink
    <3> QED
      BY ONLY <1>1, <1>4, <1>6, <3>3, Hung(m, h), Single(h, l), g = [h EXCEPT ![th] = h[th] \cup {l}],
         InsertHung DEF Single
  <2> QED  BY <2>3, <2>4
<1> DEFINE next == TkLinks(m)
           over(i) == tick_isOver(m.tick[i], m.tick[th])
<1>7. /\ Near => RowSorted(m, l) /\ \E d \in [Threads -> Int] : Spaced(m, On(m, l) \cup {th}, d)
      /\ n.tick = m.tick /\ th \in Threads \ On(m, l)
      /\ Terminates(Links(m, l), m.head[l]) /\ On(m, l) \subseteq Threads
  BY <1>1, <1>3, <1>5 DEF Hung, InOrder, SameRunners
<1>8. ASSUME RowPlaced(m, n, l, th) PROVE InOrder(n, l)
  <2> SUFFICES ASSUME Near PROVE RowSorted(n, l)
    BY <1>1 DEF InOrder
  <2>1. PICK d \in [Threads -> Int] : Spaced(m, On(m, l) \cup {th}, d)
    BY <1>7
  <2> QED
    BY <1>1, <1>7, <1>8, <2>1, RowPut
<1>9. CASE m.head[l] = NULL \/ over(m.head[l])
  <2> DEFINE q == LinkTk(m, th, m.head[l])
  <2>1. n = thread_pointedByTickList(q, th, HeadOf(l)) /\ HeadOf(l) \in TkAddress
    BY <1>9 DEF tickList_put, TkAddress
  <2>2. /\ q \in Memory /\ q.head = m.head /\ q.prevPr = m.prevPr /\ q.prevTk = m.prevTk
        /\ TkLinks(q) = [next EXCEPT ![th] = m.head[l]] /\ (BasicMode \/ q.nextPr = m.nextPr)
    <3>1. m.head[l] \in Pointer
      BY <1>1, <1>2
    <3> QED
      BY <1>1, <3>1, LinkTkFields
  <2> HIDE DEF q
  <2>3. /\ n.head = [m.head EXCEPT ![l] = th] /\ n.nextPr = q.nextPr /\ n.nextTk = q.nextTk
        /\ n.prevPr = m.prevPr
        /\ n.prevTk = IF BasicMode THEN m.prevTk ELSE [m.prevTk EXCEPT ![th] = HeadOf(l)]
    BY <1>1, <2>1, <2>2, PointedTkFields
  <2>4. TkLinks(n) = [next EXCEPT ![th] = m.head[l]] /\ (BasicMode \/ n.nextPr = m.nextPr)
    BY <2>2, <2>3 DEF TkLinks
  <2>5. Relinked(m, n, l, {th})
    <3>1. \A j \in Threads : TkLinks(n)[j] # TkLinks(m)[j] => j \in {th}
      BY <1>2, <2>4
    <3>2. \A o \in Lists : o # l => n.head[o] = m.head[o]
      BY <1>2, <2>3
    <3> QED
      BY <1>1, <2>4, <3>1, <3>2, RelinkedTk
  <2>6. n.head[l] = th /\ Links(n, l)[th] = m.head[l]
    BY <1>1, <1>2, <1>3, <2>3, <2>4
  <2>7. SameBacks(m, n, th)
    BY <1>2, <2>3 DEF SameBacks
  <2>8. ~ BasicMode => n.prevTk[th] = HeadOf(l)
    BY <1>1, <1>2, <2>3
  <2>9. Hung(n, g)
    <3>1. \A j \in On(m, l) : Links(n, l)[j] = Links(m, l)[j]
      BY <1>2, <1>3, <1>7, <2>4
    <3>2. On(n, l) = On(m, l) \cup {th}
      BY <1>2, <1>3, <1>7, <2>6, <3>1, ChainPush DEF On
    <3>3. m.head[l] # NULL => m.head[l] \in On(m, l) /\ over(m.head[l])
      BY <1>1, <1>2, <1>9, ChainStart DEF On, Pointer
    <3>4. InOrder(n, l)
      BY <1>8, <2>6, <3>1, <3>2, <3>3 DEF RowPlaced
    <3> QED
      BY <1>6, <2>3, <2>5, <2>6, <2>7, <2>8, <3>4
  <2>10. \A j \in Threads : n.nextPr[j] # m.nextPr[j] => j = th
    BY <1>2, <2>4 DEF TkLinks
  <2> QED
    BY <1>1, <2>9, <2>10, <2>7 DEF SameQueues
<1>10. CASE ~ (m.head[l] = NULL \/ over(m.head[l]))
  <2> DEFINE before == {i \in Threads : next[i] # NULL /\ ~ over(next[i])}
             i == LoopEnd(next, m.head[l], before)
             q == LinkTk(m, th, next[i])
  <2>1. /\ i \in On(m, l) /\ i \in Threads
        /\ i \notin before /\ (i # m.head[l] => \E j \in before : next[j] = i)
    <3>1. m.head[l] \in Threads
      BY <1>1, <1>2, <1>10 DEF Pointer
    <3>2. before \subseteq Threads /\ \A j \in before : next[j] # NULL
      OBVIOUS
    <3>3. Terminates(next, m.head[l])
      BY <1>3, <1>7
    <3> HIDE DEF before
    <3>4. i \in On(m, l) /\ i \in Threads
      BY <1>2, <1>3, <3>1, LoopEndChain, LoopEndThread DEF On
    <3> QED
      BY <1>2, <3>1, <3>2, <3>3, <3>4, LoopStops
  <2>2. n = thread_pointedByTickList(q, th, NextTkOf(i))
    BY <1>10 DEF tickList_put
  <2> HIDE DEF i
  <2>3. /\ q \in Memory /\ q.head = m.head /\ q.prevPr = m.prevPr /\ q.prevTk = m.prevTk
        /\ TkLinks(q) = [next EXCEPT ![th] = next[i]] /\ (BasicMode \/ q.nextPr = m.nextPr)
    BY <1>1, <1>2, <2>1, LinkTkFields
  <2> HIDE DEF q
  <2>4. NextTkOf(i) \in TkAddress
    BY <2>1 DEF TkAddress
  <2>5. /\ n.head = m.head /\ TkLinks(n) = [TkLinks(q) EXCEPT ![i] = th]
        /\ (BasicMode \/ n.nextPr = q.nextPr) /\ n.prevPr = m.prevPr
        /\ n.prevTk = IF BasicMode THEN m.prevTk ELSE [m.prevTk EXCEPT ![th] = NextTkOf(i)]
    <3>1. /\ n.head = q.head /\ TkLinks(n) = [TkLinks(q) EXCEPT ![i] = th]
          /\ (BasicMode \/ n.nextPr = q.nextPr) /\ n.prevPr = q.prevPr
          /\ n.prevTk = IF BasicMode THEN q.prevTk ELSE [q.prevTk EXCEPT ![th] = NextTkOf(i)]
      <4>1. q \in Memory /\ th \in Threads /\ i \in Threads
        BY <2>1, <2>3
      <4> QED
        BY ONLY <2>2, <2>4, <4>1, PointedTkFields
    <3> QED  BY <2>3, <3>1
  <2>6. i # th
    BY <1>3, <1>5, <2>1
  <2>7. Relinked(m, n, l, {i, th})
    <3>1. \A j \in Threads : TkLinks(n)[j] # TkLinks(m)[j] => j \in {i, th}
      BY <1>2, <2>3, <2>5
    <3>2. \A o \in Lists : o # l => n.head[o] = m.head[o]
      BY <2>5
    <3> QED
      BY <1>1, <2>3, <2>5, <3>1, <3>2, RelinkedTk
  <2>8. /\ n.head[l] = m.head[l] /\ Links(n, l)[i] = th
        /\ Links(n, l)[th] = Links(m, l)[i]
    BY <1>1, <1>2, <1>3, <2>1, <2>3, <2>5, <2>6
  <2>9. SameBacks(m, n, th)
    BY <1>2, <2>5 DEF SameBacks
  <2>10. h[th] = {}
    BY <1>3, <2>1, <2>6
  <2>11. ~ over(i) /\ (next[i] # NULL => next[i] \in On(m, l) /\ over(next[i]))
    <3>1. next[i] # NULL => over(next[i])
      BY <2>1
    <3>2. ~ over(i)
      BY <1>10, <2>1
    <3>3. next[i] # NULL => next[i] \in On(m, l)
      BY <1>2, <1>3, <2>1, ChainClosed DEF On
    <3> QED
      BY <3>1, <3>2, <3>3
  <2> HIDE DEF before
  <2>12. InOrder(n, l)
    <3>1. \A j \in On(m, l) \ {i} : Links(n, l)[j] = Links(m, l)[j]
      BY <1>2, <1>3, <1>7, <2>3, <2>5
    <3>2. On(n, l) = On(m, l) \cup {th}
      BY <1>2, <1>3, <1>7, <2>1, <2>8, <3>1, ChainInsert DEF On
    <3> QED
      BY <1>3, <1>8, <2>8, <2>11, <3>1, <3>2 DEF RowPlaced
  <2>13. Hung(n, g)
    BY <1>6, <2>1, <2>5, <2>7, <2>8, <2>9, <2>10, <2>12
  <2>14. \A j \in Threads : n.nextPr[j] # m.nextPr[j] => j \in On(m, l) \cup {th}
    BY <1>2, <2>1, <2>3, <2>5 DEF TkLinks
  <2> QED
    BY <1>1, <2>13, <2>14, <2>9 DEF SameQueues
<1> QED
  BY <1>9, <1>10

LEMMA TakenFields ==
  ASSUME NEW m, m \in Memory, NEW l \in Lists, NEW th \in Threads, NEW v, NEW n
  PROVE  /\ n = TakenPr(m, l, th, v) =>
              /\ n.head = [m.head EXCEPT ![l] = v] /\ n.prevPr = [m.prevPr EXCEPT ![th] = NULL]
              /\ n.nextPr = m.nextPr /\ n.nextTk = m.nextTk /\ n.prevTk = m.prevTk
         /\ n = TakenTk(m, l, th, v) =>
              /\ n.head = [m.head EXCEPT ![l] = v] /\ n.prevTk = [m.prevTk EXCEPT ![th] = NULL]
              /\ n.nextPr = m.nextPr /\ n.nextTk = m.nextTk /\ n.prevPr = m.prevPr
BY DEF TakenPr, TakenTk, Memory

\* The first thread of a list is in it, and in one list of the other kind at most.
LEMMA FirstHangs ==
  ASSUME NEW m, NEW h, Hung(m, h), NEW l \in Lists, m.head[l] # NULL
  PROVE  LET th == m.head[l]
         IN  /\ th \in Threads /\ l \in h[th] /\ HangsBy(m, h, th)
             /\ \A o \in h[th] : OneLink(l, o) => o = l
             /\ h[th] = {l} \/ (~ BasicMode /\ \E o \in Lists \ {l} : h[th] = {l, o} /\ ~ OneLink(l, o))
<1> DEFINE th == m.head[l]
<1>1. th \in Threads /\ h[th] \subseteq Lists
  <2>1. th \in Threads  BY LinksTypes DEF Hung, Pointer
  <2> QED  BY <2>1 DEF Hung
<1>2. th \in On(m, l)
  BY <1>1, ChainStart DEF On
<1>3. l \in h[th] /\ HangsBy(m, h, th)
  BY <1>1, <1>2 DEF Hung
<1>4. \A o \in h[th] : OneLink(l, o) => o = l
  BY <1>3 DEF HangsBy
<1>5. ASSUME NEW o \in h[th], o # l PROVE ~ BasicMode /\ h[th] = {l, o} /\ ~ OneLink(l, o)
  <2>1. ~ OneLink(l, o)
    BY <1>4, <1>5
  <2>2. ASSUME NEW x \in h[th] PROVE x \in {l, o}
    <3>1. OneLink(l, x) \/ OneLink(o, x)
      BY <2>1 DEF OneLink
    <3> QED  BY <1>3, <1>4, <3>1 DEF HangsBy
  <2> QED  BY <1>3, <2>1, <2>2 DEF OneLink
<1>6. h[th] = {l} \/ \E o \in h[th] : o # l
  BY <1>3
<1> HIDE DEF th
<1>7. h[th] = {l} \/ (~ BasicMode /\ \E o \in Lists \ {l} : h[th] = {l, o} /\ ~ OneLink(l, o))
  <2>1. CASE h[th] = {l}
    BY <2>1
  <2>2. CASE \E o \in h[th] : o # l
    <3>1. PICK o \in h[th] : o # l
      BY <2>2
    <3>2. o \in Lists \ {l} /\ ~ BasicMode /\ h[th] = {l, o} /\ ~ OneLink(l, o)
      BY <1>1, <1>5, <3>1
    <3> QED  BY <3>2
  <2> QED  BY <1>6, <2>1, <2>2
<1> QED
  BY <1>1, <1>3, <1>4, <1>7 DEF th

LEMMA priorListGetHung ==
  ASSUME NEW m, NEW h, Fenced(m), Hung(m, h), NEW l \in PriorLists, m.head[l] # NULL,
         NEW th, th = m.head[l], NEW n, n = priorList_get(m, l),
         NEW g, g = [h EXCEPT ![th] = {}]
  PROVE  /\ Hung(n, g) /\ l \in h[th] /\ th \in Threads
         /\ SameQueues(m, n, {}) /\ SameBacks(m, n, th)
         /\ h[th] # {l} => n.prevTk[th] = REMOVED
<1> DEFINE q == TakenPr(m, l, th, m.nextPr[th])
           f == [h EXCEPT ![th] = h[th] \ {l}]
<1>1. /\ th \in Threads /\ l \in h[th] /\ HangsBy(m, h, th) /\ l \in Lists
      /\ h[th] = {l} \/ (~ BasicMode /\ \E o \in Lists \ {l} : h[th] = {l, o} /\ ~ OneLink(l, o))
  BY FirstHangs DEF Lists
<1>2. /\ m \in Memory /\ m.head \in [Lists -> Pointer] /\ h \in [Threads -> SUBSET Lists]
      /\ m.prevPr \in [Threads -> PrAddress \cup {NULL}]
      /\ m.prevTk \in [Threads -> TkAddress \cup {NULL, REMOVED}]
      /\ m.nextPr[th] \in Others /\ l \notin TickLists
  BY <1>1, FencedTypes, ListAssumption DEF Memory, Hung
<1>3. Fenced(q) /\ SameRunners(m, q) /\ q \in Memory
  BY <1>1, <1>2, TakeFirstPrFenced, FencedTypes
<1>4. q = TakenPr(m, l, th, m.nextPr[th])
  OBVIOUS
<1>5. n = thread_removeFromTickList(q, th)
  BY DEF priorList_get, TakenPr
<1> HIDE DEF q
<1>6. /\ q.head = [m.head EXCEPT ![l] = m.nextPr[th]]
      /\ q.prevPr = [m.prevPr EXCEPT ![th] = NULL]
      /\ q.nextPr = m.nextPr /\ q.nextTk = m.nextTk /\ q.prevTk = m.prevTk
  BY <1>1, <1>2, <1>4 DEF TakenPr, Memory
<1>7. Hung(q, f)
  <2>1. Relinked(m, q, l, {})
    BY <1>2, <1>3, <1>6, RelinkedPr
  <2>2. m.head[l] = th /\ q.head[l] = Links(m, l)[th]
    BY <1>1, <1>2, <1>6 DEF Links
  <2>3. SameBacks(m, q, th)
    BY <1>2, <1>6 DEF SameBacks
  <2>4. f \in [Threads -> SUBSET Lists] /\ f[th] = h[th] \ {l} /\ q.prevPr[th] = NULL /\ q.prevTk[th] = m.prevTk[th]
    BY <1>1, <1>2, <1>6
  <2>5. f[th] \cap PriorLists = {} /\ f[th] \cap TickLists = h[th] \cap TickLists
    BY <1>1, <1>2, <2>4, ListAssumption DEF OneLink, Lists
  <2>6. HangsBy(q, f, th)
    BY <1>1, <2>4, <2>5 DEF HangsBy
  <2> QED
    BY ONLY <1>1, <2>1, <2>2, <2>3, <2>6, Hung(m, h), f = [h EXCEPT ![th] = h[th] \ {l}], RemoveHung
<1>8. CASE h[th] = {l}
  <2>1. n = q
    <3>1. m.prevTk[th] \in {NULL, REMOVED}
      BY <1>1, <1>2, <1>8 DEF HangsBy
    <3> QED
      BY ONLY <1>6, <1>5, <3>1 DEF thread_removeFromTickList
  <2>2. f = g
    BY <1>1, <1>8
  <2> QED
    BY <1>1, <1>2, <1>3, <1>6, <1>7, <1>8, <2>1, <2>2 DEF SameQueues, SameBacks
<1>9. ASSUME ~ BasicMode, NEW tm \in Lists \ {l}, h[th] = {l, tm}, ~ OneLink(l, tm)
      PROVE  /\ Hung(n, g) /\ SameQueues(m, n, {}) /\ SameBacks(m, n, th)
             /\ n.prevTk[th] = REMOVED
  <2>1. tm \in TickLists /\ HeadOf(tm) \in TkAddress
    BY <1>2, <1>9 DEF OneLink, TkAddress
  <2>2. /\ m.prevTk[th] = HeadOf(tm)
        /\ \A u \in Threads : tm \in h[u] => u = th
    BY <1>1, <1>9, <2>1 DEF HangsBy
  <2>3. q.prevTk[th] = HeadOf(tm) /\ ~ (q.prevTk[th] \in {NULL, REMOVED})
    BY <1>6, <2>1, <2>2, AddressAssumption
  <2>4. /\ n.head = [q.head EXCEPT ![tm] = q.nextTk[th]]
        /\ n.nextPr = q.nextPr /\ n.nextTk = q.nextTk /\ n.prevPr = q.prevPr
        /\ n.prevTk = [q.prevTk EXCEPT ![th] = REMOVED]
    BY <1>1, <1>3, <1>5, <2>1, <2>3, RemoveTkFields
  <2>5. Fenced(n) /\ SameRunners(q, n) /\ n \in Memory
    BY <1>1, <1>3, <1>5, RemoveFenced, FencedTypes
  <2>6. q.head[tm] = th
    <3>1. On(q, tm) = {t \in Threads : tm \in f[t]} /\ tm \in f[th]
      BY <1>1, <1>2, <1>7, <1>9 DEF Hung
    <3>2. q.head[tm] # NULL /\ q.head[tm] \in Pointer
      BY <1>1, <1>3, <3>1, ChainNull DEF On, Memory
    <3>3. q.head[tm] \in On(q, tm)
      BY <3>2, ChainStart DEF On, Pointer
    <3>4. tm \in h[q.head[tm]] /\ q.head[tm] \in Threads
      BY <1>1, <1>2, <3>1, <3>3
    <3> QED  BY <2>2, <3>4
  <2>7. Relinked(q, n, tm, {})
    <3>1. TkLinks(n) = TkLinks(q)
      BY <2>4 DEF TkLinks
    <3> QED
      BY <1>3, <2>1, <2>4, <2>5, <3>1, RelinkedTk DEF Memory
  <2>8. SameBacks(q, n, th) /\ n.prevTk[th] = REMOVED /\ n.prevPr[th] = NULL
    BY <1>1, <1>2, <1>6, <2>4 DEF SameBacks
  <2>9. g = [f EXCEPT ![th] = f[th] \ {tm}] /\ g[th] = {} /\ tm \in f[th]
    BY <1>1, <1>2, <1>9
  <2>10. HangsBy(n, g, th)
    BY <2>8, <2>9 DEF HangsBy
  <2>11. q.head[tm] = th /\ n.head[tm] = Links(q, tm)[th]
    BY <1>3, <1>9, <2>1, <2>4, <2>6 DEF Links, TkLinks, Memory
  <2>12. Hung(n, g)
    <3> HIDE DEF f
    <3>1. tm \in Lists  OBVIOUS
    <3> QED
      BY ONLY <1>1, <1>7, <2>7, <2>8, <2>9, <2>10, <2>11, <3>1, RemoveHung
  <2>13. SameQueues(m, n, {}) /\ SameBacks(m, n, th)
    BY <1>2, <1>3, <1>6, <2>4, <2>5, SameRunnersTrans DEF SameQueues, SameBacks
  <2> QED  BY <2>8, <2>12, <2>13
<1> QED
  BY <1>1, <1>8, <1>9

LEMMA tickListGetHung ==
  ASSUME NEW m, NEW h, Fenced(m), Hung(m, h), NEW l \in TickLists, NEW tick,
         NEW th, th = tickList_due(m, l, tick), th # NULL, NEW n, n = tickList_get(m, l, tick),
         NEW g, g = [h EXCEPT ![th] = {}]
  PROVE  /\ Hung(n, g) /\ l \in h[th] /\ th \in Threads
         /\ SameQueues(m, n, {}) /\ SameBacks(m, n, th)
<1> DEFINE q == TakenTk(m, l, th, TkLinks(m)[th])
           f == [h EXCEPT ![th] = h[th] \ {l}]
<1>1. /\ th = m.head[l] /\ th \in Threads /\ l \in h[th] /\ HangsBy(m, h, th) /\ l \in Lists
      /\ h[th] = {l} \/ (~ BasicMode /\ \E o \in Lists \ {l} : h[th] = {l, o} /\ ~ OneLink(l, o))
  <2>1. th = m.head[l] /\ m.head[l] # NULL /\ l \in Lists
    BY DEF tickList_due, Lists
  <2> QED  BY <2>1, FirstHangs
<1>2. /\ m \in Memory /\ m.head \in [Lists -> Pointer] /\ h \in [Threads -> SUBSET Lists]
      /\ m.prevPr \in [Threads -> PrAddress \cup {NULL}]
      /\ m.prevTk \in [Threads -> TkAddress \cup {NULL, REMOVED}]
      /\ TkLinks(m)[th] \in Others /\ l \notin PriorLists
  BY <1>1, FencedTypes, TkLinksFenced, ListAssumption DEF Memory, Hung
<1>3. Fenced(q) /\ SameRunners(m, q) /\ q \in Memory
  BY <1>1, <1>2, TakeFirstTkFenced, FencedTypes
<1>4. q = TakenTk(m, l, th, TkLinks(m)[th])
  OBVIOUS
<1>5. n = thread_removeFromPriorList(q, th)
  BY DEF tickList_get, TakenTk
<1> HIDE DEF q
<1>6. /\ q.head = [m.head EXCEPT ![l] = TkLinks(m)[th]]
      /\ q.prevTk = [m.prevTk EXCEPT ![th] = NULL]
      /\ q.nextPr = m.nextPr /\ q.nextTk = m.nextTk /\ q.prevPr = m.prevPr
  BY <1>1, <1>2, <1>4 DEF TakenTk, Memory
<1>7. Hung(q, f)
  <2>1. Relinked(m, q, l, {})
    BY <1>2, <1>3, <1>6, RelinkedTk DEF TkLinks
  <2>2. m.head[l] = th /\ q.head[l] = Links(m, l)[th]
    BY <1>1, <1>2, <1>6 DEF Links
  <2>3. SameBacks(m, q, th)
    BY <1>2, <1>6 DEF SameBacks
  <2>4. f \in [Threads -> SUBSET Lists] /\ f[th] = h[th] \ {l} /\ q.prevTk[th] = NULL /\ q.prevPr[th] = m.prevPr[th]
    BY <1>1, <1>2, <1>6
  <2>5. f[th] \cap TickLists = {} /\ f[th] \cap PriorLists = h[th] \cap PriorLists
    BY <1>1, <1>2, <2>4, ListAssumption DEF OneLink, Lists
  <2>6. HangsBy(q, f, th)
    BY <1>1, <2>4, <2>5 DEF HangsBy
  <2> QED
    BY ONLY <1>1, <2>1, <2>2, <2>3, <2>6, Hung(m, h), f = [h EXCEPT ![th] = h[th] \ {l}], RemoveHung
<1>8. CASE h[th] = {l}
  <2>1. n = q
    <3>1. m.prevPr[th] = NULL
      BY <1>1, <1>2, <1>8 DEF HangsBy
    <3> QED
      BY ONLY <1>6, <1>5, <3>1 DEF thread_removeFromPriorList
  <2>2. f = g
    BY <1>1, <1>8
  <2> QED
    BY <1>1, <1>2, <1>3, <1>6, <1>7, <1>8, <2>1, <2>2 DEF SameQueues, SameBacks
<1>9. ASSUME ~ BasicMode, NEW e \in Lists \ {l}, h[th] = {l, e}, ~ OneLink(l, e)
      PROVE  Hung(n, g) /\ SameQueues(m, n, {}) /\ SameBacks(m, n, th)
  <2>1. e \in PriorLists /\ e \notin TickLists /\ HeadOf(e) \in PrAddress
    BY <1>9, ListAssumption DEF OneLink, PrAddress, Lists
  <2>2. /\ m.prevPr[th] = HeadOf(e)
        /\ \A u \in Threads : e \in h[u] => u = th
    BY <1>1, <1>9, <2>1 DEF HangsBy
  <2>3. q.prevPr[th] = HeadOf(e) /\ q.prevPr[th] # NULL
    BY <1>6, <2>1, <2>2, AddressAssumption
  <2>4. /\ n.head = [q.head EXCEPT ![e] = q.nextPr[th]]
        /\ n.nextPr = q.nextPr /\ n.nextTk = q.nextTk /\ n.prevTk = q.prevTk
        /\ n.prevPr = [q.prevPr EXCEPT ![th] = NULL]
    BY <1>1, <1>3, <1>5, <2>1, <2>3, RemovePrFields
  <2>5. Fenced(n) /\ SameRunners(q, n) /\ n \in Memory
    BY <1>1, <1>3, <1>5, RemoveFenced, FencedTypes
  <2>6. q.head[e] = th
    <3>1. On(q, e) = {t \in Threads : e \in f[t]} /\ e \in f[th]
      BY <1>1, <1>2, <1>7, <1>9 DEF Hung
    <3>2. q.head[e] # NULL /\ q.head[e] \in Pointer
      BY <1>1, <1>3, <3>1, ChainNull DEF On, Memory
    <3>3. q.head[e] \in On(q, e)
      BY <3>2, ChainStart DEF On, Pointer
    <3>4. e \in h[q.head[e]] /\ q.head[e] \in Threads
      BY <1>1, <1>2, <3>1, <3>3
    <3> QED  BY <2>2, <3>4
  <2>7. Relinked(q, n, e, {})
    BY <1>3, <2>1, <2>4, <2>5, RelinkedPr DEF Memory
  <2>8. SameBacks(q, n, th) /\ n.prevTk[th] = NULL /\ n.prevPr[th] = NULL
    BY <1>1, <1>2, <1>6, <2>4 DEF SameBacks
  <2>9. g = [f EXCEPT ![th] = f[th] \ {e}] /\ g[th] = {} /\ e \in f[th]
    BY <1>1, <1>2, <1>9
  <2>10. HangsBy(n, g, th)
    BY <2>8, <2>9 DEF HangsBy
  <2>11. q.head[e] = th /\ n.head[e] = Links(q, e)[th]
    BY <1>3, <1>9, <2>1, <2>4, <2>6 DEF Links, Memory
  <2>12. Hung(n, g)
    <3> HIDE DEF f
    <3>1. e \in Lists  OBVIOUS
    <3> QED
      BY ONLY <1>1, <1>7, <2>7, <2>8, <2>9, <2>10, <2>11, <3>1, RemoveHung
  <2>13. SameQueues(m, n, {}) /\ SameBacks(m, n, th)
    BY <1>2, <1>3, <1>6, <2>4, <2>5, SameRunnersTrans DEF SameQueues, SameBacks
  <2> QED  BY <2>12, <2>13
<1> QED
  BY <1>1, <1>8, <1>9

LEMMA threadListRemoveHung ==
  ASSUME NEW m, NEW h, Fenced(m), Hung(m, h), NEW l \in TickLists, NEW th,
         threadList_has(m, l, th), h[th] = {l}, NEW n, n = threadList_remove(m, l, th),
         NEW g, g = [h EXCEPT ![th] = {}]
  PROVE  /\ Hung(n, g) /\ th \in Threads
         /\ SameQueues(m, n, On(m, l)) /\ SameBacks(m, n, th)
<1>1. /\ Fenced(n) /\ SameRunners(m, n) /\ n \in Memory /\ m \in Memory
      /\ l \in Lists /\ th \in Threads /\ m.head[l] \in Threads
  BY threadListRemoveFenced, ListedFenced, FencedTypes DEF Lists
<1>2. /\ TkLinks(m) \in [Threads -> Pointer] /\ m.head \in [Lists -> Pointer]
      /\ h \in [Threads -> SUBSET Lists]
      /\ m.prevTk \in [Threads -> TkAddress \cup {NULL, REMOVED}]
  BY <1>1, TkLinksFenced DEF Memory, Hung
<1>3. /\ Links(m, l) = TkLinks(m) /\ Links(n, l) = TkLinks(n)
      /\ On(m, l) = {t \in Threads : l \in h[t]} /\ HangsBy(m, h, th)
  BY <1>1 DEF Links, Hung
<1>4. ASSUME n.prevPr = m.prevPr, SameBacks(m, n, th), n.prevTk[th] = NULL,
             \/ m.head[l] = th /\ n.head[l] = Links(m, l)[th] /\ Relinked(m, n, l, {})
             \/ \E i \in On(m, l) :
                  /\ n.head[l] = m.head[l] /\ Links(m, l)[i] = th
                  /\ Links(n, l)[i] = Links(m, l)[th] /\ Relinked(m, n, l, {i})
      PROVE  Hung(n, g)
  <2>1. g = [h EXCEPT ![th] = h[th] \ {l}] /\ g[th] = {} /\ l \in h[th]
    BY <1>1, <1>2
  <2>2. m.prevPr[th] = NULL
    BY <1>3, ListAssumption DEF HangsBy
  <2>3. HangsBy(n, g, th)
    BY <1>4, <2>1, <2>2 DEF HangsBy
  <2> QED
    BY ONLY <1>1, <1>4, <2>1, <2>3, Hung(m, h), RemoveHung
<1>5. CASE m.head[l] = th
  <2>1. n = TakenTk(m, l, th, TkLinks(m)[th])
    BY <1>5 DEF threadList_remove, TakenTk
  <2>2. /\ n.head = [m.head EXCEPT ![l] = TkLinks(m)[th]]
        /\ n.prevTk = [m.prevTk EXCEPT ![th] = NULL]
        /\ n.nextPr = m.nextPr /\ n.nextTk = m.nextTk /\ n.prevPr = m.prevPr
    BY <1>1, <2>1 DEF TakenTk, Memory
  <2>3. Relinked(m, n, l, {})
    BY <1>1, <1>2, <2>2, RelinkedTk DEF TkLinks
  <2>4. SameBacks(m, n, th) /\ n.prevTk[th] = NULL /\ n.head[l] = Links(m, l)[th]
    BY <1>1, <1>2, <1>3, <2>2 DEF SameBacks
  <2>5. Hung(n, g)
    BY <1>4, <1>5, <2>2, <2>3, <2>4
  <2> QED
    BY <1>1, <2>2, <2>4, <2>5 DEF SameQueues
<1>6. CASE m.head[l] # th
  <2> DEFINE next == TkLinks(m)
             go == {j \in Threads : next[j] # th}
             i == LoopEnd(next, m.head[l], go)
             q == LinkTk(m, i, next[th])
  <2>1. i \in On(m, l) /\ i \in Threads /\ next[i] = th
    <3>1. th \in Chain(next, m.head[l]) /\ next \in [Threads -> Pointer]
      BY <1>2 DEF threadList_has
    <3>2. i \in Chain(next, m.head[l]) /\ next[i] = th
      <4> HIDE DEF next
      <4> QED  BY <1>1, <1>6, <3>1, LoopFinds
    <3> QED
      BY <1>3, <3>2, ChainThreads DEF On
  <2>2. n = [q EXCEPT !.prevTk[th] = NULL]
    BY <1>6 DEF threadList_remove
  <2> HIDE DEF i
  <2>3. /\ q \in Memory /\ q.head = m.head /\ q.prevPr = m.prevPr /\ q.prevTk = m.prevTk
        /\ TkLinks(q) = [next EXCEPT ![i] = next[th]] /\ (BasicMode \/ q.nextPr = m.nextPr)
    BY <1>1, <1>2, <2>1, LinkTkFields
  <2> HIDE DEF q
  <2>4. /\ n.head = m.head /\ n.prevPr = m.prevPr /\ n.prevTk = [m.prevTk EXCEPT ![th] = NULL]
        /\ TkLinks(n) = [next EXCEPT ![i] = next[th]] /\ (BasicMode \/ n.nextPr = m.nextPr)
    BY <2>2, <2>3 DEF Memory, TkLinks
  <2>5. Relinked(m, n, l, {i})
    <3>1. \A j \in Threads : TkLinks(n)[j] # TkLinks(m)[j] => j \in {i}
      BY <1>2, <2>4
    <3> QED
      BY <1>1, <2>4, <3>1, RelinkedTk
  <2>6. n.head[l] = m.head[l] /\ Links(m, l)[i] = th /\ Links(n, l)[i] = Links(m, l)[th]
    BY <1>1, <1>2, <1>3, <2>1, <2>4
  <2>7. SameBacks(m, n, th) /\ n.prevTk[th] = NULL
    BY <1>1, <1>2, <2>4 DEF SameBacks
  <2>8. Hung(n, g)
    BY <1>4, <2>1, <2>4, <2>5, <2>6, <2>7
  <2>9. \A j \in Threads : n.nextPr[j] # m.nextPr[j] => j \in On(m, l)
    BY <1>2, <2>1, <2>4 DEF TkLinks
  <2> QED
    BY <1>1, <2>7, <2>8, <2>9 DEF SameQueues
<1> QED
  BY <1>5, <1>6

-----------------------------------------------------------------------------
(* The lists and the scheduler.  x[t] is what t waits for when it waits, A the *)
(* threads that were added, and W those that wait in prior lists.              *)

\* Who runs or is ready is in no list.
Pending(m, x) == [t \in Threads |-> IF t \in Active(m) THEN {} ELSE x[t]]

\* A thread of W has its priority for itself.
Own(m, W, A) == \A t \in W : \A u \in A \ {t} : m.prior[u] # m.prior[t]

\* The ready queues and the lists are sound, and a thread that may wait in a prior
\* list comes with no link to its equals.
Strung(m, x, W, A) ==
  /\ Fenced(m) /\ Dispatched(m) /\ Own(m, W, A)
  /\ x \in [Threads -> SUBSET Lists] /\ Hung(m, Pending(m, x))
  /\ Active(m) \subseteq A /\ \A t \in Threads : x[t] # {} => t \in A
  /\ m.running \in W => m.nextPr[m.running] = NULL

\* Writes to the memory that the lists do not see.
LEMMA HungFrame ==
  ASSUME NEW m, NEW h, Hung(m, h), NEW n, n \in Memory,
         n.head = m.head, n.nextTk = m.nextTk,
         n.prevPr = m.prevPr, n.prevTk = m.prevTk,
         \A j \in Threads :
           n.nextPr[j] # m.nextPr[j] \/ n.prior[j] # m.prior[j] \/ n.tick[j] # m.tick[j] => h[j] = {}
  PROVE  Hung(n, h)
<1>1. ASSUME NEW l \in Lists
      PROVE  /\ On(n, l) = On(m, l) /\ Terminates(Links(n, l), n.head[l])
             /\ InOrder(n, l)
  <2>1. /\ Links(m, l) \in [Threads -> Pointer] /\ Links(n, l) \in [Threads -> Pointer]
        /\ m.head[l] \in Pointer
    BY LinksTypes DEF Hung
  <2>2. \A j \in On(m, l) : j \in Threads /\ h[j] # {}
    BY DEF Hung
  <2>3. \A j \in On(m, l) : /\ Links(n, l)[j] = Links(m, l)[j]
                            /\ n.prior[j] = m.prior[j] /\ n.tick[j] = m.tick[j]
    BY <2>2 DEF Links, TkLinks
  <2>4. m \in Memory /\ Terminates(Links(m, l), m.head[l]) /\ InOrder(m, l)
    BY DEF Hung
  <2>5. On(n, l) = On(m, l) /\ Terminates(Links(n, l), n.head[l])
    BY <2>1, <2>3, <2>4, EndsFrame DEF On
  <2> QED
    BY <2>3, <2>4, <2>5, OrderFrame
<1>2. \A t \in Threads : HangsBy(n, h, t)
  BY DEF Hung, HangsBy
<1> QED
  BY <1>1, <1>2 DEF Hung

\* Whoever is dispatched and has its priority for itself has no link.
LEMMA JumpLone ==
  ASSUME NEW m, m \in Memory, WellQueued(m), ReadyPriors(m) # {}, NEW W, NEW A, Own(m, W, A),
         \A t \in Threads : IsReady(m, t) => t \in A,
         NEW n, n = jump(m), n.running \in W
  PROVE  n.nextPr[n.running] = NULL
<1> DEFINE p == HighestReady(m)
<1>1. /\ p \in Priors /\ m.first[p] \in Threads /\ m.first[p] # NULL
      /\ n.running = m.first[p] /\ n.nextPr = m.nextPr
  BY JumpMemory, ListAssumption
<1> HIDE DEF p
<1>2. m.first[p] \in ReadyOf(m, p) /\ m.last[p] \in ReadyOf(m, p) /\ m.nextPr[m.last[p]] = NULL
  BY <1>1, ChainStart DEF WellQueued, ReadyOf
<1>3. m.last[p] \in Threads
  BY <1>2, ChainThreads DEF ReadyOf
<1>4. m.prior[m.first[p]] = p /\ m.prior[m.last[p]] = p
  BY <1>1, <1>2, <1>3 DEF WellQueued
<1>5. IsReady(m, m.last[p])
  BY <1>1, <1>2 DEF IsReady
<1> QED
  BY <1>1, <1>2, <1>3, <1>4, <1>5 DEF Own

LEMMA SomebodyReady ==
  ASSUME NEW m, Fenced(m), m.running # Background
  PROVE  ReadyPriors(m) # {}
BY KernelAssumption, ListAssumption DEF Fenced, Guarded, Parked, ReadyPriors, Priors

\* What a put writes in the links.
LEMMA PutLinks ==
  ASSUME NEW m, m \in Memory, WellQueued(m), NEW th \in Threads,
         NEW n, n = threadQueueArray_put(m, th)
  PROVE  \A j \in Threads : n.nextPr[j] # m.nextPr[j] => j = th \/ IsReady(m, j)
<1> DEFINE p == m.prior[th]
<1>1. p \in Priors
  BY DEF Memory
<1>2. m.first[p] # NULL => m.last[p] \in ReadyOf(m, p)
  BY <1>1 DEF WellQueued
<1>3. m.first[p] # NULL => m.last[p] \in Threads
  BY <1>2, ChainThreads DEF ReadyOf
<1>4. \A j \in Threads :
        n.nextPr[j] = IF m.first[p] # NULL /\ j = m.last[p] THEN th
                      ELSE IF j = th THEN NULL ELSE m.nextPr[j]
  BY <1>3, PutMemory
<1> QED
  BY <1>1, <1>2, <1>4 DEF IsReady

\* Who is held does not depend on what the others would wait for.
LEMMA HeldSame ==
  ASSUME NEW m, NEW x, NEW y, \A t \in Threads \ Active(m) : x[t] = y[t]
  PROVE  Pending(m, x) = Pending(m, y)
BY DEF Pending

LEMMA HeldActive ==
  ASSUME NEW m, NEW n, NEW x, Active(n) = Active(m)
  PROVE  Pending(n, x) = Pending(m, x)
BY DEF Pending

\* Nothing but the scheduler's own memory changes.
LEMMA YieldStrung ==
  ASSUME NEW m, NEW x, NEW W, NEW A, Strung(m, x, W, A), NEW n, n = yieldISR(m)
  PROVE  /\ Strung(n, x, W, A) /\ Active(n) = Active(m) /\ SameElsewhere(m, n)
         /\ Highest(n)
<1> DEFINE q == threadQueueArray_put(m, m.running)
           h == Pending(m, x)
<1>1. /\ m \in Memory /\ WellQueued(m) /\ m.running \in Threads /\ ~ IsReady(m, m.running)
      /\ Fenced(m) /\ Dispatched(m) /\ Hung(m, h) /\ Active(m) \subseteq A
  BY DEF Strung, Dispatched
<1>2. /\ Fenced(n) /\ SameElsewhere(m, n) /\ Dispatched(n) /\ Active(n) = Active(m)
      /\ Highest(n)
  BY <1>1, YieldFenced, YieldActive
<1>3. /\ q \in Memory /\ SameElsewhere(m, q) /\ WellQueued(q) /\ q.running = m.running
      /\ \A t \in Threads : IsReady(q, t) <=> IsReady(m, t) \/ t = m.running
      /\ ReadyPriors(q) = ReadyPriors(m) \cup {m.prior[m.running]}
  BY <1>1, PutReady
<1>4. \A j \in Threads : q.nextPr[j] # m.nextPr[j] => j = m.running \/ IsReady(m, j)
  BY <1>1, PutLinks
<1>5. n = jump(q)
  BY DEF yieldISR
<1> HIDE DEF q
<1>6. n.nextPr = q.nextPr
  BY <1>3, <1>5, JumpMemory
<1>7. \A j \in Threads :
           n.nextPr[j] # m.nextPr[j] \/ n.prior[j] # m.prior[j] \/ n.tick[j] # m.tick[j] => h[j] = {}
  BY <1>1, <1>2, <1>4, <1>6 DEF Pending, Active, SameElsewhere
<1> HIDE DEF h
<1>8. Hung(n, h)
  BY <1>1, <1>2, <1>7, HungFrame DEF SameElsewhere, Dispatched
<1>9. Hung(n, Pending(n, x))
  BY <1>2, <1>8, HeldActive DEF h
<1>10. Own(q, W, A) /\ Own(n, W, A)
  BY <1>2, <1>3 DEF Own, SameElsewhere, Strung
<1>11. \A t \in Threads : IsReady(q, t) => t \in A
  BY <1>1, <1>3 DEF Active
<1>12. n.running \in W => n.nextPr[n.running] = NULL
  BY <1>3, <1>5, <1>10, <1>11, JumpLone
<1> QED
  BY <1>2, <1>9, <1>10, <1>12 DEF Strung

\* The running thread gives up the processor, and waits for x if it does.
LEMMA BlockStrung ==
  ASSUME NEW m, NEW x, NEW W, NEW A, Fenced(m), Dispatched(m), Own(m, W, A),
         m.running # Background, x \in [Threads -> SUBSET Lists],
         Active(m) \subseteq A, \A t \in Threads : x[t] # {} => t \in A,
         Hung(m, [Pending(m, x) EXCEPT ![m.running] = x[m.running]]),
         NEW n, n = jump(m)
  PROVE  /\ Strung(n, x, W, A) /\ SameElsewhere(m, n)
         /\ Active(n) = Active(m) \ {m.running} /\ Highest(n)
<1> DEFINE h == [Pending(m, x) EXCEPT ![m.running] = x[m.running]]
<1>1. /\ m \in Memory /\ WellQueued(m) /\ m.running \in Threads /\ ReadyPriors(m) # {}
      /\ m.running \in Active(m) /\ Active(m) \subseteq Threads
  BY SomebodyReady DEF Dispatched, Active
<1>2. /\ Fenced(n) /\ SameElsewhere(m, n) /\ Dispatched(n) /\ Active(n) = Active(m) \ {m.running}
      /\ Highest(n)
  BY <1>1, JumpFenced, JumpActive
<1>3. n.nextPr = m.nextPr
  BY <1>1, JumpMemory
<1>4. Pending(n, x) = h
  BY <1>1, <1>2 DEF Pending
<1>5. Hung(n, h)
  <2> HIDE DEF h
  <2>1. Hung(m, h)  BY DEF h
  <2> QED
    BY <1>2, <1>3, <2>1, HungFrame DEF SameElsewhere, Dispatched
<1>6. n.running \in W => n.nextPr[n.running] = NULL
  <2>1. \A t \in Threads : IsReady(m, t) => t \in A
    BY DEF Active
  <2> QED
    BY <1>1, <2>1, JumpLone
<1>7. Own(n, W, A) /\ Active(n) \subseteq A
  BY <1>2 DEF Own, SameElsewhere
<1> QED
  BY <1>2, <1>4, <1>5, <1>6, <1>7 DEF Strung

\* A thread that was taken out of its lists gets ready.
LEMMA WakeStrung ==
  ASSUME NEW m, NEW x, NEW W, NEW A, Strung(m, x, W, A), NEW X, NEW q, Fenced(q),
         SameQueues(m, q, X), X \cap Active(m) = {},
         NEW th \in Threads, th \notin Active(m), th \in A,
         Hung(q, [Pending(m, x) EXCEPT ![th] = {}]),
         NEW n, n = threadQueueArray_put(q, th)
  PROVE  /\ Strung(n, x, W, A) /\ Active(n) = Active(m) \cup {th}
         /\ n.running = m.running /\ n.prior = m.prior /\ n.tick = m.tick
         /\ n.prevTk = q.prevTk /\ n.head = q.head
         /\ ReadyPriors(n) = ReadyPriors(m) \cup {m.prior[th]}
<1> DEFINE h == [Pending(m, x) EXCEPT ![th] = {}]
<1>1. /\ m \in Memory /\ m.running \in Threads /\ Fenced(m) /\ Dispatched(m) /\ Own(m, W, A)
      /\ Active(m) \subseteq Threads /\ Active(m) \subseteq A /\ q \in Memory
      /\ m.running \in Active(m) /\ x \in [Threads -> SUBSET Lists]
  BY FencedTypes DEF Strung, Dispatched, Active
<1>2. Dispatched(q) /\ Active(q) = Active(m) /\ ReadyPriors(q) = ReadyPriors(m)
  <2>1. \A t \in Threads : IsReady(m, t) => q.nextPr[t] = m.nextPr[t] /\ q.prior[t] = m.prior[t]
    BY DEF SameQueues, SameRunners, Active
  <2> QED
    BY <1>1, <2>1, SameRunnersActive DEF SameQueues, SameRunners
<1>3. th # Background
  <2>1. Background \in Active(m)
    <3>1. m.running # Background => Background \in ReadyOf(m, Lowest)
      BY <1>1, ChainStart, KernelAssumption DEF Fenced, Guarded, Parked, ReadyOf
    <3> QED
      BY <1>1, <3>1, KernelAssumption, ListAssumption DEF Active, IsReady, Priors
  <2> QED  BY <2>1
<1>4. /\ Dispatched(n) /\ Fenced(n) /\ SameElsewhere(q, n) /\ n.running = q.running
      /\ Active(n) = Active(m) \cup {th} /\ ReadyPriors(n) = ReadyPriors(q) \cup {q.prior[th]}
  BY <1>1, <1>2, <1>3, PutFenced, PutActive
<1>5. \A j \in Threads : n.nextPr[j] # q.nextPr[j] => j = th \/ IsReady(m, j)
  <2>1. \A j \in Threads : n.nextPr[j] # q.nextPr[j] => j = th \/ IsReady(q, j)
    BY <1>2, PutLinks DEF Dispatched
  <2>2. \A j \in Threads : IsReady(q, j) => j \in Active(m) /\ j # m.running
    BY <1>2 DEF Active, Dispatched, SameQueues, SameRunners
  <2> QED
    BY <2>1, <2>2 DEF Active
<1>6. Pending(n, x) = h
  BY <1>1, <1>4 DEF Pending
<1>7. Hung(n, h)
  <2>1. \A j \in Threads :
          n.nextPr[j] # q.nextPr[j] \/ n.prior[j] # q.prior[j] \/ n.tick[j] # q.tick[j] => h[j] = {}
    BY <1>4, <1>5 DEF Pending, Active, SameElsewhere
  <2> HIDE DEF h
  <2>2. Hung(q, h)  BY DEF h
  <2> QED
    BY <1>4, <2>1, <2>2, HungFrame DEF SameElsewhere, Dispatched
<1>8. n.running \in W => n.nextPr[n.running] = NULL
  <2>1. n.running = m.running /\ n.running \in Active(m) /\ ~ IsReady(m, n.running)
    BY <1>1, <1>4 DEF SameQueues, SameRunners, Dispatched
  <2>2. n.nextPr[n.running] = q.nextPr[n.running]
    BY <1>1, <1>5, <2>1
  <2>3. q.nextPr[n.running] = m.nextPr[n.running]
    BY <1>1, <2>1 DEF SameQueues
  <2> QED
    BY <2>1, <2>2, <2>3 DEF Strung
<1>9. Own(n, W, A) /\ Active(n) \subseteq A /\ \A t \in Threads : x[t] # {} => t \in A
  BY <1>1, <1>4 DEF Own, SameElsewhere, SameQueues, SameRunners, Strung
<1> QED
  BY <1>1, <1>2, <1>4, <1>6, <1>7, <1>8, <1>9
  DEF Strung, SameElsewhere, SameQueues, SameRunners

\* Whoever gets the processor has the highest priority, and who has it keeps it.
Ordered(m, n) ==
  /\ n.running # m.running => Highest(n)
  /\ Highest(m) => Highest(n)

LEMMA ResumeStrung ==
  ASSUME NEW m, NEW x, NEW W, NEW A, Strung(m, x, W, A), NEW X, NEW q, Fenced(q),
         SameQueues(m, q, X), X \cap Active(m) = {},
         NEW th \in Threads, th \notin Active(m), th \in A,
         Hung(q, [Pending(m, x) EXCEPT ![th] = {}]),
         NEW n, n = resume(q, th)
  PROVE  /\ Strung(n, x, W, A) /\ Active(n) = Active(m) \cup {th}
         /\ n.prior = m.prior /\ n.tick = m.tick /\ n.prevTk = q.prevTk /\ n.head = q.head
         /\ Ordered(m, n)
<1> DEFINE r == threadQueueArray_put(q, th)
<1>1. /\ Strung(r, x, W, A) /\ Active(r) = Active(m) \cup {th}
      /\ r.running = m.running /\ r.prior = m.prior /\ r.tick = m.tick
      /\ r.prevTk = q.prevTk /\ r.head = q.head
      /\ ReadyPriors(r) = ReadyPriors(m) \cup {m.prior[th]}
  BY WakeStrung
<1>2. IF preempts(q, th) THEN n = yieldISR(r) ELSE n = r
  BY DEF resume
<1> HIDE DEF r
<1>3. ~ preempts(q, th) => (Highest(m) => Highest(r))
  <2>1. q.prior = m.prior /\ q.running = m.running
    BY DEF SameQueues, SameRunners
  <2>2. m.prior[m.running] \in Nat /\ m.prior[th] \in Nat
    BY ListAssumption DEF Strung, Dispatched, Memory, Priors
  <2> QED
    BY <1>1, <2>1, <2>2 DEF Highest, preempts
<1>4. CASE preempts(q, th)
  <2>1. Strung(n, x, W, A) /\ Active(n) = Active(r) /\ SameElsewhere(r, n) /\ Highest(n)
    BY <1>1, <1>2, <1>4, YieldStrung
  <2> QED
    BY <1>1, <2>1 DEF SameElsewhere, Ordered
<1>5. CASE ~ preempts(q, th)
  BY <1>1, <1>2, <1>3, <1>5 DEF Ordered
<1> QED
  BY <1>4, <1>5

-----------------------------------------------------------------------------
(* The first thread of a list is woken. *)

LEMMA FirstWoken ==
  ASSUME NEW m, NEW x, NEW W, NEW A, Strung(m, x, W, A), NEW l \in PriorLists,
         m.head[l] # NULL, NEW th, th = m.head[l], NEW q, q = priorList_get(m, l)
  PROVE  /\ th \in Threads \ Active(m) /\ th \in A /\ l \in x[th]
         /\ Fenced(q) /\ SameQueues(m, q, {}) /\ SameBacks(m, q, th)
         /\ Hung(q, [Pending(m, x) EXCEPT ![th] = {}])
         /\ x[th] # {l} => q.prevTk[th] = REMOVED
<1> DEFINE h == Pending(m, x)
<1>1. Fenced(m) /\ Hung(m, h)
  BY DEF Strung
<1> HIDE DEF h
<1>2. /\ Hung(q, [h EXCEPT ![th] = {}]) /\ l \in h[th] /\ th \in Threads
      /\ SameQueues(m, q, {}) /\ SameBacks(m, q, th)
      /\ h[th] # {l} => q.prevTk[th] = REMOVED
  BY <1>1, priorListGetHung
<1>3. Fenced(q)
  BY <1>1, priorListGetFenced
<1>4. th \notin Active(m) /\ h[th] = x[th]
  BY <1>2 DEF h, Pending
<1> QED
  BY <1>2, <1>3, <1>4 DEF Strung, h

LEMMA FirstDueWoken ==
  ASSUME NEW m, NEW x, NEW W, NEW A, Strung(m, x, W, A), NEW l \in TickLists, NEW tick,
         NEW th, th = tickList_due(m, l, tick), th # NULL, NEW q, q = tickList_get(m, l, tick)
  PROVE  /\ th \in Threads \ Active(m) /\ th \in A /\ l \in x[th]
         /\ Fenced(q) /\ SameQueues(m, q, {}) /\ SameBacks(m, q, th)
         /\ Hung(q, [Pending(m, x) EXCEPT ![th] = {}])
         /\ tick_isOver(tick, m.tick[th])
<1> DEFINE h == Pending(m, x)
<1>1. Fenced(m) /\ Hung(m, h)
  BY DEF Strung
<1> HIDE DEF h
<1>2. /\ Hung(q, [h EXCEPT ![th] = {}]) /\ l \in h[th] /\ th \in Threads
      /\ SameQueues(m, q, {}) /\ SameBacks(m, q, th)
  BY <1>1, tickListGetHung
<1>3. Fenced(q)
  BY <1>1, tickListGetFenced
<1>4. th \notin Active(m) /\ h[th] = x[th]
  BY <1>2 DEF h, Pending
<1>5. tick_isOver(tick, m.tick[th])
  BY DEF tickList_due
<1> QED
  BY <1>2, <1>3, <1>4, <1>5 DEF Strung, h

\* A loop from m to q woke threads that waited for l, and only them.
Woke(m, q, l, x) ==
  /\ q.running = m.running /\ q.prior = m.prior /\ q.tick = m.tick
  /\ Active(m) \subseteq Active(q)
  /\ ReadyPriors(q) = ReadyPriors(m) \cup {m.prior[t] : t \in Active(q) \ Active(m)}
  /\ \A t \in Active(q) \ Active(m) : l \in x[t]
  /\ \A t \in Active(m) : q.prevTk[t] = m.prevTk[t]

\* One more.
LEMMA WokeOne ==
  ASSUME NEW m, NEW q, NEW l, NEW x, Woke(m, q, l, x), m \in Memory,
         NEW th \in Threads \ Active(q), l \in x[th], NEW n,
         n.running = q.running, n.prior = q.prior, n.tick = q.tick,
         Active(n) = Active(q) \cup {th},
         ReadyPriors(n) = ReadyPriors(q) \cup {q.prior[th]},
         \A t \in Threads : t # th => n.prevTk[t] = q.prevTk[t]
  PROVE  Woke(m, n, l, x)
<1>1. Active(m) \subseteq Active(q) /\ Active(q) \subseteq Threads
  BY DEF Woke, Active
<1>2. Active(n) \ Active(m) = (Active(q) \ Active(m)) \cup {th}
  BY <1>1
<1>3. ReadyPriors(n) = ReadyPriors(m) \cup {m.prior[t] : t \in Active(n) \ Active(m)}
  BY <1>2 DEF Woke
<1> QED
  BY <1>1, <1>2, <1>3 DEF Woke

LEMMA PutTurnStrung ==
  ASSUME NEW m, m \in Memory, NEW x, NEW W, NEW A, NEW l \in PriorLists, NEW q,
         Strung(q, x, W, A), Woke(m, q, l, x),
         \A t \in Active(q) \ Active(m) : x[t] # {l} => q.prevTk[t] = REMOVED,
         NEW n, n = PutTurn(q, l)
  PROVE  /\ Strung(n, x, W, A) /\ Woke(m, n, l, x)
         /\ \A t \in Active(n) \ Active(m) : x[t] # {l} => n.prevTk[t] = REMOVED
         /\ q.head[l] = NULL => n = q
         /\ q.head[l] # NULL => Active(n) = Active(q) \cup {q.head[l]} /\ q.head[l] \notin Active(q)
<1>1. CASE q.head[l] = NULL
  BY <1>1 DEF PutTurn
<1>2. CASE q.head[l] # NULL
  <2> DEFINE s == priorList_get(q, l)
             th == q.head[l]
  <2>1. /\ th \in Threads \ Active(q) /\ th \in A /\ l \in x[th]
        /\ Fenced(s) /\ SameQueues(q, s, {}) /\ SameBacks(q, s, th)
        /\ Hung(s, [Pending(q, x) EXCEPT ![th] = {}])
        /\ x[th] # {l} => s.prevTk[th] = REMOVED
    BY <1>2, FirstWoken
  <2>2. n = threadQueueArray_put(s, th)
    BY <1>2 DEF PutTurn
  <2> HIDE DEF s, th
  <2>3. /\ Strung(n, x, W, A) /\ Active(n) = Active(q) \cup {th}
        /\ n.running = q.running /\ n.prior = q.prior /\ n.tick = q.tick
        /\ n.prevTk = s.prevTk
        /\ ReadyPriors(n) = ReadyPriors(q) \cup {q.prior[th]}
    <3>1. {} \cap Active(q) = {}
      OBVIOUS
    <3> QED
      BY <2>1, <2>2, <3>1, WakeStrung
  <2>4. \A t \in Threads : t # th => n.prevTk[t] = q.prevTk[t]
    BY <2>1, <2>3 DEF SameBacks
  <2>5. Woke(m, n, l, x)
    BY <2>1, <2>3, <2>4, WokeOne
  <2>6. \A t \in Active(n) \ Active(m) : x[t] # {l} => n.prevTk[t] = REMOVED
    <3>1. Active(q) \subseteq Threads
      BY DEF Active
    <3> QED
      BY <2>1, <2>3, <2>4, <3>1
  <2> QED
    BY <1>2, <2>1, <2>3, <2>5, <2>6 DEF th
<1> QED
  BY <1>1, <1>2

\* Every thread of the list is woken: a turn for each of them.
LEMMA putListStrung ==
  ASSUME NEW m, NEW x, NEW W, NEW A, Strung(m, x, W, A), NEW l \in PriorLists,
         NEW n, n = threadQueueArray_putList(m, l)
  PROVE  /\ Strung(n, x, W, A) /\ Woke(m, n, l, x) /\ n.head[l] = NULL
         /\ \A t \in Active(n) \ Active(m) : x[t] # {l} => n.prevTk[t] = REMOVED
<1> DEFINE T == 2 * Cardinality(Threads)
           J(q) == /\ Strung(q, x, W, A) /\ Woke(m, q, l, x)
                   /\ \A t \in Active(q) \ Active(m) : x[t] # {l} => q.prevTk[t] = REMOVED
           Count(q) == Cardinality(Active(q))
           I == {p \in Nat \X Memory : J(p[2]) /\ (p[2].head[l] = NULL \/ Count(p[2]) > p[1])}
<1>1. Fenced(m) /\ m \in Memory /\ m.running \in Active(m)
  BY FencedTypes DEF Strung, Active
<1>2. PICK g : Turns(g, T, m, n) /\ \A i \in 1 .. T : g[i] = PutTurn(g[i - 1], l)
  BY <1>1, putListTurns
<1>3. T \in Nat /\ Cardinality(Threads) \in Nat /\ g[0] = m /\ g[T] = n
  BY <1>2, FS_CardinalityType, ListAssumption DEF Turns
<1>4. \A q : /\ Count(q) \in Nat /\ Count(q) <= Cardinality(Threads)
             /\ IsFiniteSet(Active(q))
  <2>1. \A q : Active(q) \subseteq Threads
    BY DEF Active
  <2> QED
    BY <2>1, FS_Subset, FS_CardinalityType, ListAssumption
<1> DEFINE gg == [i \in 0 .. T |-> <<i, g[i]>>]
<1>5. gg[0] \in I
  <2>1. Woke(m, m, l, x)
    BY DEF Woke
  <2>2. Count(m) > 0
    <3>1. Active(m) # {}
      BY <1>1
    <3> QED
      BY <1>4, <3>1, FS_EmptySet
  <2>3. J(m)
    BY <2>1
  <2> HIDE DEF J, T
  <2> QED
    BY <1>1, <1>3, <2>2, <2>3
<1>6. \A i \in 1 .. T : gg[i - 1] \in I => gg[i] \in I
  <2> SUFFICES ASSUME NEW i \in 1 .. T, gg[i - 1] \in I PROVE gg[i] \in I
    OBVIOUS
  <2>1. /\ i - 1 \in Nat /\ i \in Nat /\ i \in 0 .. T /\ i - 1 \in 0 .. T
        /\ gg[i - 1] = <<i - 1, g[i - 1]>> /\ gg[i] = <<i, g[i]>>
    BY <1>3
  <2> DEFINE q == g[i - 1]
             r == g[i]
  <2>2. q \in Memory /\ J(q) /\ (q.head[l] = NULL \/ Count(q) > i - 1)
    BY <2>1
  <2>3. r = PutTurn(q, l)
    BY <1>2
  <2> HIDE DEF q, r
  <2>4. /\ J(r) /\ (q.head[l] = NULL => r = q)
        /\ q.head[l] # NULL => Active(r) = Active(q) \cup {q.head[l]} /\ q.head[l] \notin Active(q)
    <3>1. /\ Strung(q, x, W, A) /\ Woke(m, q, l, x)
          /\ \A t \in Active(q) \ Active(m) : x[t] # {l} => q.prevTk[t] = REMOVED
      BY <2>2
    <3> HIDE DEF J
    <3>2. /\ Strung(r, x, W, A) /\ Woke(m, r, l, x)
          /\ \A t \in Active(r) \ Active(m) : x[t] # {l} => r.prevTk[t] = REMOVED
          /\ q.head[l] = NULL => r = q
          /\ q.head[l] # NULL => Active(r) = Active(q) \cup {q.head[l]} /\ q.head[l] \notin Active(q)
      BY ONLY <1>1, <2>3, <3>1, l \in PriorLists, PutTurnStrung
    <3> QED
      BY <3>2 DEF J
  <2>5. r \in Memory
    BY <2>4, FencedTypes DEF Strung
  <2>6. r.head[l] = NULL \/ Count(r) > i
    <3>1. CASE q.head[l] = NULL
      BY <2>4, <3>1
    <3>2. CASE q.head[l] # NULL
      <4>1. Count(r) = Count(q) + 1
        BY <1>4, <2>4, <3>2, FS_AddElement
      <4> HIDE DEF Count
      <4> QED
        BY <1>4, <2>1, <2>2, <3>2, <4>1
    <3> QED
      BY <3>1, <3>2
  <2> HIDE DEF J, Count
  <2> QED
    BY <2>1, <2>4, <2>5, <2>6 DEF q, r
<1> HIDE DEF I, gg
<1>7. gg[T] \in I
  BY <1>3, <1>5, <1>6, LoopKeeps
<1>8. J(n) /\ (n.head[l] = NULL \/ Count(n) > T)
  BY <1>3, <1>7 DEF I, gg
<1>9. n.head[l] = NULL
  <2> HIDE DEF Count
  <2> QED
    BY <1>3, <1>4, <1>8
<1> QED
  BY <1>8, <1>9

\* A tick wakes those whose time has come, and advises to yield if one of them
\* has a higher priority than the thread it interrupted.
Advice(m, r) == ~ r.yield /\ Highest(m) => Highest(r.mem)

\* The threads that n has and m has not were due at the given tick.
Due(m, n, tick) == \A t \in Active(n) \ Active(m) : tick_isOver(tick, m.tick[t])

\* What a turn does for th: it joins the threads that are active.
Joins(q, n, th) == /\ th = NULL => n = q
                   /\ th # NULL => /\ th \notin Active(q.mem)
                                  /\ Active(n.mem) = Active(q.mem) \cup {th}

LEMMA TickTurnStrung ==
  ASSUME NEW m, m \in Memory, NEW x, NEW W, NEW A, NEW tm \in TickLists, NEW tick,
         NEW q, q \in Advised(Memory),
         Strung(q.mem, x, W, A), Woke(m, q.mem, tm, x), Advice(m, q),
         Due(m, q.mem, tick),
         NEW n, n = TickTurn(q, tm, tick), NEW th, th = tickList_due(q.mem, tm, tick)
  PROVE  /\ n \in Advised(Memory)
         /\ Strung(n.mem, x, W, A) /\ Woke(m, n.mem, tm, x) /\ Advice(m, n)
         /\ Due(m, n.mem, tick) /\ Joins(q, n, th)
<1>1. CASE th = NULL
  BY <1>1 DEF TickTurn, Joins
<1>2. CASE th # NULL
  <2> DEFINE s == tickList_get(q.mem, tm, tick)
             v == threadQueueArray_put(s, th)
             y == q.yield \/ preempts(q.mem, th)
  <2>1. /\ th \in Threads \ Active(q.mem) /\ th \in A /\ tm \in x[th]
        /\ Fenced(s) /\ SameQueues(q.mem, s, {}) /\ SameBacks(q.mem, s, th)
        /\ Hung(s, [Pending(q.mem, x) EXCEPT ![th] = {}])
        /\ tick_isOver(tick, q.mem.tick[th])
    BY <1>2, FirstDueWoken
  <2>2. n = [mem |-> v, yield |-> y]
    BY <1>2 DEF TickTurn
  <2> HIDE DEF s
  <2>3. /\ Strung(v, x, W, A) /\ Active(v) = Active(q.mem) \cup {th}
        /\ v.running = q.mem.running /\ v.prior = q.mem.prior /\ v.tick = q.mem.tick
        /\ v.prevTk = s.prevTk
        /\ ReadyPriors(v) = ReadyPriors(q.mem) \cup {q.mem.prior[th]}
    <3>1. {} \cap Active(q.mem) = {}
      OBVIOUS
    <3> QED
      BY <2>1, <3>1, WakeStrung
  <2> HIDE DEF v
  <2>4. \A t \in Threads : t # th => v.prevTk[t] = q.mem.prevTk[t]
    BY <2>1, <2>3 DEF SameBacks
  <2>5. Woke(m, v, tm, x)
    BY <2>1, <2>3, <2>4, WokeOne
  <2>6. Due(m, v, tick)
    BY <2>1, <2>3 DEF Woke, Due
  <2>7. ~ y /\ Highest(m) => Highest(v)
    <3>1. q.mem.prior[q.mem.running] \in Nat /\ q.mem.prior[th] \in Nat
      BY <2>1, ListAssumption DEF Strung, Dispatched, Memory, Priors
    <3> QED
      BY <2>3, <3>1 DEF Advice, Highest, preempts
  <2>8. y \in BOOLEAN /\ v \in Memory
    BY <2>3, FencedTypes DEF Advised, Strung
  <2> HIDE DEF y
  <2> QED
    BY <1>2, <2>1, <2>2, <2>3, <2>5, <2>6, <2>7, <2>8 DEF Advised, Advice, Joins
<1> QED
  BY <1>1, <1>2

LEMMA tickLoopStrung ==
  ASSUME NEW m, NEW x, NEW W, NEW A, Strung(m, x, W, A), NEW tm \in TickLists, NEW tick,
         NEW r, r = timer_tick_loop(m, tm, tick)
  PROVE  /\ Strung(r.mem, x, W, A) /\ Woke(m, r.mem, tm, x) /\ Advice(m, r)
         /\ Due(m, r.mem, tick)
         /\ tickList_due(r.mem, tm, tick) = NULL
<1> DEFINE T == 2 * Cardinality(Threads)
           J(q) == /\ q \in Advised(Memory)
                   /\ Strung(q.mem, x, W, A) /\ Woke(m, q.mem, tm, x) /\ Advice(m, q)
                   /\ Due(m, q.mem, tick)
           Count(q) == Cardinality(Active(q.mem))
           Done(q) == tickList_due(q.mem, tm, tick) = NULL
           I == {p \in Nat \X Advised(Memory) : J(p[2]) /\ (Done(p[2]) \/ Count(p[2]) > p[1])}
           s == [mem |-> m, yield |-> FALSE]
<1>1. Fenced(m) /\ m \in Memory /\ m.running \in Active(m)
  BY FencedTypes DEF Strung, Active
<1>2. PICK g : /\ Turns(g, T, s, r)
               /\ \A i \in 1 .. T : g[i] = TickTurn(g[i - 1], tm, tick)
  BY <1>1, tickLoopTurns
<1>3. T \in Nat /\ Cardinality(Threads) \in Nat /\ g[0] = s /\ g[T] = r
  BY <1>2, FS_CardinalityType, ListAssumption DEF Turns
<1>4. \A q : /\ Count(q) \in Nat /\ Count(q) <= Cardinality(Threads)
             /\ IsFiniteSet(Active(q.mem))
  <2>1. \A q : Active(q) \subseteq Threads
    BY DEF Active
  <2> QED
    BY <2>1, FS_Subset, FS_CardinalityType, ListAssumption
<1> DEFINE gg == [i \in 0 .. T |-> <<i, g[i]>>]
<1>5. gg[0] \in I
  <2>1. s \in Advised(Memory) /\ s.mem = m /\ s.yield = FALSE
    BY <1>1 DEF Advised
  <2>2. J(s)
    BY <2>1 DEF Woke, Advice, Due
  <2>3. Count(s) > 0
    <3>1. Active(s.mem) # {}
      BY <1>1, <2>1
    <3>2. Count(s) \in Nat /\ IsFiniteSet(Active(s.mem))
      BY <1>4
    <3>3. Count(s) # 0
      BY <3>1, <3>2, FS_EmptySet
    <3> HIDE DEF Count, s
    <3> QED
      BY <3>2, <3>3
  <2> HIDE DEF J, T, s, Count, Done
  <2> QED
    BY <1>3, <2>1, <2>2, <2>3
<1> HIDE DEF s
<1>6. \A i \in 1 .. T : gg[i - 1] \in I => gg[i] \in I
  <2> SUFFICES ASSUME NEW i \in 1 .. T, gg[i - 1] \in I PROVE gg[i] \in I
    OBVIOUS
  <2>1. /\ i - 1 \in Nat /\ i \in Nat /\ i \in 0 .. T /\ i - 1 \in 0 .. T
        /\ gg[i - 1] = <<i - 1, g[i - 1]>> /\ gg[i] = <<i, g[i]>>
    BY <1>3
  <2> DEFINE q == g[i - 1]
             n == g[i]
             th == tickList_due(q.mem, tm, tick)
  <2>2. J(q) /\ (Done(q) \/ Count(q) > i - 1)
    BY <2>1
  <2>3. n = TickTurn(q, tm, tick)
    BY <1>2
  <2>4. th = tickList_due(q.mem, tm, tick)
    OBVIOUS
  <2> HIDE DEF q, n, th
  <2>5. J(n) /\ Joins(q, n, th)
    <3>1. /\ q \in Advised(Memory) /\ Due(m, q.mem, tick)
          /\ Strung(q.mem, x, W, A) /\ Woke(m, q.mem, tm, x) /\ Advice(m, q)
      BY <2>2
    <3> HIDE DEF J
    <3>2. /\ n \in Advised(Memory)
          /\ Strung(n.mem, x, W, A) /\ Woke(m, n.mem, tm, x) /\ Advice(m, n)
          /\ Due(m, n.mem, tick) /\ Joins(q, n, th)
      BY <1>1, <2>3, <2>4, <3>1, TickTurnStrung
    <3> QED
      BY <3>2 DEF J
  <2>6. Done(n) \/ Count(n) > i
    <3>1. CASE th = NULL
      BY <2>4, <2>5, <3>1 DEF Joins
    <3>2. CASE th # NULL
      <4>1. Count(n) = Count(q) + 1
        BY <1>4, <2>5, <3>2, FS_AddElement DEF Joins
      <4>2. Count(q) > i - 1
        BY <2>2, <2>4, <3>2
      <4> HIDE DEF Count
      <4> QED
        BY <1>4, <2>1, <4>1, <4>2
    <3> QED
      BY <3>1, <3>2
  <2>7. n \in Advised(Memory)
    BY <2>5
  <2> HIDE DEF J, Count, Done
  <2> QED
    BY <2>1, <2>5, <2>6, <2>7 DEF n
<1> HIDE DEF I, gg
<1>7. gg[T] \in I
  BY <1>3, <1>5, <1>6, LoopKeeps
<1>8. J(r) /\ (Done(r) \/ Count(r) > T)
  BY <1>3, <1>7 DEF I, gg
<1>9. Done(r)
  <2> HIDE DEF Count, Done
  <2> QED
    BY <1>3, <1>4, <1>8
<1> QED
  BY <1>8, <1>9

-----------------------------------------------------------------------------
(* What clients write, and what they wait for. *)

\* A write to the priority or the tick of a thread.
LEMMA WriteStrung ==
  ASSUME NEW m, NEW x, NEW W, NEW A, Strung(m, x, W, A), NEW n, Fenced(n),
         n.running = m.running, n.first = m.first, n.last = m.last, n.head = m.head,
         n.nextPr = m.nextPr, n.nextTk = m.nextTk,
         n.prevPr = m.prevPr, n.prevTk = m.prevTk,
         \A t \in Threads : t # m.running => n.prior[t] = m.prior[t] /\ n.tick[t] = m.tick[t],
         Own(n, W, A)
  PROVE  /\ Strung(n, x, W, A) /\ Active(n) = Active(m)
         /\ ReadyPriors(n) = ReadyPriors(m)
<1>1. n \in Memory /\ Dispatched(m)
  BY FencedTypes DEF Strung
<1>2. Dispatched(n) /\ Active(n) = Active(m) /\ ReadyPriors(n) = ReadyPriors(m)
  <2>1. \A t \in Threads : IsReady(m, t) => t # m.running
    BY <1>1 DEF Dispatched
  <2> QED
    BY <1>1, <2>1, SameRunnersActive
<1>3. Pending(n, x) = Pending(m, x)
  BY <1>2, HeldActive
<1>4. Hung(n, Pending(m, x))
  <2> DEFINE h == Pending(m, x)
  <2>1. h[m.running] = {}
    BY <1>1 DEF Pending, Active, Dispatched
  <2> HIDE DEF h
  <2>2. Hung(m, h)  BY DEF Strung, h
  <2>3. Hung(n, h)
    BY <1>1, <2>1, <2>2, HungFrame
  <2> QED  BY <2>3 DEF h
<1> QED
  BY <1>2, <1>3, <1>4 DEF Strung

\* f, with another value of t.
With(f, t, v) == [f EXCEPT ![t] = v]

LEMMA setTickStrung ==
  ASSUME NEW m, NEW x, NEW W, NEW A, Strung(m, x, W, A), NEW t, t = m.running, NEW time \in Int,
         NEW n, n = setTick(m, t, time)
  PROVE  /\ Strung(n, x, W, A) /\ Active(n) = Active(m) /\ ReadyPriors(n) = ReadyPriors(m)
         /\ n.running = m.running /\ n.prior = m.prior /\ n.prevTk = m.prevTk
         /\ n.head = m.head /\ n.nextPr = m.nextPr /\ n.prevPr = m.prevPr
         /\ n.tick = With(m.tick, t, time % TickMod)
<1>1. Fenced(m) /\ m \in Memory /\ t \in Threads
  BY FencedTypes DEF Strung, Dispatched
<1>2. /\ Fenced(n) /\ n.running = m.running /\ n.prior = m.prior
      /\ n.tick = With(m.tick, t, time % TickMod)
  BY <1>1, setTickFenced DEF With
<1>3. /\ n.first = m.first /\ n.last = m.last /\ n.head = m.head
      /\ n.nextPr = m.nextPr /\ n.nextTk = m.nextTk
      /\ n.prevPr = m.prevPr /\ n.prevTk = m.prevTk
  BY <1>1 DEF setTick, Memory
<1>4. Own(n, W, A)
  BY <1>2 DEF Own, Strung
<1>5. \A u \in Threads : u # m.running => n.tick[u] = m.tick[u]
  BY <1>1, <1>2 DEF With, Memory
<1> QED
  BY <1>2, <1>3, <1>4, <1>5, WriteStrung

LEMMA PriorStrung ==
  ASSUME NEW x, NEW A, Strung(k, x, {}, A), NEW t, NEW p \in NewPriors, task_setPriority(t, p)
  PROVE  /\ Strung(k', x, {}, A) /\ Active(k') = Active(k) /\ ReadyPriors(k') = ReadyPriors(k)
         /\ k'.running = k.running /\ k'.prevTk = k.prevTk /\ k'.tick = k.tick
         /\ k'.prior[t] = p
<1> DEFINE prior == [k.prior EXCEPT ![t] = p]
<1>1. /\ Fenced(k) /\ k \in Memory /\ t \in Threads \ {Background}
      /\ t = k.running /\ k' = [k EXCEPT !.prior[t] = p]
  BY FencedTypes DEF Strung, task_setPriority, User, Dispatched
<1>2. k' = [k EXCEPT !.prior = prior]
  BY <1>1 DEF Memory
<1>3. Guarded(k') /\ k' \in Memory
  BY <1>1, SetPriorityGuarded DEF Fenced, Guarded, Steady
<1>4. \A u \in Threads : u # t => prior[u] = k.prior[u]
  BY <1>1 DEF Memory
<1>5. prior[t] = p
  BY <1>1 DEF Memory
<1> HIDE DEF prior
<1>6. /\ k'.running = k.running /\ k'.first = k.first /\ k'.last = k.last
      /\ k'.head = k.head /\ k'.nextPr = k.nextPr /\ k'.nextTk = k.nextTk
      /\ k'.prevPr = k.prevPr /\ k'.prevTk = k.prevTk /\ k'.prior = prior /\ k'.tick = k.tick
  BY <1>1, <1>2 DEF Memory
<1>7. Fenced(k')
  BY <1>1, <1>3, <1>6 DEF Fenced
<1>8. Own(k', {}, A)
  BY DEF Own
<1>9. \A u \in Threads : u # k.running => k'.prior[u] = k.prior[u]
  BY <1>1, <1>4, <1>6
<1>10. /\ Strung(k', x, {}, A) /\ Active(k') = Active(k) /\ ReadyPriors(k') = ReadyPriors(k)
  BY ONLY <1>6, <1>7, <1>8, <1>9, Strung(k, x, {}, A), WriteStrung
<1> QED
  BY <1>6, <1>10, <1>5

\* The running thread gives up the processor in the lists of L, or in none.
LEMMA LeaveStrung ==
  ASSUME NEW m, NEW x, NEW W, NEW A, Strung(m, x, W, A), NEW t, t = m.running, t # Background,
         NEW L, L \subseteq Lists, NEW X, NEW q, Fenced(q), SameQueues(m, q, X), X \cap Active(m) \subseteq {t},
         Hung(q, With(Pending(m, x), t, L)),
         NEW n, n = jump(q)
  PROVE  /\ Strung(n, With(x, t, L), W, A) /\ Active(n) = Active(m) \ {t} /\ Highest(n)
         /\ n.prior = m.prior /\ n.tick = m.tick /\ n.prevTk = q.prevTk
<1> USE DEF With
<1> DEFINE y == With(x, t, L)
<1>1. /\ Dispatched(m) /\ t \in Threads /\ Active(m) \subseteq A /\ t \in Active(m)
      /\ x \in [Threads -> SUBSET Lists] /\ q \in Memory /\ Own(m, W, A)
      /\ q.running = m.running /\ q.prior = m.prior /\ q.tick = m.tick
  BY FencedTypes DEF Strung, Dispatched, Active, SameQueues, SameRunners
<1>2. Dispatched(q) /\ Active(q) = Active(m)
  <2>1. \A u \in Threads : IsReady(m, u) => u # t /\ u \in Active(m)
    BY <1>1 DEF Dispatched, Active
  <2>2. \A u \in Threads : IsReady(m, u) => q.nextPr[u] = m.nextPr[u] /\ q.prior[u] = m.prior[u]
    BY <1>1, <2>1 DEF SameQueues
  <2> QED
    BY <1>1, <2>2, SameRunnersActive DEF SameQueues, SameRunners
<1>3. y \in [Threads -> SUBSET Lists] /\ y[t] = L /\ \A u \in Threads : y[u] # {} => u \in A
  BY <1>1 DEF Strung
<1>4. Pending(q, y) = Pending(m, x)
  BY <1>1, <1>2 DEF Pending
<1> HIDE DEF y
<1>5. Hung(q, [Pending(q, y) EXCEPT ![q.running] = y[q.running]])
  BY <1>1, <1>3, <1>4
<1>6. Own(q, W, A)
  BY <1>1 DEF Own
<1>7. q.running # Background /\ Active(q) \subseteq A
  BY <1>1, <1>2
<1>8. Strung(n, y, W, A) /\ SameElsewhere(q, n) /\ Active(n) = Active(q) \ {q.running} /\ Highest(n)
  BY ONLY <1>2, <1>3, <1>5, <1>6, <1>7, Fenced(q), n = jump(q), BlockStrung
<1> QED
  BY <1>1, <1>2, <1>8 DEF SameElsewhere, y

\* Who waits in a list is not active.
LEMMA HeldOn ==
  ASSUME NEW m, NEW x, NEW W, NEW A, Strung(m, x, W, A), NEW l \in Lists
  PROVE  /\ On(m, l) = {u \in Threads : u \notin Active(m) /\ l \in x[u]}
         /\ On(m, l) \cap Active(m) = {}
<1>1. On(m, l) = {u \in Threads : l \in Pending(m, x)[u]}
  BY DEF Strung, Hung
<1> QED
  BY <1>1 DEF Pending

LEMMA WaitPriorStrung ==
  ASSUME NEW m, NEW x, NEW W, NEW A, Strung(m, x, W, A), NEW t, t = m.running, t # Background,
         t \in W, NEW l \in PriorLists, Single(Pending(m, x), l),
         NEW n, n = waitInPriorList(m, l)
  PROVE  /\ Strung(n, With(x, t, {l}), W, A) /\ Active(n) = Active(m) \ {t} /\ Highest(n)
         /\ n.prior = m.prior /\ n.tick = m.tick /\ n.prevTk = m.prevTk
<1> DEFINE h == Pending(m, x)
           q == priorList_put(m, l, t)
<1>1. /\ Fenced(m) /\ Hung(m, h) /\ t \in Threads \ {Background} /\ t \in Active(m)
      /\ m.nextPr[t] = NULL /\ l \in Lists
  BY FencedTypes DEF Strung, Active, Lists
<1>2. h[t] = {}
  BY <1>1 DEF Pending
<1>3. n = jump(q)
  BY DEF waitInPriorList
<1>4. Fenced(q)
  BY <1>1, priorListPutFenced
<1> HIDE DEF h
<1>5. /\ Hung(q, [h EXCEPT ![t] = {l}]) /\ SameQueues(m, q, On(m, l) \cup {t})
      /\ PutBacks(m, q, l, t)
  BY <1>1, <1>2, priorListPutHung DEF h
<1> HIDE DEF q
<1>6. (On(m, l) \cup {t}) \cap Active(m) \subseteq {t} /\ {l} \subseteq Lists
  BY <1>1, HeldOn
<1>7. Hung(q, With(Pending(m, x), t, {l}))
  BY <1>5 DEF h, With
<1>8. /\ Strung(n, With(x, t, {l}), W, A) /\ Active(n) = Active(m) \ {t} /\ Highest(n)
      /\ n.prior = m.prior /\ n.tick = m.tick /\ n.prevTk = q.prevTk
  <2> DEFINE X == On(m, l) \cup {t}
             L == {l}
  <2>1. SameQueues(m, q, X) /\ X \cap Active(m) \subseteq {t} /\ L \subseteq Lists
    BY <1>5, <1>6
  <2>2. Hung(q, With(Pending(m, x), t, L))
    BY <1>7
  <2> HIDE DEF X, L
  <2>3. /\ Strung(n, With(x, t, L), W, A) /\ Active(n) = Active(m) \ {t} /\ Highest(n)
        /\ n.prior = m.prior /\ n.tick = m.tick /\ n.prevTk = q.prevTk
    BY ONLY <1>3, <1>4, <2>1, <2>2, Strung(m, x, W, A), t = m.running, t # Background, LeaveStrung, SMTT(60)
  <2> QED
    BY <2>3 DEF L
<1> QED
  BY <1>5, <1>8 DEF PutBacks

\* The running thread t gave up the processor.
Left(m, n, t) ==
  /\ Active(n) = Active(m) \ {t} /\ Highest(n) /\ n.prior = m.prior
  /\ \A u \in Active(m) \ {t} : n.prevTk[u] = m.prevTk[u]

LEMMA WaitTickStrung ==
  ASSUME NEW m, NEW x, NEW W, NEW A, Strung(m, x, W, A), NEW t, t = m.running, t # Background,
         NEW l \in TickLists, Single(Pending(m, x), l), NEW time \in Int,
         NEW d \in [Threads -> Int], Near => Spaced(setTick(m, t, time), On(m, l) \cup {t}, d),
         NEW n, n = jump(tickList_put(setTick(m, t, time), l, t))
  PROVE  /\ Strung(n, With(x, t, {l}), W, A) /\ Left(m, n, t)
         /\ n.tick = With(m.tick, t, time % TickMod)
<1> DEFINE s == setTick(m, t, time)
           h == Pending(s, x)
           q == tickList_put(s, l, t)
<1>1. t \in Threads \ {Background} /\ l \in Lists
  BY FencedTypes DEF Strung, Lists
<1>2. /\ Strung(s, x, W, A) /\ Active(s) = Active(m) /\ s.running = t /\ s.prior = m.prior
      /\ s.prevTk = m.prevTk /\ s.tick = With(m.tick, t, time % TickMod)
  BY <1>1, setTickStrung
<1>3. Near => Spaced(s, On(s, l) \cup {t}, d)
  <2>1. On(s, l) = On(m, l)
    BY DEF setTick, On, Links, TkLinks
  <2> QED
    BY <2>1
<1>4. n = jump(q)
  OBVIOUS
<1>5. Single(h, l)
  BY <1>2, HeldActive
<1> HIDE DEF s
<1>6. Fenced(s) /\ Hung(s, h) /\ t \in Active(s)
  BY <1>1, <1>2 DEF Strung, Active
<1>7. h[t] = {}
  BY <1>1, <1>6 DEF Pending
<1>8. Fenced(q)
  BY <1>1, <1>6, tickListPutFenced
<1> HIDE DEF h
<1>9. /\ Hung(q, [h EXCEPT ![t] = h[t] \cup {l}]) /\ SameQueues(s, q, On(s, l) \cup {t})
      /\ SameBacks(s, q, t)
  BY <1>1, <1>5, <1>6, <1>7, <1>3, tickListPutHung
<1> HIDE DEF q
<1>10. h[t] \cup {l} = {l} /\ {l} \subseteq Lists
  BY <1>1, <1>7
<1>11. (On(s, l) \cup {t}) \cap Active(s) \subseteq {t}
  BY <1>1, <1>2, HeldOn
<1>12. Hung(q, With(Pending(s, x), t, {l}))
  BY <1>9, <1>10 DEF h, With
<1>13. /\ Strung(n, With(x, t, {l}), W, A) /\ Active(n) = Active(s) \ {t} /\ Highest(n)
       /\ n.prior = s.prior /\ n.tick = s.tick /\ n.prevTk = q.prevTk
  <2> DEFINE X == On(s, l) \cup {t}
             L == {l}
  <2>1. t = s.running
    BY <1>2
  <2>2. Strung(s, x, W, A) /\ SameQueues(s, q, X) /\ X \cap Active(s) \subseteq {t} /\ L \subseteq Lists
    BY <1>2, <1>9, <1>10, <1>11
  <2>3. Hung(q, With(Pending(s, x), t, L))
    BY <1>12
  <2> HIDE DEF X, L
  <2>4. /\ Strung(n, With(x, t, L), W, A) /\ Active(n) = Active(s) \ {t} /\ Highest(n)
        /\ n.prior = s.prior /\ n.tick = s.tick /\ n.prevTk = q.prevTk
    BY ONLY <1>4, <1>8, <2>1, <2>2, <2>3, t # Background, LeaveStrung, SMTT(60)
  <2> QED
    BY <2>4 DEF L
<1>14. Active(m) \subseteq Threads
  BY DEF Active
<1> QED
  BY <1>2, <1>9, <1>13, <1>14 DEF SameBacks, Left

LEMMA PutAlone ==
  ASSUME NEW m, NEW h, Fenced(m), Hung(m, h), NEW l \in PriorLists,
         NEW th \in Threads \ {Background}, h[th] = {}, m.nextPr[th] = NULL,
         \A u \in Threads : l \notin h[u], m.head[l] = NULL, ~ BasicMode,
         NEW n, n = priorList_put(m, l, th)
  PROVE  /\ Hung(n, With(h, th, {l})) /\ SameQueues(m, n, On(m, l) \cup {th})
         /\ n.prevTk = m.prevTk /\ n.prevPr[th] = HeadOf(l)
<1> DEFINE g == [h EXCEPT ![th] = {l}]
<1>1. g = [h EXCEPT ![th] = {l}] /\ g = With(h, th, {l})
  BY DEF With
<1>2. Single(h, l)
  BY DEF Single
<1> HIDE DEF g
<1>3. Hung(n, g)
  BY <1>1, <1>2, priorListPutHung
<1>4. SameQueues(m, n, On(m, l) \cup {th})
  BY <1>1, <1>2, priorListPutHung
<1>5. PutBacks(m, n, l, th)
  BY <1>1, <1>2, priorListPutHung
<1> QED
  BY <1>1, <1>3, <1>4, <1>5 DEF PutBacks

\* Nobody is in e or l.
Nobody(h, e, l) == \A u \in Threads : e \notin h[u] /\ l \notin h[u]

LEMMA WaitBothStrung ==
  ASSUME NEW m, NEW x, NEW W, NEW A, Strung(m, x, W, A), NEW t, t = m.running, t # Background,
         t \in W, NEW e \in PriorLists, NEW l \in TickLists, ~ BasicMode,
         Nobody(Pending(m, x), e, l),
         NEW n, n = jump(tickList_put(priorList_put(m, e, t), l, t))
  PROVE  Strung(n, With(x, t, {e, l}), W, A) /\ Left(m, n, t) /\ n.tick = m.tick
<1> DEFINE h == Pending(m, x)
           g == [h EXCEPT ![t] = {e}]
           q == priorList_put(m, e, t)
           r == tickList_put(q, l, t)
<1>1. /\ Fenced(m) /\ Hung(m, h) /\ t \in Threads \ {Background} /\ t \in Active(m)
      /\ m.nextPr[t] = NULL /\ e \in Lists /\ l \in Lists /\ e # l
  BY FencedTypes, ListAssumption DEF Strung, Active, Lists
<1>2. h[t] = {} /\ Single(h, e)
  BY <1>1 DEF Pending, Single, Nobody
<1>3. n = jump(r)
  OBVIOUS
<1>4. Fenced(q) /\ SameRunners(m, q)
  BY <1>1, priorListPutFenced
<1>5. h \in [Threads -> SUBSET Lists] /\ \A u \in Threads : e \notin h[u] /\ l \notin h[u]
  BY <1>1 DEF Hung, Nobody
<1>6. On(m, e) = {} /\ On(m, l) = {} /\ m.head[e] = NULL
  <2>1. On(m, e) = {} /\ On(m, l) = {}
    BY <1>1, <1>5 DEF Hung
  <2>2. m.head[e] # NULL => m.head[e] \in On(m, e)
    BY <1>1, FencedTypes, ChainStart DEF On, Others, Pointer
  <2> QED
    BY <2>1, <2>2
<1> HIDE DEF h
<1>7. /\ Hung(q, g) /\ SameQueues(m, q, On(m, e) \cup {t})
      /\ q.prevTk = m.prevTk /\ q.prevPr[t] = HeadOf(e)
  <2>1. g = With(h, t, {e})
    BY DEF With
  <2> HIDE DEF q, g
  <2>2. q = priorList_put(m, e, t)
    BY DEF q
  <2> QED
    BY ONLY <1>1, <1>2, <1>5, <1>6, <2>1, <2>2, ~ BasicMode, e \in PriorLists, PutAlone
<1> HIDE DEF q
<1>8. g[t] = {e} /\ \A u \in Threads \ {t} : e \notin g[u] /\ l \notin g[u]
  BY <1>1, <1>5
<1>9. Single(g, l)
  BY <1>1, <1>8 DEF Single
<1>10. [g EXCEPT ![t] = g[t] \cup {l}] = [h EXCEPT ![t] = {e, l}]
  BY <1>1, <1>5, <1>8
<1> HIDE DEF g
<1>11. /\ Hung(r, [g EXCEPT ![t] = g[t] \cup {l}])
       /\ SameQueues(q, r, On(q, l) \cup {t}) /\ SameBacks(q, r, t)
  <2>1. On(q, l) = {} /\ q \in Memory
    BY <1>1, <1>7, <1>8 DEF Hung
  <2>2. \E d \in [Threads -> Int] : Spaced(q, On(q, l) \cup {t}, d)
    BY <1>1, <2>1, SpacedAlone
  <2> QED
    BY <1>1, <1>4, <1>7, <1>8, <1>9, <2>2, tickListPutHung
<1>12. Fenced(r)
  BY <1>1, <1>4, tickListPutFenced
<1> HIDE DEF r
<1>13. On(q, l) = {}
  BY <1>1, <1>7, <1>8 DEF Hung
<1>14. SameQueues(m, r, {t})
  BY <1>6, <1>7, <1>11, <1>13, SameRunnersTrans DEF SameQueues
<1>15. Hung(r, With(Pending(m, x), t, {e, l}))
  BY <1>10, <1>11 DEF h, With
<1>16. {t} \cap Active(m) \subseteq {t} /\ {e, l} \subseteq Lists
  BY <1>1
<1>17. /\ Strung(n, With(x, t, {e, l}), W, A) /\ Active(n) = Active(m) \ {t} /\ Highest(n)
       /\ n.prior = m.prior /\ n.tick = m.tick /\ n.prevTk = r.prevTk
  <2> DEFINE L == {e, l}
             X == {t}
  <2>1. /\ L \subseteq Lists /\ X \cap Active(m) \subseteq {t} /\ SameQueues(m, r, X)
        /\ Hung(r, With(Pending(m, x), t, L))
    BY <1>14, <1>15, <1>16
  <2>2. /\ Strung(n, With(x, t, L), W, A) /\ Active(n) = Active(m) \ {t} /\ Highest(n)
        /\ n.prior = m.prior /\ n.tick = m.tick /\ n.prevTk = r.prevTk
    <3> HIDE DEF L, X
    <3> QED
      BY ONLY <1>3, <1>12, <2>1, Strung(m, x, W, A), t = m.running, t # Background, LeaveStrung
  <2> QED
    BY <2>2
<1>18. Active(m) \subseteq Threads
  BY DEF Active
<1> QED
  BY <1>7, <1>11, <1>17, <1>18 DEF SameBacks, Left

\* A thread that is in no list is written anew.
LEMMA InitHung ==
  ASSUME NEW m, NEW h, Hung(m, h), NEW th \in Threads, h[th] = {}, NEW n, n \in Memory,
         n.head = m.head,
         n.prevPr = [m.prevPr EXCEPT ![th] = NULL], n.prevTk = [m.prevTk EXCEPT ![th] = NULL],
         \A j \in Threads \ {th} : n.nextPr[j] = m.nextPr[j] /\ n.nextTk[j] = m.nextTk[j],
         \A j \in Threads \ {th} : n.prior[j] = m.prior[j] /\ n.tick[j] = m.tick[j]
  PROVE  Hung(n, h)
<1>1. ASSUME NEW l \in Lists
      PROVE  /\ On(n, l) = On(m, l) /\ Terminates(Links(n, l), n.head[l])
             /\ InOrder(n, l)
  <2>1. /\ Links(m, l) \in [Threads -> Pointer] /\ Links(n, l) \in [Threads -> Pointer]
        /\ m.head[l] \in Pointer
    BY LinksTypes DEF Hung
  <2>2. \A j \in On(m, l) : j \in Threads /\ h[j] # {}
    BY DEF Hung
  <2>3. \A j \in On(m, l) : /\ Links(n, l)[j] = Links(m, l)[j]
                            /\ n.prior[j] = m.prior[j] /\ n.tick[j] = m.tick[j]
    BY <2>2 DEF Links, TkLinks
  <2>4. m \in Memory /\ Terminates(Links(m, l), m.head[l]) /\ InOrder(m, l)
    BY DEF Hung
  <2>5. On(n, l) = On(m, l) /\ Terminates(Links(n, l), n.head[l])
    BY <2>1, <2>3, <2>4, EndsFrame DEF On
  <2> QED
    BY <2>3, <2>4, <2>5, OrderFrame
<1>2. \A t \in Threads : HangsBy(n, h, t)
  <2> SUFFICES ASSUME NEW t \in Threads PROVE HangsBy(n, h, t)
    OBVIOUS
  <2>1. HangsBy(m, h, t) /\ m \in Memory
    BY DEF Hung
  <2>2. /\ n.prevPr[t] = IF t = th THEN NULL ELSE m.prevPr[t]
        /\ n.prevTk[t] = IF t = th THEN NULL ELSE m.prevTk[t]
    BY <2>1 DEF Memory
  <2> QED
    BY <2>1, <2>2 DEF HangsBy
<1> QED
  BY <1>1, <1>2 DEF Hung

\* A thread is added: new, then ready.
LEMMA StartStrung ==
  ASSUME NEW x, NEW W, NEW A, Strung(k, x, W, A), NEW th \in Threads \ {Background}, th \notin A,
         W \subseteq A, NEW V, V \subseteq {th},
         \A t \in W : k.prior[t] # Prior[th],
         V # {} => \A t \in A : k.prior[t] # Prior[th],
         NEW Y, Y = W \cup V, NEW B, B = A \cup {th},
         NEW n, n = threadQueueArray_put(thread_init(k, th, Prior[th]), th)
  PROVE  /\ Strung(n, x, Y, B) /\ Active(n) = Active(k) \cup {th}
         /\ n.running = k.running /\ n.prior = With(k.prior, th, Prior[th])
         /\ n.tick = With(k.tick, th, 0)
         /\ \A t \in Active(k) : n.prevTk[t] = k.prevTk[t]
<1> DEFINE m == thread_init(k, th, Prior[th])
           h == Pending(k, x)
<1>1. /\ Fenced(k) /\ k \in Memory /\ Dispatched(k) /\ Hung(k, h) /\ Own(k, W, A)
      /\ x \in [Threads -> SUBSET Lists] /\ x[th] = {} /\ th \notin Active(k)
      /\ Active(k) \subseteq A /\ Active(k) \subseteq Threads /\ k.running \in Active(k)
  BY FencedTypes DEF Strung, Dispatched, Active
<1>2. /\ Fenced(m) /\ m \in Memory /\ m.tick = [k.tick EXCEPT ![th] = 0]
      /\ m.running = k.running
  BY <1>1, initFenced, FencedTypes
<1>3. /\ m.first = k.first /\ m.last = k.last /\ m.head = k.head
      /\ m.prior = [k.prior EXCEPT ![th] = Prior[th]]
      /\ m.nextPr = [k.nextPr EXCEPT ![th] = NULL] /\ m.nextTk = [k.nextTk EXCEPT ![th] = NULL]
      /\ m.prevPr = [k.prevPr EXCEPT ![th] = NULL] /\ m.prevTk = [k.prevTk EXCEPT ![th] = NULL]
  BY <1>1 DEF thread_init, Memory
<1>4. n = threadQueueArray_put(m, th)
  OBVIOUS
<1> HIDE DEF m
<1>5. \A t \in Threads \ {th} : /\ m.nextPr[t] = k.nextPr[t] /\ m.nextTk[t] = k.nextTk[t]
                                /\ m.prior[t] = k.prior[t] /\ m.prevTk[t] = k.prevTk[t]
                                /\ m.tick[t] = k.tick[t]
  BY <1>1, <1>2, <1>3 DEF Memory
<1>6. m.prior[th] = Prior[th]
  BY <1>1, <1>3 DEF Memory
<1>7. Dispatched(m) /\ Active(m) = Active(k)
  <2>1. \A t \in Threads : IsReady(k, t) => t # th
    BY <1>1 DEF Active
  <2> QED
    <3>1. \A t \in Threads : IsReady(k, t) => m.nextPr[t] = k.nextPr[t] /\ m.prior[t] = k.prior[t]
      BY <1>5, <2>1
    <3>2. m.first = k.first /\ m.last = k.last
      BY <1>3
    <3> QED
      BY ONLY <1>1, <1>2, <3>1, <3>2, SameRunnersActive
<1>8. Hung(m, Pending(m, x))
  <2>1. h[th] = {}
    BY <1>1 DEF Pending
  <2> HIDE DEF h
  <2>2. Hung(m, h)
    <3>1. \A j \in Threads \ {th} : /\ m.nextPr[j] = k.nextPr[j] /\ m.nextTk[j] = k.nextTk[j]
                                    /\ m.prior[j] = k.prior[j] /\ m.tick[j] = k.tick[j]
      BY <1>5
    <3>2. /\ m.head = k.head /\ m.prevPr = [k.prevPr EXCEPT ![th] = NULL]
          /\ m.prevTk = [k.prevTk EXCEPT ![th] = NULL]
      BY <1>3
    <3>3. th \in Threads /\ Hung(k, h) /\ m \in Memory
      BY <1>1, <1>2 DEF h
    <3> QED
      BY ONLY <2>1, <3>1, <3>2, <3>3, InitHung
  <2> QED
    BY <1>7, <2>2, HeldActive DEF h
<1>9. Own(m, Y, B)
  <2> SUFFICES ASSUME NEW t \in Y, NEW u \in B \ {t} PROVE m.prior[u] # m.prior[t]
    BY DEF Own
  <2>1. A \subseteq Threads \/ \A v \in W : \A a \in A \ {v} : k.prior[a] # k.prior[v]
    BY <1>1 DEF Own
  <2>2. ASSUME NEW v \in A PROVE v # th /\ m.prior[v] = k.prior[v]
    BY <1>1, <1>3, <2>2 DEF Memory
  <2>3. CASE t = th
    BY <1>6, <2>2, <2>3
  <2>4. CASE t # th
    <3>1. t \in W /\ t \in A
      BY <2>4
    <3>2. CASE u = th
      BY <1>6, <2>2, <3>1, <3>2
    <3>3. CASE u # th
      BY <1>1, <2>2, <3>1, <3>3 DEF Own
    <3> QED  BY <3>2, <3>3
  <2> QED  BY <2>3, <2>4
<1>10. Strung(m, x, Y, B)
  <2>1. Active(m) \subseteq B /\ \A t \in Threads : x[t] # {} => t \in B
    BY <1>1, <1>7 DEF Strung
  <2>2. m.running \in Y => m.nextPr[m.running] = NULL
    <3>1. k.running # th /\ k.running \in Threads
      BY <1>1
    <3> QED
      BY <1>2, <1>5, <3>1 DEF Strung
  <2> QED
    BY <1>1, <1>2, <1>7, <1>8, <1>9, <2>1, <2>2 DEF Strung
<1>11. /\ Strung(n, x, Y, B) /\ Active(n) = Active(m) \cup {th} /\ n.running = m.running
       /\ n.prior = m.prior /\ n.tick = m.tick /\ n.prevTk = m.prevTk
  <2>1. SameQueues(m, m, {}) /\ {} \cap Active(m) = {} /\ th \in B /\ th \notin Active(m)
    BY <1>1, <1>7 DEF SameQueues, SameRunners
  <2>2. [Pending(m, x) EXCEPT ![th] = {}] = Pending(m, x)
    BY <1>1, <1>7 DEF Pending
  <2>3. Hung(m, [Pending(m, x) EXCEPT ![th] = {}])
    BY <1>8, <2>2
  <2> QED
    BY ONLY <1>2, <1>4, <1>10, <2>1, <2>3, th \in Threads \ {Background}, WakeStrung
<1> QED
  BY <1>1, <1>2, <1>3, <1>5, <1>7, <1>11 DEF With

\* A thread is taken out of a tick list, and resumed.
LEMMA AbortStrung ==
  ASSUME NEW m, NEW x, NEW W, NEW A, Strung(m, x, W, A), NEW l \in TickLists, NEW th,
         threadList_has(m, l, th), x[th] = {l},
         NEW q, q = threadList_remove(m, l, th), NEW n, n = resume(q, th)
  PROVE  /\ Strung(n, x, W, A) /\ Active(n) = Active(m) \cup {th}
         /\ th \in Threads /\ th \notin Active(m)
         /\ n.prior = m.prior /\ n.tick = m.tick /\ Ordered(m, n)
         /\ \A t \in Threads \ {th} : n.prevTk[t] = m.prevTk[t]
<1> DEFINE h == Pending(m, x)
<1>1. Fenced(m) /\ Hung(m, h) /\ l \in Lists
  BY DEF Strung, Lists
<1>2. th \in Threads /\ th \notin Active(m) /\ th \in A /\ h[th] = {l}
  <2>1. th \in On(m, l)
    BY ListAssumption DEF threadList_has, On, Links
  <2>2. th \in Threads /\ th \notin Active(m)
    BY <1>1, <2>1, HeldOn
  <2> QED
    BY <2>2 DEF Pending, Strung
<1>3. Fenced(q)
  BY <1>1, threadListRemoveFenced
<1> HIDE DEF h
<1>4. /\ Hung(q, [h EXCEPT ![th] = {}]) /\ SameQueues(m, q, On(m, l)) /\ SameBacks(m, q, th)
  BY <1>1, <1>2, threadListRemoveHung
<1>5. On(m, l) \cap Active(m) = {}
  BY <1>1, HeldOn
<1>6. Hung(q, [Pending(m, x) EXCEPT ![th] = {}])
  BY <1>4 DEF h
<1>7. /\ Strung(n, x, W, A) /\ Active(n) = Active(m) \cup {th}
      /\ n.prior = m.prior /\ n.tick = m.tick /\ n.prevTk = q.prevTk
      /\ Ordered(m, n)
  <2> DEFINE X == On(m, l)
  <2>1. SameQueues(m, q, X) /\ X \cap Active(m) = {}
    BY <1>4, <1>5
  <2> HIDE DEF X
  <2> QED
    BY ONLY <1>2, <1>3, <1>6, <2>1, Strung(m, x, W, A), n = resume(q, th), ResumeStrung, SMTT(60)
<1> QED
  BY <1>2, <1>4, <1>7 DEF SameBacks

-----------------------------------------------------------------------------
(* The calls, on the lists.  The uses U of the lists are the pairs of a thread *)
(* and the lists it waits in at once.                                          *)

\* The lists of a point: those a thread waits in that is left there.
In(p) == IF "timer" \in DOMAIN p THEN {p.on, p.timer} ELSE {p.on} \ {NULL}

Waiting == [t \in Threads |-> In(pc[t])]
Added   == {t \in Threads : pc[t].at # "new"}

\* The threads that wait in prior lists.
Ranked(U) == {t \in Threads : \E u \in U : u[1] = t /\ u[2] \cap PriorLists # {}}

\* Who waits with a timeout has both lists for itself; in no other use two lists are
\* used at once.
Alone(U) ==
  \A u \in U :
    \/ \E l \in Lists : u[2] = {l}
    \/ /\ \E e \in PriorLists : \E tm \in TickLists : u[2] = {e, tm}
       /\ ~ BasicMode
       /\ \A v \in U : v[1] # u[1] => u[2] \cap v[2] = {}

\* Who waits in prior lists has its priority for itself, and for good.
Distinct(U) ==
  Ranked(U) # {} =>
    /\ NewPriors = {}
    /\ \A t \in Ranked(U) \ {Background} : \A u \in Threads \ {t, Background} : Prior[u] # Prior[t]

Apart(U) == Alone(U) /\ Distinct(U)

\* A wait ends before the tick counter has gone half way round.
InHalfRange == MaxDelay < TickMod - HalfRound

\* A thread that a timed wait woke was taken out by the event, or its time has come.
Timely ==
  \A t \in Threads :
    "timer" \in DOMAIN pc[t] =>
      IF t \in Active(k)
      THEN k.prevTk[t] = REMOVED \/ due[t] <= now[pc[t].timer]
      ELSE due[t] <= now[pc[t].timer] + MaxDelay

\* Who waits for a timer waits for a time about its counter.
Windowed ==
  \A t \in Threads \ Active(k) : \A tm \in Waiting[t] \cap TickLists : InWindow(due[t], tm)

Knit(U) ==
  /\ Strung(k, Waiting, Ranked(U) \cap Added, Added)
  /\ \A t \in Threads : Waiting[t] = {} \/ <<t, Waiting[t]>> \in U
  /\ \A t \in Threads \ Active(k) : Waiting[t] # {} \/ pc[t].at \in {"suspend", "new"}
  /\ Ranked(U) # {} =>
       \A t \in Added : k.prior[t] = IF t = Background THEN Lowest ELSE Prior[t]
  /\ InHalfRange => Timely
  /\ Near => Windowed

\* The points of a layer, and what its calls wait for.
Seated(P) ==
  /\ Timed(P)
  /\ \A p \in P :
       /\ In(p) \subseteq Lists
       /\ p.at \in Home \cup {"new", "suspend"} => In(p) = {}
       /\ p.at \in {"event_wait", "eventTimer_wait"} \cup TimerLabels => In(p) \subseteq Events \cup TickLists
       /\ p.at \in TimerLabels => In(p) = {p.on}
       /\ "timer" \in DOMAIN p => p.on \in PriorLists /\ p.timer \in TickLists

\* A step does nothing to those that wait for M but to wake them.
Aside(M) ==
  \A t \in Threads :
    In(pc[t]) \cap M # {} \/ In(pc'[t]) \cap M # {} =>
      pc'[t] = pc[t] /\ (t \in Active(k) => t \in Active(k'))

\* Nobody lowers its priority, and no event is notified to all.
Meek == Broadcasts = {} /\ NewPriors \subseteq {0}

Preempts ==
  Meek => IF pc[Background].at = "boot"
          THEN pc'[Background].at = "boot" \/ Highest(k')
          ELSE Ordered(k, k')

\* Nobody but the running thread gives up the processor or its place in a ready queue.
Stays == Active(k) \ {k.running} \subseteq Active(k')

Steps(U, M) == Knit(U)' /\ Aside(M) /\ Preempts /\ Stays

-----------------------------------------------------------------------------
(* Steps that leave everybody running or ready who is. *)

\* A thread that runs or is ready goes to a point where it does not wait.
Passes(P, M) ==
  \/ UNCHANGED pc
  \/ \E t \in Active(k) : \E p \in P :
       /\ pc' = [pc EXCEPT ![t] = p]
       /\ p.at # "new" /\ In(p) = {} /\ In(pc[t]) \cap M = {}
       /\ pc[t].at # "boot" \/ Highest(k')

\* The clocks do not go back, and none goes beyond the time of a thread that goes on
\* waiting for it; who waits has set its time before.
Onward ==
  /\ \A tm \in TickLists : now[tm] <= now'[tm]
  /\ \A t \in Threads : "timer" \in DOMAIN pc[t] \/ t \notin Active(k) => due'[t] = due[t]
  /\ Near => \A tm \in TickLists : now'[tm] # now[tm] =>
       \A t \in Threads \ Active(k') : tm \in Waiting[t] => now'[tm] < due[t]

\* Who is woken from a timed wait was taken out by the event, or its time has come;
\* and the trace that is left of it stays.
Roused ==
  /\ \A t \in Active(k) : k'.prevTk[t] = k.prevTk[t]
  /\ \A t \in Active(k') \ Active(k) :
       "timer" \in DOMAIN pc[t] =>
         k'.prevTk[t] = REMOVED \/ (InHalfRange => due[t] <= now'[pc[t].timer])

LEMMA WaitingParts ==
  ASSUME NEW P, Seated(P), Layer(P), NEW t \in Threads
  PROVE  /\ Waiting[t] = In(pc[t]) /\ Waiting[t] \subseteq Lists /\ pc[t] \in P
         /\ pc[t].at = "new" => Waiting[t] = {}
         /\ "timer" \in DOMAIN pc[t] =>
              /\ Waiting[t] = {pc[t].on, pc[t].timer}
              /\ pc[t].on \in PriorLists /\ pc[t].timer \in TickLists
              /\ \A l : Waiting[t] # {l}
<1>1. Waiting[t] = In(pc[t]) /\ pc[t] \in P
  BY DEF Waiting, Layer
<1>2. "timer" \in DOMAIN pc[t] => pc[t].on # pc[t].timer
  BY <1>1, ListAssumption DEF Seated
<1>3. In(pc[t]) \subseteq Lists /\ (pc[t].at = "new" => In(pc[t]) = {})
  BY <1>1 DEF Seated
<1>4. "timer" \in DOMAIN pc[t] =>
        In(pc[t]) = {pc[t].on, pc[t].timer} /\ pc[t].on \in PriorLists /\ pc[t].timer \in TickLists
  BY <1>1 DEF Seated, In
<1> QED
  BY <1>1, <1>2, <1>3, <1>4

\* Who does not wait where it is active might as well wait for something.
LEMMA StrungSame ==
  ASSUME NEW m, NEW x, NEW W, NEW A, Strung(m, x, W, A),
         NEW y, y \in [Threads -> SUBSET Lists],
         \A t \in Threads \ Active(m) : y[t] = x[t]
  PROVE  Strung(m, y, W, A)
<1>1. Pending(m, x) = Pending(m, y)
  BY HeldSame
<1>2. \A t \in Threads : y[t] # {} => t \in A
  BY DEF Strung
<1> QED
  BY <1>1, <1>2 DEF Strung

LEMMA CalmKnit ==
  ASSUME NEW P, NEW U, NEW M, Seated(P), Layer(P), Layer(P)', Knit(U),
         Strung(k', Waiting, Ranked(U) \cap Added, Added),
         Active(k) \subseteq Active(k'), k'.prior = k.prior \/ Ranked(U) = {},
         Roused, Onward, Passes(P, M)
  PROVE  /\ Knit(U)' /\ Aside(M)
         /\ pc[Background].at = "boot" => pc'[Background].at = "boot" \/ Highest(k')
<1>1. /\ pc \in [Threads -> P] /\ Active(k) \subseteq Threads /\ Active(k) \subseteq Added
  BY DEF Layer, Active, Knit, Strung
<1>2. /\ Added' = Added /\ Waiting' \in [Threads -> SUBSET Lists]
      /\ \A t \in Threads : pc'[t] # pc[t] => t \in Active(k) /\ Waiting'[t] = {}
      /\ \A t \in Threads : pc'[t] = pc[t] => Waiting'[t] = Waiting[t]
  <2>1. pc' \in [Threads -> P] /\ Added' = Added
    BY <1>1 DEF Layer, Passes, Added
  <2>2. Waiting' \in [Threads -> SUBSET Lists]
    BY <2>1 DEF Waiting, Seated
  <2>3. \A t \in Threads : Waiting'[t] = In(pc'[t]) /\ Waiting[t] = In(pc[t])
    BY DEF Waiting
  <2>4. \A t \in Threads : pc'[t] # pc[t] => t \in Active(k) /\ In(pc'[t]) = {}
    BY <1>1 DEF Passes
  <2> QED
    BY <2>1, <2>2, <2>3, <2>4
<1>3. Strung(k', Waiting', Ranked(U) \cap Added', Added')
  <2>1. \A t \in Threads \ Active(k') : Waiting'[t] = Waiting[t]
    BY <1>2
  <2> QED
    BY <1>2, <2>1, StrungSame
<1>4. /\ \A t \in Threads : Waiting'[t] = {} \/ <<t, Waiting'[t]>> \in U
      /\ \A t \in Threads \ Active(k') : Waiting'[t] # {} \/ pc'[t].at \in {"suspend", "new"}
  BY <1>2 DEF Knit
<1>5. Ranked(U) # {} => \A t \in Added' : k'.prior[t] = IF t = Background THEN Lowest ELSE Prior[t]
  BY <1>2 DEF Knit
<1>6. InHalfRange => Timely'
  <2> SUFFICES ASSUME InHalfRange, NEW t \in Threads, "timer" \in DOMAIN pc'[t]
               PROVE  IF t \in Active(k')
                      THEN k'.prevTk[t] = REMOVED \/ due'[t] <= now'[pc'[t].timer]
                      ELSE due'[t] <= now'[pc'[t].timer] + MaxDelay
    BY DEF Timely
  <2>1. pc'[t] = pc[t] /\ due'[t] = due[t] /\ pc[t].timer \in TickLists
    <3>1. pc'[t] = pc[t]
      BY <1>1 DEF Passes, In
    <3> QED
      BY <3>1, WaitingParts DEF Onward
  <2>2. /\ now[pc[t].timer] \in Int /\ now'[pc[t].timer] \in Int
        /\ now[pc[t].timer] <= now'[pc[t].timer] /\ due[t] \in Int /\ MaxDelay \in Int
    <3>1. due[t] \in Times /\ now[pc[t].timer] \in 0 .. MaxTicks /\ now'[pc[t].timer] \in 0 .. MaxTicks
      BY <2>1 DEF Layer
    <3>2. due[t] \in Int
      BY <3>1, TimesAreIntegers
    <3>3. now[pc[t].timer] <= now'[pc[t].timer]
      BY <2>1 DEF Onward
    <3>4. MaxDelay \in Int /\ 0 .. MaxTicks \subseteq Int
      BY TimerAssumption
    <3> QED
      BY <3>1, <3>2, <3>3, <3>4
  <2>3. IF t \in Active(k) THEN k.prevTk[t] = REMOVED \/ due[t] <= now[pc[t].timer]
        ELSE due[t] <= now[pc[t].timer] + MaxDelay
    BY <2>1 DEF Knit, Timely
  <2> QED
    BY <2>1, <2>2, <2>3 DEF Roused
<1>7. Near => Windowed'
  <2> SUFFICES ASSUME Near, NEW t \in Threads \ Active(k'), NEW tm \in Waiting'[t] \cap TickLists
               PROVE  InWindow(due[t], tm)' /\ due'[t] \in Int
    BY DEF Windowed
  <2>1. /\ t \notin Active(k) /\ tm \in Waiting[t] /\ due'[t] = due[t]
        /\ now'[tm] = now[tm] \/ now'[tm] < due[t]
    BY <1>2 DEF Onward
  <2>2. due[t] \in now[tm] - MaxLate .. now[tm] + MaxDelay
    BY <2>1 DEF Knit, Windowed, InWindow
  <2>3. now[tm] \in Nat /\ now'[tm] \in Nat /\ now[tm] <= now'[tm]
    BY TimerAssumption DEF Layer, Onward
  <2>4. due[t] \in now'[tm] - MaxLate .. now'[tm] + MaxDelay
    BY ONLY <2>1, <2>2, <2>3, TimerAssumption
  <2> QED
    BY <2>1, <2>4 DEF InWindow
<1>8. Knit(U)'
  BY <1>3, <1>4, <1>5, <1>6, <1>7 DEF Knit
<1>9. Aside(M)
  <2>1. \A t \in Threads : pc'[t] # pc[t] => In(pc[t]) \cap M = {} /\ In(pc'[t]) = {}
    BY <1>1 DEF Passes
  <2> QED
    BY <2>1 DEF Aside
<1>10. pc[Background].at = "boot" => pc'[Background].at = "boot" \/ Highest(k')
  BY <1>1, KernelAssumption DEF Passes
<1> QED
  BY <1>8, <1>9, <1>10

LEMMA CalmStep ==
  ASSUME NEW P, NEW U, NEW M, Seated(P), Layer(P), Layer(P)', Knit(U),
         Strung(k', Waiting, Ranked(U) \cap Added, Added),
         Active(k) \subseteq Active(k'), k'.prior = k.prior \/ Ranked(U) = {},
         Roused, Onward, Passes(P, M), Meek => Ordered(k, k')
  PROVE  Steps(U, M)
BY CalmKnit DEF Steps, Preempts, Stays

-----------------------------------------------------------------------------
(* Steps in which a thread blocks, and the start of one. *)

\* A step in which t goes to the point p, and gives up the processor.
Blocks(U, M, t, p) ==
  /\ Knit(U)' /\ Preempts /\ Active(k') = Active(k) \ {t}
  /\ (In(pc[t]) \cup In(p)) \cap M = {} => Aside(M)

LEMMA BlockStep ==
  ASSUME NEW P, NEW U, NEW M, Seated(P), Layer(P), Layer(P)', Knit(U),
         NEW t, t = k.running, t # Background,
         NEW p \in P, p.at # "new", pc' = [pc EXCEPT ![t] = p],
         Strung(k', With(Waiting, t, In(p)), Ranked(U) \cap Added, Added),
         Active(k') = Active(k) \ {t}, Highest(k'), k'.prior = k.prior,
         \A u \in Active(k) \ {t} : k'.prevTk[u] = k.prevTk[u],
         IF In(p) = {} THEN p.at = "suspend" ELSE <<t, In(p)>> \in U,
         UNCHANGED now, \A u \in Threads \ {t} : due'[u] = due[u],
         \A tm \in In(p) \cap TickLists : InWindow(due'[t], tm)
  PROVE  Blocks(U, M, t, p)
<1>1. /\ pc \in [Threads -> P] /\ Active(k) \subseteq Threads /\ Active(k) \subseteq Added
      /\ t \in Active(k) /\ t \in Threads /\ pc[t].at # "new"
  <2>1. k.running \in Threads /\ Active(k) \subseteq Added
    BY DEF Knit, Strung, Dispatched
  <2> QED
    BY <2>1 DEF Layer, Active, Added
<1>2. /\ Added' = Added /\ Waiting' = With(Waiting, t, In(p))
      /\ pc'[t] = p /\ Waiting'[t] = In(p)
      /\ \A u \in Threads \ {t} : pc'[u] = pc[u] /\ Waiting'[u] = Waiting[u]
  BY <1>1 DEF Waiting, Added, With
<1>3. Strung(k', Waiting', Ranked(U) \cap Added', Added')
  BY <1>2
<1>4. /\ \A u \in Threads : Waiting'[u] = {} \/ <<u, Waiting'[u]>> \in U
      /\ \A u \in Threads \ Active(k') : Waiting'[u] # {} \/ pc'[u].at \in {"suspend", "new"}
  BY <1>1, <1>2 DEF Knit
<1>5. Ranked(U) # {} => \A u \in Added' : k'.prior[u] = IF u = Background THEN Lowest ELSE Prior[u]
  BY <1>2 DEF Knit
<1>6. InHalfRange => Timely'
  <2> SUFFICES ASSUME InHalfRange, NEW u \in Threads, "timer" \in DOMAIN pc'[u]
               PROVE  IF u \in Active(k')
                      THEN k'.prevTk[u] = REMOVED \/ due'[u] <= now'[pc'[u].timer]
                      ELSE due'[u] <= now'[pc'[u].timer] + MaxDelay
    BY DEF Timely
  <2>1. CASE u = t
    <3>1. p.timer \in In(p) \cap TickLists
      BY <1>2, <2>1 DEF In, Seated
    <3> QED
      BY <1>2, <2>1, <3>1 DEF InWindow
  <2>2. CASE u # t
    BY <1>2, <2>2 DEF Knit, Timely
  <2> QED
    BY <2>1, <2>2
<1>7. Near => Windowed'
  <2> SUFFICES ASSUME Near, NEW u \in Threads \ Active(k'), NEW tm \in Waiting'[u] \cap TickLists
               PROVE  InWindow(due'[u], tm)
    BY DEF Windowed, InWindow
  <2>1. CASE u = t
    BY <1>2, <2>1
  <2>2. CASE u # t
    BY <1>2, <2>2 DEF Knit, Windowed
  <2> QED
    BY <2>1, <2>2
<1>8. Knit(U)'
  BY <1>3, <1>4, <1>5, <1>6, <1>7 DEF Knit
<1>9. (In(pc[t]) \cup In(p)) \cap M = {} => Aside(M)
  BY <1>1, <1>2 DEF Aside
<1> QED
  BY <1>8, <1>9 DEF Preempts, Ordered, Blocks

\* A thread that is added is ready, and waits for nothing.
LEMMA AddStep ==
  ASSUME NEW P, NEW U, NEW M, Seated(P), Layer(P), Layer(P)', Knit(U), Distinct(U),
         NEW th \in Threads, scheduler_add(th), UNCHANGED <<now, due>>
  PROVE  Steps(U, M)
<1> DEFINE W == Ranked(U) \cap Added
           V == Ranked(U) \cap {th}
           A == Added \cup {th}
<1>1. /\ th \in Threads \ {Background} /\ pc[th].at = "new" /\ th \notin Added
      /\ pc' = [pc EXCEPT ![th] = At("user")] /\ At("user") \in P /\ k.running = Background
      /\ k' = threadQueueArray_put(thread_init(k, th, Prior[th]), th)
      /\ pc[Background].at = "boot"
  BY PointsAreLabels DEF scheduler_add, Added, Seated, Timed, TimerPoints, EventPoints
<1>2. /\ Strung(k, Waiting, W, Added) /\ Active(k) \subseteq Added
      /\ pc \in [Threads -> P] /\ Active(k) \subseteq Threads
  BY DEF Knit, Strung, Layer, Active
<1>3. Prior[th] \in 0 .. Lowest - 1 /\ Prior[th] # Lowest
  BY <1>1, KernelAssumption, ListAssumption
<1>4. \A t \in W : k.prior[t] # Prior[th]
  <2> TAKE t \in W
  <2>1. /\ Ranked(U) # {} /\ t \in Added /\ t \in Threads /\ t # th
        /\ k.prior[t] = IF t = Background THEN Lowest ELSE Prior[t]
    BY <1>1 DEF Knit, Added
  <2> QED
    BY <1>1, <1>3, <2>1 DEF Distinct
<1>5. V # {} => \A t \in Added : k.prior[t] # Prior[th]
  <2> SUFFICES ASSUME th \in Ranked(U), NEW t \in Added PROVE k.prior[t] # Prior[th]
    OBVIOUS
  <2>1. /\ Ranked(U) # {} /\ t \in Threads /\ t # th
        /\ k.prior[t] = IF t = Background THEN Lowest ELSE Prior[t]
    BY <1>1 DEF Knit, Added
  <2> QED
    BY <1>1, <1>3, <2>1 DEF Distinct
<1>6. W \subseteq Added /\ V \subseteq {th}
  OBVIOUS
<1> HIDE DEF W, V
<1>7. /\ Strung(k', Waiting, W \cup V, A) /\ Active(k') = Active(k) \cup {th}
      /\ k'.running = k.running /\ k'.prior = [k.prior EXCEPT ![th] = Prior[th]]
      /\ \A t \in Active(k) : k'.prevTk[t] = k.prevTk[t]
  <2> DEFINE Y == W \cup V
  <2>1. Y = W \cup V /\ A = Added \cup {th}
    OBVIOUS
  <2> HIDE DEF A, Y
  <2>2. /\ Strung(k', Waiting, Y, A) /\ Active(k') = Active(k) \cup {th}
        /\ k'.running = k.running /\ k'.prior = With(k.prior, th, Prior[th])
        /\ \A t \in Active(k) : k'.prevTk[t] = k.prevTk[t]
    BY ONLY <1>1, <1>2, <1>4, <1>5, <1>6, <2>1, StartStrung, SMTT(60)
  <2> QED
    BY <2>2 DEF Y, With
<1>8. /\ Added' = A /\ Waiting' = Waiting
      /\ \A t \in Threads : In(pc'[t]) = In(pc[t])
      /\ \A t \in Threads \ {th} : pc'[t] = pc[t]
      /\ pc'[th].at = "user" /\ "timer" \notin DOMAIN pc'[th]
  <2>1. At("user").at = "user" /\ "timer" \notin DOMAIN At("user")
    BY DEF At
  <2>2. pc[th] \in P /\ In(pc[th]) = {} /\ In(At("user")) = {}
    BY <1>1, <1>2, <2>1 DEF Seated, Home
  <2>3. \A t \in Threads : pc'[t] = IF t = th THEN At("user") ELSE pc[t]
    BY <1>1, <1>2
  <2> QED
    BY <1>1, <2>1, <2>2, <2>3 DEF Added, Waiting
<1>9. Strung(k', Waiting', Ranked(U) \cap Added', Added')
  <2>1. Ranked(U) \cap Added' = W \cup V
    BY <1>8 DEF W, V
  <2> QED
    BY <1>7, <1>8, <2>1
<1>10. /\ \A t \in Threads : Waiting'[t] = {} \/ <<t, Waiting'[t]>> \in U
       /\ \A t \in Threads \ Active(k') : Waiting'[t] # {} \/ pc'[t].at \in {"suspend", "new"}
  BY <1>7, <1>8 DEF Knit
<1>11. Ranked(U) # {} => \A t \in Added' : k'.prior[t] = IF t = Background THEN Lowest ELSE Prior[t]
  <2>1. k.prior \in [Threads -> Priors]
    BY FencedTypes DEF Layer, Memory
  <2> QED
    BY <1>1, <1>7, <1>8, <2>1 DEF Knit, Added
<1>12. InHalfRange => Timely'
  <2> SUFFICES ASSUME InHalfRange, NEW t \in Threads, "timer" \in DOMAIN pc'[t]
               PROVE  IF t \in Active(k')
                      THEN k'.prevTk[t] = REMOVED \/ due'[t] <= now'[pc'[t].timer]
                      ELSE due'[t] <= now'[pc'[t].timer] + MaxDelay
    BY DEF Timely
  <2>1. t # th /\ pc'[t] = pc[t]
    BY <1>8
  <2> QED
    BY <1>7, <2>1 DEF Knit, Timely
<1>13. Near => Windowed'
  BY <1>7, <1>8 DEF Knit, Windowed, InWindow
<1>14. Knit(U)'
  BY <1>9, <1>10, <1>11, <1>12, <1>13 DEF Knit
<1>15. Aside(M)
  <2>1. In(pc[th]) = {} /\ In(pc'[th]) = {}
    BY <1>1, <1>2, <1>8 DEF Seated
  <2> QED
    BY <1>7, <1>8, <2>1 DEF Aside
<1>16. Preempts
  <2>1. pc'[Background] = pc[Background]
    BY <1>1, <1>8, KernelAssumption
  <2> QED
    BY <1>1, <2>1 DEF Preempts
<1> QED
  BY <1>7, <1>14, <1>15, <1>16 DEF Steps, Stays

-----------------------------------------------------------------------------
(* The kernel's calls, on the lists. *)

\* A layer whose lists are in order, and a step that keeps its types.
Fit(P, U) == Seated(P) /\ Apart(U) /\ Layer(P) /\ Layer(P)' /\ Knit(U)

LEMMA FitParts ==
  ASSUME NEW P, NEW U, Fit(P, U)
  PROVE  /\ Strung(k, Waiting, Ranked(U) \cap Added, Added) /\ Fenced(k) /\ k \in Memory
         /\ k.running \in Active(k) /\ Active(k) \subseteq Threads
         /\ pc \in [Threads -> P] /\ KernelPoints \subseteq P
         /\ Waiting \in [Threads -> SUBSET Lists]
BY FencedTypes DEF Fit, Knit, Strung, Dispatched, Active, Layer, Seated, Timed, TimerPoints,
                   EventPoints

LEMMA NotIn ==
  ASSUME NEW label
  PROVE  /\ In(At(label)) = {} /\ At(label).at = label
         /\ "timer" \notin DOMAIN At(label)
BY DEF In, At

LEMMA UserPoint ==
  ASSUME NEW P, NEW U, Fit(P, U), NEW t, User(t)
  PROVE  /\ t = k.running /\ t \in Active(k) /\ t \in Threads
         /\ pc[t].at = "user" /\ In(pc[t]) = {}
BY FitParts DEF User, Fit, Seated, Home

LEMMA CallPasses ==
  ASSUME NEW P, NEW U, NEW M, Fit(P, U), NEW t, t = k.running,
         In(pc[t]) \cap M = {}, pc[t].at # "boot",
         \/ Return(t) \/ Finish(t) \/ Leave(t, At("yield"))
         \/ \E m, th : ResumeAndReturn(t, m, th)
  PROVE  Passes(P, M)
<1>1. At("user") \in P /\ At("yield") \in P /\ t \in Active(k)
  BY FitParts, PointsAreLabels
<1>2. \/ UNCHANGED pc \/ pc' = [pc EXCEPT ![t] = At("user")] \/ pc' = [pc EXCEPT ![t] = At("yield")]
  BY DEF Return, Finish, Leave, ResumeAndReturn
<1> QED
  BY <1>1, <1>2, NotIn DEF Passes

LEMMA UserMoves ==
  ASSUME NEW P, NEW U, NEW M, Fit(P, U), NEW t, User(t),
         \/ Return(t) \/ Finish(t) \/ Leave(t, At("yield"))
         \/ \E m, th : ResumeAndReturn(t, m, th)
  PROVE  Passes(P, M)
BY UserPoint, CallPasses

\* Time stands still.
LEMMA StandsStill ==
  ASSUME NEW P, NEW U, Fit(P, U), UNCHANGED <<now, due>>
  PROVE  Onward
<1>1. \A tm \in TickLists : now[tm] \in 0 .. MaxTicks
  BY DEF Fit, Layer
<1> QED
  BY <1>1, TimerAssumption DEF Onward

LEMMA StillStep ==
  ASSUME NEW P, NEW U, NEW M, Fit(P, U), UNCHANGED <<k, now, due>>, Passes(P, M)
  PROVE  Steps(U, M)
<1>1. Strung(k', Waiting, Ranked(U) \cap Added, Added)
  BY FitParts
<1>2. Roused /\ Ordered(k, k')
  BY DEF Roused, Ordered
<1> QED
  BY <1>1, <1>2, StandsStill, CalmStep DEF Fit

LEMMA YieldStep ==
  ASSUME NEW P, NEW U, NEW M, Fit(P, U), k' = yieldISR(k), UNCHANGED <<now, due>>, Passes(P, M)
  PROVE  Steps(U, M)
<1>1. /\ Strung(k', Waiting, Ranked(U) \cap Added, Added) /\ Active(k') = Active(k)
      /\ SameElsewhere(k, k') /\ Highest(k')
  BY FitParts, YieldStrung
<1>2. /\ Roused /\ Ordered(k, k') /\ k'.prior = k.prior
  BY <1>1 DEF Roused, Ordered, SameElsewhere
<1> QED
  BY <1>1, <1>2, StandsStill, CalmStep DEF Fit

LEMMA WakeStep ==
  ASSUME NEW P, NEW U, NEW M, Fit(P, U), NEW th \in Threads \ Active(k),
         Strung(k', Waiting, Ranked(U) \cap Added, Added), Active(k') = Active(k) \cup {th},
         k'.prior = k.prior, Ordered(k, k'),
         \A t \in Threads \ {th} : k'.prevTk[t] = k.prevTk[t],
         "timer" \in DOMAIN pc[th] => k'.prevTk[th] = REMOVED,
         UNCHANGED <<now, due>>, Passes(P, M)
  PROVE  Steps(U, M)
<1>1. Roused
  BY FitParts DEF Roused
<1> QED
  BY <1>1, StandsStill, CalmStep DEF Fit

LEMMA StartStep ==
  ASSUME NEW P, NEW U, NEW M, Fit(P, U), UNCHANGED <<now, due>>,
         \/ scheduler_run \/ scheduler_run_return
         \/ \E th \in Threads : scheduler_add(th)
  PROVE  Steps(U, M)
<1>1. CASE scheduler_run
  <2>1. /\ Background \in Active(k) /\ In(pc[Background]) = {} /\ At("run") \in P
        /\ k' = yieldISR(k) /\ pc' = [pc EXCEPT ![Background] = At("run")]
    BY <1>1, FitParts, PointsAreLabels, KernelAssumption DEF scheduler_run, Fit, Seated, Home
  <2>2. Highest(k')
    BY <2>1, FitParts, YieldStrung
  <2>3. Passes(P, M)
    BY <2>1, <2>2, NotIn DEF Passes
  <2> QED
    BY <2>1, <2>3, YieldStep
<1>2. CASE scheduler_run_return
  <2>1. /\ Background \in Active(k) /\ In(pc[Background]) = {} /\ At("user") \in P
        /\ UNCHANGED k /\ pc' = [pc EXCEPT ![Background] = At("user")]
        /\ pc[Background].at = "run"
    <3>1. pc[Background] \in P /\ pc[Background].at = "run"
      BY <1>2, FitParts, KernelAssumption DEF scheduler_run_return
    <3>2. In(pc[Background]) = {}
      BY <3>1 DEF Fit, Seated, Home
    <3> QED
      BY <1>2, <3>1, <3>2, FitParts, PointsAreLabels DEF scheduler_run_return
  <2>2. Passes(P, M)
    BY <2>1, NotIn DEF Passes
  <2> QED
    BY <2>1, <2>2, StillStep
<1>3. CASE \E th \in Threads : scheduler_add(th)
  BY <1>3, AddStep DEF Fit, Apart
<1> QED
  BY <1>1, <1>2, <1>3

LEMMA OpenStep ==
  ASSUME NEW P, NEW U, NEW M, Fit(P, U), NEW t, NEW labels, checkIRQ(t, labels),
         UNCHANGED <<now, due>>
  PROVE  Steps(U, M)
BY StillStep DEF checkIRQ, Passes

\* The end of a call that gave up the processor.
LEMMA FinishStep ==
  ASSUME NEW P, NEW U, NEW M, Fit(P, U), NEW t, t = k.running, Finish(t),
         In(pc[t]) \cap M = {}, pc[t].at # "boot", UNCHANGED <<k, now, due>>
  PROVE  Steps(U, M)
BY CallPasses, StillStep

LEMMA SuspendStep ==
  ASSUME NEW P, NEW U, NEW M, Fit(P, U), NEW t, task_suspend(t), UNCHANGED <<now, due>>
  PROVE  Steps(U, M)
<1> DEFINE p == At("suspend")
           W == Ranked(U) \cap Added
<1>1. /\ User(t) /\ t = k.running /\ t # Background /\ t \in Active(k) /\ t \in Threads
      /\ k' = jump(k) /\ pc' = [pc EXCEPT ![t] = p] /\ p \in P
      /\ In(p) = {} /\ p.at = "suspend" /\ p.at # "new" /\ "timer" \notin DOMAIN p
      /\ In(pc[t]) = {}
  BY UserPoint, FitParts, PointsAreLabels, NotIn, KernelAssumption DEF task_suspend, Leave
<1>2. Strung(k, Waiting, W, Added) /\ Fenced(k) /\ SameQueues(k, k, {})
  BY FitParts DEF SameQueues, SameRunners
<1>3. Hung(k, With(Pending(k, Waiting), t, {}))
  <2>1. With(Pending(k, Waiting), t, {}) = Pending(k, Waiting)
    BY <1>1 DEF Pending, With
  <2> QED
    BY <1>2, <2>1 DEF Strung
<1> HIDE DEF W, p
<1>4. /\ Strung(k', With(Waiting, t, {}), W, Added) /\ Active(k') = Active(k) \ {t} /\ Highest(k')
      /\ k'.prior = k.prior /\ k'.prevTk = k.prevTk
  <2>1. {} \subseteq Lists /\ {} \cap Active(k) \subseteq {t}
    OBVIOUS
  <2> QED
    BY ONLY <1>1, <1>2, <1>3, <2>1, LeaveStrung
<1>5. Strung(k', With(Waiting, t, In(p)), Ranked(U) \cap Added, Added)
  BY <1>1, <1>4 DEF W
<1>6. Seated(P) /\ Layer(P) /\ Layer(P)' /\ Knit(U)
  BY DEF Fit
<1>7. Blocks(U, M, t, p)
  BY <1>1, <1>4, <1>5, <1>6, BlockStep
<1> QED
  BY <1>1, <1>7 DEF Steps, Blocks, Stays

LEMMA PriorityStep ==
  ASSUME NEW P, NEW U, NEW M, Fit(P, U), NEW t, NEW p \in NewPriors, task_setPriority(t, p),
         UNCHANGED <<now, due>>
  PROVE  Steps(U, M)
<1>1. /\ User(t) /\ t = k.running /\ t # Background /\ t \in Threads /\ Return(t)
      /\ k' = [k EXCEPT !.prior[t] = p]
  BY UserPoint DEF task_setPriority
<1>2. Ranked(U) = {}
  BY DEF Fit, Apart, Distinct
<1>3. Strung(k, Waiting, {}, Added)
  <2>1. Ranked(U) \cap Added = {}
    BY <1>2
  <2> QED
    BY <2>1, FitParts
<1>4. /\ Strung(k', Waiting, {}, Added) /\ Active(k') = Active(k) /\ ReadyPriors(k') = ReadyPriors(k)
      /\ k'.running = k.running /\ k'.prevTk = k.prevTk /\ k'.prior[t] = p
  BY <1>3, PriorStrung
<1>5. Strung(k', Waiting, Ranked(U) \cap Added, Added)
  <2>1. Ranked(U) \cap Added = {}
    BY <1>2
  <2> QED
    BY <1>4, <2>1
<1>6. Roused
  BY <1>4 DEF Roused
<1>7. Meek => Ordered(k, k')
  <2> SUFFICES ASSUME Meek PROVE Highest(k')
    BY <1>4 DEF Ordered
  <2>1. p = 0 /\ k.prior \in [Threads -> Priors]
    BY FitParts DEF Meek, Memory
  <2>2. k'.prior[k'.running] = 0
    BY <1>1, <1>4, <2>1
  <2> QED
    BY <2>2 DEF Highest, ReadyPriors, Priors
<1>8. Passes(P, M)
  BY <1>1, UserMoves
<1> QED
  BY <1>2, <1>4, <1>5, <1>6, <1>7, <1>8, StandsStill, CalmStep DEF Fit

\* A thread that suspended itself is in no list.
LEMMA SuspendedStep ==
  ASSUME NEW P, NEW U, NEW M, Fit(P, U), NEW t, NEW th \in Threads, task_resume(t, th),
         UNCHANGED <<now, due>>
  PROVE  Steps(U, M)
<1> DEFINE W == Ranked(U) \cap Added
<1>1. /\ User(t) /\ k' = resume(k, th) /\ ResumeAndReturn(t, k, th)
      /\ pc[th].at = "suspend" /\ th # k.running
      /\ \A p \in Priors : th \notin ReadyOf(k, p)
  BY DEF task_resume, ResumeAndReturn, Suspended, Ready, ReadyOf
<1>2. /\ Strung(k, Waiting, W, Added) /\ Fenced(k) /\ SameQueues(k, k, {})
      /\ {} \cap Active(k) = {}
  BY FitParts DEF SameQueues, SameRunners
<1>3. /\ th \in Threads /\ th \notin Active(k) /\ th \in Added
      /\ Waiting[th] = {} /\ "timer" \notin DOMAIN pc[th]
  <2>1. th \notin Active(k) /\ th \in Added
    BY <1>1 DEF Active, IsReady, Added
  <2>2. pc[th] \in P /\ Waiting[th] = In(pc[th]) /\ In(pc[th]) = {}
    BY <1>1, FitParts DEF Waiting, Fit, Seated
  <2> QED
    BY <2>1, <2>2 DEF In
<1>4. Hung(k, [Pending(k, Waiting) EXCEPT ![th] = {}])
  <2>1. [Pending(k, Waiting) EXCEPT ![th] = {}] = Pending(k, Waiting)
    BY <1>3 DEF Pending
  <2> QED
    BY <1>2, <2>1 DEF Strung
<1> HIDE DEF W
<1>5. /\ Strung(k', Waiting, W, Added) /\ Active(k') = Active(k) \cup {th}
      /\ k'.prior = k.prior /\ k'.prevTk = k.prevTk /\ Ordered(k, k')
  BY ONLY <1>1, <1>2, <1>3, <1>4, ResumeStrung
<1>6. Passes(P, M)
  BY <1>1, UserMoves
<1>7. Strung(k', Waiting, Ranked(U) \cap Added, Added)
  BY <1>5 DEF W
<1> QED
  BY <1>3, <1>5, <1>6, <1>7, WakeStep

LEMMA TaskStep ==
  ASSUME NEW P, NEW U, NEW M, Fit(P, U), UNCHANGED <<now, due>>, NEW t \in Threads,
         \/ task_enterCritical(t) \/ task_exitCritical(t) \/ task_yield(t)
         \/ yield_return(t) \/ task_suspend(t) \/ suspend_return(t)
         \/ \E prior \in NewPriors : task_setPriority(t, prior)
         \/ \E th \in Threads : task_resume(t, th)
  PROVE  Steps(U, M)
<1>1. CASE task_enterCritical(t) \/ task_exitCritical(t)
  BY <1>1, StillStep DEF task_enterCritical, task_exitCritical, Passes
<1>2. CASE yield_return(t) \/ suspend_return(t)
  <2>1. /\ t = k.running /\ pc[t].at \in {"yield", "suspend"} /\ UNCHANGED k /\ Finish(t)
        /\ pc[t] \in P
    BY <1>2, FitParts DEF yield_return, suspend_return
  <2>2. In(pc[t]) = {} /\ pc[t].at # "boot"
    BY <2>1 DEF Fit, Seated, Home
  <2> QED
    BY <2>1, <2>2, FinishStep
<1>3. CASE task_yield(t)
  BY <1>3, UserMoves, YieldStep DEF task_yield
<1> QED
  BY <1>1, <1>2, <1>3, SuspendStep, PriorityStep, SuspendedStep

LEMMA KernelStep ==
  ASSUME NEW P, NEW U, NEW M, Fit(P, U), KernelNext, UNCHANGED <<now, due>>
  PROVE  Steps(U, M)
<1>1. ASSUME NEW t \in Threads, checkIRQ(t, {"run", "yield"}) PROVE Steps(U, M)
  BY <1>1, OpenStep
<1>2. ASSUME NEW t \in Threads, task_yieldISR(t) PROVE Steps(U, M)
  BY <1>2, YieldStep DEF task_yieldISR, Passes
<1> QED
  BY <1>1, <1>2, StartStep, TaskStep DEF KernelNext, KernelThread, KernelInterrupt

-----------------------------------------------------------------------------
(* Notifications and waits, on the lists. *)

\* The first thread of a list is woken.
LEMMA FromListWoken ==
  ASSUME NEW P, NEW U, Fit(P, U), NEW l \in PriorLists, k.head[l] # NULL,
         NEW th, th = k.head[l], k' = resume(priorList_get(k, l), th)
  PROVE  /\ Strung(k', Waiting, Ranked(U) \cap Added, Added) /\ Active(k') = Active(k) \cup {th}
         /\ th \in Threads \ Active(k) /\ th \in Added /\ l \in Waiting[th]
         /\ k'.prior = k.prior /\ Ordered(k, k')
         /\ \A t \in Threads \ {th} : k'.prevTk[t] = k.prevTk[t]
         /\ "timer" \in DOMAIN pc[th] => k'.prevTk[th] = REMOVED
<1> DEFINE W == Ranked(U) \cap Added
           q == priorList_get(k, l)
<1>1. Strung(k, Waiting, W, Added) /\ q = priorList_get(k, l)
  BY FitParts
<1>2. k' = resume(q, th)
  OBVIOUS
<1> HIDE DEF W, q
<1>3. /\ th \in Threads \ Active(k) /\ th \in Added /\ l \in Waiting[th]
      /\ Fenced(q) /\ SameQueues(k, q, {}) /\ SameBacks(k, q, th)
      /\ Hung(q, [Pending(k, Waiting) EXCEPT ![th] = {}])
      /\ Waiting[th] # {l} => q.prevTk[th] = REMOVED
  BY <1>1, FirstWoken
<1>4. /\ Strung(k', Waiting, W, Added) /\ Active(k') = Active(k) \cup {th}
      /\ k'.prior = k.prior /\ k'.prevTk = q.prevTk /\ Ordered(k, k')
  <2>1. th \in Threads /\ th \notin Active(k) /\ {} \cap Active(k) = {}
    BY <1>3
  <2> QED
    BY ONLY <1>1, <1>2, <1>3, <2>1, ResumeStrung
<1>5. /\ \A t \in Threads \ {th} : k'.prevTk[t] = k.prevTk[t]
      /\ "timer" \in DOMAIN pc[th] => k'.prevTk[th] = REMOVED
  <2>1. th \in Threads /\ Seated(P) /\ Layer(P)
    BY <1>3 DEF Fit
  <2>2. "timer" \in DOMAIN pc[th] => \A j : Waiting[th] # {j}
    BY ONLY <2>1, WaitingParts
  <2> QED
    BY <1>3, <1>4, <2>2 DEF SameBacks
<1> QED
  BY <1>3, <1>4, <1>5 DEF W

LEMMA FromListStep ==
  ASSUME NEW P, NEW U, NEW M, Fit(P, U), NEW l \in PriorLists, k.head[l] # NULL,
         NEW th, th = k.head[l], k' = resume(priorList_get(k, l), th),
         UNCHANGED <<now, due>>, Passes(P, M)
  PROVE  /\ Steps(U, M) /\ th \in Threads \ Active(k) /\ Active(k') = Active(k) \cup {th}
         /\ l \in Waiting[th]
BY FromListWoken, WakeStep

\* All the threads of a list are woken.
LEMMA FullListStep ==
  ASSUME NEW P, NEW U, NEW M, Fit(P, U), NEW l \in PriorLists, k' = resumeFullPriorList(k, l),
         UNCHANGED <<now, due>>, Passes(P, M)
  PROVE  /\ Knit(U)' /\ Aside(M) /\ Active(k) \subseteq Active(k')
         /\ \A t \in Threads : l \in Waiting[t] => t \in Active(k')
<1> DEFINE W == Ranked(U) \cap Added
           q == threadQueueArray_putList(k, l)
<1>1. Strung(k, Waiting, W, Added) /\ q = threadQueueArray_putList(k, l)
  BY FitParts
<1>2. k' = q \/ k' = yieldISR(q)
  BY DEF resumeFullPriorList
<1> HIDE DEF W, q
<1>3. /\ Strung(q, Waiting, W, Added) /\ Woke(k, q, l, Waiting) /\ q.head[l] = NULL
      /\ \A t \in Active(q) \ Active(k) : Waiting[t] # {l} => q.prevTk[t] = REMOVED
  BY <1>1, putListStrung
<1>4. \A t \in Threads : l \in Waiting[t] => t \in Active(q)
  <2> SUFFICES ASSUME NEW t \in Threads, l \in Waiting[t], t \notin Active(q) PROVE FALSE
    OBVIOUS
  <2>1. t \in On(q, l)
    BY <1>3, HeldOn DEF Lists
  <2> QED
    BY <1>3, <2>1, ChainNull DEF On
<1>5. /\ Strung(k', Waiting, W, Added) /\ Active(k') = Active(q)
      /\ k'.prior = q.prior /\ k'.prevTk = q.prevTk
  <2>1. CASE k' = q
    BY <1>3, <2>1
  <2>2. CASE k' = yieldISR(q)
    BY <1>3, <2>2, YieldStrung DEF SameElsewhere
  <2> QED
    BY <1>2, <2>1, <2>2
<1>6. Roused /\ Active(k) \subseteq Active(k') /\ k'.prior = k.prior
  <2>1. \A t \in Active(q) \ Active(k) : "timer" \in DOMAIN pc[t] => q.prevTk[t] = REMOVED
    <3>1. Active(q) \subseteq Threads
      BY DEF Active
    <3> QED
      BY <1>3, <3>1, WaitingParts DEF Fit
  <2> QED
    BY <1>3, <1>5, <2>1 DEF Roused, Woke
<1>7. Strung(k', Waiting, Ranked(U) \cap Added, Added)
  BY <1>5 DEF W
<1>8. Knit(U)' /\ Aside(M)
  BY <1>6, <1>7, StandsStill, CalmKnit DEF Fit
<1> QED
  BY <1>4, <1>5, <1>6, <1>8

\* A list that a thread uses alone is used for a timed wait alone.
LEMMA AloneSingle ==
  ASSUME NEW P, NEW U, Fit(P, U), NEW t \in Active(k), NEW l \in Lists, <<t, {l}>> \in U
  PROVE  Single(Pending(k, Waiting), l)
<1> SUFFICES ASSUME NEW u \in Threads, l \in Pending(k, Waiting)[u], NEW o \in Pending(k, Waiting)[u]
             PROVE  OneLink(l, o)
  BY DEF Single
<1>1. u \notin Active(k) /\ l \in Waiting[u] /\ o \in Waiting[u]
  BY DEF Pending
<1>2. <<u, Waiting[u]>> \in U /\ u # t
  BY <1>1 DEF Fit, Knit
<1>3. \E a \in Lists : Waiting[u] = {a}
  <2> DEFINE v == <<u, Waiting[u]>>
             w == <<t, {l}>>
  <2>1. v \in U /\ w \in U /\ v[1] = u /\ v[2] = Waiting[u] /\ w[1] = t /\ w[2] = {l}
    BY <1>2
  <2> HIDE DEF v, w
  <2>2. v[2] \cap w[2] # {} /\ w[1] # v[1]
    BY <1>1, <1>2, <2>1
  <2> QED
    BY <2>1, <2>2 DEF Fit, Apart, Alone
<1> QED
  BY <1>1, <1>3 DEF OneLink

\* A thread waits in a list, the first time or again.
LEMMA WaitStep ==
  ASSUME NEW P, NEW U, NEW M, Fit(P, U), NEW t, t = k.running, t # Background,
         NEW l \in PriorLists, k' = waitInPriorList(k, l), <<t, {l}>> \in U,
         NEW p \in P, p.at # "new", In(p) = {l}, pc' = [pc EXCEPT ![t] = p],
         UNCHANGED <<now, due>>
  PROVE  Blocks(U, M, t, p)
<1> DEFINE W == Ranked(U) \cap Added
<1>1. /\ t \in Active(k) /\ t \in Threads /\ Strung(k, Waiting, W, Added) /\ l \in Lists
      /\ Active(k) \subseteq Added
  BY FitParts DEF Lists, Strung
<1>2. t \in W
  <2>1. <<t, {l}>>[1] = t /\ <<t, {l}>>[2] \cap PriorLists # {}
    OBVIOUS
  <2> QED
    BY <1>1, <2>1 DEF Ranked
<1>3. Single(Pending(k, Waiting), l)
  BY <1>1, AloneSingle
<1> HIDE DEF W
<1>4. /\ Strung(k', With(Waiting, t, {l}), W, Added) /\ Active(k') = Active(k) \ {t} /\ Highest(k')
      /\ k'.prior = k.prior /\ k'.prevTk = k.prevTk
  BY ONLY <1>1, <1>2, <1>3, t = k.running, t # Background, l \in PriorLists,
          k' = waitInPriorList(k, l), WaitPriorStrung
<1>5. Strung(k', With(Waiting, t, In(p)), Ranked(U) \cap Added, Added)
  BY <1>4 DEF W
<1>6. In(p) \cap TickLists = {}
  BY ListAssumption
<1>7. Seated(P) /\ Layer(P) /\ Layer(P)' /\ Knit(U)
  BY DEF Fit
<1> QED
  BY <1>4, <1>5, <1>6, <1>7, BlockStep

\* What the clients of events and timers wait for.
TimerUses ==
  {<<u[1], {u[2]}>> : u \in EventUsers}
    \cup {<<t, {tm}>> : t \in {u \in TimerUsers : TimerCalls # {}}, tm \in TickLists}
    \cup {<<u[1], {u[2], u[3]}>> : u \in TimedUsers}

\* The lists of M are of the layers above.
Above(M) == M \cap (Events \cup TickLists) = {}

LEMMA InsideIn ==
  ASSUME NEW label, NEW l \in Lists
  PROVE  /\ In(Inside(label, l)) = {l} /\ Inside(label, l).at = label
         /\ Inside(label, l).on = l
BY ListAssumption DEF In, Inside, Lists

\* A notification, by a thread or by an interrupt routine.
LEMMA NotifyStep ==
  ASSUME NEW P, NEW U, NEW M, Fit(P, U), NEW t, NEW l \in PriorLists, UNCHANGED <<now, due>>,
         (User(t) /\ ResumeFromPriorList(t, l)) \/ ResumeFromPriorListISR(t, l)
  PROVE  /\ Steps(U, M)
         /\ k.head[l] # NULL =>
              k.head[l] \in Threads /\ k.head[l] \in Active(k') /\ l \in Waiting[k.head[l]]
         /\ \A u \in Active(k') \ Active(k) : l \in Waiting[u]
<1>1. Passes(P, M)
  <2>1. CASE User(t) /\ ResumeFromPriorList(t, l)
    <3>1. Return(t) \/ ResumeAndReturn(t, priorList_get(k, l), k.head[l])
      BY <2>1 DEF ResumeFromPriorList
    <3> QED
      BY <2>1, <3>1, UserMoves
  <2> QED
    BY <2>1 DEF ResumeFromPriorListISR, Passes
<1>2. CASE k.head[l] = NULL
  BY <1>1, <1>2, StillStep DEF ResumeFromPriorList, ResumeFromPriorListISR
<1>3. CASE k.head[l] # NULL
  <2>1. k' = resume(priorList_get(k, l), k.head[l])
    BY <1>3 DEF ResumeFromPriorList, ResumeAndReturn, ResumeFromPriorListISR
  <2> QED
    BY <1>1, <1>3, <2>1, FromListStep
<1> QED
  BY <1>2, <1>3

LEMMA NotifyAllStep ==
  ASSUME NEW P, NEW U, NEW M, Fit(P, U), NEW t, NEW l \in PriorLists, UNCHANGED <<now, due>>,
         (User(t) /\ ResumeFullPriorList(t, l)) \/ ResumeFullPriorListISR(t, l)
  PROVE  /\ Knit(U)' /\ Aside(M) /\ Active(k) \subseteq Active(k')
         /\ \A u \in Threads : l \in Waiting[u] => u \in Active(k')
<1>1. Passes(P, M)
  <2>1. CASE User(t) /\ ResumeFullPriorList(t, l)
    <3>1. Return(t) \/ Leave(t, At("yield"))
      BY <2>1 DEF ResumeFullPriorList
    <3> QED
      BY <2>1, <3>1, UserMoves
  <2> QED
    BY <2>1 DEF ResumeFullPriorListISR, Passes
<1>2. k' = resumeFullPriorList(k, l)
  BY DEF ResumeFullPriorList, ResumeFullPriorListISR
<1> QED
  BY <1>1, <1>2, FullListStep

LEMMA EventStep ==
  ASSUME NEW P, NEW U, NEW M, Fit(P, U), TimerUses \subseteq U, Above(M),
         EventNext, UNCHANGED <<now, due>>
  PROVE  Steps(U, M)
<1>1. /\ EventPoints \subseteq P /\ Events \subseteq PriorLists /\ Broadcasts \subseteq Events
      /\ Events \subseteq Lists
  BY EventAssumption DEF Fit, Seated, Timed, TimerPoints, Lists
<1>2. CASE KernelNext
  BY <1>2, KernelStep
<1>3. ASSUME NEW t \in Threads, checkIRQ(t, {"event_wait"}) PROVE Steps(U, M)
  BY <1>3, OpenStep
<1>4. ASSUME NEW t \in Threads, event_wait_return(t) PROVE Steps(U, M)
  <2>1. t = k.running /\ pc[t].at = "event_wait" /\ UNCHANGED k /\ Finish(t) /\ pc[t] \in P
    BY <1>4, FitParts DEF event_wait_return
  <2>2. In(pc[t]) \cap M = {}
    BY <2>1 DEF Fit, Seated, Above
  <2> QED
    BY <2>1, <2>2, FinishStep
<1>5. ASSUME NEW t \in Threads, NEW e \in Events, event_wait(t, e) PROVE Steps(U, M)
  <2> DEFINE p == Inside("event_wait", e)
  <2>1. /\ User(t) /\ t = k.running /\ t # Background /\ e \in PriorLists
        /\ k' = waitInPriorList(k, e) /\ pc' = [pc EXCEPT ![t] = p]
        /\ <<t, e>> \in EventUsers /\ In(pc[t]) = {}
    BY <1>1, <1>5, UserPoint, EventAssumption DEF event_wait, Leave
  <2>2. p \in P /\ p.at # "new" /\ In(p) = {e}
    BY <1>1, InsideIn DEF EventPoints
  <2>3. <<t, {e}>> \in U
    <3>1. <<t, e>>[1] = t /\ <<t, e>>[2] = e
      OBVIOUS
    <3>2. <<t, {e}>> \in {<<u[1], {u[2]}>> : u \in EventUsers}
      BY <2>1, <3>1
    <3> QED
      BY <3>2 DEF TimerUses
  <2>4. (In(pc[t]) \cup In(p)) \cap M = {}
    BY <2>1, <2>2 DEF Above
  <2> HIDE DEF p
  <2>5. Blocks(U, M, t, p)
    BY <2>1, <2>2, <2>3, WaitStep
  <2> QED
    BY <2>1, <2>4, <2>5 DEF Steps, Blocks, Stays, User
<1>6. ASSUME NEW t \in Threads, NEW e \in Events, event_notify(t, e) \/ event_notifyISR(t, e)
      PROVE  Steps(U, M)
  BY <1>1, <1>6, NotifyStep DEF event_notify, event_notifyISR
<1>7. ASSUME NEW t \in Threads, NEW e \in Broadcasts, event_notifyAll(t, e) \/ event_notifyAllISR(t, e)
      PROVE  Steps(U, M)
  <2>1. Knit(U)' /\ Aside(M) /\ Active(k) \subseteq Active(k')
    BY <1>1, <1>7, NotifyAllStep DEF event_notifyAll, event_notifyAllISR
  <2>2. ~ Meek
    BY DEF Meek
  <2> QED
    BY <2>1, <2>2 DEF Steps, Preempts, Stays
<1> QED
  BY <1>2, <1>3, <1>4, <1>5, <1>6, <1>7 DEF EventNext, EventThread, EventInterrupt, KernelNext

-----------------------------------------------------------------------------
(* Timers, on the lists. *)

\* Nobody else waits for what a thread waits for with a timeout.
LEMMA AloneBoth ==
  ASSUME NEW P, NEW U, Fit(P, U), NEW t \in Active(k), NEW e \in PriorLists, NEW tm \in TickLists,
         <<t, {e, tm}>> \in U
  PROVE  ~ BasicMode /\ Nobody(Pending(k, Waiting), e, tm)
<1> DEFINE w == <<t, {e, tm}>>
<1>1. w \in U /\ w[1] = t /\ w[2] = {e, tm}
  OBVIOUS
<1>2. e # tm
  BY ListAssumption
<1> HIDE DEF w
<1>3. ~ BasicMode /\ \A v \in U : v[1] # t => {e, tm} \cap v[2] = {}
  <2>1. \A l : {e, tm} # {l}
    BY <1>2
  <2> QED
    BY <1>1, <2>1 DEF Fit, Apart, Alone
<1>4. ASSUME NEW u \in Threads, e \in Pending(k, Waiting)[u] \/ tm \in Pending(k, Waiting)[u]
      PROVE  FALSE
  <2> DEFINE v == <<u, Waiting[u]>>
  <2>1. u \notin Active(k) /\ (e \in Waiting[u] \/ tm \in Waiting[u])
    BY <1>4 DEF Pending
  <2>2. v \in U /\ u # t /\ v[1] = u /\ v[2] = Waiting[u]
    BY <2>1 DEF Fit, Knit
  <2> HIDE DEF v
  <2> QED
    BY <1>3, <2>1, <2>2
<1> QED
  BY <1>3, <1>4 DEF Nobody

\* A thread waits for something, or for its time.
LEMMA BothStep ==
  ASSUME NEW P, NEW U, NEW M, Fit(P, U), NEW t, t = k.running, t # Background,
         NEW e \in PriorLists, NEW tm \in TickLists, <<t, {e, tm}>> \in U,
         k' = jump(tickList_put(priorList_put(k, e, t), tm, t)), InWindow(due[t], tm),
         NEW p \in P, p.at # "new", p.on = e, "timer" \in DOMAIN p, p.timer = tm,
         pc' = [pc EXCEPT ![t] = p], UNCHANGED <<now, due>>
  PROVE  Blocks(U, M, t, p)
<1> DEFINE W == Ranked(U) \cap Added
<1>1. /\ t \in Active(k) /\ t \in Threads /\ Strung(k, Waiting, W, Added)
      /\ Active(k) \subseteq Added
  BY FitParts DEF Strung
<1>2. t \in W
  <2>1. <<t, {e, tm}>>[1] = t /\ <<t, {e, tm}>>[2] \cap PriorLists # {}
    OBVIOUS
  <2> QED
    BY <1>1, <2>1 DEF Ranked
<1>3. ~ BasicMode /\ Nobody(Pending(k, Waiting), e, tm)
  BY <1>1, AloneBoth
<1> HIDE DEF W
<1>4. Strung(k', With(Waiting, t, {e, tm}), W, Added) /\ Left(k, k', t)
  BY ONLY <1>1, <1>2, <1>3, t = k.running, t # Background, e \in PriorLists, tm \in TickLists,
          k' = jump(tickList_put(priorList_put(k, e, t), tm, t)), WaitBothStrung
<1>5. In(p) = {e, tm}
  BY DEF In
<1>6. Strung(k', With(Waiting, t, In(p)), Ranked(U) \cap Added, Added)
  BY <1>4, <1>5 DEF W
<1>7. \A l \in In(p) \cap TickLists : InWindow(due'[t], l)
  <2>1. In(p) \cap TickLists = {tm}
    BY <1>5, ListAssumption
  <2> QED
    BY <2>1
<1>8. Seated(P) /\ Layer(P) /\ Layer(P)' /\ Knit(U)
  BY DEF Fit
<1>9. In(p) # {} /\ <<t, In(p)>> \in U
  BY <1>5
<1> QED
  BY <1>4, <1>6, <1>7, <1>8, <1>9, BlockStep DEF Left

\* A tick does not reach a time that is less than half a round later.
LEMMA NotOver ==
  ASSUME InHalfRange, NEW a \in Int, NEW b \in Int, a < b, b - a <= MaxDelay
  PROVE  ~ tick_isOver(a % TickMod, b % TickMod)
<1>1. /\ TickMod \in Nat \ {0} /\ MaxDelay \in Int
      /\ HalfRound \in Int /\ 0 <= HalfRound
      /\ MaxDelay < TickMod - HalfRound
  BY HalfRoundType, TimerAssumption DEF InHalfRange
<1>2. b - a < TickMod
  BY <1>1
<1>3. ((a % TickMod) - (b % TickMod)) % TickMod = TickMod - (b - a)
  BY <1>1, <1>2, ResidueBefore
<1>4. ~ (TickMod - (b - a) <= HalfRound)
  BY <1>1
<1> QED
  BY ONLY <1>3, <1>4 DEF tick_isOver

\* Who does not wait with a timeout keeps the clocks of those who do.
LEMMA OwnTime ==
  ASSUME NEW P, NEW U, Fit(P, U), UNCHANGED now, NEW t, NEW time,
         due' = [due EXCEPT ![t] = time], "timer" \notin DOMAIN pc[t], t \in Active(k)
  PROVE  Onward
<1>1. \A tm \in TickLists : now[tm] \in 0 .. MaxTicks
  BY DEF Fit, Layer
<1>2. \A u \in Threads : "timer" \in DOMAIN pc[u] \/ u \notin Active(k) => due'[u] = due[u]
  BY DEF Fit, Layer
<1> QED
  BY <1>1, <1>2, TimerAssumption DEF Onward

LEMMA SetStep ==
  ASSUME NEW P, NEW U, NEW M, Fit(P, U), NEW t, t = k.running, NEW time \in Times,
         k' = setTick(k, t, time), due' = [due EXCEPT ![t] = time], UNCHANGED now,
         "timer" \notin DOMAIN pc[t], Passes(P, M)
  PROVE  Steps(U, M) /\ Active(k') = Active(k)
<1> DEFINE W == Ranked(U) \cap Added
<1>1. Strung(k, Waiting, W, Added) /\ t \in Active(k) /\ t \in Threads /\ time \in Int
  BY FitParts, TimesAreIntegers
<1> HIDE DEF W
<1>2. /\ Strung(k', Waiting, W, Added) /\ Active(k') = Active(k) /\ ReadyPriors(k') = ReadyPriors(k)
      /\ k'.running = k.running /\ k'.prior = k.prior /\ k'.prevTk = k.prevTk
  BY <1>1, setTickStrung
<1>3. Strung(k', Waiting, Ranked(U) \cap Added, Added)
  BY <1>2 DEF W
<1>4. Roused /\ Ordered(k, k')
  BY <1>2 DEF Roused, Ordered, Highest
<1>5. Seated(P) /\ Layer(P) /\ Layer(P)' /\ Knit(U) /\ Onward
  BY <1>1, OwnTime DEF Fit
<1> QED
  BY <1>2, <1>3, <1>4, <1>5, CalmStep

LEMMA SetDueStep ==
  ASSUME NEW P, NEW U, NEW M, Fit(P, U), NEW t, NEW label, NEW time \in Times,
         SetDue(t, label, time)
  PROVE  Steps(U, M) /\ Active(k') = Active(k)
<1>1. t = k.running /\ t \in Threads /\ In(pc[t]) = {}
  BY UserPoint DEF SetDue
<1>2. "timer" \notin DOMAIN pc[t]
  BY <1>1 DEF In
<1>3. Passes(P, M)
  BY UserMoves DEF SetDue
<1> QED
  BY <1>1, <1>2, <1>3, SetStep DEF SetDue

LEMMA TimerReturnStep ==
  ASSUME NEW P, NEW U, NEW M, Fit(P, U), Above(M), NEW t, timer_return(t)
  PROVE  Steps(U, M) /\ Active(k') = Active(k)
<1> DEFINE time == IF restores(pc[t].at) THEN pc[t].tmp ELSE due[t]
<1>1. /\ k' = setTick(k, t, time) /\ due' = [due EXCEPT ![t] = time] /\ UNCHANGED now
      /\ Finish(t) /\ pc[t].at \in TimerLabels /\ t = k.running /\ t \in Threads /\ pc[t] \in P
  BY FitParts DEF timer_return
<1>2. time \in Times
  BY <1>1 DEF Fit, Seated, Timed, Layer
<1> HIDE DEF time
<1>3. In(pc[t]) = {pc[t].on} /\ In(pc[t]) \cap M = {} /\ pc[t].at # "boot"
  BY <1>1 DEF Fit, Seated, Above, TimerLabels
<1>4. "timer" \notin DOMAIN pc[t]
  BY <1>1, <1>3, WaitingParts DEF Fit
<1>5. Passes(P, M)
  BY <1>1, <1>3, CallPasses
<1> QED
  BY <1>1, <1>2, <1>4, <1>5, SetStep

\* The ticks of those who wait for a timer, and of t that joins them, stand for their
\* times.
LEMMA WaitSpaced ==
  ASSUME NEW P, NEW U, Layer(P), Knit(U), NEW t \in Active(k), NEW tm \in TickLists,
         NEW time \in Times, InWindow(time, tm), due' = [due EXCEPT ![t] = time],
         NEW m, m = setTick(k, t, time), t \in Threads
  PROVE  /\ due' \in [Threads -> Int]
         /\ Near => Spaced(m, On(k, tm) \cup {t}, due')
<1>1. /\ due \in [Threads -> Int] /\ time \in Int /\ now[tm] \in Nat /\ k \in Memory
      /\ Strung(k, Waiting, Ranked(U) \cap Added, Added) /\ tm \in Lists
      /\ MaxDelay \in Nat /\ MaxLate \in Nat
  BY TimesAreIntegers, TimerAssumption, FencedTypes DEF Layer, Knit, Lists
<1>2. /\ due' \in [Threads -> Int] /\ due'[t] = time /\ \A u \in Threads \ {t} : due'[u] = due[u]
  BY <1>1
<1>3. \A u \in Threads : m.tick[u] = due'[u] % TickMod
  BY <1>1, <1>2 DEF Layer, setTick, Memory
<1>4. ASSUME Near
      PROVE  Spaced(m, On(k, tm) \cup {t}, due')
  <2>1. \A u \in On(k, tm) \cup {t} :
          u \in Threads /\ due'[u] \in now[tm] - MaxLate .. now[tm] + MaxDelay
    <3>1. \A u \in On(k, tm) : u \in Threads \ Active(k) /\ tm \in Waiting[u]
      BY <1>1, HeldOn
    <3>2. \A u \in On(k, tm) : u # t /\ InWindow(due[u], tm)
      BY <1>4, <3>1 DEF Knit, Windowed
    <3> QED
      BY <1>2, <3>1, <3>2 DEF InWindow
  <2>2. MaxDelay + MaxLate <= HalfRound /\ HalfRound \in Int
    BY <1>4, HalfRoundType DEF Near
  <2>3. \A u, v \in On(k, tm) \cup {t} : due'[u] - due'[v] <= HalfRound
    BY ONLY <1>1, <2>1, <2>2
  <2> QED
    BY <1>3, <2>1, <2>3 DEF Spaced
<1> QED
  BY <1>2, <1>4

LEMMA WaitTimerStep ==
  ASSUME NEW P, NEW U, NEW M, Fit(P, U), TimerUses \subseteq U, Above(M),
         NEW t, NEW tm \in TickLists, NEW label, NEW time \in Times,
         WaitTimer(t, tm, label, time)
  PROVE  Steps(U, M) /\ Active(k') = Active(k) \ {t}
<1> DEFINE p == [at |-> label, on |-> tm, tmp |-> due[t]]
           W == Ranked(U) \cap Added
<1>1. /\ User(t) /\ t = k.running /\ t # Background /\ t \in Threads /\ t \in Active(k)
      /\ k' = jump(tickList_put(setTick(k, t, time), tm, t))
      /\ pc' = [pc EXCEPT ![t] = p] /\ due' = [due EXCEPT ![t] = time] /\ UNCHANGED now
      /\ In(pc[t]) = {} /\ t \in TimerUsers /\ label \in TimerCalls /\ label \in TimerLabels
      /\ time \in Int
  BY UserPoint, TimerAssumption, TimesAreIntegers DEF WaitTimer, Leave
<1>2. /\ In(p) = {tm} /\ p.at # "new" /\ "timer" \notin DOMAIN p /\ p \in P
  <2>1. tm # NULL
    BY ListAssumption
  <2>2. p.at \in TimerLabels /\ p.on = tm /\ due[t] \in Times
    BY <1>1 DEF Fit, Layer
  <2>3. "timer" \notin DOMAIN p
    OBVIOUS
  <2>4. p \in P
    BY <1>1, <2>2 DEF Fit, Seated, Timed, TimerPoints
  <2> QED
    BY <2>1, <2>2, <2>3, <2>4 DEF In, TimerLabels
<1> HIDE DEF p
<1>3. <<t, {tm}>> \in U
  <2>1. <<t, {tm}>> \in {<<u, {l}>> : u \in {v \in TimerUsers : TimerCalls # {}}, l \in TickLists}
    BY <1>1
  <2> QED
    BY <2>1 DEF TimerUses
<1>4. Strung(k, Waiting, W, Added) /\ tm \in Lists
  BY FitParts DEF Lists
<1>5. Single(Pending(k, Waiting), tm)
  BY <1>1, <1>3, <1>4, AloneSingle
<1> HIDE DEF W
<1>6. due'[t] = time /\ \A u \in Threads \ {t} : due'[u] = due[u]
  BY <1>1 DEF Fit, Layer
<1>7. due' \in [Threads -> Int] /\ (Near => Spaced(setTick(k, t, time), On(k, tm) \cup {t}, due'))
  BY <1>1, <1>4, WaitSpaced DEF Fit, WaitTimer
<1> DEFINE d == due'
<1>8. d \in [Threads -> Int] /\ (Near => Spaced(setTick(k, t, time), On(k, tm) \cup {t}, d))
  BY <1>7
<1> HIDE DEF d
<1>9. Strung(k', With(Waiting, t, {tm}), W, Added) /\ Left(k, k', t)
  BY ONLY <1>1, <1>4, <1>5, <1>8, tm \in TickLists, WaitTickStrung
<1>10. Strung(k', With(Waiting, t, In(p)), Ranked(U) \cap Added, Added)
  BY <1>2, <1>9 DEF W
<1>11. \A l \in In(p) \cap TickLists : InWindow(due'[t], l)
  BY <1>2, <1>6 DEF WaitTimer
<1>12. Seated(P) /\ Layer(P) /\ Layer(P)' /\ Knit(U)
  BY DEF Fit
<1>13. In(p) # {} /\ <<t, In(p)>> \in U /\ (In(pc[t]) \cup In(p)) \cap M = {}
  BY <1>1, <1>2, <1>3 DEF Above
<1>14. Blocks(U, M, t, p)
  BY <1>1, <1>2, <1>6, <1>12, <1>13, <1>9, <1>10, <1>11, BlockStep DEF Left
<1> QED
  BY <1>1, <1>13, <1>14 DEF Steps, Blocks, Stays

\* A thread that waits for a timer and for nothing else is taken out of its list.
LEMMA AbortStep ==
  ASSUME NEW P, NEW U, NEW M, Fit(P, U), Abortable \subseteq TimerLabels,
         NEW t, NEW tm \in TickLists, NEW th, timer_abort(t, tm, th)
  PROVE  Steps(U, M) /\ th \in Active(k')
<1> DEFINE W == Ranked(U) \cap Added
           q == threadList_remove(k, tm, th)
<1>1. /\ User(t) /\ threadList_has(k, tm, th) /\ pc[th].at \in TimerLabels
      /\ ResumeAndReturn(t, q, th) /\ k' = resume(q, th) /\ UNCHANGED <<now, due>>
      /\ Strung(k, Waiting, W, Added) /\ tm \in Lists
  BY FitParts DEF timer_abort, ResumeAndReturn, Lists
<1>2. Passes(P, M)
  BY <1>1, UserMoves
<1>3. th \in Threads /\ Waiting[th] = {tm}
  <2>1. th \in On(k, tm)
    BY <1>1, ListAssumption DEF threadList_has, On, Links
  <2>2. th \in Threads /\ tm \in Waiting[th]
    BY <1>1, <2>1, HeldOn
  <2>3. Waiting[th] = {pc[th].on}
    BY <1>1, <2>2, FitParts DEF Waiting, Fit, Seated
  <2> QED
    BY <2>2, <2>3
<1>4. q = threadList_remove(k, tm, th)
  OBVIOUS
<1> HIDE DEF W, q
<1>5. /\ Strung(k', Waiting, W, Added) /\ Active(k') = Active(k) \cup {th} /\ th \notin Active(k)
      /\ k'.prior = k.prior /\ Ordered(k, k')
      /\ \A u \in Threads \ {th} : k'.prevTk[u] = k.prevTk[u]
  BY ONLY <1>1, <1>3, <1>4, tm \in TickLists, AbortStrung
<1>6. "timer" \notin DOMAIN pc[th]
  BY <1>3, WaitingParts DEF Fit
<1>7. Strung(k', Waiting, Ranked(U) \cap Added, Added)
  BY <1>5 DEF W
<1> QED
  BY <1>1, <1>2, <1>3, <1>5, <1>6, <1>7, WakeStep

\* Whom the loop of a tick leaves in the list waits for a later time.
LEMMA LaterStays ==
  ASSUME NEW P, NEW U, Layer(P), Knit(U), Near, NEW tm \in TickLists,
         NEW q, NEW W, NEW A, Strung(q, Waiting, W, A), Woke(k, q, tm, Waiting),
         NEW tick, tick = (now[tm] + 1) % TickMod, tickList_due(q, tm, tick) = NULL,
         NEW t \in Threads \ Active(q), tm \in Waiting[t]
  PROVE  now[tm] + 1 < due[t]
<1> DEFINE th == q.head[tm]
<1>1. /\ due \in [Threads -> Int] /\ now[tm] \in Nat /\ tm \in Lists
      /\ MaxDelay \in Nat /\ MaxLate \in Nat /\ q \in Memory
  <2>1. q \in Memory
    BY FencedTypes DEF Strung
  <2>2. due \in [Threads -> Int]
    BY TimesAreIntegers DEF Layer
  <2>3. MaxDelay \in Nat /\ MaxLate \in Nat /\ MaxTicks \in Nat /\ now[tm] \in Nat
    BY TimerAssumption DEF Layer
  <2> QED
    BY <2>1, <2>2, <2>3 DEF Lists
<1>2. On(q, tm) = {u \in Threads : u \notin Active(q) /\ tm \in Waiting[u]}
  BY <1>1, HeldOn
<1>3. \A u \in On(q, tm) : /\ u \in Threads /\ q.tick[u] = due[u] % TickMod
                            /\ due[u] \in now[tm] - MaxLate .. now[tm] + MaxDelay
  <2>1. \A u \in On(q, tm) : u \in Threads \ Active(k) /\ tm \in Waiting[u]
    BY <1>2 DEF Woke
  <2>2. q.tick = k.tick
    BY DEF Woke
  <2> QED
    BY <2>1, <2>2 DEF Layer, Knit, Windowed, InWindow
<1>4. t \in On(q, tm)
  BY <1>2
<1>5. th # NULL /\ RowSorted(q, tm)
  <2>1. th = NULL => On(q, tm) = {}
    BY ChainNull DEF On
  <2>2. RowSorted(q, tm)
    BY <1>1 DEF Strung, Hung, InOrder
  <2> QED
    BY <1>4, <2>1, <2>2
<1>6. PICK d \in [Threads -> Int] :
        /\ Spaced(q, On(q, tm), d)
        /\ \A u \in On(q, tm) : Links(q, tm)[u] # NULL => d[u] <= d[Links(q, tm)[u]]
  BY <1>5 DEF RowSorted
<1>7. th \in On(q, tm) /\ d[th] <= d[t]
  BY <1>1, <1>4, <1>5, <1>6, RowFirst
<1>8. ~ tick_isOver(tick, q.tick[th])
  BY <1>5 DEF tickList_due
<1> HIDE DEF th
<1>9. MaxDelay + MaxLate <= HalfRound /\ MaxLate < HalfRound /\ HalfRound \in Int
  BY HalfRoundType DEF Near
<1>10. due[th] <= due[t]
  <2>1. /\ d[t] % TickMod = due[t] % TickMod /\ d[th] % TickMod = due[th] % TickMod
        /\ d[t] - d[th] <= HalfRound /\ d[th] - d[t] <= HalfRound
    BY <1>3, <1>4, <1>6, <1>7 DEF Spaced
  <2>2. /\ d[t] \in Int /\ d[th] \in Int /\ due[t] \in Int /\ due[th] \in Int
    BY <1>1, <1>3, <1>4, <1>7
  <2>3. due[t] - due[th] <= HalfRound /\ due[th] - due[t] <= HalfRound
    <3>1. /\ due[t] \in now[tm] - MaxLate .. now[tm] + MaxDelay
          /\ due[th] \in now[tm] - MaxLate .. now[tm] + MaxDelay
      BY <1>3, <1>4, <1>7
    <3> QED
      BY ONLY <1>1, <1>9, <2>2, <3>1
  <2>4. d[t] - d[th] = due[t] - due[th]
    BY ONLY <2>1, <2>2, <2>3, SameGap
  <2> QED
    BY ONLY <1>7, <2>2, <2>4
<1>11. now[tm] + 1 < due[th]
  <2> DEFINE a == now[tm] + 1
             b == due[th]
  <2>1. /\ a \in Int /\ b \in Int /\ b \in now[tm] - MaxLate .. now[tm] + MaxDelay
    BY <1>1, <1>3, <1>7
  <2>2. a - b <= HalfRound /\ b - a <= HalfRound
    BY ONLY <1>1, <1>9, <2>1
  <2>3. ~ tick_isOver(a % TickMod, b % TickMod)
    BY <1>3, <1>7, <1>8
  <2> HIDE DEF a, b
  <2>4. ~ (b <= a)
    BY <2>1, <2>2, <2>3, TicksTell
  <2>5. a < b
    BY <2>1, <2>4
  <2> QED
    BY <2>5 DEF a, b
<1>12. due[th] \in Int /\ due[t] \in Int
  BY <1>1, <1>3, <1>4, <1>7
<1> QED
  BY ONLY <1>1, <1>10, <1>11, <1>12

\* Whom the loop takes out has waited for a time that has come.
LEMMA EarlierGoes ==
  ASSUME NEW P, NEW U, Layer(P), Knit(U), Near, NEW tm \in TickLists,
         NEW t \in Threads \ Active(k), tm \in Waiting[t],
         tick_isOver((now[tm] + 1) % TickMod, k.tick[t])
  PROVE  due[t] <= now[tm] + 1
<1> DEFINE a == now[tm] + 1
           b == due[t]
<1>1. /\ now[tm] \in Nat /\ MaxDelay \in Nat /\ MaxLate \in Nat
      /\ MaxDelay + MaxLate <= HalfRound /\ MaxLate < HalfRound /\ HalfRound \in Int
  BY TimerAssumption, HalfRoundType DEF Layer, Near
<1>2. b \in now[tm] - MaxLate .. now[tm] + MaxDelay
  BY DEF Knit, Windowed, InWindow
<1>3. a \in Int /\ b \in Int /\ a - b <= HalfRound /\ b - a <= HalfRound
  BY ONLY <1>1, <1>2
<1>4. tick_isOver(a % TickMod, b % TickMod)
  BY DEF Layer
<1> HIDE DEF a, b
<1>5. b <= a
  BY <1>3, <1>4, TicksTell
<1> QED
  BY <1>5 DEF a, b

\* A tick wakes those whose time has come.
LEMMA TickStep ==
  ASSUME NEW P, NEW U, NEW M, Fit(P, U), NEW t, NEW tm \in TickLists, timer_tick(t, tm)
  PROVE  /\ Steps(U, M) /\ Active(k) \subseteq Active(k')
         /\ Near => \A u \in Threads \ Active(k) :
                      tm \in Waiting[u] => (u \in Active(k') <=> ~ (due[u] > now'[tm]))
<1> DEFINE W == Ranked(U) \cap Added
           tick == now'[tm] % TickMod
           r == timer_tick_loop(k, tm, tick)
           q == r.mem
<1>1. /\ Strung(k, Waiting, W, Added) /\ r = timer_tick_loop(k, tm, tick)
      /\ k' = IF r.yield THEN yieldISR(q) ELSE q
      /\ UNCHANGED <<pc, due>> /\ now' = [now EXCEPT ![tm] = now[tm] + 1]
  BY FitParts DEF timer_tick
<1>2. now \in [TickLists -> 0 .. MaxTicks] /\ due \in [Threads -> Times] /\ Times \subseteq Int
  BY TimesAreIntegers DEF Fit, Layer
<1>3. now'[tm] = now[tm] + 1 /\ now[tm] \in Nat /\ \A l \in TickLists : now[l] <= now'[l]
  BY <1>1, <1>2, TimerAssumption
<1> HIDE DEF W, r
<1>4. tick = (now[tm] + 1) % TickMod
  BY <1>3
<1> HIDE DEF tick
<1>5. /\ Strung(q, Waiting, W, Added) /\ Woke(k, q, tm, Waiting) /\ Advice(k, r)
      /\ Due(k, q, tick) /\ tickList_due(q, tm, tick) = NULL
  BY <1>1, tickLoopStrung
<1> HIDE DEF q
<1>6. /\ Strung(k', Waiting, W, Added) /\ Active(k') = Active(q)
      /\ k'.prior = q.prior /\ k'.prevTk = q.prevTk /\ Ordered(k, k')
  <2>1. CASE r.yield
    BY <1>1, <1>5, <2>1, YieldStrung DEF SameElsewhere, Ordered
  <2>2. CASE ~ r.yield
    BY <1>1, <1>5, <2>2 DEF Ordered, Advice, Woke, q
  <2> QED
    BY <2>1, <2>2
<1>7. ASSUME NEW u \in Active(q) \ Active(k), "timer" \in DOMAIN pc[u], InHalfRange
      PROVE  due[u] <= now'[pc[u].timer]
  <2>1. u \in Threads /\ u \notin Active(k)
    BY <1>7 DEF Active
  <2>2. pc[u].timer = tm
    <3>1. tm \in Waiting[u] /\ Waiting[u] = {pc[u].on, pc[u].timer} /\ pc[u].on \in PriorLists
      BY <1>5, <1>7, <2>1, WaitingParts DEF Woke, Fit
    <3> QED
      BY <3>1, ListAssumption
  <2>3. due[u] <= now[tm] + MaxDelay
    BY <1>7, <2>1, <2>2 DEF Fit, Knit, Timely
  <2>4. tick_isOver(now'[tm] % TickMod, due[u] % TickMod)
    BY <1>5, <1>7, <2>1 DEF Fit, Layer, tick, Due
  <2>5. due[u] \in Int /\ now[tm] \in Int /\ now'[tm] = now[tm] + 1 /\ MaxDelay \in Int
    <3>1. due[u] \in Times
      BY <1>2, <2>1
    <3>2. due[u] \in Int
      BY <1>2, <3>1
    <3>3. MaxDelay \in Int
      BY TimerAssumption
    <3>4. now[tm] \in Int
      BY <1>3
    <3> QED
      BY ONLY <1>3, <3>2, <3>3, <3>4
  <2>6. ~ (now'[tm] < due[u])
    <3>1. now'[tm] < due[u] => due[u] - now'[tm] <= MaxDelay
      BY <2>3, <2>5
    <3>2. now'[tm] \in Int
      BY <2>5
    <3> QED
      BY <1>7, <2>4, <2>5, <3>1, <3>2, NotOver
  <2> QED
    BY <2>2, <2>5, <2>6
<1>8. Roused /\ Active(k) \subseteq Active(k') /\ k'.prior = k.prior
  BY <1>5, <1>6, <1>7 DEF Roused, Woke
<1>9. Strung(k', Waiting, Ranked(U) \cap Added, Added) /\ Passes(P, M)
  BY <1>1, <1>6 DEF W, Passes
<1>10. Seated(P) /\ Layer(P) /\ Layer(P)' /\ Knit(U)
  BY DEF Fit
<1>11. Near => \A u \in Threads \ Active(q) : tm \in Waiting[u] => now[tm] + 1 < due[u]
  BY <1>4, <1>5, <1>10, LaterStays
<1>12. Onward
  <2>1. \A l \in TickLists \ {tm} : now'[l] = now[l]
    BY <1>1, <1>2
  <2> QED
    BY <1>1, <1>3, <1>6, <1>11, <2>1 DEF Onward
<1>13. Steps(U, M)
  BY <1>6, <1>8, <1>9, <1>10, <1>12, CalmStep
<1>14. ASSUME Near, NEW u \in Threads \ Active(k), tm \in Waiting[u]
       PROVE  u \in Active(k') <=> ~ (due[u] > now'[tm])
  <2>1. due[u] \in Int /\ now'[tm] = now[tm] + 1 /\ now[tm] \in Int
    <3>1. due[u] \in Times /\ now[tm] \in Nat /\ now'[tm] = now[tm] + 1
      BY <1>2, <1>3, <1>14
    <3>2. due[u] \in Int
      BY <1>2, <3>1
    <3> QED
      BY ONLY <3>1, <3>2
  <2>2. CASE u \in Active(q)
    <3>1. tick_isOver((now[tm] + 1) % TickMod, k.tick[u])
      BY <1>4, <1>5, <2>2 DEF Due
    <3>2. due[u] <= now[tm] + 1
      BY <1>10, <1>14, <3>1, EarlierGoes
    <3> QED
      BY <1>6, <2>1, <2>2, <3>2
  <2>3. CASE u \notin Active(q)
    BY <1>6, <1>11, <1>14, <2>1, <2>3
  <2> QED
    BY <2>2, <2>3
<1> QED
  BY <1>8, <1>13, <1>14

\* Steps of a wait for the timer, by its calls.
LEMMA TimerCallStep ==
  ASSUME NEW P, NEW U, NEW M, Fit(P, U), TimerUses \subseteq U, Above(M),
         NEW t \in Threads, NEW tm \in TickLists,
         \/ timer_wait(t, tm) \/ task_updateTick(t, tm)
         \/ \E d \in Nat :
              \/ timer_shift(t, tm, d) \/ timer_period(t, tm, d) \/ timer_delay(t, tm, d)
              \/ task_setTimeout(t, tm, d) \/ task_increaseTimeout(t, tm, d)
  PROVE  Steps(U, M)
<1>1. /\ due \in [Threads -> Times] /\ Times \subseteq Int /\ Layer(P)
  BY TimesAreIntegers DEF Fit, Layer
<1>2. now[tm] \in Times /\ due[t] \in Times /\ now[tm] \in Int /\ due[t] \in Int
  BY <1>1, WindowIsTimes
<1>3. \A time \in Int : InWindow(time, tm) => time \in Times
  BY <1>1, WindowIsTimes
<1>4. ASSUME NEW label, NEW time \in Int, WaitTimer(t, tm, label, time) PROVE Steps(U, M)
  BY <1>3, <1>4, WaitTimerStep DEF WaitTimer
<1>5. ASSUME NEW label, NEW time \in Int, InWindow(time, tm), SetDue(t, label, time) PROVE Steps(U, M)
  BY <1>3, <1>5, SetDueStep
<1>6. CASE timer_wait(t, tm) \/ task_updateTick(t, tm)
  BY <1>2, <1>4, <1>6, SetDueStep DEF timer_wait, task_updateTick
<1>7. ASSUME NEW d \in Nat,
             \/ timer_shift(t, tm, d) \/ timer_period(t, tm, d) \/ timer_delay(t, tm, d)
             \/ task_setTimeout(t, tm, d) \/ task_increaseTimeout(t, tm, d)
      PROVE  Steps(U, M)
  <2>1. now[tm] + d \in Int /\ due[t] + d \in Int
    BY <1>1, <1>2
  <2> QED
    BY <1>4, <1>5, <1>7, <2>1
       DEF timer_shift, timer_period, timer_delay, task_setTimeout, task_increaseTimeout
<1> QED
  BY <1>6, <1>7

LEMMA EventTimerStep ==
  ASSUME NEW P, NEW U, NEW M, Fit(P, U), TimerUses \subseteq U, Above(M),
         NEW t \in Threads, NEW e \in Events, NEW tm \in TickLists, eventTimer_wait(t, e, tm)
  PROVE  Steps(U, M)
<1> DEFINE p == [at |-> "eventTimer_wait", on |-> e, timer |-> tm]
<1>1. /\ User(t) /\ t = k.running /\ t # Background /\ e \in PriorLists /\ <<t, e, tm>> \in TimedUsers
      /\ k' = jump(tickList_put(priorList_put(k, e, t), tm, t))
      /\ pc' = [pc EXCEPT ![t] = p] /\ InWindow(due[t], tm) /\ UNCHANGED <<now, due>>
      /\ In(pc[t]) = {}
  BY UserPoint, TimerAssumption, EventAssumption DEF eventTimer_wait, Leave
<1>2. <<t, {e, tm}>> \in U
  <2>1. <<t, e, tm>>[1] = t /\ <<t, e, tm>>[2] = e /\ <<t, e, tm>>[3] = tm
    OBVIOUS
  <2>2. <<t, {e, tm}>> \in {<<u[1], {u[2], u[3]}>> : u \in TimedUsers}
    BY <1>1, <2>1
  <2> QED
    BY <2>2 DEF TimerUses
<1>3. p.at # "new" /\ p.on = e /\ "timer" \in DOMAIN p /\ p.timer = tm
  OBVIOUS
<1>4. p \in P
  BY DEF Fit, Seated, Timed, TimerPoints
<1>5. In(p) \cap M = {}
  BY <1>3 DEF In, Above
<1> HIDE DEF p
<1>6. Blocks(U, M, t, p)
  BY <1>1, <1>2, <1>3, <1>4, BothStep
<1> QED
  BY <1>1, <1>5, <1>6 DEF Steps, Blocks, Stays

\* The steps of the kernel, its events and timers.
LEMMA TimerStep ==
  ASSUME NEW P, NEW U, NEW M, Fit(P, U), TimerUses \subseteq U, Above(M),
         Abortable \subseteq TimerLabels, TimerNext
  PROVE  Steps(U, M)
<1>1. CASE EventNext /\ UNCHANGED <<now, due>>
  BY <1>1, EventStep
<1>2. ASSUME NEW t \in Threads, checkIRQ(t, TimerLabels), UNCHANGED <<now, due>> PROVE Steps(U, M)
  BY <1>2, OpenStep
<1>3. ASSUME NEW t \in Threads, timer_return(t) PROVE Steps(U, M)
  BY <1>3, TimerReturnStep
<1>4. ASSUME NEW t \in Threads, NEW tm \in TickLists, NEW th \in Threads, timer_abort(t, tm, th)
      PROVE  Steps(U, M)
  BY <1>4, AbortStep
<1>5. ASSUME NEW t \in Threads, eventTimer_return(t) PROVE Steps(U, M)
  <2>1. /\ t = k.running /\ pc[t].at = "eventTimer_wait" /\ Finish(t) /\ UNCHANGED <<k, now, due>>
        /\ pc[t] \in P
    BY <1>5, FitParts DEF eventTimer_return
  <2>2. In(pc[t]) \cap M = {}
    BY <2>1 DEF Fit, Seated, Above
  <2> QED
    BY <2>1, <2>2, FinishStep
<1>6. ASSUME NEW t \in Threads, NEW tm \in TickLists, timer_tick(t, tm) PROVE Steps(U, M)
  BY <1>6, TickStep
<1> QED
  BY <1>1, <1>2, <1>3, <1>4, <1>5, <1>6, TimerCallStep, EventTimerStep, TimerAssumption
     DEF TimerNext, TimerThread, TimerInterrupt, EventNext

\* A step that leaves everything is one.
LEMMA StutterStep ==
  ASSUME NEW P, NEW U, NEW M, Fit(P, U), UNCHANGED <<k, pc, now, due>>
  PROVE  Steps(U, M)
BY StillStep DEF Passes

-----------------------------------------------------------------------------
(* What the lists come to, for those who read them. *)

LEMMA TimerPointsSeated == Seated(TimerPoints)
<1>1. \A p \in KernelPoints : p.on = NULL /\ "timer" \notin DOMAIN p /\ In(p) = {}
  BY DEF KernelPoints, At, In
<1>2. \A e \in Events : /\ In(Inside("event_wait", e)) = {e} /\ Inside("event_wait", e).at = "event_wait"
                        /\ "timer" \notin DOMAIN Inside("event_wait", e)
  BY InsideIn, EventAssumption DEF Lists, Inside
<1>3. \A p \in [at : TimerLabels, on : TickLists, tmp : Times] :
        p.at \in TimerLabels /\ In(p) = {p.on} /\ p.on \in TickLists /\ "timer" \notin DOMAIN p
  BY ListAssumption DEF In
<1>4. \A p \in [at : {"eventTimer_wait"}, on : Events, timer : TickLists] :
        /\ p.at = "eventTimer_wait" /\ In(p) = {p.on, p.timer}
        /\ p.on \in Events /\ p.timer \in TickLists
  BY DEF In
<1>5. \A p \in KernelPoints : p.at \notin {"event_wait", "eventTimer_wait"} \cup TimerLabels
  BY PointsAreLabels DEF KernelPoints, At, TimerLabels
<1>6. Events \subseteq PriorLists /\ PriorLists \subseteq Lists /\ TickLists \subseteq Lists
  BY EventAssumption DEF Lists
<1>7. ASSUME NEW p \in TimerPoints
      PROVE  /\ In(p) \subseteq Lists
             /\ p.at \in Home \cup {"new", "suspend"} => In(p) = {}
             /\ p.at \in {"event_wait", "eventTimer_wait"} \cup TimerLabels => In(p) \subseteq Events \cup TickLists
             /\ p.at \in TimerLabels => In(p) = {p.on}
             /\ "timer" \in DOMAIN p => p.on \in PriorLists /\ p.timer \in TickLists
  <2>1. CASE p \in KernelPoints
    BY <1>1, <1>5, <2>1
  <2>2. ASSUME NEW e \in Events, p = Inside("event_wait", e)
        PROVE  /\ In(p) = {e} /\ p.at = "event_wait" /\ "timer" \notin DOMAIN p
    BY <1>2, <2>2
  <2> QED
    BY <1>3, <1>4, <1>6, <2>1, <2>2 DEF TimerPoints, EventPoints, Home, TimerLabels
<1> QED
  BY <1>7, TimerPointsTimed DEF Seated

LEMMA InitKnit ==
  ASSUME NEW U, TimerInit
  PROVE  Knit(U)
<1>1. SInv /\ Fenced(k) /\ k \in Memory
  BY InitSInv, InitFenced DEF TimerInit, SInv, Settled, Dispatched
<1>2. \A t \in Threads : Waiting[t] = {} /\ "timer" \notin DOMAIN pc[t]
  BY DEF TimerInit, KernelInit, Waiting, In, At
<1>3. \A t \in Threads : pc[t].at = IF t = Background THEN "boot" ELSE "new"
  BY DEF TimerInit, KernelInit, At
<1>4. Added = {Background} /\ Background \in Threads /\ k.running = Background
  BY <1>3, KernelAssumption DEF Added, TimerInit, KernelInit
<1>5. Dispatched(k) /\ Active(k) \subseteq Added /\ Background \in Active(k)
  BY <1>1, <1>3, <1>4 DEF SInv, Settled, Added, Active
<1> DEFINE h == [t \in Threads |-> {}]
<1>6. Pending(k, Waiting) = h
  BY <1>2 DEF Pending
<1>7. Hung(k, h)
  <2>1. /\ \A l \in Lists : k.head[l] = NULL
        /\ \A t \in Threads : k.prevPr[t] = NULL /\ k.prevTk[t] = NULL
    BY DEF TimerInit, KernelInit
  <2>2. \A l \in Lists : On(k, l) = {} /\ Terminates(Links(k, l), k.head[l])
    BY <2>1, ChainNull DEF On, Terminates
  <2>3. \A t \in Threads : HangsBy(k, h, t)
    BY <2>1 DEF HangsBy
  <2>4. \A l \in Lists : InOrder(k, l)
    <3>1. \A l \in Lists : Spaced(k, On(k, l), [t \in Threads |-> 0])
      BY <2>2 DEF Spaced
    <3>2. [t \in Threads |-> 0] \in [Threads -> Int]
      OBVIOUS
    <3> QED
      BY <2>2, <3>1, <3>2 DEF InOrder, LineSorted, RowSorted
  <2> QED
    BY <1>1, <2>2, <2>3, <2>4 DEF Hung
<1> HIDE DEF h
<1>8. Strung(k, Waiting, Ranked(U) \cap Added, Added)
  <2>1. Own(k, Ranked(U) \cap Added, Added)
    BY <1>4 DEF Own
  <2>2. Waiting \in [Threads -> SUBSET Lists] /\ \A t \in Threads : Waiting[t] # {} => t \in Added
    BY <1>2 DEF Waiting
  <2>3. k.nextPr[Background] = NULL
    BY <1>4 DEF TimerInit, KernelInit
  <2> QED
    BY <1>1, <1>4, <1>5, <1>6, <1>7, <2>1, <2>2, <2>3 DEF Strung
<1>9. \A t \in Added : k.prior[t] = IF t = Background THEN Lowest ELSE Prior[t]
  BY <1>4 DEF TimerInit, KernelInit
<1>10. \A t \in Threads \ Active(k) : pc[t].at \in {"suspend", "new"}
  BY <1>3, <1>5
<1> QED
  BY <1>2, <1>8, <1>9, <1>10 DEF Knit, Timely, Windowed

\* The ready queues, as Kernel.tla states them.
LEMMA QueuesAreWell ==
  ASSUME NEW x, NEW W, NEW A, Strung(k, x, W, A)
  PROVE  /\ QueuesWellFormed
         /\ \A t \in Threads : IF t = k.running \/ t \notin Active(k)
                               THEN QueuesHolding(t) = {} ELSE QueuesHolding(t) = {k.prior[t]}
<1>1. Dispatched(k) /\ k \in Memory /\ WellQueued(k)
  BY DEF Strung, Dispatched
<1>2. \A p \in Priors : Ready(p) = ReadyOf(k, p)
  BY DEF Ready, ReadyOf
<1>3. QueuesWellFormed
  BY <1>1, <1>2 DEF QueuesWellFormed, WellQueued, Terminates, ReadyOf
<1>4. ASSUME NEW t \in Threads
      PROVE  IF t = k.running \/ t \notin Active(k)
             THEN QueuesHolding(t) = {} ELSE QueuesHolding(t) = {k.prior[t]}
  <2>1. \A p \in QueuesHolding(t) : p = k.prior[t]
    BY <1>1, <1>2 DEF QueuesHolding, WellQueued
  <2>2. IsReady(k, t) <=> QueuesHolding(t) # {}
    BY <1>2 DEF QueuesHolding, IsReady
  <2>3. t = k.running => ~ IsReady(k, t)
    BY <1>1 DEF Dispatched
  <2>4. QueuesHolding(t) = {} \/ QueuesHolding(t) = {k.prior[t]}
    BY <2>1
  <2> QED
    BY <2>2, <2>3, <2>4 DEF Active
<1> QED
  BY <1>3, <1>4

\* A thread is where it runs or is ready, or in the lists it waits for, or in none.
LEMMA KnitAccounts ==
  ASSUME NEW U, Knit(U), NEW t \in Threads, NEW held,
         held = {l \in Lists : t \in On(k, l)}
  PROVE  Accounted(t, held, Waiting[t])
<1>1. /\ Strung(k, Waiting, Ranked(U) \cap Added, Added)
      /\ t \notin Active(k) => Waiting[t] # {} \/ pc[t].at \in {"suspend", "new"}
      /\ Waiting[t] \subseteq Lists
  BY DEF Knit, Strung
<1>2. \A l \in Lists : t \in On(k, l) <=> t \notin Active(k) /\ l \in Waiting[t]
  BY <1>1, HeldOn
<1>3. held = IF t \in Active(k) THEN {} ELSE Waiting[t]
  BY <1>1, <1>2
<1>4. t = k.running => t \in Active(k)
  BY DEF Active
<1>5. IF t = k.running \/ t \notin Active(k)
      THEN QueuesHolding(t) = {} ELSE QueuesHolding(t) = {k.prior[t]}
  BY <1>1, QueuesAreWell
<1> QED
  BY <1>1, <1>3, <1>4, <1>5 DEF Accounted

LEMMA OnLists ==
  /\ \A l \in PriorLists : On(k, l) = Waiters(l)
  /\ \A tm \in TickLists : On(k, tm) = Sleepers(tm)
BY ListAssumption DEF On, Links, Waiters, Sleepers

\* Who has timed waits shares no list with anybody, no list is used in two ways, and
\* aborts are for those that wait for nothing but a timer.
TimersApart == Apart(TimerUses) /\ Abortable \subseteq TimerLabels

TimerKnit == Layer(TimerPoints) /\ Knit(TimerUses)

LEMMA TimerLists ==
  ASSUME TimersApart
  PROVE  TimerSpec => []TimerKnit
<1>1. TimerInit => TimerKnit
  BY InitLayer, InitKnit, TimerPointsTimed DEF TimerKnit
<1>2. TimerKnit /\ [TimerNext]_timerVars => TimerKnit'
  <2> SUFFICES ASSUME TimerKnit, [TimerNext]_timerVars PROVE TimerKnit'
    OBVIOUS
  <2>1. Layer(TimerPoints)'
    <3>1. CASE TimerNext
      BY <3>1, TimerLayer, TimerPointsTimed DEF TimerKnit
    <3>2. CASE UNCHANGED timerVars
      BY <3>2 DEF timerVars, Layer, TimerKnit
    <3> QED
      BY <3>1, <3>2
  <2>2. Fit(TimerPoints, TimerUses) /\ Above({})
    BY <2>1, TimerPointsSeated DEF Fit, TimersApart, TimerKnit, Above
  <2>3. Steps(TimerUses, {})
    <3>1. CASE TimerNext
      BY <2>2, <3>1, TimerStep DEF TimersApart
    <3>2. CASE UNCHANGED timerVars
      BY <2>2, <3>2, StutterStep DEF timerVars
    <3> QED
      BY <3>1, <3>2
  <2> QED
    BY <2>1, <2>3 DEF TimerKnit, Steps
<1> QED
  BY <1>1, <1>2, PTL DEF TimerSpec

\* What a call of the timers and events waits for.
LEMMA TimerIn ==
  ASSUME NEW p \in TimerPoints
  PROVE  In(p) \subseteq Events \cup TickLists
<1>1. p \in KernelPoints => In(p) = {}
  BY DEF KernelPoints, At, In
<1>2. ASSUME NEW e \in Events, p = Inside("event_wait", e) PROVE In(p) = {e}
  BY <1>2, InsideIn, EventAssumption DEF Lists
<1>3. p \in [at : TimerLabels, on : TickLists, tmp : Times] => In(p) \subseteq TickLists
  BY DEF In
<1>4. p \in [at : {"eventTimer_wait"}, on : Events, timer : TickLists]
        => In(p) \subseteq Events \cup TickLists
  BY DEF In
<1> QED
  BY <1>1, <1>2, <1>3, <1>4 DEF TimerPoints, EventPoints

LEMMA TimerWaitLists ==
  ASSUME NEW t \in Threads, pc[t] \in TimerPoints, Waiting[t] # {}
  PROVE  WaitLists(t) = Waiting[t]
<1>1. CASE pc[t] \in KernelPoints
  BY <1>1 DEF KernelPoints, At, Waiting, In
<1>2. ASSUME NEW e \in Events, pc[t] = Inside("event_wait", e) PROVE WaitLists(t) = Waiting[t]
  BY <1>2, InsideIn, EventAssumption DEF Lists, Waiting, WaitLists
<1>3. CASE pc[t] \in [at : TimerLabels, on : TickLists, tmp : Times]
  <2>1. pc[t].at \in TimerLabels /\ "timer" \notin DOMAIN pc[t] /\ pc[t].on \in TickLists
    BY <1>3
  <2> QED
    BY <2>1, ListAssumption DEF Waiting, In, WaitLists, TimerLabels
<1>4. CASE pc[t] \in [at : {"eventTimer_wait"}, on : Events, timer : TickLists]
  <2>1. pc[t].at = "eventTimer_wait" /\ "timer" \in DOMAIN pc[t]
    BY <1>4
  <2> QED
    BY <2>1 DEF Waiting, In, WaitLists
<1> QED
  BY <1>1, <1>2, <1>3, <1>4 DEF TimerPoints, EventPoints

\* Whatever order events, ticks, timed waits and aborts come in, and for any number
\* of threads: each is running, ready, suspended or in all the lists it waits in and
\* in no other, and every list ends (thread-list.h:89-126, 195-345).
THEOREM TimersLoseNoThread ==
  ASSUME TimersApart
  PROVE  TimerSpec => []TimerLosesNoThread
<1>1. TimerKnit => TimerLosesNoThread
  <2> SUFFICES ASSUME TimerKnit PROVE TimerLosesNoThread
    OBVIOUS
  <2>1. /\ Strung(k, Waiting, Ranked(TimerUses) \cap Added, Added) /\ Knit(TimerUses)
        /\ pc \in [Threads -> TimerPoints] /\ Hung(k, Pending(k, Waiting))
    BY DEF TimerKnit, Knit, Layer, Strung
  <2>2. Events \subseteq PriorLists /\ Lists = PriorLists \cup TickLists
    BY EventAssumption DEF Lists
  <2>3. \A e \in Events : Terminates(k.nextPr, k.head[e])
    BY <2>1, <2>2, ListAssumption DEF Hung, Links
  <2>4. \A tm \in TickLists : Terminates(TkLinks(k), k.head[tm])
    BY <2>1, <2>2 DEF Hung, Links
  <2>5. ASSUME NEW t \in Threads PROVE Accounted(t, ListsHolding(t), WaitLists(t))
    <3> DEFINE held == {l \in Lists : t \in On(k, l)}
    <3>1. Accounted(t, held, Waiting[t])
      BY <2>1, KnitAccounts
    <3>2. Waiting[t] \subseteq Events \cup TickLists
      BY <2>1, TimerIn DEF Waiting
    <3>3. \A l \in Lists : t \in On(k, l) => l \in Waiting[t]
      BY <2>1, HeldOn
    <3>4. held = ListsHolding(t)
      BY <2>2, <3>2, <3>3, OnLists DEF ListsHolding
    <3>5. Waiting[t] # {} => WaitLists(t) = Waiting[t]
      BY <2>1, TimerWaitLists
    <3>6. Waiting[t] = {} => held = {}
      BY <3>3
    <3> HIDE DEF held
    <3>7. Accounted(t, held, WaitLists(t))
      BY <3>1, <3>5, <3>6 DEF Accounted
    <3> QED
      BY <3>4, <3>7
  <2>6. QueuesWellFormed
    BY <2>1, QueuesAreWell
  <2> QED
    BY <2>3, <2>4, <2>5, <2>6 DEF TimerLosesNoThread
<1> QED
  BY <1>1, TimerLists, PTL

LEMMA KnitTimely ==
  ASSUME NEW U, Knit(U), InHalfRange
  PROVE  TimeoutNotEarly
<1> SUFFICES ASSUME NEW t \in Threads,
                    k.running = t, "timer" \in DOMAIN pc[t], ~ TimedResult(t)
             PROVE  due[t] <= now[pc[t].timer]
  BY DEF TimeoutNotEarly
<1>1. Timely /\ t \in Active(k)
  BY DEF Knit, Active
<1> QED
  BY <1>1 DEF Timely, TimedResult

\* A wait that returns without its event returns when its time has come, although
\* the counters wrap around (event.h:74-80), as long as no wait lasts half a round.
THEOREM TimeoutsNotEarly ==
  ASSUME TimersApart, InHalfRange
  PROVE  TimerSpec => []TimeoutNotEarly
<1>1. TimerKnit => TimeoutNotEarly
  BY KnitTimely DEF TimerKnit
<1> QED
  BY <1>1, TimerLists, PTL

\* Nothing but a tick moves a clock.
LEMMA ClocksMove ==
  ASSUME [TimerNext]_timerVars
  PROVE  UNCHANGED now \/ \E t \in Threads : \E tm \in TickLists : timer_tick(t, tm)
<1>1. CASE TimerThread
  <2>1. ASSUME NEW t, NEW tm, NEW label, NEW time,
               WaitTimer(t, tm, label, time) \/ SetDue(t, label, time)
        PROVE  UNCHANGED now
    BY <2>1 DEF WaitTimer, SetDue
  <2>2. ASSUME NEW t, NEW tm,
               \/ timer_wait(t, tm) \/ task_updateTick(t, tm)
               \/ \E d \in Delays :
                    \/ timer_shift(t, tm, d) \/ timer_period(t, tm, d) \/ timer_delay(t, tm, d)
                    \/ task_setTimeout(t, tm, d) \/ task_increaseTimeout(t, tm, d)
        PROVE  UNCHANGED now
    BY <2>1, <2>2 DEF timer_wait, timer_shift, timer_period, timer_delay, task_updateTick,
                      task_setTimeout, task_increaseTimeout
  <2>3. ASSUME NEW t, NEW tm, NEW th, NEW e,
               \/ timer_return(t) \/ timer_abort(t, tm, th)
               \/ eventTimer_wait(t, e, tm) \/ eventTimer_return(t)
        PROVE  UNCHANGED now
    BY <2>3 DEF timer_return, timer_abort, eventTimer_wait, eventTimer_return
  <2> QED
    BY <1>1, <2>2, <2>3 DEF TimerThread
<1>2. CASE TimerInterrupt
  BY <1>2 DEF TimerInterrupt
<1>3. CASE UNCHANGED timerVars
  BY <1>3 DEF timerVars
<1> QED
  BY <1>1, <1>2, <1>3 DEF TimerNext

\* Although the lists are sorted by counters that wrap around, and threads join them
\* late or early, with an event or without one: a tick takes out of the list of its
\* timer the threads whose time has come and no other (timer.h:54-57), as long as no
\* two times that are waited for lie half a round apart.
THEOREM TicksWakeTheDue ==
  ASSUME TimersApart, Near
  PROVE  TimerSpec => TickWakesExactlyTheDue
<1> DEFINE A == \A tm \in TickLists :
                  now'[tm] # now[tm] =>
                    Sleepers(tm)' = {t \in Sleepers(tm) : due[t] > now'[tm]}
<1>1. TimerKnit /\ TimerKnit' /\ [TimerNext]_timerVars => A
  <2> SUFFICES ASSUME TimerKnit, TimerKnit', [TimerNext]_timerVars,
                      NEW tm \in TickLists, now'[tm] # now[tm]
               PROVE  Sleepers(tm)' = {t \in Sleepers(tm) : due[t] > now'[tm]}
    OBVIOUS
  <2>1. PICK th \in Threads, l \in TickLists : timer_tick(th, l)
    BY ClocksMove
  <2>2. l = tm /\ UNCHANGED pc
    BY <2>1 DEF timer_tick, TimerKnit, Layer
  <2>3. Fit(TimerPoints, TimerUses)
    BY TimerPointsSeated DEF Fit, TimersApart, TimerKnit
  <2>4. /\ Active(k) \subseteq Active(k')
        /\ \A u \in Threads \ Active(k) :
             tm \in Waiting[u] => (u \in Active(k') <=> ~ (due[u] > now'[tm]))
    BY <2>1, <2>2, <2>3, TickStep
  <2>5. On(k, tm) = {u \in Threads : u \notin Active(k) /\ tm \in Waiting[u]}
    BY HeldOn DEF TimerKnit, Knit, Lists
  <2>6. On(k', tm) = {u \in Threads : u \notin Active(k') /\ tm \in Waiting[u]}
    <3>1. Waiting' = Waiting
      BY <2>2 DEF Waiting
    <3>2. Strung(k', Waiting, Ranked(TimerUses) \cap Added', Added')
      BY <3>1 DEF TimerKnit, Knit
    <3> QED
      BY <3>2, HeldOn DEF Lists
  <2>7. On(k', tm) = {u \in On(k, tm) : due[u] > now'[tm]}
    BY <2>4, <2>5, <2>6
  <2>8. On(k, tm) = Sleepers(tm) /\ On(k', tm) = Sleepers(tm)'
    BY DEF On, Links, Sleepers
  <2> QED
    BY <2>7, <2>8
<1>2. TimerKnit /\ TimerKnit' /\ [TimerNext]_timerVars => [A]_timerVars
  BY <1>1
<1> QED
  BY <1>2, TimerLists, PTL DEF TimerSpec, TickWakesExactlyTheDue

\* The first thread of a list becomes ready, and the caller decides later.
LEMMA WokenStep ==
  ASSUME NEW P, NEW U, NEW M, Fit(P, U), NEW l \in PriorLists, k.head[l] # NULL,
         NEW th, th = k.head[l], k' = threadQueueArray_put(priorList_get(k, l), th),
         UNCHANGED <<pc, now, due>>
  PROVE  /\ Knit(U)' /\ Aside(M) /\ k'.running = k.running
         /\ th \in Active(k') /\ l \in Waiting[th]
<1> DEFINE W == Ranked(U) \cap Added
           q == priorList_get(k, l)
<1>1. Strung(k, Waiting, W, Added) /\ q = priorList_get(k, l)
  BY FitParts
<1>2. k' = threadQueueArray_put(q, th)
  OBVIOUS
<1> HIDE DEF W, q
<1>3. /\ th \in Threads \ Active(k) /\ th \in Added /\ l \in Waiting[th]
      /\ Fenced(q) /\ SameQueues(k, q, {}) /\ SameBacks(k, q, th)
      /\ Hung(q, [Pending(k, Waiting) EXCEPT ![th] = {}])
      /\ Waiting[th] # {l} => q.prevTk[th] = REMOVED
  BY <1>1, FirstWoken
<1>4. /\ Strung(k', Waiting, W, Added) /\ Active(k') = Active(k) \cup {th}
      /\ k'.running = k.running /\ k'.prior = k.prior /\ k'.prevTk = q.prevTk
  <2>1. th \in Threads /\ th \notin Active(k) /\ {} \cap Active(k) = {}
    BY <1>3
  <2> QED
    BY ONLY <1>1, <1>2, <1>3, <2>1, WakeStrung
<1>5. /\ \A t \in Threads \ {th} : k'.prevTk[t] = k.prevTk[t]
      /\ "timer" \in DOMAIN pc[th] => k'.prevTk[th] = REMOVED
  <2>1. th \in Threads /\ Seated(P) /\ Layer(P)
    BY <1>3 DEF Fit
  <2>2. "timer" \in DOMAIN pc[th] => \A j : Waiting[th] # {j}
    BY ONLY <2>1, WaitingParts
  <2> QED
    BY <1>3, <1>4, <2>2 DEF SameBacks
<1>6. Strung(k', Waiting, Ranked(U) \cap Added, Added)
  BY <1>4 DEF W
<1>7. Roused /\ Onward /\ Passes(P, M)
  BY <1>3, <1>4, <1>5, FitParts, StandsStill DEF Roused, Passes
<1>8. Seated(P) /\ Layer(P) /\ Layer(P)' /\ Knit(U) /\ Active(k) \subseteq Active(k')
  BY <1>4 DEF Fit
<1>9. Knit(U)' /\ Aside(M)
  BY <1>4, <1>6, <1>7, <1>8, CalmKnit
<1> QED
  BY <1>3, <1>4, <1>9

===============================================================================
