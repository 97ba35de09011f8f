------------------------ MODULE DependencySort_proofs ------------------------
(***************************************************************************)
(* The dependency sort is correct for every slice and every dependency     *)
(* map.  The inductive invariant says what inDegrees counts: the           *)
(* dependencies of an object that are not emitted, or that are the item in *)
(* hand when the inner loop has not come to the object yet (Pending).      *)
(***************************************************************************)
EXTENDS DependencySort, FiniteSetTheorems, TLAPS

Objects == Members(slice)

\* The loop in hand has gone past x.
Passed(x) == \E k \in 1..(next - 1) : slice[k] = x

Pending(x) == {d \in deps[x] : d \notin Members(sorted) \/ (d = item /\ ~Passed(x))}

Types ==
  /\ slice \in Seq(Nat \ {0})
  /\ deps \in [Objects -> SUBSET Objects]
  /\ inDegrees \in [Objects -> Int]
  /\ queue \in Seq(Objects)
  /\ sorted \in Seq(Objects)
  /\ item \in Objects \cup {0}
  /\ next \in 1..(Len(slice) + 1)
  /\ sorting \in {"fill", "pop", "done", "fatal"}

Distinct ==
  /\ NoDuplicates(slice)
  /\ NoDuplicates(queue)
  /\ NoDuplicates(sorted)
  /\ Members(queue) \cap Members(sorted) = {}

Counted == \A x \in Objects : inDegrees[x] = Cardinality(Pending(x))

Ready == \A x \in Members(queue) \cup Members(sorted) : Pending(x) = {}

Ordered ==
  \A i \in 1..Len(sorted) : deps[sorted[i]] \subseteq {sorted[j] : j \in 1..(i - 1)}

Complete ==
  \A x \in Objects :
    Pending(x) = {} /\ (sorting = "fill" => Passed(x)) => x \in Members(queue) \cup Members(sorted)

Filling ==
  /\ item # 0 => item \in Members(sorted)
  /\ sorting = "fill" =>
       sorted = <<>> /\ item = 0 /\ \A x \in Members(queue) : Passed(x)

Returned ==
  /\ sorting = "done" => Members(sorted) = Objects
  /\ sorting = "fatal" => Stuck(Objects \ Members(sorted))

IInv ==
  Types /\ Distinct /\ Counted /\ Ready /\ Ordered /\ Complete /\ Filling /\ Returned

----------------------------------------------------------------------------
(* Sequences and their members. *)

\* What Append adds to the members of a sequence.
LEMMA AppendMembers ==
  ASSUME NEW T, NEW s \in Seq(T), NEW e \in T
  PROVE  /\ Append(s, e) \in Seq(T)
         /\ Len(Append(s, e)) = Len(s) + 1
         /\ \A i \in 1..Len(s) : Append(s, e)[i] = s[i]
         /\ Append(s, e)[Len(s) + 1] = e
         /\ Members(Append(s, e)) = Members(s) \cup {e}
<1>1. /\ Append(s, e) \in Seq(T)
      /\ Len(Append(s, e)) = Len(s) + 1
      /\ \A i \in 1..Len(s) : Append(s, e)[i] = s[i]
      /\ Append(s, e)[Len(s) + 1] = e
  OBVIOUS
<1>2. Len(s) \in Nat
  OBVIOUS
<1>3. Members(Append(s, e)) \subseteq Members(s) \cup {e}
  BY <1>1, <1>2, SMT DEF Members
<1>4. Members(s) \cup {e} \subseteq Members(Append(s, e))
  BY <1>1, <1>2, SMT DEF Members
<1> QED
  BY <1>1, <1>3, <1>4

\* A sequence without duplicates stays one when a new element is appended.
LEMMA AppendDistinct ==
  ASSUME NEW T, NEW s \in Seq(T), NEW e \in T, NoDuplicates(s), e \notin Members(s)
  PROVE  NoDuplicates(Append(s, e))
<1>1. /\ Len(Append(s, e)) = Len(s) + 1
      /\ \A i \in 1..Len(s) : Append(s, e)[i] = s[i]
      /\ Append(s, e)[Len(s) + 1] = e
  BY AppendMembers
<1>2. Len(s) \in Nat
  OBVIOUS
<1>3. \A i \in 1..Len(s) : s[i] # e
  BY DEF Members
<1> QED
  BY <1>1, <1>2, <1>3, SMT DEF NoDuplicates

\* What Head and Tail make of the members of a sequence without duplicates.
LEMMA TailMembers ==
  ASSUME NEW T, NEW s \in Seq(T), s # <<>>, NoDuplicates(s)
  PROVE  /\ Head(s) \in Members(s)
         /\ Head(s) \in T
         /\ Tail(s) \in Seq(T)
         /\ NoDuplicates(Tail(s))
         /\ Members(Tail(s)) = Members(s) \ {Head(s)}
<1>1. /\ Len(s) \in Nat \ {0}
      /\ Head(s) = s[1]
      /\ Tail(s) \in Seq(T)
      /\ Len(Tail(s)) = Len(s) - 1
      /\ \A i \in 1..(Len(s) - 1) : Tail(s)[i] = s[i + 1]
  OBVIOUS
<1>2. Head(s) \in Members(s) /\ Head(s) \in T
  BY <1>1 DEF Members
<1>3. NoDuplicates(Tail(s))
  BY <1>1, SMT DEF NoDuplicates
<1>4. ASSUME NEW i \in 1..(Len(s) - 1)
      PROVE  Tail(s)[i] \in Members(s) /\ Tail(s)[i] # Head(s)
  BY <1>1, <1>4, SMT DEF NoDuplicates, Members
<1>5. Members(Tail(s)) \subseteq Members(s) \ {Head(s)}
  BY <1>1, <1>4 DEF Members
<1>6. ASSUME NEW i \in 1..Len(s), s[i] # Head(s)
      PROVE  s[i] \in Members(Tail(s))
  <2>1. i - 1 \in 1..(Len(s) - 1)
    BY <1>1, <1>6, SMT
  <2>2. Tail(s)[i - 1] = s[i]
    BY <1>1, <2>1, SMT
  <2> QED
    BY <1>1, <2>1, <2>2 DEF Members
<1>7. Members(s) \ {Head(s)} \subseteq Members(Tail(s))
  BY <1>6 DEF Members
<1> QED
  BY <1>1, <1>2, <1>3, <1>5, <1>7

\* The places of a sequence of n elements.
LEMMA Places ==
  ASSUME NEW n \in Nat
  PROVE  IsFiniteSet(1..n) /\ Cardinality(1..n) = n
  BY FS_Interval, SMT

\* The members of a sequence are a finite set, no larger than the sequence.
LEMMA MembersFinite ==
  ASSUME NEW T, NEW s \in Seq(T)
  PROVE  IsFiniteSet(Members(s)) /\ Cardinality(Members(s)) \in Nat /\ Cardinality(Members(s)) <= Len(s)
<1>1. Len(s) \in Nat
  OBVIOUS
<1>2. IsFiniteSet(1..Len(s)) /\ Cardinality(1..Len(s)) = Len(s)
  BY <1>1, Places
<1> DEFINE f == [i \in 1..Len(s) |-> s[i]]
<1>3. f \in Surjection(1..Len(s), Members(s))
  BY DEF Surjection, Members
<1>4. IsFiniteSet(Members(s)) /\ Cardinality(Members(s)) <= Cardinality(1..Len(s))
  BY <1>2, <1>3, FS_Surjection
<1> QED
  BY <1>2, <1>4, FS_CardinalityType

\* A sequence without duplicates is no longer than a set it takes its
\* elements from.
LEMMA DistinctLength ==
  ASSUME NEW T, NEW s \in Seq(T), NoDuplicates(s), NEW S, IsFiniteSet(S), Members(s) \subseteq S
  PROVE  Len(s) <= Cardinality(S)
<1>1. Len(s) \in Nat /\ Cardinality(S) \in Nat
  BY FS_CardinalityType
<1>2. IsFiniteSet(1..Len(s)) /\ Cardinality(1..Len(s)) = Len(s)
  BY <1>1, Places
<1> DEFINE f == [i \in 1..Len(s) |-> s[i]]
<1>3. f \in [1..Len(s) -> S]
  BY DEF Members
<1>4. SUFFICES ASSUME Len(s) > Cardinality(S) PROVE FALSE
  BY <1>1, SMT
<1>5. \E x, y \in 1..Len(s) : x # y /\ f[x] = f[y]
  BY <1>2, <1>3, <1>4, FS_PigeonHole
<1> QED
  BY <1>5 DEF NoDuplicates

----------------------------------------------------------------------------
(* The inductive invariant. *)

\* What Pending(x) is for the objects of the slice: a finite set.
LEMMA PendingFinite ==
  ASSUME Types, NEW x \in Objects
  PROVE  /\ deps[x] \subseteq Objects
         /\ IsFiniteSet(deps[x])
         /\ IsFiniteSet(Pending(x))
         /\ Cardinality(Pending(x)) \in Nat
<1>1. IsFiniteSet(Objects)
  BY MembersFinite DEF Types, Objects
<1>2. deps[x] \subseteq Objects
  BY DEF Types
<1>3. IsFiniteSet(deps[x])
  BY <1>1, <1>2, FS_Subset
<1>4. Pending(x) \subseteq deps[x]
  BY DEF Pending
<1>5. IsFiniteSet(Pending(x))
  BY <1>3, <1>4, FS_Subset
<1> QED
  BY <1>2, <1>3, <1>5, FS_CardinalityType

\* A place of the slice holds an object, and no other place holds it.
LEMMA PlaceOf ==
  ASSUME Types, NoDuplicates(slice), NEW j \in 1..Len(slice)
  PROVE  slice[j] \in Objects /\ \A k \in 1..Len(slice) : slice[k] = slice[j] => k = j
  BY DEF Types, Objects, Members, NoDuplicates

\* 0 is not an object.
LEMMA ZeroIsNoObject ==
  ASSUME Types
  PROVE  0 \notin Objects
  BY DEF Types, Objects, Members

\* Nothing is queued or emitted yet: everything an object depends on is pending.
LEMMA InitIInv == SortInit => IInv
<1> SUFFICES ASSUME SortInit PROVE IInv
  OBVIOUS
<1>1. Members(queue) = {} /\ Members(sorted) = {}
  BY SMT DEF SortInit, Members
<1>2. Types
  <2>1. IsFiniteSet(Objects)
    BY MembersFinite DEF SortInit, Objects
  <2>2. \A x \in Objects : Cardinality(deps[x]) \in Int
    <3> TAKE x \in Objects
    <3>1. IsFiniteSet(deps[x])
      BY <2>1, FS_Subset DEF SortInit, Objects
    <3> QED
      BY <3>1, FS_CardinalityType, SMT
  <2>3. Len(slice) \in Nat
    BY DEF SortInit
  <2> QED
    BY <2>2, <2>3 DEF SortInit, Types, Objects
<1>3. Distinct
  BY <1>1 DEF SortInit, Distinct, NoDuplicates
<1>4. \A x \in Objects : Pending(x) = deps[x]
  BY <1>1 DEF Pending, Objects, SortInit
<1>5. Counted
  BY <1>4 DEF Counted, SortInit, Objects
<1>6. Ready
  BY <1>1 DEF Ready
<1>7. Ordered
  BY DEF SortInit, Ordered
<1>8. \A x : ~Passed(x)
  BY SMT DEF Passed, SortInit
<1>9. Complete
  BY <1>8 DEF Complete, SortInit
<1>10. Filling /\ Returned
  BY <1>1 DEF Filling, Returned, SortInit
<1> QED
  BY <1>2, <1>3, <1>5, <1>6, <1>7, <1>9, <1>10 DEF IInv

\* The first loop queues an object that depends on nothing.
LEMMA FillIInv == IInv /\ Fill => IInv'
<1> SUFFICES ASSUME IInv, Fill PROVE IInv'
  OBVIOUS
<1>1. PICK j \in next..Len(slice) :
        /\ deps[slice[j]] = {}
        /\ \A k \in next..(j - 1) : deps[slice[k]] # {}
        /\ queue' = Append(queue, slice[j])
        /\ next' = j + 1
  BY DEF Fill
<1>2. /\ UNCHANGED <<slice, deps, inDegrees, sorted, item, sorting>>
      /\ sorting = "fill" /\ sorted = <<>> /\ item = 0
  BY DEF Fill, IInv, Filling
<1>3. /\ Types /\ NoDuplicates(slice) /\ Len(slice) \in Nat
      /\ next \in Nat \ {0} /\ j \in 1..Len(slice) /\ j >= next
  BY SMT DEF IInv, Types, Distinct
<1>4. Objects' = Objects /\ slice[j] \in Objects
  BY <1>2, <1>3, PlaceOf DEF Objects
<1>5. Members(sorted) = {} /\ Members(sorted)' = {}
  BY <1>2, SMT DEF Members
<1>6. \A x : Passed(x) => Passed(x)'
  BY <1>1, <1>2, <1>3, SMT DEF Passed
<1>7. Passed(slice[j])'
  BY <1>1, <1>2, <1>3, SMT DEF Passed
<1>8. slice[j] \notin Members(queue)
  <2>1. SUFFICES ASSUME Passed(slice[j]) PROVE FALSE
    BY <1>2 DEF IInv, Filling
  <2>2. PICK k \in 1..(next - 1) : slice[k] = slice[j]
    BY <2>1 DEF Passed
  <2>3. k \in 1..Len(slice) /\ k # j
    BY <1>3, SMT DEF Types
  <2> QED
    BY <1>3, <2>2, <2>3, PlaceOf
<1>9. /\ queue \in Seq(Objects) /\ NoDuplicates(queue)
      /\ \A x \in Members(queue) : Passed(x)
  BY <1>2 DEF IInv, Types, Distinct, Filling
<1>10. /\ queue' \in Seq(Objects) /\ NoDuplicates(queue')
       /\ Members(queue)' = Members(queue) \cup {slice[j]}
  BY <1>1, <1>4, <1>8, <1>9, AppendMembers, AppendDistinct DEF Members
<1>11. \A x : Pending(x) = deps[x] /\ Pending(x)' = deps[x]
  BY <1>2, <1>5 DEF Pending
<1>12. Types'
  BY <1>1, <1>2, <1>3, <1>4, <1>10, SMT DEF Types
<1>13. Distinct'
  BY <1>2, <1>3, <1>5, <1>10 DEF Distinct, IInv
<1>14. Counted'
  BY <1>2, <1>4, <1>11 DEF Counted, IInv
<1>15. Ready'
  BY <1>1, <1>5, <1>10, <1>11 DEF Ready, IInv
<1>16. Ordered'
  BY <1>2 DEF Ordered
<1>17. Complete'
  <2> SUFFICES ASSUME NEW x \in Objects, deps[x] = {}, Passed(x)'
               PROVE  x \in Members(queue)'
    BY <1>2, <1>4, <1>11 DEF Complete
  <2>1. CASE Passed(x)
    BY <1>2, <1>5, <1>10, <1>11, <2>1 DEF IInv, Complete
  <2>2. CASE ~Passed(x)
    <3>1. PICK k \in 1..j : slice[k] = x
      BY <1>1, <1>2, <1>3, SMT DEF Passed
    <3>2. k \notin 1..(next - 1)
      BY <2>2, <3>1 DEF Passed
    <3>3. k = j \/ k \in next..(j - 1)
      BY <1>3, <3>2, SMT
    <3> QED
      BY <1>1, <1>10, <3>1, <3>3
  <2> QED
    BY <2>1, <2>2
<1>18. Filling'
  BY <1>2, <1>6, <1>7, <1>9, <1>10 DEF Filling
<1>19. Returned'
  BY <1>2 DEF Returned
<1> QED
  BY <1>12, <1>13, <1>14, <1>15, <1>16, <1>17, <1>18, <1>19 DEF IInv

\* The first loop has gone past every object: the ready ones are all queued.
LEMMA FillEndsIInv == IInv /\ FillEnds => IInv'
<1> SUFFICES ASSUME IInv, FillEnds PROVE IInv'
  OBVIOUS
<1>1. /\ sorting = "fill" /\ sorting' = "pop"
      /\ \A k \in next..Len(slice) : deps[slice[k]] # {}
      /\ next' = Len(slice) + 1
      /\ UNCHANGED <<slice, deps, inDegrees, queue, sorted, item>>
  BY DEF FillEnds
<1>2. sorted = <<>> /\ item = 0 /\ Len(slice) \in Nat /\ next \in Nat
  BY <1>1, SMT DEF IInv, Filling, Types
<1>3. Members(sorted) = {} /\ Members(sorted)' = {} /\ Members(queue)' = Members(queue)
  BY <1>1, <1>2, SMT DEF Members
<1>4. Objects' = Objects
  BY <1>1 DEF Objects
<1>5. \A x : Pending(x) = deps[x] /\ Pending(x)' = deps[x]
  BY <1>1, <1>3 DEF Pending
<1>6. Types'
  BY <1>1, <1>2, <1>4, SMT DEF IInv, Types
<1>7. Distinct' /\ Ordered' /\ Filling' /\ Returned'
  BY <1>1, <1>2, <1>3 DEF IInv, Distinct, Ordered, Filling, Returned
<1>8. Counted' /\ Ready'
  BY <1>1, <1>3, <1>4, <1>5 DEF IInv, Counted, Ready
<1>9. Complete'
  <2> SUFFICES ASSUME NEW x \in Objects, deps[x] = {} PROVE x \in Members(queue)
    BY <1>3, <1>4, <1>5 DEF Complete
  <2>1. PICK k \in 1..Len(slice) : slice[k] = x
    BY DEF Objects, Members
  <2>2. k \in 1..(next - 1)
    BY <1>1, <1>2, <2>1, SMT
  <2>3. Passed(x)
    BY <2>1, <2>2 DEF Passed
  <2> QED
    BY <1>3, <1>5, <2>3 DEF IInv, Complete
<1> QED
  BY <1>6, <1>7, <1>8, <1>9 DEF IInv

\* The front of the queue is emitted: nothing it depends on is pending, and
\* it is not counted as emitted until the inner loop comes to a dependent.
LEMMA PopIInv == IInv /\ Pop => IInv'
<1> SUFFICES ASSUME IInv, Pop PROVE IInv'
  OBVIOUS
<1> PICK q : q = Head(queue)
  OBVIOUS
<1>1. /\ sorting = "pop" /\ queue # <<>> /\ item' = q /\ q = Head(queue)
      /\ queue' = Tail(queue) /\ sorted' = Append(sorted, q) /\ next' = 1
      /\ UNCHANGED <<slice, deps, inDegrees, sorting>>
  BY DEF Pop
<1>2. \A k \in next..Len(slice) : item \notin deps[slice[k]]
  BY DEF Pop, Visited
<1>3. /\ queue \in Seq(Objects) /\ NoDuplicates(queue) /\ sorted \in Seq(Objects)
      /\ Len(slice) \in Nat /\ next \in Nat \ {0} /\ Types /\ NoDuplicates(sorted)
      /\ Members(queue) \cap Members(sorted) = {}
  BY SMT DEF IInv, Types, Distinct
<1>4. Objects' = Objects
  BY <1>1 DEF Objects
<1>5. /\ q \in Members(queue) /\ q \in Objects /\ queue' \in Seq(Objects) /\ NoDuplicates(queue')
      /\ Members(queue)' = Members(queue) \ {q}
  <2>1. /\ Head(queue) \in Members(queue) /\ Head(queue) \in Objects
        /\ Tail(queue) \in Seq(Objects) /\ NoDuplicates(Tail(queue))
        /\ Members(Tail(queue)) = Members(queue) \ {Head(queue)}
    BY <1>1, <1>3, TailMembers
  <2>2. Members(queue)' = Members(Tail(queue))
    BY <1>1 DEF Members
  <2> QED
    BY <1>1, <2>1, <2>2
<1>6. q \notin Members(sorted)
  BY <1>3, <1>5
<1>7. /\ sorted' \in Seq(Objects) /\ Len(sorted') = Len(sorted) + 1
      /\ \A i \in 1..Len(sorted) : sorted'[i] = sorted[i]
      /\ sorted'[Len(sorted) + 1] = q
      /\ Members(sorted)' = Members(sorted) \cup {q}
  BY <1>1, <1>3, <1>5, AppendMembers DEF Members
<1>8. NoDuplicates(sorted')
  BY <1>1, <1>3, <1>5, <1>6, AppendDistinct
<1>9. \A x : ~Passed(x)'
  BY <1>1, SMT DEF Passed
<1>10. ASSUME NEW x \in Objects
       PROVE  Pending(x) = {d \in deps[x] : d \notin Members(sorted)}
  <2>1. PICK k \in 1..Len(slice) : slice[k] = x
    BY DEF Objects, Members
  <2>2. ~Passed(x) => k \in next..Len(slice)
    BY <1>3, <2>1, SMT DEF Passed
  <2>3. ~Passed(x) => item \notin deps[x]
    BY <1>2, <2>1, <2>2
  <2> QED
    BY <2>3 DEF Pending
<1>11. ASSUME NEW x \in Objects PROVE Pending(x)' = Pending(x)
  <2>1. Pending(x)' = {d \in deps[x] : d \notin Members(sorted) \cup {q} \/ d = q}
    BY <1>1, <1>7, <1>9 DEF Pending
  <2> QED
    BY <1>6, <1>10, <2>1
<1>12. Members(queue)' \cup Members(sorted)' = Members(queue) \cup Members(sorted)
  BY <1>5, <1>7
<1>13. Members(queue) \subseteq Objects /\ Members(sorted) \subseteq Objects
  BY <1>3 DEF Members
<1>14. Types'
  BY <1>1, <1>3, <1>4, <1>5, <1>7, SMT DEF Types
<1>15. Distinct'
  BY <1>1, <1>3, <1>5, <1>7, <1>8 DEF Distinct, IInv
<1>16. Counted'
  BY <1>1, <1>4, <1>11 DEF Counted, IInv
<1>17. Ready'
  BY <1>11, <1>12, <1>13 DEF Ready, IInv
<1>18. Ordered'
  <2> SUFFICES ASSUME NEW i \in 1..(Len(sorted) + 1)
               PROVE  deps[sorted'[i]] \subseteq {sorted'[j] : j \in 1..(i - 1)}
    BY <1>1, <1>7 DEF Ordered
  <2>1. Len(sorted) \in Nat
    BY <1>3
  <2>2. {sorted'[j] : j \in 1..(i - 1)} = {sorted[j] : j \in 1..(i - 1)}
    BY <1>7, <2>1, SMT
  <2>3. CASE i \in 1..Len(sorted)
    BY <1>7, <2>2, <2>3 DEF IInv, Ordered
  <2>4. CASE i = Len(sorted) + 1
    <3>1. Pending(q) = {}
      BY <1>5 DEF IInv, Ready
    <3>2. deps[q] \subseteq Members(sorted)
      BY <1>5, <1>10, <3>1
    <3>3. 1..(i - 1) = 1..Len(sorted)
      BY <2>1, <2>4, SMT
    <3> QED
      BY <1>7, <2>2, <2>4, <3>2, <3>3 DEF Members
  <2> QED
    BY <2>1, <2>3, <2>4, SMT
<1>19. Complete'
  BY <1>1, <1>4, <1>11, <1>12 DEF Complete, IInv
<1>20. Filling' /\ Returned'
  BY <1>1, <1>7 DEF Filling, Returned
<1> QED
  BY <1>14, <1>15, <1>16, <1>17, <1>18, <1>19, <1>20 DEF IInv

\* A dependent of the item loses one dependency, and is queued with the last.
LEMMA VisitIInv == IInv /\ Visit => IInv'
<1> SUFFICES ASSUME IInv, Visit PROVE IInv'
  OBVIOUS
<1>1. PICK j \in next..Len(slice) :
        /\ item \in deps[slice[j]]
        /\ \A k \in next..(j - 1) : item \notin deps[slice[k]]
        /\ inDegrees' = [inDegrees EXCEPT ![slice[j]] = @ - 1]
        /\ queue' = IF inDegrees[slice[j]] = 1 THEN Append(queue, slice[j]) ELSE queue
        /\ next' = j + 1
  BY DEF Visit
<1> PICK x : x = slice[j]
  OBVIOUS
<1>2. sorting = "pop" /\ UNCHANGED <<slice, deps, sorted, item, sorting>>
  BY DEF Visit
<1>3. /\ Types /\ NoDuplicates(slice) /\ Len(slice) \in Nat
      /\ next \in Nat \ {0} /\ j \in 1..Len(slice) /\ j >= next
      /\ queue \in Seq(Objects) /\ NoDuplicates(queue)
  BY SMT DEF IInv, Types, Distinct
<1>4. Objects' = Objects /\ Members(sorted)' = Members(sorted)
  BY <1>2 DEF Objects, Members
<1>5. x \in Objects /\ \A k \in 1..Len(slice) : slice[k] = x => k = j
  BY <1>3, PlaceOf
<1>6. item \in Objects
  BY <1>1, <1>5 DEF IInv, Types
<1>7. item \in Members(sorted)
  BY <1>3, <1>6, ZeroIsNoObject DEF IInv, Filling
<1>8. ~Passed(x)
  <2>1. \A k \in 1..(next - 1) : k \in 1..Len(slice) /\ k # j
    BY <1>3, SMT
  <2> QED
    BY <1>5, <2>1 DEF Passed
<1>9. Passed(x)'
  BY <1>1, <1>2, <1>3, SMT DEF Passed
<1>10. item \in Pending(x) /\ Pending(x)' = Pending(x) \ {item}
  BY <1>1, <1>2, <1>4, <1>7, <1>8, <1>9 DEF Pending
<1>11. ASSUME NEW y \in Objects, y # x PROVE Pending(y)' = Pending(y)
  <2>1. CASE item \notin deps[y]
    BY <1>2, <1>4, <2>1 DEF Pending
  <2>2. CASE item \in deps[y]
    <3>1. \A k \in 1..(next - 1) : k \in 1..j
      BY <1>3, SMT
    <3>2. \A k \in 1..j : k \in 1..(next - 1) \/ k \in next..(j - 1) \/ k = j
      BY <1>3, SMT
    <3>3. next' - 1 = j
      BY <1>1, <1>3, SMT
    <3>4. Passed(y)' <=> \E k \in 1..j : slice[k] = y
      BY <1>2, <3>3 DEF Passed
    <3>5. Passed(y)' <=> Passed(y)
      BY <1>1, <1>11, <2>2, <3>1, <3>2, <3>4 DEF Passed
    <3> QED
      BY <1>2, <1>4, <3>5 DEF Pending
  <2> QED
    BY <2>1, <2>2
<1>12. /\ IsFiniteSet(Pending(x)) /\ Cardinality(Pending(x)) \in Nat
       /\ inDegrees[x] = Cardinality(Pending(x))
  BY <1>3, <1>5, PendingFinite DEF IInv, Counted
<1>13. /\ IsFiniteSet(Pending(x) \ {item})
       /\ Cardinality(Pending(x) \ {item}) = Cardinality(Pending(x)) - 1
  BY <1>10, <1>12, FS_RemoveElement
<1>14. /\ inDegrees \in [Objects -> Int]
       /\ inDegrees' = [inDegrees EXCEPT ![x] = @ - 1]
       /\ queue' = IF inDegrees[x] = 1 THEN Append(queue, x) ELSE queue
  BY <1>1, <1>3 DEF Types
<1>15. inDegrees[x] = 1 <=> Pending(x)' = {}
  <2>1. inDegrees[x] = 1 <=> Cardinality(Pending(x) \ {item}) = 0
    BY <1>12, <1>13, SMT
  <2> QED
    BY <1>10, <1>13, <2>1, FS_EmptySet
<1>16. x \notin Members(queue) \cup Members(sorted)
  BY <1>10 DEF IInv, Ready
<1>17. /\ queue' \in Seq(Objects) /\ NoDuplicates(queue')
       /\ Members(queue)' = Members(queue) \cup (IF inDegrees[x] = 1 THEN {x} ELSE {})
  <2>1. CASE inDegrees[x] = 1
    <3>1. queue' = Append(queue, x)
      BY <1>14, <2>1
    <3>2. /\ Append(queue, x) \in Seq(Objects)
          /\ Members(Append(queue, x)) = Members(queue) \cup {x}
      BY <1>3, <1>5, AppendMembers
    <3>3. NoDuplicates(Append(queue, x))
      BY <1>3, <1>5, <1>16, AppendDistinct
    <3>4. Members(queue)' = Members(Append(queue, x))
      BY <3>1 DEF Members
    <3> QED
      BY <2>1, <3>1, <3>2, <3>3, <3>4
  <2>2. CASE inDegrees[x] # 1
    BY <1>3, <1>14, <2>2 DEF Members
  <2> QED
    BY <2>1, <2>2
<1>18. Members(queue) \subseteq Objects /\ Members(sorted) \subseteq Objects
  <2>1. sorted \in Seq(Objects)
    BY <1>3 DEF Types
  <2> QED
    BY <1>3, <2>1 DEF Members
<1>19. Types'
  <2>1. inDegrees' \in [Objects -> Int]
    <3>1. inDegrees[x] - 1 \in Int
      BY <1>12, SMT
    <3> QED
      BY <1>14, <3>1
  <2>2. next' \in 1..(Len(slice) + 1)
    BY <1>1, <1>3, SMT
  <2> QED
    BY <1>2, <1>3, <1>4, <1>17, <2>1, <2>2 DEF Types
<1>20. Distinct'
  BY <1>2, <1>3, <1>4, <1>16, <1>17 DEF Distinct, IInv
<1>21. Counted'
  <2> SUFFICES ASSUME NEW y \in Objects PROVE inDegrees'[y] = Cardinality(Pending(y)')
    BY <1>4 DEF Counted
  <2>1. CASE y = x
    <3>1. inDegrees'[x] = inDegrees[x] - 1
      BY <1>5, <1>14
    <3> QED
      BY <1>10, <1>12, <1>13, <2>1, <3>1
  <2>2. CASE y # x
    <3>1. inDegrees'[y] = inDegrees[y]
      BY <1>14, <2>2
    <3> QED
      BY <1>11, <2>2, <3>1 DEF IInv, Counted
  <2> QED
    BY <2>1, <2>2
<1>22. Ready'
  <2> SUFFICES ASSUME NEW y \in Members(queue)' \cup Members(sorted)' PROVE Pending(y)' = {}
    BY DEF Ready
  <2>1. CASE y = x
    BY <1>4, <1>15, <1>16, <1>17, <2>1
  <2>2. CASE y # x
    <3>1. y \in Members(queue) \cup Members(sorted)
      BY <1>4, <1>17, <2>2
    <3> QED
      BY <1>11, <1>18, <2>2, <3>1 DEF IInv, Ready
  <2> QED
    BY <2>1, <2>2
<1>23. Ordered'
  BY <1>2 DEF Ordered, IInv
<1>24. Complete'
  <2> SUFFICES ASSUME NEW y \in Objects, Pending(y)' = {}
               PROVE  y \in Members(queue)' \cup Members(sorted)'
    BY <1>4 DEF Complete
  <2>1. CASE y = x
    BY <1>15, <1>17, <2>1
  <2>2. CASE y # x
    BY <1>2, <1>4, <1>11, <1>17, <2>2 DEF IInv, Complete
  <2> QED
    BY <2>1, <2>2
<1>25. Filling' /\ Returned'
  BY <1>2, <1>4, <1>7 DEF Filling, Returned
<1> QED
  BY <1>19, <1>20, <1>21, <1>22, <1>23, <1>24, <1>25 DEF IInv

\* With an empty queue, what is left depends on what is left; and nothing is
\* left exactly when the result is as long as the slice.
LEMMA SortEndsIInv == IInv /\ SortEnds => IInv'
<1> SUFFICES ASSUME IInv, SortEnds PROVE IInv'
  OBVIOUS
<1>1. /\ sorting = "pop" /\ queue = <<>>
      /\ sorting' = IF Len(slice) # Len(sorted) THEN "fatal" ELSE "done"
      /\ UNCHANGED <<slice, deps, inDegrees, queue, sorted, item, next>>
  BY DEF SortEnds
<1>2. \A k \in next..Len(slice) : item \notin deps[slice[k]]
  BY DEF SortEnds, Visited
<1>3. /\ Types /\ NoDuplicates(slice) /\ NoDuplicates(sorted) /\ sorted \in Seq(Objects)
      /\ slice \in Seq(Nat \ {0}) /\ Len(slice) \in Nat /\ Len(sorted) \in Nat
      /\ next \in Nat \ {0}
  BY SMT DEF IInv, Types, Distinct
<1>4. /\ Objects' = Objects /\ Members(sorted)' = Members(sorted)
      /\ Members(queue)' = Members(queue) /\ Members(queue) = {}
  BY <1>1, SMT DEF Objects, Members
<1>5. Members(sorted) \subseteq Objects
  BY <1>3 DEF Members
<1>6. \A x : Pending(x)' = Pending(x) /\ (Passed(x)' <=> Passed(x))
  BY <1>1, <1>4 DEF Pending, Passed
<1>7. sorting' \in {"done", "fatal"}
  BY <1>1
<1>8. /\ IsFiniteSet(Objects) /\ Cardinality(Objects) \in Nat /\ Cardinality(Objects) <= Len(slice)
      /\ IsFiniteSet(Members(sorted)) /\ Cardinality(Members(sorted)) \in Nat
      /\ Cardinality(Members(sorted)) <= Len(sorted)
  BY <1>3, MembersFinite DEF Objects
<1>9. Types' /\ Distinct' /\ Counted' /\ Ready' /\ Ordered' /\ Complete' /\ Filling'
  <2>1. Types' /\ Distinct' /\ Ordered' /\ Filling'
    BY <1>1, <1>4, <1>7 DEF IInv, Types, Distinct, Ordered, Filling
  <2>2. Counted' /\ Ready' /\ Complete'
    BY <1>1, <1>4, <1>6, <1>7 DEF IInv, Counted, Ready, Complete
  <2> QED
    BY <2>1, <2>2
<1>10. CASE sorting' = "done"
  <2>1. Len(sorted) = Len(slice)
    BY <1>1, <1>10
  <2>2. SUFFICES ASSUME NEW x \in Objects, x \notin Members(sorted) PROVE FALSE
    <3>1. Members(sorted) = Objects
      BY <1>5, <2>2
    <3>2. Returned'
      BY <1>4, <1>10, <3>1 DEF Returned
    <3> QED
      BY <1>9, <3>2 DEF IInv
  <2>3. /\ IsFiniteSet(Objects \ {x})
        /\ Cardinality(Objects \ {x}) = Cardinality(Objects) - 1
    BY <1>8, FS_RemoveElement
  <2>4. Members(sorted) \subseteq Objects \ {x}
    BY <1>5, <2>2
  <2>5. Len(sorted) <= Cardinality(Objects \ {x})
    BY <1>3, <2>3, <2>4, DistinctLength
  <2> QED
    BY <1>3, <1>8, <2>1, <2>3, <2>5, SMT
<1>11. CASE sorting' = "fatal"
  <2>1. Len(sorted) # Len(slice)
    BY <1>1, <1>11
  <2> DEFINE rest == Objects \ Members(sorted)
  <2>2. rest # {}
    <3>1. SUFFICES ASSUME Members(sorted) = Objects PROVE FALSE
      BY <1>5
    <3>2. Len(slice) <= Cardinality(Objects)
      BY <1>3, <1>8, DistinctLength DEF Objects
    <3>3. Len(sorted) <= Cardinality(Objects)
      BY <1>3, <1>5, <1>8, DistinctLength
    <3> QED
      BY <1>3, <1>8, <2>1, <3>1, <3>2, <3>3, SMT
  <2>3. ASSUME NEW x \in rest PROVE deps[x] \cap rest # {}
    <3>1. Pending(x) # {}
      BY <1>1, <1>4, <2>3 DEF IInv, Complete
    <3>2. PICK d \in deps[x] : d \notin Members(sorted) \/ (d = item /\ ~Passed(x))
      BY <3>1 DEF Pending
    <3>3. PICK k \in 1..Len(slice) : slice[k] = x
      BY <2>3 DEF Objects, Members
    <3>4. ~Passed(x) => k \in next..Len(slice)
      BY <1>3, <3>3, SMT DEF Passed
    <3>5. d \notin Members(sorted)
      BY <1>2, <3>2, <3>3, <3>4
    <3>6. deps[x] \subseteq Objects
      BY <1>3, <2>3, PendingFinite
    <3> QED
      BY <3>2, <3>5, <3>6
  <2>4. Stuck(rest)'
    BY <1>1, <1>4, <2>2, <2>3 DEF Stuck
  <2>5. Returned'
    BY <1>4, <1>11, <2>4 DEF Returned
  <2> QED
    BY <1>9, <2>5 DEF IInv
<1> QED
  BY <1>7, <1>10, <1>11

\* TopologicalSort is correct: for every slice without duplicates and every
\* dependency map, an object is emitted after all it depends on, what is
\* returned is a permutation of the slice, and the fatal error is raised
\* only for objects that depend on one another in a circle.
THEOREM SortCorrect == SortSpec => []DependenciesFirst
<1>1. SortInit => IInv
  BY InitIInv
<1>2. IInv /\ [SortStep]_sortVars => IInv'
  <2> SUFFICES ASSUME IInv, [SortStep]_sortVars PROVE IInv'
    OBVIOUS
  <2>1. CASE Fill
    BY <2>1, FillIInv
  <2>2. CASE FillEnds
    BY <2>2, FillEndsIInv
  <2>3. CASE Pop
    BY <2>3, PopIInv
  <2>4. CASE Visit
    BY <2>4, VisitIInv
  <2>5. CASE SortEnds
    BY <2>5, SortEndsIInv
  <2>6. CASE UNCHANGED sortVars
    <3>1. UNCHANGED <<slice, deps, inDegrees, queue, sorted, item, next, sorting>>
      BY <2>6 DEF sortVars
    <3>2. /\ Objects' = Objects /\ Members(queue)' = Members(queue)
          /\ Members(sorted)' = Members(sorted)
      BY <3>1 DEF Objects, Members
    <3>3. \A x : Pending(x)' = Pending(x) /\ (Passed(x)' <=> Passed(x))
      BY <3>1, <3>2 DEF Pending, Passed
    <3>4. Types' /\ Distinct' /\ Ordered'
      BY <3>1, <3>2 DEF IInv, Types, Distinct, Ordered
    <3>5. Counted' /\ Ready' /\ Complete'
      BY <3>1, <3>2, <3>3 DEF IInv, Counted, Ready, Complete
    <3>6. Filling'
      BY <3>1, <3>2, <3>3 DEF IInv, Filling
    <3>7. Returned'
      BY <3>1, <3>2 DEF IInv, Returned, Stuck
    <3> QED
      BY <3>4, <3>5, <3>6, <3>7 DEF IInv
  <2> QED
    BY <2>1, <2>2, <2>3, <2>4, <2>5, <2>6 DEF SortStep
<1>3. IInv => DependenciesFirst
  BY DEF IInv, Distinct, Ordered, Returned, Objects, DependenciesFirst
<1> QED
  BY <1>1, <1>2, <1>3, PTL DEF SortSpec

=============================================================================
