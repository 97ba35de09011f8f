--------------------------- MODULE DependencySort ---------------------------
(***************************************************************************)
(* The dependency sort of the objects whose CREATE statements refer to one *)
(* another (meta/builtin/dependencies.go, TopologicalSort): slice is the   *)
(* sequence of object identities collected by backupPredata, deps[x] the   *)
(* objects x depends on, restricted to the objects of the slice by         *)
(* GetDependencies.                                                        *)
(*                                                                         *)
(* The code's two loops are modelled step by step.  The first fills queue  *)
(* with the objects that depend on nothing, in slice order.  The second    *)
(* takes the front of the queue as item, appends it to sorted, and visits  *)
(* the objects that depend on it: isDependentOn[item] lists them in slice  *)
(* order, so a visit moves next forward along the slice.                   *)
(***************************************************************************)
EXTENDS Integers, Sequences, FiniteSets

VARIABLES
  slice,       \* the objects to sort, each an identity
  deps,        \* [object -> the objects it depends on]
  inDegrees,   \* [object -> the dependencies not yet emitted]
  queue,       \* the objects ready to be emitted
  sorted,      \* the objects emitted
  item,        \* the object the second loop is at
  next,        \* the place of the slice the loop in hand has reached
  sorting      \* "idle", "fill", "pop", "done" or "fatal"

sortVars == <<slice, deps, inDegrees, queue, sorted, item, next, sorting>>

Members(s) == {s[i] : i \in 1..Len(s)}

NoDuplicates(s) == \A i, j \in 1..Len(s) : s[i] = s[j] => i = j

(***************************************************************************)
(* The entry of TopologicalSort with its arguments: inDegrees and          *)
(* isDependentOn are made from deps.                                       *)
(***************************************************************************)
BeginSort(objects, depends) ==
  /\ slice' = objects
  /\ deps' = depends
  /\ inDegrees' = [x \in Members(objects) |-> Cardinality(depends[x])]
  /\ queue' = <<>>
  /\ sorted' = <<>>
  /\ item' = 0
  /\ next' = 1
  /\ sorting' = "fill"

\* The first loop: an object with no dependency is queued where it stands.
Fill ==
  /\ sorting = "fill"
  /\ \E j \in next..Len(slice) :
       /\ deps[slice[j]] = {}
       /\ \A k \in next..(j - 1) : deps[slice[k]] # {}
       /\ queue' = Append(queue, slice[j])
       /\ next' = j + 1
  /\ UNCHANGED <<slice, deps, inDegrees, sorted, item, sorting>>

\* The first loop has reached the end of the slice.
FillEnds ==
  /\ sorting = "fill"
  /\ \A k \in next..Len(slice) : deps[slice[k]] # {}
  /\ sorting' = "pop"
  /\ next' = Len(slice) + 1
  /\ UNCHANGED <<slice, deps, inDegrees, queue, sorted, item>>

\* Every object that depends on item has been visited.
Visited == \A k \in next..Len(slice) : item \notin deps[slice[k]]

\* The second loop takes the front of the queue.
Pop ==
  /\ sorting = "pop"
  /\ Visited
  /\ queue # <<>>
  /\ item' = Head(queue)
  /\ queue' = Tail(queue)
  /\ sorted' = Append(sorted, Head(queue))
  /\ next' = 1
  /\ UNCHANGED <<slice, deps, inDegrees, sorting>>

\* (Variant: a dependent is queued as soon as one dependency is emitted.)
VisitEager ==
  /\ sorting = "pop"
  /\ \E j \in next..Len(slice) :
       /\ item \in deps[slice[j]]
       /\ \A k \in next..(j - 1) : item \notin deps[slice[k]]
       /\ inDegrees' = [inDegrees EXCEPT ![slice[j]] = 0]
       /\ queue' = IF inDegrees[slice[j]] > 0
                   THEN Append(queue, slice[j]) ELSE queue
       /\ next' = j + 1
  /\ UNCHANGED <<slice, deps, sorted, item, sorting>>

\* The inner loop: one dependent of item loses a dependency, and is queued
\* when it was the last one.
Visit ==
  /\ sorting = "pop"
  /\ \E j \in next..Len(slice) :
       /\ item \in deps[slice[j]]
       /\ \A k \in next..(j - 1) : item \notin deps[slice[k]]
       /\ inDegrees' = [inDegrees EXCEPT ![slice[j]] = @ - 1]
       /\ queue' = IF inDegrees[slice[j]] = 1
                   THEN Append(queue, slice[j]) ELSE queue
       /\ next' = j + 1
  /\ UNCHANGED <<slice, deps, sorted, item, sorting>>

\* The queue is empty: the result is returned when it is as long as the
\* slice, and "Dependency resolution failed" is fatal otherwise.
SortEnds ==
  /\ sorting = "pop"
  /\ Visited
  /\ queue = <<>>
  /\ sorting' = IF Len(slice) # Len(sorted) THEN "fatal" ELSE "done"
  /\ UNCHANGED <<slice, deps, inDegrees, queue, sorted, item, next>>

\* The variables are local to TopologicalSort: nothing of them is left after
\* its return.
SortIdle ==
  /\ slice = <<>> /\ deps = <<>> /\ inDegrees = <<>> /\ queue = <<>> /\ sorted = <<>>
  /\ item = 0 /\ next = 1 /\ sorting = "idle"

EndSort ==
  /\ slice' = <<>> /\ deps' = <<>> /\ inDegrees' = <<>> /\ queue' = <<>> /\ sorted' = <<>>
  /\ item' = 0 /\ next' = 1 /\ sorting' = "idle"

SortStep == Fill \/ FillEnds \/ Pop \/ Visit \/ SortEnds

(***************************************************************************)
(* The sort on its own, of any duplicate-free slice of positive identities *)
(* (0 is no object): the specification the theorems are about.             *)
(***************************************************************************)
SortInit ==
  /\ slice \in Seq(Nat \ {0})
  /\ NoDuplicates(slice)
  /\ deps \in [Members(slice) -> SUBSET Members(slice)]
  /\ inDegrees = [x \in Members(slice) |-> Cardinality(deps[x])]
  /\ queue = <<>>
  /\ sorted = <<>>
  /\ item = 0
  /\ next = 1
  /\ sorting = "fill"

SortSpec == SortInit /\ [][SortStep]_sortVars

(***************************************************************************)
(* Properties.                                                             *)
(***************************************************************************)

\* A set of objects each of which depends on another of the set: what a
\* dependency cycle leaves behind.
Stuck(S) == S # {} /\ \A x \in S : deps[x] \cap S # {}

\* TopologicalSort emits an object only after everything it depends on, for
\* every slice without duplicates; what it returns is a permutation of the
\* slice; and it stops the run ("Dependency resolution failed") only when
\* the objects left over depend on one another in a circle.
DependenciesFirst ==
  NoDuplicates(slice) =>
    /\ NoDuplicates(sorted)
    /\ \A i \in 1..Len(sorted) :
         deps[sorted[i]] \subseteq {sorted[j] : j \in 1..(i - 1)}
    /\ sorting = "done" => Members(sorted) = Members(slice)
    /\ sorting = "fatal" => Stuck(Members(slice) \ Members(sorted))

=============================================================================
