---------------------------- MODULE EngineProofs ----------------------------
(***************************************************************************)
(* Three machines of the PIR engine, and the bytes between client and      *)
(* server, are correct for every instance.                                 *)
(*                                                                         *)
(* The ring operations of simd_zn.rs, which SpecialZn models, always leave *)
(* a representative of the right residue within the bound the next one     *)
(* relies on, for every modulus that check_invariant admits and every word *)
(* width.                                                                  *)
(*                                                                         *)
(* main_pir_loop (base_pir.rs), which PirLoop models, never loads a block  *)
(* from beyond the prepared arrays, its sums never overflow, and the reply *)
(* is the sum over all iterations, each rotated once per iteration behind  *)
(* it.                                                                     *)
(*                                                                         *)
(* permute and permute_inv (permute.rs) are correct for every permutation  *)
(* of a vector of every length.  The invariant says what a half-followed   *)
(* cycle looks like: which positions of it are marked, which hold their    *)
(* final value, and where the value that is carried along lies.            *)
(*                                                                         *)
(* The stream of a query or reply (pir_wrapper.rs, WireStream) is, for all *)
(* widths of its sections, as long as they are together (BasePir).         *)
(***************************************************************************)
EXTENDS BasePir, EngineKernels, NaturalsInduction, WellFoundedInduction, FiniteSetTheorems, TLAPS

----------------------------------------------------------------------------
(* permute and permute_inv.                                                *)

(* The positions visited so far.                                           *)
Visited == {i \in Vector!Indices : swapped_indices[i] = TRUE}

(* A cycle is marked as a whole or not at all.                             *)
Closed == \A i \in Vector!Indices : i \in Visited <=> perm[i] \in Visited

(* What is not marked has not been moved.                                  *)
Untouched == \A i \in Vector!Indices : i \notin Visited => vector[i] = orig[i]

(* Marked positions are final, or lead to a final one.                     *)
Final(i) == IF inv = TRUE THEN vector[perm[i]] = orig[i] ELSE vector[i] = orig[perm[i]]
Placed == \A i \in Vector!Indices : i \in Visited => Final(i)

(* Between two cycles, and in a cycle that is not to be followed (again).  *)
Resting == Closed /\ Untouched /\ Placed

(* permute, in the middle of the cycle through start: the positions from   *)
(* start up to the one before current are marked and final, and current    *)
(* holds the value that was at start.                                      *)
Carrying ==
  /\ start \in Visited /\ current \notin Visited
  /\ vector[current] = orig[start]
  /\ Placed
  /\ \A i \in Vector!Indices : i \notin Visited /\ i # current => vector[i] = orig[i]
  /\ \A i \in Vector!Indices : i \in Visited /\ perm[i] # current => perm[i] \in Visited
  /\ \A i \in Vector!Indices : perm[i] \in Visited /\ perm[i] # start => i \in Visited
  /\ \A i \in Vector!Indices : perm[i] = current => i \in Visited

(* permute_inv, in the middle of the cycle through start: the positions up *)
(* to the one before current are marked, start holds the value that was at *)
(* the last of them, and the walk ends where it began.                     *)
CarryingInv ==
  /\ start \in Visited
  /\ current \in Visited => current = start
  /\ Untouched
  /\ \A i \in Vector!Indices : i \in Visited /\ perm[i] # current =>
       perm[i] \in Visited /\ perm[i] # start /\ vector[perm[i]] = orig[i]
  /\ \A i \in Vector!Indices : perm[i] \in Visited /\ perm[i] # start => i \in Visited
  /\ \A i \in Vector!Indices : perm[i] = current => i \in Visited /\ vector[start] = orig[i]

CycleInv ==
  /\ inner = FALSE => Resting
  /\ inner = TRUE /\ inv = FALSE => Carrying \/ (Resting /\ current = start)
  /\ inner = TRUE /\ inv = TRUE =>
       CarryingInv \/ (Resting /\ start \in Visited /\ current = perm[start])

Inv ==
  /\ Vector!TypeOK
  /\ orig \in [Vector!Indices -> Vector!Indices]
  /\ \A i \in Vector!Indices : i < start => i \in Visited
  /\ CycleInv

----------------------------------------------------------------------------
(* Swapping two places of a vector.                                        *)
LEMMA SwapProperties ==
  ASSUME NEW f \in Vector!Bijections, NEW i \in Vector!Indices, NEW j \in Vector!Indices
  PROVE  /\ Vector!Swap(f, i, j) \in Vector!Bijections
         /\ Vector!Swap(f, i, j)[i] = f[j] /\ Vector!Swap(f, i, j)[j] = f[i]
         /\ \A k \in Vector!Indices : k # i /\ k # j => Vector!Swap(f, i, j)[k] = f[k]
<1>1. f \in [Vector!Indices -> Vector!Indices] /\ \A x, y \in Vector!Indices : f[x] = f[y] => x = y
  BY DEF Vector!Bijections
<1>2. PICK g : g = Vector!Swap(f, i, j)
  OBVIOUS
<1>3. g \in [Vector!Indices -> Vector!Indices]
  BY <1>1, <1>2 DEF Vector!Swap
<1>4. g[i] = f[j] /\ g[j] = f[i] /\ \A k \in Vector!Indices : k # i /\ k # j => g[k] = f[k]
  BY <1>1, <1>2 DEF Vector!Swap
<1>5. \A x, y \in Vector!Indices : g[x] = g[y] => x = y
  BY <1>1, <1>4
<1> QED BY <1>2, <1>3, <1>4, <1>5 DEF Vector!Bijections

(* Marking one position.                                                   *)
LEMMA MarkProperties ==
  ASSUME swapped_indices \in [Vector!Indices -> BOOLEAN], NEW i \in Vector!Indices, Vector!Mark(i)
  PROVE  /\ swapped_indices' \in [Vector!Indices -> BOOLEAN]
         /\ Visited' = Visited \cup {i}
  BY DEF Vector!Mark, Visited

(* The facts of the invariant that every step uses.                        *)
LEMMA InvFacts ==
  ASSUME Inv
  PROVE  /\ perm \in [Vector!Indices -> Vector!Indices]
         /\ \A i, j \in Vector!Indices : perm[i] = perm[j] => i = j
         /\ vector \in Vector!Bijections /\ swapped_indices \in [Vector!Indices -> BOOLEAN]
         /\ inv \in BOOLEAN /\ inner \in BOOLEAN
         /\ start \in 0..Size /\ current \in 0..Size
         /\ inner = TRUE => start \in Vector!Indices /\ current \in Vector!Indices
<1>1. Vector!TypeOK
  BY DEF Inv
<1>2. /\ inv \in BOOLEAN /\ inner \in BOOLEAN
      /\ perm \in Vector!Bijections /\ vector \in Vector!Bijections
      /\ swapped_indices \in [Vector!Indices -> BOOLEAN]
      /\ start \in 0..Size /\ current \in 0..Size
      /\ inner = TRUE => start \in Vector!Indices /\ current \in Vector!Indices
  BY <1>1, Zenon DEF Vector!TypeOK
<1> QED BY <1>2 DEF Vector!Bijections

(* The invariant holds at the call: nothing is marked, nothing has moved.  *)
LEMMA InitInv == ASSUME Size \in Nat PROVE Vector!Init => Inv
<1> SUFFICES ASSUME Vector!Init PROVE Inv
  OBVIOUS
<1>1. /\ perm \in Vector!Bijections /\ inner = FALSE /\ inv \in BOOLEAN
      /\ orig = [i \in Vector!Indices |-> i] /\ vector = orig
      /\ swapped_indices = [i \in Vector!Indices |-> FALSE]
      /\ start = 0 /\ current = 0
  BY DEF Vector!Init
<1>2. vector \in Vector!Bijections /\ orig \in [Vector!Indices -> Vector!Indices]
  BY <1>1 DEF Vector!Bijections
<1>3. Vector!TypeOK
  <2>1. swapped_indices \in [Vector!Indices -> BOOLEAN] /\ start \in 0..Size /\ current \in 0..Size
    BY <1>1
  <2>2. inner \in BOOLEAN /\ inner # TRUE
    BY <1>1
  <2> QED BY <1>1, <1>2, <2>1, <2>2, Zenon DEF Vector!TypeOK
<1>4. perm \in [Vector!Indices -> Vector!Indices] /\ \A i \in Vector!Indices : i \notin Visited
  BY <1>1 DEF Vector!Bijections, Visited
<1>5. Resting
  BY <1>1, <1>4 DEF Resting, Closed, Untouched, Placed
<1>6. \A i \in Vector!Indices : ~(i < start)
  BY <1>1 DEF Vector!Indices
<1> QED BY <1>1, <1>2, <1>3, <1>5, <1>6 DEF Inv, CycleInv

----------------------------------------------------------------------------
(* permute, step by step.                                                  *)

(* A new start: the vector rests.                                          *)
LEMMA StartInv == ASSUME Size \in Nat, Inv, Vector!permute_start PROVE Inv'
<1>1. /\ inv = FALSE /\ inner = FALSE
  BY InvFacts, Zenon DEF Vector!permute_start
<1>2. /\ start < Size /\ current' = start /\ inner' = TRUE
      /\ UNCHANGED <<inv, perm, orig, vector, swapped_indices, start>>
      /\ Visited' = Visited
  BY DEF Vector!permute_start, Visited
<1>3. start \in Vector!Indices /\ start \in 0..Size
  BY <1>2, InvFacts DEF Vector!Indices
<1>4. Vector!TypeOK'
  <2>1. perm \in Vector!Bijections
    BY DEF Inv, Vector!TypeOK
  <2> QED BY <1>2, <1>3, <2>1, InvFacts, Zenon DEF Vector!TypeOK
<1>5. Resting'
  <2>1. Resting
    BY <1>1 DEF Inv, CycleInv
  <2> QED BY <1>2, <2>1 DEF Resting, Closed, Untouched, Placed, Final
<1>6. CycleInv'
  BY <1>1, <1>2, <1>5 DEF CycleInv
<1> QED BY <1>2, <1>4, <1>6 DEF Inv

(* A turn: current becomes final and its successor takes over the value    *)
(* that is carried.  A fixed point is final at once.                       *)
LEMMA TurnInv == ASSUME Size \in Nat, Inv, Vector!permute_turn PROVE Inv'
<1>1. inv = FALSE /\ inner = TRUE
  BY InvFacts, Zenon DEF Vector!permute_turn
<1>2. /\ current \in Vector!Indices /\ start \in Vector!Indices
      /\ perm \in [Vector!Indices -> Vector!Indices] /\ swapped_indices \in [Vector!Indices -> BOOLEAN]
      /\ \A i, j \in Vector!Indices : perm[i] = perm[j] => i = j
  BY <1>1, InvFacts
<1>3. PICK n \in Vector!Indices : n = perm[current]
  BY <1>2
<1>4. n \notin Visited
  BY <1>3 DEF Vector!permute_turn, Visited
<1>5. /\ Vector!Mark(current) /\ vector' = Vector!Swap(vector, current, n) /\ current' = n
      /\ UNCHANGED <<inv, perm, orig, start, inner>>
  BY <1>3 DEF Vector!permute_turn
<1>6. /\ swapped_indices' \in [Vector!Indices -> BOOLEAN]
      /\ Visited' = Visited \cup {current}
  BY <1>2, <1>5, MarkProperties
<1>7. /\ vector' \in Vector!Bijections /\ vector'[current] = vector[n] /\ vector'[n] = vector[current]
      /\ \A k \in Vector!Indices : k # current /\ k # n => vector'[k] = vector[k]
  <2>1. vector \in Vector!Bijections
    BY InvFacts
  <2>2. /\ Vector!Swap(vector, current, n) \in Vector!Bijections
        /\ Vector!Swap(vector, current, n)[current] = vector[n]
        /\ Vector!Swap(vector, current, n)[n] = vector[current]
        /\ \A k \in Vector!Indices : k # current /\ k # n => Vector!Swap(vector, current, n)[k] = vector[k]
    <3>1. current \in Vector!Indices
      BY <1>2
    <3> QED BY <2>1, <3>1, SwapProperties, ZenonT(60)
  <2> QED BY <1>5, <2>2, Zenon
<1>8. Vector!TypeOK'
  <2>1. perm \in Vector!Bijections /\ n \in 0..Size /\ start \in 0..Size
    BY InvFacts DEF Inv, Vector!TypeOK, Vector!Indices
  <2> QED BY <1>1, <1>2, <1>5, <1>6, <1>7, <2>1, Zenon DEF Vector!TypeOK
<1>9. \A i \in Vector!Indices : i < start' => i \in Visited'
  BY <1>5, <1>6 DEF Inv
<1>10. CycleInv'
  <2>1. CASE Resting /\ current = start
    <3>1. /\ start \notin Visited /\ \A i \in Vector!Indices : i \notin Visited => vector[i] = orig[i]
          /\ \A i \in Vector!Indices : i \in Visited <=> perm[i] \in Visited
          /\ \A i \in Vector!Indices : i \in Visited => vector[i] = orig[perm[i]]
      BY <1>1, <1>2, <1>3, <1>4, <2>1 DEF Resting, Closed, Untouched, Placed, Final
    <3>2. CASE n = start
      <4>1. Closed'
        BY <1>2, <1>3, <1>5, <1>6, <2>1, <3>1, <3>2 DEF Closed
      <4>2. Untouched' /\ Placed'
        BY <1>1, <1>2, <1>3, <1>5, <1>6, <1>7, <2>1, <3>1, <3>2
           DEF Untouched, Placed, Final
      <4>3. Resting'
        BY <4>1, <4>2 DEF Resting
      <4> QED BY <1>1, <1>5, <3>2, <4>3 DEF CycleInv
    <3>3. CASE n # start
      <4>1. Carrying'
        BY <1>1, <1>2, <1>3, <1>4, <1>5, <1>6, <1>7, <2>1, <3>1, <3>3
           DEF Carrying, Placed, Final
      <4> QED BY <1>1, <1>5, <4>1 DEF CycleInv
    <3> QED BY <3>2, <3>3
  <2>2. CASE Carrying
    <3>1. n # start /\ n # current
      BY <1>2, <1>3, <1>4, <2>2 DEF Carrying
    <3>2. Carrying'
      BY <1>1, <1>2, <1>3, <1>4, <1>5, <1>6, <1>7, <2>2, <3>1
         DEF Carrying, Placed, Final
    <3> QED BY <1>1, <1>5, <3>2 DEF CycleInv
  <2> QED BY <1>1, <2>1, <2>2 DEF Inv, CycleInv
<1>11. orig' \in [Vector!Indices -> Vector!Indices]
  BY <1>5 DEF Inv
<1> QED BY <1>8, <1>9, <1>10, <1>11 DEF Inv

(* The end of a cycle: its last position has received the first value.     *)
LEMMA EndInv == ASSUME Size \in Nat, Inv, Vector!permute_end PROVE Inv'
<1>1. inv = FALSE /\ inner = TRUE
  BY InvFacts, Zenon DEF Vector!permute_end
<1>2. /\ current \in Vector!Indices /\ start \in Vector!Indices
      /\ perm \in [Vector!Indices -> Vector!Indices] /\ swapped_indices \in [Vector!Indices -> BOOLEAN]
      /\ \A i, j \in Vector!Indices : perm[i] = perm[j] => i = j
  BY <1>1, InvFacts
<1>3. PICK n \in Vector!Indices : n = perm[current]
  BY <1>2
<1>4. n \in Visited
  <2>1. swapped_indices[n] \in BOOLEAN
    BY <1>2
  <2>2. swapped_indices[n] = TRUE
    BY <1>3, <2>1, Zenon DEF Vector!permute_end
  <2> QED BY <2>2 DEF Visited
<1>5. /\ Vector!Mark(current) /\ start' = start + 1 /\ inner' = FALSE
      /\ UNCHANGED <<inv, perm, orig, vector, current>>
  BY DEF Vector!permute_end
<1>6. /\ swapped_indices' \in [Vector!Indices -> BOOLEAN]
      /\ Visited' = Visited \cup {current}
  BY <1>2, <1>5, MarkProperties
<1>7. Vector!TypeOK'
  <2>1. perm \in Vector!Bijections /\ start' \in 0..Size /\ current' \in 0..Size
    BY <1>2, <1>5, InvFacts DEF Inv, Vector!TypeOK, Vector!Indices
  <2>2. vector \in Vector!Bijections /\ inv \in BOOLEAN
    BY InvFacts
  <2> QED BY <1>5, <1>6, <2>1, <2>2, Zenon DEF Vector!TypeOK
<1>8. Resting' /\ start \in Visited'
  <2>1. CASE Resting /\ current = start
    <3>1. /\ start \in Visited /\ \A i \in Vector!Indices : i \notin Visited => vector[i] = orig[i]
          /\ \A i \in Vector!Indices : i \in Visited <=> perm[i] \in Visited
          /\ \A i \in Vector!Indices : i \in Visited => vector[i] = orig[perm[i]]
      BY <1>1, <1>2, <1>3, <1>4, <2>1
         DEF Resting, Closed, Untouched, Placed, Final
    <3> QED BY <1>1, <1>2, <1>5, <1>6, <2>1, <3>1
               DEF Resting, Closed, Untouched, Placed, Final
  <2>2. CASE Carrying
    <3>1. n = start
      BY <1>2, <1>3, <1>4, <2>2 DEF Carrying
    <3>2. Closed'
      BY <1>2, <1>3, <1>5, <1>6, <2>2, <3>1 DEF Carrying, Closed
    <3>3. Untouched' /\ Placed' /\ start \in Visited'
      BY <1>1, <1>2, <1>3, <1>5, <1>6, <2>2, <3>1
         DEF Carrying, Untouched, Placed, Final
    <3> QED BY <3>2, <3>3 DEF Resting
  <2> QED BY <1>1, <2>1, <2>2 DEF Inv, CycleInv
<1>9. \A i \in Vector!Indices : i < start' => i \in Visited'
  <2>1. \A i \in Vector!Indices : i < start => i \in Visited
    BY DEF Inv
  <2>2. \A i \in Vector!Indices : i < start + 1 => i < start \/ i = start
    BY <1>2 DEF Vector!Indices
  <2> QED BY <1>5, <1>6, <1>8, <2>1, <2>2
<1>10. CycleInv' /\ orig' \in [Vector!Indices -> Vector!Indices]
  BY <1>5, <1>8 DEF Inv, CycleInv
<1> QED BY <1>7, <1>9, <1>10 DEF Inv

----------------------------------------------------------------------------
(* permute_inv, step by step.                                              *)

(* A new start: its cycle is followed unless it is marked already.         *)
LEMMA InvStartInv == ASSUME Size \in Nat, Inv, Vector!permute_inv_start PROVE Inv'
<1>1. inv = TRUE /\ inner = FALSE
  BY InvFacts, Zenon DEF Vector!permute_inv_start
<1>2. /\ start < Size /\ current' = perm[start] /\ inner' = TRUE /\ Vector!Mark(start)
      /\ UNCHANGED <<inv, perm, orig, vector, start>>
  BY DEF Vector!permute_inv_start
<1>3. /\ start \in Vector!Indices /\ start \in 0..Size
      /\ perm \in [Vector!Indices -> Vector!Indices] /\ swapped_indices \in [Vector!Indices -> BOOLEAN]
      /\ \A i, j \in Vector!Indices : perm[i] = perm[j] => i = j
  BY <1>2, InvFacts DEF Vector!Indices
<1>4. swapped_indices' \in [Vector!Indices -> BOOLEAN] /\ Visited' = Visited \cup {start}
  BY <1>2, <1>3, MarkProperties
<1>5. Vector!TypeOK'
  <2>1. perm \in Vector!Bijections /\ current' \in Vector!Indices /\ current' \in 0..Size
    BY <1>2, <1>3 DEF Inv, Vector!TypeOK, Vector!Indices
  <2>2. vector \in Vector!Bijections
    BY InvFacts
  <2> QED BY <1>1, <1>2, <1>3, <1>4, <2>1, <2>2, Zenon DEF Vector!TypeOK
<1>6. CycleInv'
  <2>1. /\ \A i \in Vector!Indices : i \notin Visited => vector[i] = orig[i]
        /\ \A i \in Vector!Indices : i \in Visited <=> perm[i] \in Visited
        /\ \A i \in Vector!Indices : i \in Visited => vector[perm[i]] = orig[i]
    BY <1>1 DEF Inv, CycleInv, Resting, Closed, Untouched, Placed, Final
  <2>2. CASE start \in Visited
    <3>1. Visited' = Visited
      BY <1>4, <2>2
    <3>2. Resting'
      BY <1>1, <1>2, <2>1, <3>1 DEF Resting, Closed, Untouched, Placed, Final
    <3> QED BY <1>1, <1>2, <2>2, <3>1, <3>2 DEF CycleInv
  <2>3. CASE start \notin Visited
    <3>1. CarryingInv'
      BY <1>2, <1>3, <1>4, <2>1, <2>3 DEF CarryingInv, Untouched
    <3> QED BY <1>1, <1>2, <3>1 DEF CycleInv
  <2> QED BY <2>2, <2>3
<1> QED BY <1>2, <1>4, <1>5, <1>6 DEF Inv

(* A turn: current receives the value of its predecessor, which start has  *)
(* kept, and start keeps the value of current.                             *)
LEMMA InvTurnInv == ASSUME Size \in Nat, Inv, Vector!permute_inv_turn PROVE Inv'
<1>1. inv = TRUE /\ inner = TRUE
  BY InvFacts, Zenon DEF Vector!permute_inv_turn
<1>2. /\ current \in Vector!Indices /\ start \in Vector!Indices
      /\ perm \in [Vector!Indices -> Vector!Indices] /\ swapped_indices \in [Vector!Indices -> BOOLEAN]
      /\ \A i, j \in Vector!Indices : perm[i] = perm[j] => i = j
  BY <1>1, InvFacts
<1>3. PICK n \in Vector!Indices : n = perm[current]
  BY <1>2
<1>4. current \notin Visited
  BY DEF Vector!permute_inv_turn, Visited
<1>5. /\ Vector!Mark(current) /\ vector' = Vector!Swap(vector, current, start) /\ current' = n
      /\ UNCHANGED <<inv, perm, orig, start, inner>>
  BY <1>3 DEF Vector!permute_inv_turn
<1>6. swapped_indices' \in [Vector!Indices -> BOOLEAN] /\ Visited' = Visited \cup {current}
  BY <1>2, <1>5, MarkProperties
<1>7. /\ vector' \in Vector!Bijections
      /\ vector'[current] = vector[start] /\ vector'[start] = vector[current]
      /\ \A k \in Vector!Indices : k # current /\ k # start => vector'[k] = vector[k]
  <2>1. vector \in Vector!Bijections /\ current \in Vector!Indices /\ start \in Vector!Indices
    BY <1>2, InvFacts
  <2>2. /\ Vector!Swap(vector, current, start) \in Vector!Bijections
        /\ Vector!Swap(vector, current, start)[current] = vector[start]
        /\ Vector!Swap(vector, current, start)[start] = vector[current]
        /\ \A k \in Vector!Indices : k # current /\ k # start =>
             Vector!Swap(vector, current, start)[k] = vector[k]
    BY <2>1, SwapProperties, ZenonT(60)
  <2> QED BY <1>5, <2>2, Zenon
<1>8. Vector!TypeOK'
  <2>1. perm \in Vector!Bijections /\ n \in 0..Size /\ start \in 0..Size
    BY InvFacts DEF Inv, Vector!TypeOK, Vector!Indices
  <2> QED BY <1>1, <1>2, <1>5, <1>6, <1>7, <2>1, Zenon DEF Vector!TypeOK
<1>9. CarryingInv
  <2>1. ~(Resting /\ start \in Visited /\ current = perm[start])
    BY <1>2, <1>4 DEF Resting, Closed
  <2> QED BY <1>1, <2>1 DEF Inv, CycleInv
<1>10. current # start /\ n # current
  BY <1>2, <1>3, <1>4, <1>9 DEF CarryingInv
<1>11. CarryingInv'
  <2>1. Untouched' /\ start' \in Visited' /\ (current' \in Visited' => current' = start')
    BY <1>2, <1>3, <1>4, <1>5, <1>6, <1>7, <1>9, <1>10 DEF CarryingInv, Untouched
  <2>2. \A i \in Vector!Indices : i \in Visited' /\ perm[i] # n =>
          perm[i] \in Visited' /\ perm[i] # start /\ vector'[perm[i]] = orig[i]
    BY <1>2, <1>3, <1>4, <1>6, <1>7, <1>9, <1>10 DEF CarryingInv
  <2>3. \A i \in Vector!Indices : perm[i] \in Visited' /\ perm[i] # start => i \in Visited'
    BY <1>2, <1>6, <1>9 DEF CarryingInv
  <2>4. \A i \in Vector!Indices : perm[i] = n => i \in Visited' /\ vector'[start] = orig[i]
    BY <1>2, <1>3, <1>4, <1>6, <1>7, <1>9 DEF CarryingInv, Untouched
  <2> QED BY <1>5, <2>1, <2>2, <2>3, <2>4 DEF CarryingInv
<1> QED BY <1>1, <1>5, <1>6, <1>8, <1>11 DEF Inv, CycleInv

(* The end of a cycle: the walk is back at start, which has kept the value *)
(* of the last position.                                                   *)
LEMMA InvEndInv == ASSUME Size \in Nat, Inv, Vector!permute_inv_end PROVE Inv'
<1>1. inv = TRUE /\ inner = TRUE
  BY InvFacts, Zenon DEF Vector!permute_inv_end
<1>2. /\ current \in Vector!Indices /\ start \in Vector!Indices
      /\ perm \in [Vector!Indices -> Vector!Indices] /\ swapped_indices \in [Vector!Indices -> BOOLEAN]
      /\ \A i, j \in Vector!Indices : perm[i] = perm[j] => i = j
  BY <1>1, InvFacts
<1>3. current \in Visited
  <2>1. swapped_indices[current] \in BOOLEAN
    BY <1>2
  <2>2. swapped_indices[current] = TRUE
    BY <2>1, Zenon DEF Vector!permute_inv_end
  <2> QED BY <1>2, <2>2 DEF Visited
<1>4. /\ start' = start + 1 /\ inner' = FALSE /\ Visited' = Visited
      /\ UNCHANGED <<inv, perm, orig, vector, swapped_indices, current>>
  BY DEF Vector!permute_inv_end, Visited
<1>5. Vector!TypeOK'
  <2>1. perm \in Vector!Bijections /\ start' \in 0..Size /\ current' \in 0..Size
    BY <1>2, <1>4, InvFacts DEF Inv, Vector!TypeOK, Vector!Indices
  <2>2. vector \in Vector!Bijections /\ inv \in BOOLEAN
    BY InvFacts
  <2> QED BY <1>2, <1>4, <2>1, <2>2, Zenon DEF Vector!TypeOK
<1>6. Resting /\ start \in Visited
  <2>1. CASE CarryingInv
    <3>1. current = start
      BY <1>3, <2>1 DEF CarryingInv
    <3> QED BY <1>1, <1>2, <1>3, <2>1, <3>1
               DEF CarryingInv, Resting, Closed, Untouched, Placed, Final
  <2> QED BY <1>1, <2>1 DEF Inv, CycleInv
<1>7. Resting'
  BY <1>4, <1>6 DEF Resting, Closed, Untouched, Placed, Final
<1>8. \A i \in Vector!Indices : i < start' => i \in Visited'
  <2>1. \A i \in Vector!Indices : i < start + 1 => i < start \/ i = start
    BY <1>2 DEF Vector!Indices
  <2> QED BY <1>4, <1>6, <2>1 DEF Inv
<1> QED BY <1>4, <1>5, <1>7, <1>8 DEF Inv, CycleInv

----------------------------------------------------------------------------
(* The invariant is inductive.                                             *)
LEMMA StepInv == ASSUME Size \in Nat PROVE Inv /\ [Vector!Next]_(Vector!vars) => Inv'
<1> SUFFICES ASSUME Inv, [Vector!Next]_(Vector!vars) PROVE Inv'
  OBVIOUS
<1>1. CASE UNCHANGED Vector!vars
  <2>1. /\ UNCHANGED <<inv, perm, orig, vector, swapped_indices, start, current, inner>>
        /\ Visited' = Visited
    BY <1>1 DEF Vector!vars, Visited
  <2>2. Vector!TypeOK'
    BY <2>1 DEF Inv, Vector!TypeOK
  <2>3. /\ Resting' <=> Resting
        /\ Carrying' <=> Carrying
        /\ CarryingInv' <=> CarryingInv
    BY <2>1 DEF Resting, Closed, Untouched, Placed, Final, Carrying, CarryingInv
  <2> QED BY <2>1, <2>2, <2>3 DEF Inv, CycleInv
<1> QED BY <1>1, StartInv, TurnInv, EndInv, InvStartInv, InvTurnInv, InvEndInv DEF Vector!Next

(* Once the loops have ended every position is marked, so every value is   *)
(* where the documentation says.                                           *)
LEMMA InvGivesResult == ASSUME Size \in Nat, Inv PROVE PermuteCorrect
<1> SUFFICES ASSUME Vector!Done PROVE \A i \in Vector!Indices : Final(i)
  <2>1. inv \in BOOLEAN
    BY InvFacts
  <2> QED BY <2>1, Zenon DEF PermuteCorrect, Vector!PermuteCorrect, Vector!Done, Final
<1>1. start = Size /\ inner = FALSE
  <2>1. start \notin Vector!Indices /\ start = Size
    BY DEF Vector!Done, Vector!Indices
  <2> QED BY <2>1, InvFacts
<1>2. \A i \in Vector!Indices : i \in Visited
  BY <1>1 DEF Inv, Vector!Indices
<1> QED BY <1>1, <1>2 DEF Inv, CycleInv, Resting, Placed

(* The types hold for every length of the vector: the loops never index    *)
(* behind its end, and the values are only moved, never lost or copied.    *)
THEOREM TypeCorrect == Vector!Spec => []Vector!TypeOK
<1>1. Inv => Vector!TypeOK
  BY DEF Inv
<1>2. Vector!Init => Inv
  BY InitInv, KernelAssumption
<1>3. Inv /\ [Vector!Next]_(Vector!vars) => Inv'
  BY StepInv, KernelAssumption
<1> QED BY <1>1, <1>2, <1>3, PTL DEF Vector!Spec

(* permute and permute_inv give what they document, for every permutation  *)
(* of a vector of every length.                                            *)
THEOREM PermuteIsCorrect == Vector!Spec => []PermuteCorrect
<1>1. Inv => PermuteCorrect
  BY InvGivesResult, KernelAssumption
<1>2. Vector!Init => Inv
  BY InitInv, KernelAssumption
<1>3. Inv /\ [Vector!Next]_(Vector!vars) => Inv'
  BY StepInv, KernelAssumption
<1> QED BY <1>1, <1>2, <1>3, PTL DEF Vector!Spec

----------------------------------------------------------------------------
(* The ring of one factor of the modulus.                                  *)

(* A product of bounded factors.                                           *)
LEMMA ProductBound ==
  ASSUME NEW a \in Nat, NEW b \in Nat, NEW c \in Nat, NEW d \in Nat, a <= b, c <= d
  PROVE  a * c <= b * d
<1>1. a * c <= b * c
  OBVIOUS
<1>2. b * c <= b * d
  OBVIOUS
<1> QED BY <1>1, <1>2

(* Division of an integer with remainder.                                  *)
LEMMA IntDiv ==
  ASSUME NEW a \in Int, NEW b \in Nat \ {0}
  PROVE  a \div b \in Int /\ a % b \in 0..(b - 1) /\ a = b * (a \div b) + (a % b)
  OBVIOUS

(* The remainder of an integer is determined by its bounds.                *)
LEMMA ModUnique ==
  ASSUME NEW a \in Int, NEW b \in Nat \ {0}, NEW z \in Int, NEW r \in 0..(b - 1), a = b * z + r
  PROVE  a % b = r
  OBVIOUS

(* What check_invariant gives: the sizes everything below is bounded by.   *)
LEMMA RingSizes ==
  ASSUME RingOf!check_invariant
  PROVE  /\ RingOf!TwoK \in Nat \ {0} /\ alpha \in Nat \ {0}
         /\ RingOf!p \in Nat \ {0} /\ RingOf!p + alpha = RingOf!TwoK
         /\ 2 * alpha + 2 * alpha * alpha <= RingOf!TwoK
         /\ SignHalf \in Nat \ {0} /\ RingOf!HalfWord \in Nat \ {0} /\ RingOf!Word \in Nat \ {0}
         /\ 2 * RingOf!p < SignHalf /\ 4 * RingOf!p < RingOf!HalfWord /\ 2 * RingOf!TwoK < RingOf!HalfWord
         /\ 4 * RingOf!p < RingOf!SignWord
         /\ RingOf!SignWord \in Nat /\ RingOf!SignWord <= RingOf!Word
         /\ RingOf!HalfWord * RingOf!HalfWord = RingOf!Word
         /\ 4 * RingOf!p < RingOf!Word
         /\ 2 * RingOf!p * RingOf!p + 2 * RingOf!p < RingOf!Word
<1>1. PICK T \in Nat \ {0} : T = RingOf!TwoK
  BY DEF RingOf!check_invariant
<1>2. PICK h \in Nat \ {0} : h = SignHalf
  BY DEF RingOf!check_invariant
<1>3. PICK a \in Nat \ {0} : a = alpha
  BY DEF RingOf!check_invariant
<1>4. PICK P \in Int : P = RingOf!p /\ P = T - a
  BY <1>1, <1>3 DEF RingOf!p
<1>5. 2 * T <= h /\ 2 * a + 2 * a * a <= T /\ 2 * a < P
  BY <1>1, <1>2, <1>3, <1>4 DEF RingOf!check_invariant
<1>6. P \in Nat \ {0} /\ P + a = T /\ 2 * P < h /\ 4 * P < 2 * h /\ 2 * T < 2 * h /\ P + 1 <= T
  BY <1>4, <1>5
<1>7. PICK H \in Nat \ {0} : H = RingOf!HalfWord /\ H = 2 * h
  BY <1>2 DEF RingOf!HalfWord
<1>8. PICK W \in Nat \ {0} : W = RingOf!Word /\ W = H * H
  BY <1>7 DEF RingOf!Word
<1>9. PICK S \in Nat : S = RingOf!SignWord /\ S = H * h
  BY <1>2, <1>7 DEF RingOf!SignWord
<1>10. H <= S /\ S <= W
  <2>1. H * 1 <= H * h /\ H * h <= H * H
    BY <1>7
  <2> QED BY <1>8, <1>9, <2>1
<1>11. 2 * P * P + 2 * P < W
  <2>1. PICK x \in Nat : x = 2 * P /\ x < H
    BY <1>6, <1>7
  <2>2. PICK y \in Nat : y = P + 1 /\ y < H
    BY <1>6, <1>7
  <2>3. x * y <= x * H
    BY <2>2
  <2>4. x * H < H * H
    BY <2>1
  <2>5. x * y = 2 * P * P + 2 * P
    BY <1>6, <2>1, <2>2
  <2> QED BY <1>8, <2>3, <2>4, <2>5
<1> QED BY <1>1, <1>2, <1>3, <1>4, <1>5, <1>6, <1>7, <1>8, <1>9, <1>10, <1>11

----------------------------------------------------------------------------
(* Congruences modulo p.                                                   *)
Cong(x, e) == \E k \in Int : x = e + k * RingOf!p

(* Congruences are compatible with the operations of a ring.               *)
LEMMA CongOps ==
  ASSUME RingOf!check_invariant, NEW x \in Int, NEW y \in Int, NEW e \in Int, NEW f \in Int,
         Cong(x, e), Cong(y, f)
  PROVE  Cong(x + y, e + f) /\ Cong(x - y, e - f) /\ Cong(x * y, e * f)
<1>1. PICK P \in Nat \ {0} : P = RingOf!p
  BY RingSizes
<1>2. PICK k \in Int : x = e + k * P
  BY <1>1 DEF Cong
<1>3. PICK l \in Int : y = f + l * P
  BY <1>1 DEF Cong
<1>4. x + y = (e + f) + (k + l) * P /\ k + l \in Int
  BY <1>2, <1>3
<1>5. x - y = (e - f) + (k - l) * P /\ k - l \in Int
  BY <1>2, <1>3
<1>6. PICK c \in Int : c = k * f + e * l + k * l * P
  OBVIOUS
<1>7. x * y = e * f + c * P
  <2>1. x * y = e * f + (k * P) * f + e * (l * P) + (k * P) * (l * P)
    BY <1>2, <1>3
  <2>2. c * P = (k * f) * P + (e * l) * P + (k * l * P) * P
    BY <1>6
  <2> QED BY <2>1, <2>2
<1> QED BY <1>1, <1>4, <1>5, <1>6, <1>7 DEF Cong

(* Multiples of p do not matter.                                           *)
LEMMA CongShift ==
  ASSUME RingOf!check_invariant, NEW x \in Int, NEW e \in Int, NEW m \in Int, Cong(x, e)
  PROVE  Cong(x - m * RingOf!p, e)
<1>1. PICK P \in Nat \ {0} : P = RingOf!p
  BY RingSizes
<1>2. PICK k \in Int : x = e + k * P
  BY <1>1 DEF Cong
<1>3. x - m * P = e + (k - m) * P /\ k - m \in Int
  BY <1>2
<1> QED BY <1>1, <1>3 DEF Cong

(* A representative is congruent to its residue, and bounded.              *)
LEMMA RepElim ==
  ASSUME RingOf!check_invariant, NEW x, NEW v \in 0..(RingOf!p - 1), NEW n \in Nat,
         RingOf!Represents(x, v, n)
  PROVE  x \in Nat /\ x <= n * RingOf!p /\ v \in Nat /\ Cong(x, v)
<1>1. PICK P \in Nat \ {0} : P = RingOf!p
  BY RingSizes
<1>2. PICK k \in 0..n : x = v + k * P /\ x <= n * P
  BY <1>1 DEF RingOf!Represents
<1>3. k \in Nat /\ k \in Int /\ v \in Nat /\ k * P \in Nat
  BY <1>1, <1>2
<1> QED BY <1>1, <1>2, <1>3 DEF Cong

(* A small word congruent to e represents the residue of e.                *)
LEMMA RepIntro ==
  ASSUME RingOf!check_invariant, NEW x \in Nat, NEW e \in Int, NEW n \in Nat,
         x <= n * RingOf!p, Cong(x, e)
  PROVE  e % RingOf!p \in 0..(RingOf!p - 1) /\ RingOf!Represents(x, e % RingOf!p, n)
<1>1. PICK P \in Nat \ {0} : P = RingOf!p
  BY RingSizes
<1>2. PICK k \in Int : x = e + k * P
  BY <1>1 DEF Cong
<1>3. PICK c \in Int : c = e \div P
  BY IntDiv
<1>4. PICK v \in 0..(P - 1) : v = e % P /\ e = P * c + v
  BY <1>3, IntDiv
<1>5. PICK l \in Int : l = c + k
  OBVIOUS
<1>6. x = v + l * P
  <2>1. PICK a \in Int : a = k * P
    OBVIOUS
  <2>2. PICK b \in Int : b = P * c
    OBVIOUS
  <2>3. l * P = b + a
    BY <1>5, <2>1, <2>2
  <2>4. e = b + v /\ v \in Int
    BY <1>4, <2>2
  <2>5. x = e + a
    BY <1>2, <2>1
  <2>6. PICK z \in Int : z = l * P
    OBVIOUS
  <2> QED BY <2>3, <2>4, <2>5, <2>6
<1>7. l >= 0
  <2> SUFFICES ASSUME l <= -1 PROVE FALSE
    OBVIOUS
  <2>1. l * P <= -P
    OBVIOUS
  <2> QED BY <1>4, <1>6, <2>1
<1>8. l <= n
  <2> SUFFICES ASSUME n + 1 <= l PROVE FALSE
    OBVIOUS
  <2>1. PICK m \in Nat : m = n + 1
    OBVIOUS
  <2>2. m * P <= l * P
    BY <1>7, <2>1
  <2>3. m * P = n * P + P
    BY <2>1
  <2> QED BY <1>1, <1>4, <1>6, <2>2, <2>3
<1>9. l \in 0..n
  BY <1>7, <1>8
<1> QED BY <1>1, <1>4, <1>6, <1>9 DEF RingOf!Represents

----------------------------------------------------------------------------
(* Lanes.                                                                  *)

(* Word arithmetic that does not wrap around.                              *)
LEMMA WordOps ==
  ASSUME RingOf!check_invariant, NEW x \in Nat, NEW y \in Nat
  PROVE  /\ x + y < RingOf!Word => RingOf!mm512_add_epi64(x, y) = x + y
         /\ y <= x /\ x < RingOf!Word => RingOf!mm512_sub_epi64(x, y) = x - y
         /\ x < RingOf!HalfWord /\ y < RingOf!HalfWord => RingOf!mm512_mul_epu32(x, y) = x * y
         /\ x < RingOf!SignWord => RingOf!Signed(x) = x
<1>1. PICK W \in Nat \ {0} : W = RingOf!Word
  BY RingSizes
<1>2. PICK H \in Nat \ {0} : H = RingOf!HalfWord
  BY RingSizes
<1>3. ASSUME NEW z \in Nat, NEW b \in Nat \ {0}, z < b PROVE z % b = z
  BY <1>3
<1>4. x + y < W => (x + y) % W = x + y
  BY <1>3
<1>5. y <= x /\ x < W => (x - y) % W = x - y
  BY <1>3
<1>6. x < H /\ y < H => x % H = x /\ y % H = y
  BY <1>3
<1> QED BY <1>1, <1>2, <1>4, <1>5, <1>6
           DEF RingOf!mm512_add_epi64, RingOf!mm512_sub_epi64, RingOf!mm512_mul_epu32, RingOf!Signed

(* y is d less a multiple of p, and at most n p.                           *)
Reduced(y, d, n) == y \in Nat /\ y <= n * RingOf!p /\ \E m \in Int : y = d - m * RingOf!p

(* The conditional subtractions.                                           *)
LEMMA ConditionalSubtraction ==
  ASSUME RingOf!check_invariant, NEW d \in Nat
  PROVE  /\ d <= 2 * RingOf!p => Reduced(RingOf!reduce_from_2p(d), d, 1)
         /\ d <= RingOf!p => RingOf!reduce_from_2p(d) = d
         /\ d <= 4 * RingOf!p => Reduced(RingOf!reduce_from_4p(d), d, 2)
<1>1. PICK P \in Nat \ {0} : P = RingOf!p /\ 4 * P < RingOf!SignWord /\ 4 * P < RingOf!Word
  BY RingSizes
<1>2. RingOf!SignWord \in Nat /\ RingOf!Word \in Nat
  BY RingSizes
<1>3. SUFFICES ASSUME d <= 4 * P
               PROVE  /\ d <= 2 * P => Reduced(RingOf!reduce_from_2p(d), d, 1)
                      /\ d <= P => RingOf!reduce_from_2p(d) = d
                      /\ Reduced(RingOf!reduce_from_4p(d), d, 2)
  BY <1>1
<1>4. PICK Q \in Nat : Q = 2 * P
  OBVIOUS
<1>5. RingOf!Signed(d) = d /\ RingOf!Signed(P) = P /\ RingOf!Signed(Q) = Q
  BY <1>1, <1>2, <1>3, <1>4, WordOps
<1>6. /\ RingOf!mm512_sub_epi64(d, 0) = d
      /\ d > P => RingOf!mm512_sub_epi64(d, P) = d - P
      /\ d > Q => RingOf!mm512_sub_epi64(d, Q) = d - Q
  BY <1>1, <1>2, <1>3, <1>4, WordOps
<1>7. RingOf!reduce_from_2p(d) = IF d > P THEN d - P ELSE d
  BY <1>1, <1>5, <1>6 DEF RingOf!reduce_from_2p, RingOf!mm512_mask, RingOf!mm512_cmpgt_epi64_mask
<1>8. RingOf!reduce_from_4p(d) = IF d > Q THEN d - Q ELSE d
  BY <1>1, <1>4, <1>5, <1>6 DEF RingOf!reduce_from_4p, RingOf!mm512_mask, RingOf!mm512_cmpgt_epi64_mask
<1>9. d = d - 0 * P /\ d - P = d - 1 * P /\ d - Q = d - 2 * P /\ 1 * P = P
  BY <1>4
<1>10. d <= 2 * P => Reduced(RingOf!reduce_from_2p(d), d, 1)
  BY <1>1, <1>7, <1>9 DEF Reduced
<1>11. Reduced(RingOf!reduce_from_4p(d), d, 2)
  <2>1. PICK y \in Nat : y = RingOf!reduce_from_4p(d) /\ y <= Q
    BY <1>3, <1>4, <1>8
  <2>2. y = d - 0 * P \/ y = d - 2 * P
    BY <1>8, <1>9, <2>1
  <2>3. \E m \in Int : y = d - m * P
    BY <2>2
  <2> QED BY <1>1, <1>4, <2>1, <2>3 DEF Reduced
<1> QED BY <1>7, <1>10, <1>11

(* One step of reduce_after_mul on a word whose quotient fits in a half.   *)
LEMMA ReduceStep ==
  ASSUME RingOf!check_invariant, NEW d \in Nat, NEW c \in Nat, NEW r \in 0..(RingOf!TwoK - 1),
         d = RingOf!TwoK * c + r, c < RingOf!HalfWord, d < RingOf!Word
  PROVE  RingOf!reduce_step(d) = r + c * alpha /\ RingOf!reduce_step(d) = d - c * RingOf!p
<1>1. PICK T \in Nat \ {0} : T = RingOf!TwoK
  BY RingSizes
<1>2. PICK P \in Nat \ {0} : P = RingOf!p /\ P + alpha = T /\ P < RingOf!HalfWord
  <2>1. RingOf!HalfWord \in Nat /\ RingOf!p \in Nat
    BY RingSizes
  <2> QED BY <1>1, <2>1, RingSizes
<1>3. alpha \in Nat
  BY RingSizes
<1>4. d \div T = c
  <2>1. r \in 0..(T - 1) /\ d = T * c + r
    BY <1>1
  <2> QED BY <2>1
<1>5. RingOf!mm512_srli_epi64(RingOf!TwoK, d) = c
  BY <1>1, <1>4 DEF RingOf!mm512_srli_epi64
<1>6. RingOf!mm512_mul_epu32(c, P) = c * P
  BY <1>2, WordOps
<1>7. d - c * P = r + c * alpha
  <2>1. T * c = c * P + c * alpha
    BY <1>2, <1>3
  <2> QED BY <1>1, <1>3, <2>1
<1>8. PICK x \in Nat : x = c * P
  OBVIOUS
<1>9. x <= d
  <2>1. c * alpha \in Nat /\ r \in Nat
    BY <1>1, <1>3
  <2> QED BY <1>7, <1>8, <2>1
<1>10. RingOf!mm512_sub_epi64(d, x) = d - x
  BY <1>9, WordOps
<1> QED BY <1>2, <1>5, <1>6, <1>7, <1>8, <1>10 DEF RingOf!reduce_step

(* Two steps reduce every word up to 2 p^2 + 2 p to at most 2 p.           *)
LEMMA ReduceAfterMul ==
  ASSUME RingOf!check_invariant, NEW d \in Nat, d <= 2 * RingOf!p * RingOf!p + 2 * RingOf!p
  PROVE  Reduced(RingOf!reduce_after_mul(d), d, 2)
<1>1. PICK T \in Nat \ {0} : T = RingOf!TwoK
  BY RingSizes
<1>2. PICK a \in Nat \ {0} : a = alpha
  BY RingSizes
<1>3. PICK P \in Nat \ {0} : P = RingOf!p /\ P + a = T /\ 2 * P * P + 2 * P < RingOf!Word
  BY <1>1, <1>2, RingSizes
<1>4. 2 * a + 2 * a * a <= T
  BY <1>1, <1>2, RingSizes
<1>5. PICK H \in Nat : H = RingOf!HalfWord /\ 4 * P < H /\ 2 * T < H
  BY <1>1, <1>3, RingSizes
<1>6. PICK W \in Nat : W = RingOf!Word /\ d < W /\ 4 * P < W
  BY <1>3, RingSizes
<1>7. PICK c \in Nat : c = d \div T
  OBVIOUS
<1>8. PICK r \in 0..(T - 1) : r = d % T /\ d = T * c + r
  BY <1>7
<1>9. c <= 2 * P
  <2> SUFFICES ASSUME 2 * P + 1 <= c PROVE FALSE
    BY <1>3
  <2>1. PICK x \in Nat : x = 2 * P + 1
    BY <1>3
  <2>2. T * x <= T * c
    BY <2>1
  <2>3. PICK y \in Nat : y = P + 1 /\ y <= T
    BY <1>2, <1>3
  <2>4. y * x <= T * x
    BY <2>1, <2>3
  <2>5. y * x = 2 * P * P + 2 * P + P + 1
    BY <1>3, <2>1, <2>3
  <2> QED BY <1>3, <1>8, <2>2, <2>4, <2>5
<1>10. PICK d1 \in Nat : d1 = r + c * a
  BY <1>8
<1>11. RingOf!reduce_step(d) = d1 /\ d1 = d - c * P
  <2>1. c < RingOf!HalfWord /\ d < RingOf!Word /\ r \in 0..(RingOf!TwoK - 1) /\ d = RingOf!TwoK * c + r
    BY <1>1, <1>3, <1>5, <1>6, <1>8, <1>9
  <2> QED BY <1>2, <1>3, <1>10, <2>1, ReduceStep
<1>12. d1 < T + 2 * a * T
  <2>1. PICK x \in Nat : x = 2 * P
    BY <1>3
  <2>2. c * a <= x * a
    BY <1>2, <1>9, <2>1
  <2>3. x * a < 2 * a * T
    <3>1. P * a < T * a
      BY <1>2, <1>3
    <3> QED BY <2>1, <3>1
  <2> QED BY <1>8, <1>10, <2>2, <2>3
<1>13. PICK e \in Nat : e = d1 \div T
  OBVIOUS
<1>14. PICK s \in 0..(T - 1) : s = d1 % T /\ d1 = T * e + s
  BY <1>13
<1>15. e <= 2 * a
  <2> SUFFICES ASSUME 2 * a + 1 <= e PROVE FALSE
    OBVIOUS
  <2>1. PICK x \in Nat : x = 2 * a + 1
    OBVIOUS
  <2>2. T * x <= T * e
    BY <2>1
  <2>3. T * x = T + 2 * a * T
    BY <2>1
  <2> QED BY <1>12, <1>14, <2>2, <2>3
<1>16. PICK d2 \in Nat : d2 = s + e * a
  BY <1>14
<1>17. RingOf!reduce_step(d1) = d2 /\ d2 = d1 - e * P
  <2>1. e < RingOf!HalfWord
    BY <1>4, <1>5, <1>15
  <2>2. d1 < RingOf!Word
    BY <1>6, <1>11
  <2>3. s \in 0..(RingOf!TwoK - 1) /\ d1 = RingOf!TwoK * e + s
    BY <1>1, <1>14
  <2> QED BY <1>2, <1>3, <1>16, <2>1, <2>2, <2>3, ReduceStep
<1>18. d2 <= 2 * P
  <2>1. PICK x \in Nat : x = 2 * a
    OBVIOUS
  <2>2. e * a <= x * a
    BY <1>15, <2>1
  <2>3. x * a = 2 * a * a
    BY <2>1
  <2> QED BY <1>3, <1>4, <1>14, <1>16, <2>2, <2>3
<1>19. d2 = d - (c + e) * P
  BY <1>11, <1>17
<1>20. RingOf!reduce_after_mul(d) = d2
  BY <1>11, <1>17 DEF RingOf!reduce_after_mul
<1>21. c + e \in Int
  OBVIOUS
<1> QED BY <1>3, <1>18, <1>19, <1>20, <1>21 DEF Reduced

----------------------------------------------------------------------------
(* The operations of the ring.                                             *)

(* x is a word of at most n p that stands for the integer e.               *)
Stands(x, e, n) == x \in Nat /\ e \in Int /\ x <= n * RingOf!p /\ Cong(x, e)

(* Reducing a word does not change what it stands for.                     *)
LEMMA ReducedStands ==
  ASSUME RingOf!check_invariant, NEW y, NEW d \in Nat, NEW e \in Int, NEW n \in Nat,
         Reduced(y, d, n), Cong(d, e)
  PROVE  Stands(y, e, n)
<1>1. PICK m \in Int : y = d - m * RingOf!p
  BY DEF Reduced
<1>2. Cong(y, e)
  BY <1>1, CongShift
<1> QED BY <1>2 DEF Reduced, Stands

(* Additive operations on lazily reduced elements.                         *)
LEMMA AdditiveOps ==
  ASSUME RingOf!check_invariant, NEW x, NEW y, NEW e, NEW f, Stands(x, e, 2), Stands(y, f, 2)
  PROVE  /\ Stands(RingOf!add(x, y), e + f, 2)
         /\ Stands(RingOf!sub(x, y), e - f, 2)
         /\ Stands(RingOf!negate(x), -e, 2)
         /\ Stands(RingOf!reduce_from_2p(x), e, 1)
<1>1. PICK P \in Nat \ {0} : P = RingOf!p /\ 4 * P < RingOf!Word
  BY RingSizes
<1>2. RingOf!Word \in Nat
  BY RingSizes
<1>3. /\ x \in Nat /\ e \in Int /\ x <= 2 * P /\ Cong(x, e)
      /\ y \in Nat /\ f \in Int /\ y <= 2 * P /\ Cong(y, f)
  BY <1>1 DEF Stands
<1>4. Cong(x + y, e + f) /\ Cong(x - y, e - f)
  BY <1>3, CongOps
<1>5. Stands(RingOf!add(x, y), e + f, 2)
  <2>1. PICK d \in Nat : d = x + y /\ d <= 4 * P
    BY <1>3
  <2>2. RingOf!mm512_add_epi64(x, y) = d
    BY <1>1, <1>2, <1>3, <2>1, WordOps
  <2>3. Reduced(RingOf!reduce_from_4p(d), d, 2)
    BY <1>1, <2>1, ConditionalSubtraction
  <2>4. Stands(RingOf!reduce_from_4p(d), e + f, 2)
    BY <1>3, <1>4, <2>1, <2>3, ReducedStands
  <2> QED BY <2>2, <2>4 DEF RingOf!add
<1>6. PICK Q \in Nat : Q = 2 * P /\ Q = 2 * RingOf!p
  BY <1>1
<1>7. Stands(RingOf!sub(x, y), e - f, 2)
  <2>1. PICK u \in Nat : u = x + Q /\ u <= 4 * P /\ y <= u
    BY <1>3, <1>6
  <2>2. PICK d \in Nat : d = u - y /\ d <= 4 * P
    BY <1>3, <2>1
  <2>3. RingOf!mm512_add_epi64(x, Q) = u /\ RingOf!mm512_sub_epi64(u, y) = d
    BY <1>1, <1>2, <1>3, <2>1, <2>2, WordOps
  <2>4. Cong(d, e - f)
    <3>1. d = (x - y) - (-2) * P
      BY <1>3, <1>6, <2>1, <2>2
    <3>2. PICK z \in Int : z = x - y
      BY <1>3
    <3>3. PICK g \in Int : g = e - f
      BY <1>3
    <3>4. Cong(z, g)
      BY <1>4, <3>2, <3>3
    <3>5. Cong(z - (-2) * RingOf!p, g)
      BY <3>4, CongShift
    <3> QED BY <1>1, <3>1, <3>2, <3>3, <3>5
  <2>5. Reduced(RingOf!reduce_from_4p(d), d, 2)
    BY <1>1, <2>2, ConditionalSubtraction
  <2>6. Stands(RingOf!reduce_from_4p(d), e - f, 2)
    <3>1. e - f \in Int
      BY <1>3
    <3> QED BY <2>4, <2>5, <3>1, ReducedStands
  <2> QED BY <1>6, <2>3, <2>6 DEF RingOf!sub
<1>8. Stands(RingOf!negate(x), -e, 2)
  <2>1. RingOf!mm512_sub_epi64(Q, x) = Q - x
    BY <1>1, <1>2, <1>3, <1>6, WordOps
  <2>2. PICK k \in Int : x = e + k * P
    BY <1>1, <1>3 DEF Cong
  <2>3. Q - x = -e + (2 - k) * P /\ 2 - k \in Int
    BY <1>3, <1>6, <2>2
  <2>4. Cong(Q - x, -e)
    BY <1>1, <2>3 DEF Cong
  <2>5. Q - x \in Nat /\ Q - x <= 2 * P /\ -e \in Int
    BY <1>3, <1>6
  <2> QED BY <1>1, <1>6, <2>1, <2>4, <2>5 DEF RingOf!negate, Stands
<1>9. Stands(RingOf!reduce_from_2p(x), e, 1)
  <2>1. Reduced(RingOf!reduce_from_2p(x), x, 1)
    BY <1>1, <1>3, ConditionalSubtraction
  <2> QED BY <1>3, <2>1, ReducedStands
<1> QED BY <1>5, <1>7, <1>8, <1>9

(* Products with a completely reduced factor, also with a summand.         *)
LEMMA ProductOps ==
  ASSUME RingOf!check_invariant, NEW x, NEW y, NEW z, NEW e, NEW f, NEW g,
         Stands(x, e, 1), Stands(y, f, 2), Stands(z, g, 2)
  PROVE  /\ Stands(RingOf!reduce_after_mul(RingOf!mm512_mul_epu32(x, y)), e * f, 2)
         /\ Stands(RingOf!reduce_after_mul(
                     RingOf!mm512_add_epi64(RingOf!mm512_mul_epu32(x, y), z)), e * f + g, 2)
<1>1. PICK P \in Nat \ {0} : /\ P = RingOf!p /\ 4 * P < RingOf!HalfWord
                             /\ 2 * P * P + 2 * P < RingOf!Word
  BY RingSizes
<1>2. RingOf!HalfWord \in Nat /\ RingOf!Word \in Nat
  BY RingSizes
<1>3. /\ x \in Nat /\ e \in Int /\ x <= P /\ Cong(x, e)
      /\ y \in Nat /\ f \in Int /\ y <= 2 * P /\ Cong(y, f)
      /\ z \in Nat /\ g \in Int /\ z <= 2 * P /\ Cong(z, g)
  BY <1>1 DEF Stands
<1>4. PICK d \in Nat : d = x * y
  BY <1>3
<1>5. d <= 2 * P * P
  <2>1. PICK Q \in Nat : Q = 2 * P
    OBVIOUS
  <2>2. x * y <= P * Q
    BY <1>3, <2>1, ProductBound
  <2>3. P * Q = 2 * P * P
    BY <2>1
  <2> QED BY <1>4, <2>2, <2>3
<1>6. RingOf!mm512_mul_epu32(x, y) = d
  <2>1. x < RingOf!HalfWord /\ y < RingOf!HalfWord
    BY <1>1, <1>2, <1>3
  <2> QED BY <1>3, <1>4, <2>1, WordOps
<1>7. PICK c \in Int : c = e * f
  BY <1>3
<1>8. Cong(d, c)
  BY <1>3, <1>4, <1>7, CongOps
<1>9. Stands(RingOf!reduce_after_mul(d), c, 2)
  <2>1. d <= 2 * RingOf!p * RingOf!p + 2 * RingOf!p
    BY <1>1, <1>5
  <2>2. Reduced(RingOf!reduce_after_mul(d), d, 2)
    BY <2>1, ReduceAfterMul
  <2> QED BY <1>8, <2>2, ReducedStands
<1>10. PICK s \in Nat : s = d + z /\ s <= 2 * P * P + 2 * P
  BY <1>3, <1>5
<1>11. RingOf!mm512_add_epi64(d, z) = s
  <2>1. d + z < RingOf!Word
    BY <1>1, <1>2, <1>10
  <2> QED BY <1>3, <1>10, <2>1, WordOps
<1>12. Stands(RingOf!reduce_after_mul(s), c + g, 2)
  <2>1. Cong(s, c + g) /\ c + g \in Int
    BY <1>3, <1>8, <1>10, CongOps
  <2>2. Reduced(RingOf!reduce_after_mul(s), s, 2)
    BY <1>1, <1>10, ReduceAfterMul
  <2> QED BY <2>1, <2>2, ReducedStands
<1> QED BY <1>6, <1>7, <1>9, <1>11, <1>12

(* Storing an element in 32 bits loses nothing.                            *)
LEMMA StoredExactly ==
  ASSUME RingOf!check_invariant, NEW x \in Nat, x <= 2 * RingOf!p
  PROVE  RingOf!compress(x) = x /\ RingOf!uncompress(RingOf!compress(x)) = x
<1>1. PICK h \in Nat \ {0} : h = SignHalf /\ x < h
  BY RingSizes
<1>2. PICK H \in Nat \ {0} : H = RingOf!HalfWord /\ H = 2 * h
  BY <1>1 DEF RingOf!HalfWord
<1>3. PICK W \in Nat \ {0} : W = RingOf!Word /\ x < W
  BY RingSizes
<1>4. x % H = x /\ x % W = x
  BY <1>1, <1>2, <1>3
<1>5. RingOf!compress(x) = x
  BY <1>1, <1>2, <1>4 DEF RingOf!compress, RingOf!as_i32
<1> QED BY <1>3, <1>4, <1>5 DEF RingOf!uncompress, RingOf!mm512_cvtepi32_epi64

(* A residue is its own remainder.                                         *)
LEMMA OwnResidue ==
  ASSUME RingOf!check_invariant, NEW v \in 0..(RingOf!p - 1)
  PROVE  v % RingOf!p = v /\ v \in Nat /\ v \in Int /\ v < RingOf!p
<1>1. PICK P \in Nat \ {0} : P = RingOf!p
  BY RingSizes
<1>2. v % P = v /\ v \in Nat /\ v < P
  BY <1>1
<1> QED BY <1>1, <1>2

(* What is read off an element depends on its residue only.                *)
LEMMA Lifts ==
  ASSUME RingOf!check_invariant, NEW x, NEW v \in 0..(RingOf!p - 1), Stands(x, v, 2)
  PROVE  RingOf!simd_smallest_positive_lift(x) = v /\ RingOf!get_component(x) = v
<1>1. PICK P \in Nat \ {0} : P = RingOf!p /\ 4 * P < RingOf!Word
  BY RingSizes
<1>2. RingOf!Word \in Nat /\ v \in Nat /\ v < P
  BY <1>1, RingSizes
<1>3. PICK y : y = RingOf!reduce_from_2p(x)
  OBVIOUS
<1>4. Stands(y, v, 1)
  BY <1>3, AdditiveOps
<1>5. PICK k \in 0..1 : y = v + k * P /\ y <= 1 * P
  <2>1. y \in Nat /\ y <= 1 * RingOf!p /\ Cong(y, v)
    BY <1>4 DEF Stands
  <2>2. RingOf!Represents(y, v % RingOf!p, 1)
    <3>1. v \in Int /\ 1 \in Nat
      BY <1>2
    <3> QED BY <2>1, <3>1, RepIntro, Zenon
  <2> QED BY <1>1, <2>2, OwnResidue DEF RingOf!Represents
<1>6. y \in Nat /\ (y = P => v = 0) /\ (y # P => y = v)
  BY <1>2, <1>5
<1>7. RingOf!simd_smallest_positive_lift(x) = RingOf!mm512_sub_epi64(y, IF y = P THEN P ELSE 0)
  BY <1>1, <1>3
     DEF RingOf!simd_smallest_positive_lift, RingOf!mm512_mask, RingOf!mm512_cmpeq_epi64_mask
<1>8. RingOf!mm512_sub_epi64(y, IF y = P THEN P ELSE 0) = v
  <2>1. y < RingOf!Word
    BY <1>1, <1>2, <1>5
  <2>2. CASE y = P
    BY <1>1, <1>6, <2>1, <2>2, WordOps
  <2>3. CASE y # P
    BY <1>6, <2>1, <2>3, WordOps
  <2> QED BY <2>2, <2>3
<1>9. RingOf!get_component(x) = x % P
  BY <1>1, StoredExactly DEF Stands, RingOf!get_component
<1>10. x % P = v
  <2>1. PICK c \in Int : x = v + c * P
    BY <1>1 DEF Stands, Cong
  <2>2. x \in Int /\ x = P * c + v /\ v \in 0..(P - 1)
    BY <1>1, <2>1 DEF Stands
  <2> QED BY <2>2, ModUnique
<1> QED BY <1>7, <1>8, <1>9, <1>10

(* Equality of elements is equality of residues.                           *)
LEMMA Equality ==
  ASSUME RingOf!check_invariant, NEW x, NEW v \in 0..(RingOf!p - 1), Stands(x, v, 2),
         NEW y, NEW w \in 0..(RingOf!p - 1), Stands(y, w, 2)
  PROVE  RingOf!eq_el(x, y) <=> v = w
<1>1. PICK P \in Nat \ {0} : P = RingOf!p
  BY RingSizes
<1>2. v \in Nat /\ v < P /\ w \in Nat /\ w < P
  BY <1>1
<1>3. PICK s : s = RingOf!sub(x, y)
  OBVIOUS
<1>4. PICK e \in Int : e = v - w
  BY <1>2
<1>5. Stands(s, e, 2)
  BY <1>3, <1>4, AdditiveOps
<1>6. PICK r : r = RingOf!reduce_from_2p(s)
  OBVIOUS
<1>7. Stands(r, e, 1)
  BY <1>5, <1>6, AdditiveOps
<1>8. r \in Nat /\ r <= P
  BY <1>1, <1>7 DEF Stands
<1>9. PICK k \in Int : r = e + k * P
  BY <1>1, <1>7 DEF Stands, Cong
<1>10. RingOf!reduce_from_2p(r) = r
  BY <1>1, <1>8, ConditionalSubtraction
<1>11. RingOf!get_component(r) = r % P
  <2>1. RingOf!compress(r) = r
    BY <1>1, <1>8, StoredExactly
  <2> QED BY <1>1, <2>1 DEF RingOf!get_component
<1>12. RingOf!eq_el(x, y) <=> r % P = 0
  BY <1>3, <1>6, <1>10, <1>11 DEF RingOf!eq_el
<1>13. v = w => r % P = 0
  <2> SUFFICES ASSUME v = w PROVE r % P = 0
    OBVIOUS
  <2>1. r = P * k + 0 /\ 0 \in 0..(P - 1) /\ r \in Int
    BY <1>4, <1>8, <1>9
  <2> QED BY <2>1, ModUnique
<1>14. r % P = 0 => v = w
  <2> SUFFICES ASSUME r % P = 0 PROVE e = 0
    BY <1>2, <1>4
  <2>1. PICK c \in Int : r = P * c
    <3>1. r \in Int
      BY <1>8
    <3>2. r \div P \in Int /\ r = P * (r \div P) + (r % P)
      BY <3>1, IntDiv, Zenon
    <3>3. PICK c \in Int : c = r \div P
      BY <3>2, Zenon
    <3>4. r = P * c + 0
      BY <3>2, <3>3, Zenon
    <3>5. P * c + 0 = P * c
      OBVIOUS
    <3> QED BY <3>4, <3>5, Zenon
  <2>2. PICK m \in Int : m = c - k
    OBVIOUS
  <2>3. e = m * P
    <3>1. PICK a \in Int : a = k * P
      OBVIOUS
    <3>2. PICK b \in Int : b = P * c
      OBVIOUS
    <3>3. m * P = b - a
      BY <2>2, <3>1, <3>2
    <3> QED BY <1>9, <2>1, <3>1, <3>2, <3>3
  <2>4. -P < e /\ e < P
    BY <1>2, <1>4
  <2>5. m = 0
    <3>1. m >= 1 => m * P >= P
      OBVIOUS
    <3>2. m <= -1 => m * P <= -P
      OBVIOUS
    <3> QED BY <2>3, <2>4, <3>1, <3>2
  <2> QED BY <2>3, <2>5
<1> QED BY <1>12, <1>13, <1>14

----------------------------------------------------------------------------
(* The machine.                                                            *)

Elements ==
  reg \in [Regs -> Nat] /\ val \in [Regs -> 0..(RingOf!p - 1)] /\ RingOf!ElementsRepresent
Twiddle == twiddle \in Nat /\ tval \in 0..(RingOf!p - 1) /\ RingOf!TwiddleRepresents
RunningSum ==
  /\ summands \in -1..RingOf!p /\ acc \in Nat /\ aval \in 0..(RingOf!p - 1)
  /\ RingOf!SumRepresents

RingInv == Elements /\ Twiddle /\ RunningSum

(* What the registers stand for.                                           *)
LEMMA RegsStand ==
  ASSUME RingOf!check_invariant, RingInv
  PROVE  /\ \A r \in Regs : val[r] \in 0..(RingOf!p - 1) /\ Stands(reg[r], val[r], 2)
         /\ Stands(twiddle, tval, 1)
<1>1. ASSUME NEW r \in Regs PROVE val[r] \in 0..(RingOf!p - 1) /\ Stands(reg[r], val[r], 2)
  <2>1. val[r] \in 0..(RingOf!p - 1) /\ RingOf!Represents(reg[r], val[r], 2)
    BY DEF RingInv, Elements, RingOf!ElementsRepresent
  <2> QED BY <2>1, RepElim, OwnResidue DEF Stands
<1>2. Stands(twiddle, tval, 1)
  <2>1. tval \in 0..(RingOf!p - 1) /\ RingOf!Represents(twiddle, tval, 1)
    BY DEF RingInv, Twiddle, RingOf!TwiddleRepresents
  <2> QED BY <2>1, RepElim, OwnResidue DEF Stands
<1> QED BY <1>1, <1>2

(* An operation that stores an element and the residue it stands for.      *)
LEMMA SetInv ==
  ASSUME RingOf!check_invariant, Elements, NEW r \in Regs, NEW el, NEW e,
         Stands(el, e, 2), RingOf!Set(r, el, e)
  PROVE  Elements'
<1>1. PICK v : v = e % RingOf!p
  OBVIOUS
<1>2. v \in 0..(RingOf!p - 1) /\ RingOf!Represents(el, v, 2) /\ el \in Nat
  BY <1>1, RepIntro DEF Stands
<1>3. reg' = [reg EXCEPT ![r] = el] /\ val' = [val EXCEPT ![r] = v]
  BY <1>1 DEF RingOf!Set
<1>4. reg \in [Regs -> Nat] /\ val \in [Regs -> 0..(RingOf!p - 1)]
  BY DEF Elements
<1>5. reg' \in [Regs -> Nat] /\ val' \in [Regs -> 0..(RingOf!p - 1)]
  BY <1>2, <1>3, <1>4
<1>6. ASSUME NEW s \in Regs PROVE RingOf!Represents(reg'[s], val'[s], 2)
  <2>1. CASE s = r
    <3>1. reg'[s] = el /\ val'[s] = v
      BY <1>3, <1>4, <2>1
    <3> QED BY <1>2, <3>1
  <2>2. CASE s # r
    <3>1. reg'[s] = reg[s] /\ val'[s] = val[s]
      BY <1>3, <1>4, <2>2
    <3> QED BY <3>1 DEF Elements, RingOf!ElementsRepresent
  <2> QED BY <2>1, <2>2
<1>7. RingOf!ElementsRepresent'
  BY <1>6 DEF RingOf!ElementsRepresent
<1> QED BY <1>5, <1>7 DEF Elements

(* What an operation leaves alone.                                         *)
LEMMA Kept ==
  ASSUME RingInv
  PROVE  /\ UNCHANGED <<reg, val>> => Elements'
         /\ UNCHANGED <<twiddle, tval>> => Twiddle'
         /\ UNCHANGED <<acc, summands, aval>> => RunningSum'
  BY DEF RingInv, Elements, Twiddle, RunningSum, RingOf!ElementsRepresent,
         RingOf!TwiddleRepresents, RingOf!SumRepresents, RingOf!Represents

(* An integer's residue stands for it.                                     *)
LEMMA ResidueStands ==
  ASSUME RingOf!check_invariant, NEW n \in Int
  PROVE  Stands(n % RingOf!p, n, 2)
<1>1. PICK P \in Nat \ {0} : P = RingOf!p
  BY RingSizes
<1>2. PICK c \in Int : c = n \div P
  BY IntDiv
<1>3. PICK v \in 0..(P - 1) : v = n % P /\ n = P * c + v
  BY <1>2, IntDiv
<1>4. v = n + (-c) * P /\ -c \in Int
  <2>1. PICK b \in Int : b = P * c
    OBVIOUS
  <2>2. (-c) * P = -b
    BY <2>1
  <2> QED BY <1>3, <2>1, <2>2
<1>5. v \in Nat /\ v <= 2 * P
  BY <1>3
<1> QED BY <1>1, <1>3, <1>4, <1>5 DEF Stands, Cong

(* The operations on two or three elements, and the reads of one.          *)
LEMMA OperationsInv ==
  ASSUME RingOf!check_invariant, RingInv, NEW r \in Regs, NEW s \in Regs, NEW dst \in Regs,
         \/ RingOf!add_assign(r, s) \/ RingOf!sub_assign(r, s) \/ RingOf!negate_inplace(r)
         \/ RingOf!mul_assign(r, s) \/ RingOf!fma_into(r, s, dst) \/ RingOf!compress_uncompress(r)
  PROVE  RingInv'
<1>1. Elements
  BY DEF RingInv
<1>2. PICK x, y, z : x = reg[r] /\ y = reg[s] /\ z = reg[dst]
  OBVIOUS
<1>3. PICK u, v, w : u = val[r] /\ v = val[s] /\ w = val[dst]
  OBVIOUS
<1>4. Stands(x, u, 2) /\ Stands(y, v, 2) /\ Stands(z, w, 2)
  BY <1>2, <1>3, RegsStand
<1>5. Twiddle' /\ RunningSum'
  BY Kept DEF RingOf!add_assign, RingOf!sub_assign, RingOf!negate_inplace, RingOf!mul_assign,
              RingOf!fma_into, RingOf!compress_uncompress, RingOf!OthersUnchanged
<1>6. /\ Stands(RingOf!add(x, y), u + v, 2) /\ Stands(RingOf!sub(x, y), u - v, 2)
      /\ Stands(RingOf!negate(x), -u, 2) /\ Stands(RingOf!reduce_from_2p(x), u, 1)
  BY <1>4, AdditiveOps
<1>7. Stands(RingOf!mul(x, y), u * v, 2) /\ Stands(RingOf!fma(x, y, z), u * v + w, 2)
  BY <1>4, <1>6, ProductOps DEF RingOf!mul, RingOf!fma
<1>8. Stands(RingOf!uncompress(RingOf!compress(x)), u, 2)
  <2>1. x \in Nat /\ x <= 2 * RingOf!p
    BY <1>4 DEF Stands
  <2> QED BY <1>4, <2>1, StoredExactly
<1>9. CASE RingOf!add_assign(r, s)
  <2>1. RingOf!Set(r, RingOf!add(x, y), u + v)
    BY <1>2, <1>3, <1>9 DEF RingOf!add_assign
  <2>2. Elements'
    BY <1>1, <1>6, <2>1, SetInv
  <2> QED BY <1>5, <2>2 DEF RingInv
<1>10. CASE RingOf!sub_assign(r, s)
  <2>1. RingOf!Set(r, RingOf!sub(x, y), u - v)
    BY <1>2, <1>3, <1>10 DEF RingOf!sub_assign
  <2>2. Elements'
    BY <1>1, <1>6, <2>1, SetInv
  <2> QED BY <1>5, <2>2 DEF RingInv
<1>11. CASE RingOf!negate_inplace(r)
  <2>1. RingOf!Set(r, RingOf!negate(x), -u)
    BY <1>2, <1>3, <1>11 DEF RingOf!negate_inplace
  <2>2. Elements'
    BY <1>1, <1>6, <2>1, SetInv
  <2> QED BY <1>5, <2>2 DEF RingInv
<1>12. CASE RingOf!mul_assign(r, s)
  <2>1. RingOf!Set(r, RingOf!mul(x, y), u * v)
    BY <1>2, <1>3, <1>12 DEF RingOf!mul_assign
  <2>2. Elements'
    BY <1>1, <1>7, <2>1, SetInv
  <2> QED BY <1>5, <2>2 DEF RingInv
<1>13. CASE RingOf!fma_into(r, s, dst)
  <2>1. RingOf!Set(dst, RingOf!fma(x, y, z), u * v + w)
    BY <1>2, <1>3, <1>13 DEF RingOf!fma_into
  <2>2. Elements'
    BY <1>1, <1>7, <2>1, SetInv
  <2> QED BY <1>5, <2>2 DEF RingInv
<1>14. CASE RingOf!compress_uncompress(r)
  <2>1. RingOf!Set(r, RingOf!uncompress(RingOf!compress(x)), u)
    BY <1>2, <1>3, <1>14 DEF RingOf!compress_uncompress
  <2>2. Elements'
    BY <1>1, <1>8, <2>1, SetInv
  <2> QED BY <1>5, <2>2 DEF RingInv
<1> QED BY <1>9, <1>10, <1>11, <1>12, <1>13, <1>14

(* Elements that come from outside: integers, words and quotients.         *)
LEMMA SourcesInv ==
  ASSUME RingOf!check_invariant, RingInv, NEW r \in Regs, NEW s \in Regs, NEW n \in Int,
         \/ RingOf!from_int(r, n) \/ RingOf!reduce_from_u64(r, n)
         \/ n \in 0..(RingOf!p - 1) /\ RingOf!checked_left_div(r, s, n)
  PROVE  RingInv'
<1>1. Elements
  BY DEF RingInv
<1>2. Twiddle' /\ RunningSum'
  BY Kept DEF RingOf!from_int, RingOf!reduce_from_u64, RingOf!checked_left_div, RingOf!OthersUnchanged
<1>3. Stands(n % RingOf!p, n, 2)
  BY ResidueStands
<1>4. RingOf!Set(r, n % RingOf!p, n)
  BY OwnResidue DEF RingOf!from_int, RingOf!reduce_from_u64, RingOf!checked_left_div
<1>5. Elements'
  BY <1>1, <1>3, <1>4, SetInv
<1> QED BY <1>2, <1>5 DEF RingInv

(* A completely reduced element.                                           *)
LEMMA RevDelegateInv ==
  ASSUME RingOf!check_invariant, RingInv, NEW r \in Regs, RingOf!rev_delegate(r)
  PROVE  RingInv'
<1>1. twiddle' = RingOf!reduce_from_2p(reg[r]) /\ tval' = val[r]
  BY DEF RingOf!rev_delegate
<1>2. PICK x : x = reg[r]
  OBVIOUS
<1>3. PICK v \in 0..(RingOf!p - 1) : v = val[r] /\ Stands(x, v, 2)
  BY <1>2, RegsStand
<1>4. Stands(RingOf!reduce_from_2p(x), v, 1)
  BY <1>3, AdditiveOps
<1>5. PICK y \in Nat : y = twiddle' /\ RingOf!Represents(y, v, 1)
  <2>1. /\ RingOf!reduce_from_2p(x) \in Nat /\ RingOf!reduce_from_2p(x) <= 1 * RingOf!p
        /\ Cong(RingOf!reduce_from_2p(x), v)
    BY <1>4 DEF Stands
  <2> QED BY <1>1, <1>2, <1>3, <2>1, RepIntro, OwnResidue
<1>6. Twiddle'
  BY <1>1, <1>3, <1>5 DEF Twiddle, RingOf!TwiddleRepresents
<1>7. Elements' /\ RunningSum'
  BY Kept DEF RingOf!rev_delegate
<1> QED BY <1>6, <1>7 DEF RingInv

(* Two elements are stored at once.                                        *)
LEMMA SetBothInv ==
  ASSUME RingOf!check_invariant, Elements, NEW x \in Regs, NEW y \in Regs, x # y,
         NEW a, NEW b, NEW e, NEW f, Stands(a, e, 2), Stands(b, f, 2),
         reg' = [reg EXCEPT ![x] = a, ![y] = b],
         val' = [val EXCEPT ![x] = e % RingOf!p, ![y] = f % RingOf!p]
  PROVE  Elements'
<1>1. PICK u : u = e % RingOf!p
  OBVIOUS
<1>2. PICK v : v = f % RingOf!p
  OBVIOUS
<1>3. /\ u \in 0..(RingOf!p - 1) /\ RingOf!Represents(a, u, 2) /\ a \in Nat
      /\ v \in 0..(RingOf!p - 1) /\ RingOf!Represents(b, v, 2) /\ b \in Nat
  BY <1>1, <1>2, RepIntro DEF Stands
<1>4. reg \in [Regs -> Nat] /\ val \in [Regs -> 0..(RingOf!p - 1)]
  BY DEF Elements
<1>5. val' = [val EXCEPT ![x] = u, ![y] = v]
  BY <1>1, <1>2
<1>6. reg' \in [Regs -> Nat] /\ val' \in [Regs -> 0..(RingOf!p - 1)]
  BY <1>3, <1>4, <1>5
<1>7. ASSUME NEW s \in Regs PROVE RingOf!Represents(reg'[s], val'[s], 2)
  <2>1. CASE s = x
    <3>1. reg'[s] = a /\ val'[s] = u
      BY <1>4, <1>5, <2>1
    <3> QED BY <1>3, <3>1
  <2>2. CASE s = y
    <3>1. reg'[s] = b /\ val'[s] = v
      BY <1>4, <1>5, <2>2
    <3> QED BY <1>3, <3>1
  <2>3. CASE s # x /\ s # y
    <3>1. reg'[s] = reg[s] /\ val'[s] = val[s]
      BY <1>4, <1>5, <2>3
    <3> QED BY <3>1 DEF Elements, RingOf!ElementsRepresent
  <2> QED BY <2>1, <2>2, <2>3
<1>8. RingOf!ElementsRepresent'
  BY <1>7 DEF RingOf!ElementsRepresent
<1> QED BY <1>6, <1>8 DEF Elements

(* The butterflies of the NTT, in both directions.                         *)
LEMMA ButterflyInv ==
  ASSUME RingOf!check_invariant, RingInv, NEW x \in Regs, NEW y \in Regs,
         RingOf!butterfly(x, y) \/ RingOf!inv_butterfly(x, y)
  PROVE  RingInv'
<1>1. Elements /\ x # y
  BY DEF RingInv, RingOf!butterfly, RingOf!inv_butterfly
<1>2. Twiddle' /\ RunningSum'
  BY Kept DEF RingOf!butterfly, RingOf!inv_butterfly, RingOf!OthersUnchanged
<1>3. PICK a, b : a = reg[x] /\ b = reg[y]
  OBVIOUS
<1>4. PICK u, v : u = val[x] /\ v = val[y]
  OBVIOUS
<1>5. Stands(a, u, 2) /\ Stands(b, v, 2) /\ Stands(twiddle, tval, 1)
  BY <1>3, <1>4, RegsStand
<1>6. CASE RingOf!butterfly(x, y)
  <2>1. PICK c : c = RingOf!twiddled(b)
    OBVIOUS
  <2>2. Stands(c, tval * v, 2)
    BY <1>5, <2>1, ProductOps DEF RingOf!twiddled
  <2>3. Stands(RingOf!add(a, c), u + tval * v, 2) /\ Stands(RingOf!sub(a, c), u - tval * v, 2)
    BY <1>5, <2>2, AdditiveOps
  <2>4. /\ reg' = [reg EXCEPT ![x] = RingOf!add(a, c), ![y] = RingOf!sub(a, c)]
        /\ val' = [val EXCEPT ![x] = (u + tval * v) % RingOf!p, ![y] = (u - tval * v) % RingOf!p]
    BY <1>3, <1>4, <1>6, <2>1 DEF RingOf!butterfly, RingOf!add, RingOf!sub
  <2>5. Elements'
    BY <1>1, <2>3, <2>4, SetBothInv
  <2> QED BY <1>2, <2>5 DEF RingInv
<1>7. CASE RingOf!inv_butterfly(x, y)
  <2>1. PICK c : c = RingOf!sub(a, b)
    OBVIOUS
  <2>2. Stands(RingOf!add(a, b), u + v, 2) /\ Stands(c, u - v, 2)
    BY <1>5, <2>1, AdditiveOps
  <2>3. Stands(RingOf!twiddled(c), tval * (u - v), 2)
    BY <1>5, <2>2, ProductOps DEF RingOf!twiddled
  <2>4. /\ reg' = [reg EXCEPT ![x] = RingOf!add(a, b), ![y] = RingOf!twiddled(c)]
        /\ val' = [val EXCEPT ![x] = (u + v) % RingOf!p, ![y] = (tval * (u - v)) % RingOf!p]
    BY <1>3, <1>4, <1>7, <2>1 DEF RingOf!inv_butterfly, RingOf!add, RingOf!sub
  <2>5. Elements'
    BY <1>1, <2>2, <2>3, <2>4, SetBothInv
  <2> QED BY <1>2, <2>5 DEF RingInv
<1> QED BY <1>6, <1>7

(* The running sum: what it stands for, and how large it is.               *)
LEMMA SumStands ==
  ASSUME RingOf!check_invariant, RingInv, ~RingOf!Idle
  PROVE  /\ summands \in 0..RingOf!p /\ Stands(acc, aval, 2 * (summands + 1))
         /\ Stands(RingOf!reduce_after_mul(acc), aval, 2)
<1>1. PICK P \in Nat \ {0} : P = RingOf!p
  BY RingSizes
<1>2. PICK i \in 0..P : i = summands
  BY <1>1 DEF RingInv, RunningSum, RingOf!Idle
<1>3. PICK n \in Nat : n = 2 * (summands + 1) /\ n = 2 * (i + 1)
  BY <1>2
<1>4. aval \in 0..(RingOf!p - 1) /\ RingOf!Represents(acc, aval, n)
  BY <1>2, <1>3 DEF RingInv, RunningSum, RingOf!SumRepresents
<1>5. acc \in Nat /\ acc <= n * P /\ aval \in Nat /\ Cong(acc, aval)
  BY <1>1, <1>3, <1>4, RepElim
<1>6. Stands(acc, aval, n)
  BY <1>1, <1>5 DEF Stands
<1>7. n * P <= 2 * P * P + 2 * P
  <2>1. PICK m \in Nat : m = 2 * (P + 1) /\ n <= m
    BY <1>2, <1>3
  <2>2. n * P <= m * P
    BY <2>1
  <2>3. m * P = 2 * P * P + 2 * P
    BY <2>1
  <2> QED BY <2>2, <2>3
<1>8. acc <= 2 * RingOf!p * RingOf!p + 2 * RingOf!p
  BY <1>1, <1>3, <1>5, <1>7
<1>9. Reduced(RingOf!reduce_after_mul(acc), acc, 2)
  BY <1>5, <1>8, ReduceAfterMul
<1>10. Stands(RingOf!reduce_after_mul(acc), aval, 2)
  BY <1>5, <1>9, ReducedStands
<1> QED BY <1>1, <1>2, <1>3, <1>6, <1>10

(* sum: at most p summands are added between two reductions.               *)
LEMMA SumInv ==
  ASSUME RingOf!check_invariant, RingInv, NEW r \in Regs,
         RingOf!sum_step(r) \/ RingOf!sum_end(r)
  PROVE  RingInv'
<1>1. PICK P \in Nat \ {0} : P = RingOf!p
  BY RingSizes
<1>2. Twiddle'
  BY Kept DEF RingOf!sum_step, RingOf!sum_end
<1>3. CASE RingOf!sum_step(r)
  <2>1. PICK i \in 0..P : i = summands /\ Stands(acc, aval, 2 * (i + 1))
    BY <1>1, <1>3, SumStands DEF RingOf!sum_step
  <2>2. PICK d : d = IF i = P THEN RingOf!reduce_after_mul(acc) ELSE acc
    OBVIOUS
  <2>3. PICK j \in 0..(P - 1) : j = IF i = P THEN 0 ELSE i
    BY <2>1
  <2>4. PICK n \in Nat : n = 2 * (j + 1)
    BY <2>3
  <2>5. Stands(d, aval, n)
    <3>1. CASE i = P
      <4>1. Stands(RingOf!reduce_after_mul(acc), aval, 2)
        BY <1>3, SumStands DEF RingOf!sum_step
      <4> QED BY <2>2, <2>3, <2>4, <3>1, <4>1
    <3>2. CASE i # P
      BY <2>1, <2>2, <2>3, <2>4, <3>2
    <3> QED BY <3>1, <3>2
  <2>6. PICK y : y = reg[r]
    OBVIOUS
  <2>7. PICK v : v = val[r]
    OBVIOUS
  <2>8. Stands(y, v, 2)
    BY <2>6, <2>7, RegsStand
  <2>9. /\ d \in Nat /\ d <= n * P /\ aval \in Int /\ Cong(d, aval)
        /\ y \in Nat /\ y <= 2 * P /\ v \in Int /\ Cong(y, v)
    BY <1>1, <2>5, <2>8 DEF Stands
  <2>10. PICK m \in Nat : m = n + 2 /\ m = 2 * (j + 1 + 1) /\ m * P = n * P + 2 * P
    BY <2>3, <2>4
  <2>11. d + y <= m * P
    BY <2>9, <2>10
  <2>12. m * P <= 2 * P * P + 2 * P
    <3>1. PICK l \in Nat : l = 2 * (P + 1) /\ m <= l
      BY <2>3, <2>10
    <3>2. m * P <= l * P
      BY <3>1
    <3>3. l * P = 2 * P * P + 2 * P
      BY <3>1
    <3> QED BY <3>2, <3>3
  <2>13. RingOf!mm512_add_epi64(d, y) = d + y
    <3>1. RingOf!Word \in Nat /\ 2 * P * P + 2 * P < RingOf!Word
      BY <1>1, RingSizes
    <3>2. d + y < RingOf!Word
      BY <2>9, <2>11, <2>12, <3>1
    <3> QED BY <2>9, <3>2, WordOps
  <2>14. acc' = d + y /\ summands' = j + 1 /\ aval' = (aval + v) % RingOf!p
    BY <1>1, <1>3, <2>1, <2>2, <2>3, <2>6, <2>7, <2>13 DEF RingOf!sum_step
  <2>15. /\ (aval + v) % RingOf!p \in 0..(RingOf!p - 1)
         /\ RingOf!Represents(d + y, (aval + v) % RingOf!p, m)
    <3>1. Cong(d + y, aval + v)
      BY <2>9, CongOps
    <3>2. d + y \in Nat /\ aval + v \in Int /\ d + y <= m * RingOf!p
      BY <1>1, <2>9, <2>11
    <3> QED BY <3>1, <3>2, RepIntro
  <2>16. RunningSum'
    <3>1. summands' \in -1..RingOf!p /\ 2 * (summands' + 1) = m
      BY <1>1, <2>3, <2>10, <2>14
    <3>2. acc' \in Nat
      BY <2>9, <2>14
    <3> QED BY <2>14, <2>15, <3>1, <3>2 DEF RunningSum, RingOf!SumRepresents
  <2>17. Elements'
    BY <1>3, Kept DEF RingOf!sum_step
  <2> QED BY <1>2, <2>16, <2>17 DEF RingInv
<1>4. CASE RingOf!sum_end(r)
  <2>1. RingOf!Set(r, RingOf!reduce_after_mul(acc), aval)
    BY <1>4 DEF RingOf!sum_end
  <2>2. Stands(RingOf!reduce_after_mul(acc), aval, 2)
    BY <1>4, SumStands DEF RingOf!sum_end
  <2>3. Elements'
    BY <2>1, <2>2, SetInv DEF RingInv
  <2>4. RunningSum'
    <3>1. acc' = 0 /\ aval' = 0 /\ summands' = -1
      BY <1>4 DEF RingOf!sum_end
    <3> QED BY <1>1, <3>1 DEF RunningSum, RingOf!SumRepresents
  <2> QED BY <1>2, <2>3, <2>4 DEF RingInv
<1> QED BY <1>3, <1>4

(* Every register is zero at the beginning.                                *)
LEMMA RingInit ==
  ASSUME RingOf!check_invariant, RingOf!Init
  PROVE  RingInv
<1>1. PICK P \in Nat \ {0} : P = RingOf!p
  BY RingSizes
<1>2. RingOf!Represents(0, 0, 2) /\ RingOf!Represents(0, 0, 1)
  BY <1>1 DEF RingOf!Represents
<1>3. /\ reg = [r \in Regs |-> 0] /\ val = [r \in Regs |-> 0]
      /\ twiddle = 0 /\ tval = 0 /\ acc = 0 /\ summands = -1 /\ aval = 0
  BY DEF RingOf!Init
<1>4. Elements
  BY <1>1, <1>2, <1>3 DEF Elements, RingOf!ElementsRepresent
<1>5. Twiddle
  BY <1>1, <1>2, <1>3 DEF Twiddle, RingOf!TwiddleRepresents
<1>6. RunningSum
  BY <1>1, <1>3 DEF RunningSum, RingOf!SumRepresents
<1> QED BY <1>4, <1>5, <1>6 DEF RingInv

(* Every operation of the ring preserves what the elements stand for.      *)
LEMMA RingStep ==
  ASSUME RingOf!check_invariant, Ints \subseteq Int, U64s \subseteq Nat,
         RingInv, [RingOf!Next]_(RingOf!vars)
  PROVE  RingInv'
<1>1. CASE UNCHANGED RingOf!vars
  <2>1. UNCHANGED <<reg, val, twiddle, tval, acc, summands, aval>>
    BY <1>1 DEF RingOf!vars
  <2> QED BY <2>1, Kept DEF RingInv
<1>2. CASE RingOf!sum_begin
  <2>1. Elements' /\ Twiddle'
    BY <1>2, Kept DEF RingOf!sum_begin
  <2>2. PICK P \in Nat \ {0} : P = RingOf!p
    BY RingSizes
  <2>3. acc' = 0 /\ aval' = 0 /\ summands' = 0 /\ RingOf!Represents(0, 0, 2)
    BY <1>2, <2>2 DEF RingOf!sum_begin, RingOf!Represents
  <2>4. RunningSum'
    BY <2>2, <2>3 DEF RunningSum, RingOf!SumRepresents
  <2> QED BY <2>1, <2>4 DEF RingInv
<1>3. ASSUME NEW r \in Regs,
             \/ RingOf!negate_inplace(r) \/ RingOf!compress_uncompress(r) \/ RingOf!rev_delegate(r)
             \/ RingOf!sum_step(r) \/ RingOf!sum_end(r)
      PROVE  RingInv'
  BY <1>3, OperationsInv, RevDelegateInv, SumInv
<1>4. ASSUME NEW r \in Regs, NEW n \in Int, RingOf!from_int(r, n) \/ RingOf!reduce_from_u64(r, n)
      PROVE  RingInv'
  BY <1>4, SourcesInv
<1>5. ASSUME NEW r \in Regs, NEW s \in Regs,
             \/ RingOf!add_assign(r, s) \/ RingOf!sub_assign(r, s) \/ RingOf!mul_assign(r, s)
             \/ RingOf!butterfly(r, s) \/ RingOf!inv_butterfly(r, s)
      PROVE  RingInv'
  BY <1>5, OperationsInv, ButterflyInv
<1>6. ASSUME NEW r \in Regs, NEW s \in Regs, NEW dst \in Regs, RingOf!fma_into(r, s, dst)
      PROVE  RingInv'
  BY <1>6, OperationsInv
<1>7. ASSUME NEW r \in Regs, NEW s \in Regs, NEW n \in 0..(RingOf!p - 1),
             RingOf!checked_left_div(r, s, n)
      PROVE  RingInv'
  <2>1. n \in Int
    BY OwnResidue
  <2> QED BY <1>7, <2>1, SourcesInv
<1> QED BY <1>1, <1>2, <1>3, <1>4, <1>5, <1>6, <1>7 DEF RingOf!Next

(* For every modulus 2^K - alpha that SpecialZnx8::new accepts and every   *)
(* sequence of operations, each element is within the bound that the next  *)
(* operation relies on and stands for the right residue, and what is read  *)
(* off it does not depend on the representative: what the assertions of    *)
(* check_repr would check.                                                 *)
THEOREM ResiduesCorrect == RingOf!Spec => []ResiduesRepresent
<1>0. RingOf!check_invariant /\ Ints \subseteq Int /\ U64s \subseteq Nat
  BY KernelAssumption
<1>1. RingOf!Init => RingInv
  BY <1>0, RingInit
<1>2. RingInv /\ [RingOf!Next]_(RingOf!vars) => RingInv'
  BY <1>0, RingStep
<1>3. RingInv => ResiduesRepresent
  <2> SUFFICES ASSUME RingInv PROVE RingOf!ResiduesRepresent
    BY DEF ResiduesRepresent
  <2>1. RingOf!ElementsRepresent /\ RingOf!TwiddleRepresents /\ RingOf!SumRepresents
    BY DEF RingInv, Elements, Twiddle, RunningSum
  <2>2. ASSUME NEW r \in Regs
        PROVE  /\ RingOf!simd_smallest_positive_lift(reg[r]) = val[r]
               /\ RingOf!get_component(reg[r]) = val[r]
    BY <1>0, RegsStand, Lifts
  <2>3. ASSUME NEW r \in Regs, NEW s \in Regs
        PROVE  RingOf!eq_el(reg[r], reg[s]) <=> val[r] = val[s]
    BY <1>0, RegsStand, Equality
  <2> QED BY <2>1, <2>2, <2>3 DEF RingOf!ResiduesRepresent, RingOf!RepresentativesAgree
<1> QED BY <1>1, <1>2, <1>3, PTL DEF RingOf!Spec

----------------------------------------------------------------------------
(* The inner loop of a reply.                                              *)

(* A set of naturals has a least element.                                  *)
LEMMA LeastNatural ==
  ASSUME NEW T, T \subseteq Nat, T # {}
  PROVE  \E x \in T : \A y \in T : x <= y
<1> DEFINE Less == {ss \in Nat \X Nat : ss[1] < ss[2]}
<1>1. IsWellFoundedOn(Less, Nat)
  BY NatLessThanWellFounded DEF OpToRel
<1> HIDE DEF Less
<1>2. PICK x \in T : \A y \in T : ~(<<y, x>> \in Less)
  BY <1>1, WFMin, Zenon
<1>3. \A y \in T : ~(y < x)
  BY <1>2 DEF Less
<1> QED BY <1>3

(* Iterations a word has room for, for one modulus.                        *)
RoomFor(p) ==
  (((Loop!Word - 1) \div Loop!repr_bound(p)) \div Loop!repr_bound(p)) \div (LoopDigits + 1)

(* The interval between reductions is a number of iterations, the least    *)
(* of those for the moduli.                                                *)
LEMMA ReduceEvery ==
  ASSUME Loop!PirLoopAssumption, Moduli # {}
  PROVE  /\ Loop!reduce_every_iterations \in Nat
         /\ \A p \in Moduli : RoomFor(p) \in Nat /\ Loop!reduce_every_iterations <= RoomFor(p)
<1>0. LoopSignHalf \in Nat \ {0} /\ LoopDigits \in Nat \ {0} /\ Moduli \subseteq Nat \ {0}
  BY DEF Loop!PirLoopAssumption
<1> DEFINE T == {RoomFor(p) : p \in Moduli}
<1>1. PICK w \in Nat : w = Loop!Word - 1
  <2>1. PICK H \in Nat \ {0} : H = Loop!HalfWord
    BY <1>0 DEF Loop!HalfWord
  <2>2. H * H \in Nat \ {0}
    BY <2>1
  <2> QED BY <2>1, <2>2 DEF Loop!Word
<1>2. \A a \in Nat, b \in Nat \ {0} : a \div b \in Nat
  OBVIOUS
<1>3. ASSUME NEW p \in Moduli PROVE RoomFor(p) \in Nat
  <2>1. PICK b \in Nat \ {0} : b = Loop!repr_bound(p)
    BY <1>0 DEF Loop!repr_bound
  <2>2. PICK c \in Nat : c = w \div b
    BY <1>2, <2>1
  <2>3. PICK d \in Nat : d = c \div b
    BY <1>2, <2>1
  <2>4. d \div (LoopDigits + 1) \in Nat
    BY <1>0, <1>2
  <2> QED BY <1>1, <2>1, <2>2, <2>3, <2>4 DEF RoomFor
<1>4. T \subseteq Nat /\ T # {}
  BY <1>3
<1>5. Loop!reduce_every_iterations = Loop!Min(T)
  BY DEF Loop!reduce_every_iterations, RoomFor
<1>m. \A p \in Moduli : RoomFor(p) \in T
  OBVIOUS
<1> HIDE DEF T
<1>6. \E x \in T : \A y \in T : x <= y
  BY <1>4, LeastNatural
<1>7. Loop!Min(T) \in T /\ \A y \in T : Loop!Min(T) <= y
  BY <1>6, Zenon DEF Loop!Min
<1> QED BY <1>3, <1>4, <1>5, <1>7, <1>m

(* Iterations until the next reduction, when o of len have been done.      *)
Interval(len, o) == Loop!Max({0, Loop!Min({len - o, Loop!reduce_every_iterations})})

(* An interval is within the loop and never longer than that between two   *)
(* reductions, which it is if another follows.                             *)
LEMMA IntervalBounds ==
  ASSUME Loop!PirLoopAssumption, Moduli # {}, NEW len \in Nat, NEW o \in Nat
  PROVE  /\ Interval(len, o) \in Nat
         /\ \A x \in Nat : x < Interval(len, o) => o + x < len
         /\ Interval(len, o) <= Loop!reduce_every_iterations
         /\ o + Loop!reduce_every_iterations < len => Interval(len, o) = Loop!reduce_every_iterations
         /\ o <= len /\ ~(o + Loop!reduce_every_iterations < len) => Interval(len, o) = len - o
<1>1. PICK R \in Nat : R = Loop!reduce_every_iterations
  BY ReduceEvery
<1>2. Loop!Min({len - o, R}) = IF len - o <= R THEN len - o ELSE R
  BY DEF Loop!Min
<1>3. PICK m \in Int : /\ m = Loop!Min({len - o, R}) /\ m <= len - o /\ m <= R
                       /\ R < len - o => m = R
                       /\ len - o <= R => m = len - o
  BY <1>2
<1>4. Loop!Max({0, m}) = IF m <= 0 THEN 0 ELSE m
  BY DEF Loop!Max
<1>5. Interval(len, o) = IF m <= 0 THEN 0 ELSE m
  BY <1>1, <1>3, <1>4 DEF Interval
<1> QED BY <1>1, <1>3, <1>5

(* Where a loop stands: index counts the points of the iterations done and *)
(* of the blocks done of the current one, and nothing is preloaded beyond  *)
(* the last block of an iteration.                                         *)
Standing(len, at, ph, pre) ==
  /\ ph = "inner" =>
       /\ pre = <<>>
       /\ at.index = (at.i_outer + at.i_inner) * LoopN
       /\ at.i_inner <= Interval(len, at.i_outer)
  /\ ph = "body" =>
       /\ at.index = (at.i_outer + at.i_inner) * LoopN + at.j
       /\ at.i_inner < Interval(len, at.i_outer)
       /\ at.j <= LoopN /\ at.j % UNROLL_COUNT = 0
       /\ at.j = LoopN => pre = <<>>
  /\ ph = "done" => pre = <<>>

Positions == [i_outer : Nat, i_inner : Nat, j : Nat, index : Nat]

LoopInv ==
  /\ cfg.p \in Moduli /\ cfg.len \in Nat
  /\ pos \in [Loop!Loops -> Positions]
  /\ loop_phase \in [Loop!Loops -> {"inner", "body", "done"}]
  /\ preload = [l \in Loop!Loops |-> preload[l]]
  /\ \A l \in Loop!Loops : Standing(cfg.len, pos[l], loop_phase[l], preload[l])

(* A step of one loop that leaves the invariant of that loop intact.       *)
LEMMA LoopSet ==
  ASSUME LoopInv, NEW l \in Loop!Loops, cfg' = cfg, Loop!Loops' = Loop!Loops,
         NEW at \in Positions, NEW ph \in {"inner", "body", "done"}, NEW pre,
         pos' = [pos EXCEPT ![l] = at], loop_phase' = [loop_phase EXCEPT ![l] = ph],
         preload' = [preload EXCEPT ![l] = pre],
         Standing(cfg.len, at, ph, pre)
  PROVE  LoopInv'
<1>1. pos' \in [Loop!Loops -> Positions] /\ loop_phase' \in [Loop!Loops -> {"inner", "body", "done"}]
  BY DEF LoopInv
<1>2. preload' = [m \in Loop!Loops |-> preload'[m]]
  BY DEF LoopInv
<1>3. ASSUME NEW m \in Loop!Loops
      PROVE  Standing(cfg.len, pos'[m], loop_phase'[m], preload'[m])
  <2>1. CASE m = l
    <3>1. pos'[m] = at /\ loop_phase'[m] = ph /\ preload'[m] = pre
      BY <2>1 DEF LoopInv
    <3> QED BY <3>1
  <2>2. CASE m # l
    <3>1. pos'[m] = pos[m] /\ loop_phase'[m] = loop_phase[m] /\ preload'[m] = preload[m]
      BY <2>2 DEF LoopInv
    <3> QED BY <3>1 DEF LoopInv
  <2> QED BY <2>1, <2>2
<1> QED BY <1>1, <1>2, <1>3 DEF LoopInv

(* What a loop's step can rely on.                                         *)
LEMMA LoopFacts ==
  ASSUME Loop!PirLoopAssumption, LoopInv, NEW l \in Loop!Loops
  PROVE  /\ Moduli # {} /\ cfg.len \in Nat /\ pos[l] \in Positions
         /\ Standing(cfg.len, pos[l], loop_phase[l], preload[l])
         /\ Loop!InnerLen(l) = Interval(cfg.len, pos[l].i_outer)
         /\ LoopN \in Nat \ {0} /\ UNROLL_COUNT \in Nat \ {0} /\ LoopN % UNROLL_COUNT = 0
<1>1. Moduli # {} /\ cfg.len \in Nat /\ pos[l] \in Positions
  BY DEF LoopInv
<1>2. Standing(cfg.len, pos[l], loop_phase[l], preload[l])
  BY DEF LoopInv
<1>3. Loop!InnerLen(l) = Interval(cfg.len, pos[l].i_outer)
  BY DEF Loop!InnerLen, Interval
<1>4. LoopN \in Nat \ {0} /\ UNROLL_COUNT \in Nat \ {0} /\ LoopN % UNROLL_COUNT = 0
  BY DEF Loop!PirLoopAssumption
<1> QED BY <1>1, <1>2, <1>3, <1>4

(* The first load of an iteration.                                         *)
LEMMA PreloadInv ==
  ASSUME Loop!PirLoopAssumption, LoopInv, NEW l \in Loop!Loops, Loop!preload_first(l)
  PROVE  LoopInv'
<1> DEFINE at == [pos[l] EXCEPT !.j = 0]
           pre == Loop!Block(l, pos[l].index)
<1>1. /\ loop_phase[l] = "inner" /\ pos[l].i_inner < Loop!InnerLen(l)
      /\ preload' = [preload EXCEPT ![l] = pre]
      /\ pos' = [pos EXCEPT ![l] = at]
      /\ loop_phase' = [loop_phase EXCEPT ![l] = "body"]
      /\ cfg' = cfg
  BY Zenon DEF Loop!preload_first
<1> HIDE DEF pre
<1>2. Loop!Loops' = Loop!Loops
  BY <1>1 DEF Loop!Loops
<1>3. /\ at \in Positions /\ at.j = 0 /\ at.index = pos[l].index
      /\ at.i_outer = pos[l].i_outer /\ at.i_inner = pos[l].i_inner
  BY LoopFacts DEF Positions
<1> HIDE DEF at
<1>4. 0 % UNROLL_COUNT = 0
  BY LoopFacts
<1>5. Standing(cfg.len, at, "body", pre)
  BY <1>1, <1>3, <1>4, LoopFacts DEF Standing, Positions
<1> QED BY <1>1, <1>2, <1>3, <1>5, LoopSet

(* One block of points ends at the end of the iteration at the latest.     *)
LEMMA BlocksFit ==
  ASSUME NEW n \in Nat \ {0}, NEW u \in Nat \ {0}, NEW j \in Nat,
         n % u = 0, j % u = 0, j < n
  PROVE  j + u <= n /\ (j + u) % u = 0
<1>1. PICK a \in Nat : n = u * a
  <2>1. n = u * (n \div u) + (n % u) /\ n \div u \in Nat
    OBVIOUS
  <2> QED BY <2>1
<1>2. PICK b \in Nat : j = u * b
  <2>1. j = u * (j \div u) + (j % u) /\ j \div u \in Nat
    OBVIOUS
  <2> QED BY <2>1
<1>3. b < a
  <2>1. SUFFICES ASSUME a <= b PROVE FALSE
    OBVIOUS
  <2>2. u * a <= u * b
    BY <2>1
  <2> QED BY <1>1, <1>2, <2>2
<1>4. u * (b + 1) <= u * a
  BY <1>3
<1>5. u * (b + 1) = u * b + u
  OBVIOUS
<1>6. (j + u) % u = 0
  <2>1. PICK x \in Int : x = b + 1
    OBVIOUS
  <2>2. j + u = u * x + 0 /\ 0 \in 0..(u - 1) /\ j + u \in Int
    BY <1>2, <1>5, <2>1
  <2> QED BY <2>2, ModUnique
<1> QED BY <1>1, <1>2, <1>4, <1>5, <1>6

(* A block, and the load of the next one.                                  *)
LEMMA BodyInv ==
  ASSUME Loop!PirLoopAssumption, LoopInv, NEW l \in Loop!Loops, Loop!unrolled_loop_body(l)
  PROVE  LoopInv'
<1> DEFINE at == [pos[l] EXCEPT !.j = @ + UNROLL_COUNT, !.index = @ + UNROLL_COUNT]
           pre == IF Loop!should_preload(pos[l].j)
                  THEN Loop!Block(l, pos[l].index + UNROLL_COUNT) ELSE <<>>
<1>1. /\ loop_phase[l] = "body" /\ pos[l].j < LoopN
      /\ preload' = [preload EXCEPT ![l] = pre]
      /\ loop_phase' = loop_phase
      /\ cfg' = cfg
  BY Zenon DEF Loop!unrolled_loop_body
<1>2. pos' = [pos EXCEPT ![l] = at]
  <2>1. pos' = [pos EXCEPT ![l].j = @ + UNROLL_COUNT, ![l].index = @ + UNROLL_COUNT]
    BY Zenon DEF Loop!unrolled_loop_body
  <2> QED BY <2>1 DEF LoopInv, Positions
<1>3. loop_phase' = [loop_phase EXCEPT ![l] = "body"]
  BY <1>1 DEF LoopInv
<1>4. pos[l].j + UNROLL_COUNT = LoopN => pre = <<>>
  BY LoopFacts DEF Loop!should_preload
<1> HIDE DEF pre
<1>5. Loop!Loops' = Loop!Loops
  BY <1>1 DEF Loop!Loops
<1>6. /\ at \in Positions /\ at.j = pos[l].j + UNROLL_COUNT /\ at.index = pos[l].index + UNROLL_COUNT
      /\ at.i_outer = pos[l].i_outer /\ at.i_inner = pos[l].i_inner
  <2>1. PICK r \in Positions : r = pos[l]
    BY LoopFacts
  <2>2. PICK a \in Nat : a = r.j + UNROLL_COUNT
    BY LoopFacts DEF Positions
  <2>3. PICK b \in Nat : b = r.index + UNROLL_COUNT
    BY LoopFacts DEF Positions
  <2>4. at = [r EXCEPT !.j = a, !.index = b]
    BY <2>1, <2>2, <2>3
  <2> HIDE DEF at
  <2>5. at \in Positions /\ at.j = a /\ at.index = b /\ at.i_outer = r.i_outer /\ at.i_inner = r.i_inner
    BY <2>4 DEF Positions
  <2> QED BY <2>1, <2>2, <2>3, <2>5
<1> HIDE DEF at
<1>7. /\ pos[l].j \in Nat /\ pos[l].j % UNROLL_COUNT = 0
      /\ pos[l].index = (pos[l].i_outer + pos[l].i_inner) * LoopN + pos[l].j
      /\ pos[l].i_inner < Interval(cfg.len, pos[l].i_outer)
  BY <1>1, LoopFacts DEF Standing, Positions
<1>8. at.j <= LoopN /\ at.j % UNROLL_COUNT = 0
  BY <1>1, <1>6, <1>7, LoopFacts, BlocksFit, SMTT(30)
<1>9. at.index = (at.i_outer + at.i_inner) * LoopN + at.j
  <2>1. PICK c \in Nat : c = (pos[l].i_outer + pos[l].i_inner) * LoopN
    BY LoopFacts DEF Positions
  <2> QED BY <2>1, <1>6, <1>7, LoopFacts
<1>10. Standing(cfg.len, at, "body", pre)
  BY <1>4, <1>6, <1>7, <1>8, <1>9 DEF Standing
<1> QED BY <1>1, <1>2, <1>3, <1>5, <1>6, <1>10, LoopSet

(* The buffers are swapped and the iteration is over.                      *)
LEMMA SwapInv ==
  ASSUME Loop!PirLoopAssumption, LoopInv, NEW l \in Loop!Loops, Loop!swap(l)
  PROVE  LoopInv'
<1> DEFINE at == [pos[l] EXCEPT !.i_inner = pos[l].i_inner + 1]
<1>1. /\ loop_phase[l] = "body" /\ pos[l].j = LoopN
      /\ pos' = [pos EXCEPT ![l] = at]
      /\ loop_phase' = [loop_phase EXCEPT ![l] = "inner"]
      /\ cfg' = cfg /\ preload' = preload
  BY Zenon DEF Loop!swap
<1>2. PICK r \in Positions : r = pos[l]
  BY LoopFacts
<1>3. /\ at \in Positions /\ at.index = r.index
      /\ at.i_outer = r.i_outer /\ at.i_inner = r.i_inner + 1
  BY <1>2 DEF Positions
<1> HIDE DEF at
<1>4. preload[l] = <<>> /\ preload' = [preload EXCEPT ![l] = <<>>]
  BY <1>1, LoopFacts DEF Standing, LoopInv
<1>5. /\ r.index = (r.i_outer + r.i_inner) * LoopN + LoopN
      /\ r.i_inner < Interval(cfg.len, r.i_outer)
  BY <1>1, <1>2, LoopFacts DEF Standing
<1>6. at.index = (at.i_outer + at.i_inner) * LoopN
  <2>1. PICK c \in Nat : c = r.i_outer + r.i_inner
    BY DEF Positions
  <2>2. c * LoopN + LoopN = (c + 1) * LoopN /\ at.i_outer + at.i_inner = c + 1
    BY <2>1, <1>3, LoopFacts DEF Positions
  <2> QED BY <2>1, <2>2, <1>3, <1>5
<1>7. at.i_inner <= Interval(cfg.len, at.i_outer)
  <2>1. Interval(cfg.len, r.i_outer) \in Nat /\ r.i_inner \in Nat
    BY LoopFacts, IntervalBounds DEF Positions
  <2> QED BY <2>1, <1>3, <1>5
<1>8. Standing(cfg.len, at, "inner", <<>>)
  BY <1>6, <1>7 DEF Standing
<1>9. Loop!Loops' = Loop!Loops
  BY <1>1 DEF Loop!Loops
<1> QED BY <1>1, <1>3, <1>4, <1>8, <1>9, LoopSet

(* A reduction: either the interval was a full one, or the loop ends.      *)
LEMMA ReduceInv ==
  ASSUME Loop!PirLoopAssumption, LoopInv, NEW l \in Loop!Loops, Loop!reduce(l)
  PROVE  LoopInv'
<1>0. PICK R \in Nat : R = Loop!reduce_every_iterations
  BY LoopFacts, ReduceEvery
<1> DEFINE at == [pos[l] EXCEPT !.i_outer = pos[l].i_outer + R, !.i_inner = 0]
           ph == IF pos[l].i_outer + R < cfg.len THEN "inner" ELSE "done"
<1>1. /\ loop_phase[l] = "inner" /\ pos[l].i_inner = Loop!InnerLen(l)
      /\ pos' = [pos EXCEPT ![l].i_outer = pos[l].i_outer + R, ![l].i_inner = 0]
      /\ loop_phase' = [loop_phase EXCEPT ![l] = ph]
      /\ cfg' = cfg /\ preload' = preload
  BY <1>0, Zenon DEF Loop!reduce
<1>2. PICK r \in Positions : r = pos[l]
  BY LoopFacts
<1>3. pos' = [pos EXCEPT ![l] = at]
  BY <1>1 DEF LoopInv, Positions
<1>4. /\ at \in Positions /\ at.index = r.index
      /\ at.i_outer = r.i_outer + R /\ at.i_inner = 0
  <2>1. PICK a \in Nat : a = r.i_outer + R
    BY DEF Positions
  <2>2. at = [r EXCEPT !.i_outer = a, !.i_inner = 0]
    BY <1>2, <2>1
  <2> HIDE DEF at
  <2>3. at \in Positions /\ at.i_outer = a /\ at.i_inner = 0 /\ at.j = r.j /\ at.index = r.index
    BY <2>2 DEF Positions
  <2> QED BY <2>1, <2>3
<1> HIDE DEF at
<1>5. preload[l] = <<>> /\ preload' = [preload EXCEPT ![l] = <<>>]
  BY <1>1, LoopFacts DEF Standing, LoopInv
<1>6. r.index = (r.i_outer + r.i_inner) * LoopN /\ r.i_inner = Interval(cfg.len, r.i_outer)
  BY <1>1, <1>2, LoopFacts DEF Standing
<1>7. ASSUME r.i_outer + R < cfg.len
      PROVE  at.index = (at.i_outer + at.i_inner) * LoopN
  <2>1. r.i_inner = R
    BY <1>0, <1>6, <1>7, IntervalBounds, LoopFacts DEF Positions
  <2>2. at.i_outer + at.i_inner = r.i_outer + r.i_inner
    BY <2>1, <1>4 DEF Positions
  <2> QED BY <2>2, <1>4, <1>6
<1>8. at.i_inner <= Interval(cfg.len, at.i_outer)
  <2>1. at.i_outer \in Nat /\ cfg.len \in Nat /\ Moduli # {}
    BY <1>4, LoopFacts DEF Positions
  <2>2. Interval(cfg.len, at.i_outer) \in Nat
    BY <2>1, IntervalBounds
  <2> QED BY <1>4, <2>2
<1>9. ph \in {"inner", "done"} /\ (ph = "inner" => r.i_outer + R < cfg.len)
  BY <1>2
<1> HIDE DEF ph
<1>10. Standing(cfg.len, at, ph, <<>>)
  BY <1>7, <1>8, <1>9 DEF Standing
<1>11. Loop!Loops' = Loop!Loops
  BY <1>1 DEF Loop!Loops
<1>12. ph \in {"inner", "body", "done"} /\ cfg' = cfg /\ loop_phase' = [loop_phase EXCEPT ![l] = ph]
  BY <1>1, <1>9
<1> QED BY <1>3, <1>4, <1>5, <1>10, <1>11, <1>12, LoopSet

(* The loops start at the first point of the first iteration.              *)
LEMMA LoopInit == ASSUME Loop!PirLoopAssumption, Loop!Init PROVE LoopInv
<1>1. cfg.p \in Moduli /\ cfg.len \in Nat
  BY DEF Loop!Init, Loop!Configurations, Loop!PirLoopAssumption
<1>2. /\ pos = [l \in Loop!Loops |-> [i_outer |-> 0, i_inner |-> 0, j |-> 0, index |-> 0]]
      /\ preload = [l \in Loop!Loops |-> <<>>]
      /\ loop_phase = [l \in Loop!Loops |-> "inner"]
  BY Zenon DEF Loop!Init
<1>3. /\ pos \in [Loop!Loops -> Positions]
      /\ loop_phase \in [Loop!Loops -> {"inner", "body", "done"}]
      /\ preload = [l \in Loop!Loops |-> preload[l]]
  BY <1>2 DEF Positions
<1>4. ASSUME NEW l \in Loop!Loops
      PROVE  Standing(cfg.len, pos[l], loop_phase[l], preload[l])
  <2>1. LoopN \in Nat /\ 0 = (0 + 0) * LoopN
    BY DEF Loop!PirLoopAssumption
  <2>2. Interval(cfg.len, 0) \in Nat
    BY <1>1, IntervalBounds
  <2> QED BY <1>2, <2>1, <2>2 DEF Standing
<1> QED BY <1>1, <1>3, <1>4 DEF LoopInv

(* Every step keeps the invariant.                                         *)
LEMMA LoopStep ==
  ASSUME Loop!PirLoopAssumption, LoopInv, [Loop!Next]_(Loop!vars)
  PROVE  LoopInv'
<1>1. ASSUME NEW l \in Loop!Loops, Loop!preload_first(l) PROVE LoopInv'
  BY <1>1, PreloadInv
<1>2. ASSUME NEW l \in Loop!Loops, Loop!unrolled_loop_body(l) PROVE LoopInv'
  BY <1>2, BodyInv
<1>3. ASSUME NEW l \in Loop!Loops, Loop!swap(l) PROVE LoopInv'
  BY <1>3, SwapInv
<1>4. ASSUME NEW l \in Loop!Loops, Loop!reduce(l) PROVE LoopInv'
  BY <1>4, ReduceInv
<1>5. ASSUME cfg' = cfg, pos' = pos, preload' = preload, loop_phase' = loop_phase PROVE LoopInv'
  BY <1>5 DEF LoopInv, Loop!Loops
<1>6. Loop!finish => cfg' = cfg /\ pos' = pos /\ preload' = preload /\ loop_phase' = loop_phase
  BY Zenon DEF Loop!finish
<1>7. UNCHANGED Loop!vars => cfg' = cfg /\ pos' = pos /\ preload' = preload /\ loop_phase' = loop_phase
  BY Zenon DEF Loop!vars
<1> QED BY <1>1, <1>2, <1>3, <1>4, <1>5, <1>6, <1>7 DEF Loop!Next

(* The invariant keeps every block that is loaded inside the arrays.       *)
LEMMA LoopInvGivesBounds ==
  ASSUME Loop!PirLoopAssumption, LoopInv PROVE Loop!LoadsInBounds
<1> SUFFICES ASSUME NEW l \in Loop!Loops, preload[l] # <<>>
             PROVE  pos[l].index + UNROLL_COUNT <= LoopN * cfg.len
  BY DEF Loop!LoadsInBounds
<1>1. PICK r \in Positions : r = pos[l]
  BY LoopFacts
<1>2. /\ r.index = (r.i_outer + r.i_inner) * LoopN + r.j
      /\ r.i_inner < Interval(cfg.len, r.i_outer)
      /\ r.j <= LoopN /\ r.j # LoopN /\ r.j % UNROLL_COUNT = 0
  <2>1. loop_phase[l] = "body"
    BY LoopFacts DEF Standing, LoopInv
  <2> QED BY <1>1, <2>1, LoopFacts DEF Standing
<1>3. r.j + UNROLL_COUNT <= LoopN
  <2>1. r.j \in Nat /\ r.j < LoopN
    BY <1>2, LoopFacts DEF Positions
  <2> QED BY <1>2, <2>1, LoopFacts, BlocksFit
<1>4. PICK c \in Nat : c = r.i_outer + r.i_inner
  BY DEF Positions
<1>5. PICK e \in Nat : e = cfg.len /\ c < e
  BY <1>2, <1>4, LoopFacts, IntervalBounds DEF Positions
<1>6. PICK n \in Nat \ {0} : n = LoopN
  BY LoopFacts
<1>7. c * n + n <= n * e
  <2>1. c + 1 <= e
    BY <1>5
  <2>2. n * (c + 1) <= n * e
    BY <2>1
  <2> QED BY <2>2
<1>8. PICK f \in Nat : f = c * n
  OBVIOUS
<1>9. r.index + UNROLL_COUNT <= f + n
  <2>1. r.index = f + r.j /\ r.j \in Nat /\ r.index \in Nat
    BY <1>2, <1>4, <1>6, <1>8 DEF Positions
  <2> QED BY <2>1, <1>3, <1>6, LoopFacts
<1>10. f + n <= LoopN * cfg.len /\ LoopN * cfg.len \in Nat /\ r.index + UNROLL_COUNT \in Nat
  <2>1. LoopN * cfg.len = n * e /\ n * e \in Nat
    BY <1>5, <1>6
  <2>2. f + n <= n * e
    BY <1>7, <1>8
  <2>3. r.index + UNROLL_COUNT \in Nat
    BY LoopFacts DEF Positions
  <2> QED BY <2>1, <2>2, <2>3
<1>11. r.index + UNROLL_COUNT <= LoopN * cfg.len
  BY <1>9, <1>10
<1> QED BY <1>1, <1>11

(* The preloads of main_pir_loop, which are unchecked pointer reads, stay  *)
(* inside the prepared arrays: for every loop length, every block size     *)
(* that divides the number of points and every interval of reductions.     *)
THEOREM LoadsStayInBounds == Loop!Spec => []LoadsInBounds
<1>0. Loop!PirLoopAssumption
  BY KernelAssumption
<1>1. Loop!Init => LoopInv
  BY <1>0, LoopInit
<1>2. LoopInv /\ [Loop!Next]_(Loop!vars) => LoopInv'
  BY <1>0, LoopStep
<1>3. LoopInv => LoadsInBounds
  BY <1>0, LoopInvGivesBounds DEF LoadsInBounds
<1> QED BY <1>1, <1>2, <1>3, PTL DEF Loop!Spec

----------------------------------------------------------------------------
(* The values of the loop.                                                 *)

(* Sums over finite sets, counted: one pair for every unit of every        *)
(* summand.                                                                *)
Units(f, s) == UNION {{e} \X (1..f[e]) : e \in s}

(* There are finitely many of them.                                        *)
LEMMA UnitsCount ==
  ASSUME NEW S, IsFiniteSet(S), NEW f \in [S -> Nat]
  PROVE  IsFiniteSet(Units(f, S)) /\ Cardinality(Units(f, S)) \in Nat
<1> DEFINE part == [e \in S |-> {e} \X (1..f[e])]
           Parts == {part[e] : e \in S}
<1>1. \A e \in S : IsFiniteSet(part[e])
  <2> TAKE e \in S
  <2>0. PICK n \in Nat : n = f[e]
    OBVIOUS
  <2>1. IsFiniteSet(1..f[e]) /\ IsFiniteSet({e})
    <3>1. IsFiniteSet(1..n)
      BY FS_Interval
    <3> QED BY <2>0, <3>1, FS_Singleton
  <2>2. IsFiniteSet({e} \X (1..f[e]))
    BY <2>1, FS_Product, Zenon
  <2> QED BY <2>2
<1>2. IsFiniteSet(Parts)
  <2>1. part \in Surjection(S, Parts)
    BY DEF Surjection
  <2> QED BY <2>1, FS_Surjection
<1>3. IsFiniteSet(UNION Parts)
  <2>1. \A T \in Parts : IsFiniteSet(T)
    BY <1>1
  <2> HIDE DEF Parts
  <2> QED BY <1>2, <2>1, FS_UNION, Zenon
<1>4. Units(f, S) = UNION Parts
  BY DEF Units
<1> QED BY <1>3, <1>4, FS_CardinalityType

(* One summand has as many units as it is large.                           *)
LEMMA UnitsExtend ==
  ASSUME NEW S, IsFiniteSet(S), NEW f \in [S -> Nat], NEW s \in SUBSET S, NEW x \in s
  PROVE  Cardinality(Units(f, s)) = f[x] + Cardinality(Units(f, s \ {x}))
<1> DEFINE A == Units(f, s \ {x})
           D == {x} \X (1..f[x])
<1>1. Units(f, s) = A \cup D /\ A \cap D = {}
  BY DEF Units
<1>2. IsFiniteSet(D) /\ Cardinality(D) = f[x]
  <2>1. PICK n \in Nat : n = f[x]
    OBVIOUS
  <2>2. IsFiniteSet(1..n) /\ Cardinality(1..n) = n
    BY FS_Interval
  <2>3. IsFiniteSet({x}) /\ Cardinality({x}) = 1
    BY FS_Singleton
  <2>4. IsFiniteSet({x} \X (1..n)) /\ Cardinality({x} \X (1..n)) = Cardinality({x}) * Cardinality(1..n)
    BY <2>2, <2>3, FS_Product
  <2> QED BY <2>1, <2>2, <2>3, <2>4
<1>3. IsFiniteSet(A)
  <2>1. s \ {x} \in SUBSET S
    OBVIOUS
  <2>2. IsFiniteSet(Units(f, S)) /\ A \subseteq Units(f, S)
    BY <2>1, UnitsCount DEF Units
  <2> QED BY <2>2, FS_Subset
<1> HIDE DEF A, D
<1>4. Cardinality(A \cup D) = Cardinality(A) + Cardinality(D) - Cardinality(A \cap D)
  BY <1>2, <1>3, FS_Union
<1>5. Cardinality({}) = 0 /\ Cardinality(A) \in Nat
  BY <1>3, FS_EmptySet, FS_CardinalityType
<1>6. Cardinality(A) + Cardinality(D) - Cardinality(A \cap D) = f[x] + Cardinality(A)
  <2>1. PICK n \in Nat : n = f[x]
    OBVIOUS
  <2>2. PICK a \in Nat : a = Cardinality(A)
    BY <1>5
  <2>3. Cardinality(D) = n /\ Cardinality(A \cap D) = 0
    BY <2>1, <1>1, <1>2, <1>5
  <2> QED BY <2>1, <2>2, <2>3
<1> QED BY <1>1, <1>4, <1>6 DEF A

(* The fold that a sum is, in whatever order, counts the units.            *)
LEMMA SumCounts ==
  ASSUME NEW S, IsFiniteSet(S), NEW f \in [S -> Nat]
  PROVE  Loop!SumFunction(f) = Cardinality(Units(f, S))
<1> DEFINE pick(s) == CHOOSE x \in s : TRUE
           Is(h) == h = [s \in SUBSET S |-> IF s = {} THEN 0 ELSE f[pick(s)] + h[s \ {pick(s)}]]
           count == [s \in SUBSET S |-> Cardinality(Units(f, s))]
           iter == CHOOSE h : Is(h)
<1>1. Loop!SumFunction(f) = iter[S]
  <2>1. DOMAIN f = S
    OBVIOUS
  <2> QED BY <2>1 DEF Loop!SumFunction, Loop!SumFunctionOnSet, Loop!FoldFunctionOnSet, Loop!MapThenFoldSet
<1>2. ASSUME NEW s \in SUBSET S, s # {} PROVE pick(s) \in s /\ s \ {pick(s)} \in SUBSET S
  BY <1>2
<1>3. count[{}] = 0
  <2>1. Units(f, {}) = {} /\ {} \in SUBSET S
    BY DEF Units
  <2> QED BY <2>1, FS_EmptySet
<1>4. ASSUME NEW s \in SUBSET S, s # {} PROVE count[s] = f[pick(s)] + count[s \ {pick(s)}]
  <2>1. PICK x \in s : x = pick(s)
    BY <1>2, <1>4
  <2>2. Cardinality(Units(f, s)) = f[x] + Cardinality(Units(f, s \ {x}))
    BY UnitsExtend
  <2>3. s \ {x} \in SUBSET S
    OBVIOUS
  <2> QED BY <2>1, <2>2, <2>3
<1>5. Is(count)
  BY <1>3, <1>4
<1>6. Is(iter)
  BY <1>5
<1>7. \A s \in SUBSET S : iter[s] = IF s = {} THEN 0 ELSE f[pick(s)] + iter[s \ {pick(s)}]
  BY <1>6
<1> HIDE DEF Is, iter, count, pick
<1> DEFINE Bad == {Cardinality(s) : s \in {z \in SUBSET S : iter[z] # count[z]}}
<1>8. SUFFICES ASSUME Bad # {} PROVE FALSE
  <2>1. iter[S] = count[S]
    BY <1>8
  <2> QED BY <2>1, <1>1 DEF count
<1>9. Bad \subseteq Nat
  BY FS_Subset, FS_CardinalityType
<1>10. PICK n \in Bad : \A y \in Bad : n <= y
  BY <1>8, <1>9, LeastNatural
<1>11. PICK s \in SUBSET S : iter[s] # count[s] /\ n = Cardinality(s)
  BY <1>10
<1>12. s # {}
  BY <1>3, <1>7, <1>11
<1>13. PICK x \in s : x = pick(s) /\ s \ {x} \in SUBSET S
  BY <1>2, <1>12
<1>14. n \in Nat /\ Cardinality(s \ {x}) = n - 1
  BY <1>9, <1>11, <1>13, FS_Subset, FS_RemoveElement
<1>15. iter[s \ {x}] = count[s \ {x}]
  <2>1. SUFFICES ASSUME iter[s \ {x}] # count[s \ {x}] PROVE FALSE
    OBVIOUS
  <2>2. n - 1 \in Bad
    BY <2>1, <1>13, <1>14
  <2>3. n <= n - 1
    BY <2>2, <1>10
  <2> QED BY <2>3, <1>14
<1> QED BY <1>4, <1>7, <1>11, <1>12, <1>13, <1>15

(* A sum over nothing.                                                     *)
LEMMA SumOfNone == ASSUME NEW f \in [{} -> Nat] PROVE Loop!SumFunction(f) = 0
<1>1. Units(f, {}) = {}
  BY DEF Units
<1> QED BY <1>1, SumCounts, FS_EmptySet

(* A sum of one summand more.                                              *)
LEMMA SumOfMore ==
  ASSUME NEW S, IsFiniteSet(S), NEW x, x \notin S, NEW T, T = S \cup {x},
         NEW f \in [S -> Nat], NEW g \in [T -> Nat], \A y \in S : g[y] = f[y]
  PROVE  /\ Loop!SumFunction(f) \in Nat
         /\ Loop!SumFunction(g) = Loop!SumFunction(f) + g[x]
<1>1. IsFiniteSet(T)
  BY FS_AddElement
<1>2. Loop!SumFunction(f) = Cardinality(Units(f, S)) /\ Loop!SumFunction(f) \in Nat
  BY SumCounts, UnitsCount
<1>3. Loop!SumFunction(g) = Cardinality(Units(g, T))
  BY <1>1, SumCounts
<1>4. Cardinality(Units(g, T)) = g[x] + Cardinality(Units(g, T \ {x}))
  BY <1>1, UnitsExtend
<1>5. Units(g, T \ {x}) = Units(f, S)
  BY DEF Units
<1> QED BY <1>2, <1>3, <1>4, <1>5

(* A sum over a set of one element.                                        *)
LEMMA SumOfOne ==
  ASSUME NEW x, NEW g, DOMAIN g = {x}, g = [y \in {x} |-> g[y]], g[x] \in Nat
  PROVE  Loop!SumFunction(g) = g[x]
<1> DEFINE f == [y \in {} |-> 0]
           S == {}
           T == {x}
<1>1. f \in [S -> Nat] /\ IsFiniteSet(S) /\ x \notin S /\ T = S \cup {x} /\ g \in [T -> Nat]
  BY FS_EmptySet
<1>2. Loop!SumFunction(f) = 0
  BY SumOfNone
<1>3. \A y \in S : g[y] = f[y]
  OBVIOUS
<1> HIDE DEF f, S, T
<1>4. Loop!SumFunction(g) = Loop!SumFunction(f) + g[x]
  BY <1>1, <1>3, SumOfMore
<1> QED BY <1>2, <1>4

(* f solves a recursion from a up to k.                                    *)
Solves(f, k, S, a, step) ==
  f \in [0..k -> S] /\ f = [n \in 0..k |-> IF n = 0 THEN a ELSE step[<<n, f[n - 1]>>]]

(* A function that is defined by recursion over an initial segment of the  *)
(* naturals exists.                                                        *)
LEMMA FiniteRecursion ==
  ASSUME NEW m \in Nat, NEW S, NEW a \in S, NEW step \in [(1..m) \X S -> S]
  PROVE  \E f : Solves(f, m, S, a, step)
<1> DEFINE Solvable(k) == \E f : Solves(f, k, S, a, step)
           T == {k \in 0..m : ~ Solvable(k)}
<1> HIDE DEF Solvable
<1>2. SUFFICES ASSUME T # {} PROVE FALSE
  <2>1. Solvable(m)
    BY <1>2
  <2> QED BY <2>1 DEF Solvable
<1>3. PICK k \in T : \A y \in T : k <= y
  <2>1. T \subseteq Nat
    OBVIOUS
  <2> QED BY <1>2, <2>1, LeastNatural
<1>4. Solvable(0)
  <2> DEFINE f == [n \in 0..0 |-> a]
  <2>1. f \in [0..0 -> S]
    OBVIOUS
  <2>2. f = [n \in 0..0 |-> IF n = 0 THEN a ELSE step[<<n, f[n - 1]>>]]
    OBVIOUS
  <2> QED BY <2>1, <2>2 DEF Solves, Solvable
<1>5. k \in 1..m /\ Solvable(k - 1)
  <2>1. k \in 0..m /\ k # 0
    BY <1>3, <1>4
  <2>2. k - 1 \in 0..m /\ ~(k <= k - 1)
    BY <2>1
  <2> QED BY <1>3, <2>1, <2>2
<1>6. PICK f : f \in [0..(k - 1) -> S] /\ \A n \in 0..(k - 1) : f[n] = IF n = 0 THEN a ELSE step[<<n, f[n - 1]>>]
  <2>1. PICK f : Solves(f, k - 1, S, a, step)
    BY <1>5 DEF Solvable
  <2>2. f \in [0..(k - 1) -> S] /\ f = [n \in 0..(k - 1) |-> IF n = 0 THEN a ELSE step[<<n, f[n - 1]>>]]
    BY <2>1 DEF Solves
  <2>3. \A n \in 0..(k - 1) : f[n] = IF n = 0 THEN a ELSE step[<<n, f[n - 1]>>]
    BY <2>2, Zenon
  <2> QED BY <2>2, <2>3
<1>7. PICK last \in S : last = step[<<k, f[k - 1]>>]
  BY <1>5, <1>6
<1> DEFINE g == [n \in 0..k |-> IF n = k THEN last ELSE f[n]]
<1>8. g \in [0..k -> S]
  BY <1>5, <1>6, <1>7
<1>9. ASSUME NEW n \in 0..k
      PROVE  g[n] = IF n = 0 THEN a ELSE step[<<n, g[n - 1]>>]
  <2>1. CASE n = k
    <3>1. n # 0 /\ n - 1 \in 0..k /\ n - 1 # k
      BY <2>1, <1>5
    <3>2. g[n] = last /\ g[n - 1] = f[n - 1]
      BY <2>1, <3>1
    <3> QED BY <2>1, <3>1, <3>2, <1>7
  <2>2. CASE n # k /\ n # 0
    <3>1. n \in 0..(k - 1) /\ n - 1 \in 0..k /\ n - 1 # k
      BY <2>2, <1>5
    <3>2. g[n] = f[n] /\ g[n - 1] = f[n - 1]
      BY <2>2, <3>1
    <3> QED BY <2>2, <3>1, <3>2, <1>6
  <2>3. CASE n # k /\ n = 0
    <3>1. g[n] = f[n] /\ n \in 0..(k - 1)
      BY <2>3, <1>5
    <3> QED BY <2>3, <3>1, <1>6
  <2> QED BY <2>1, <2>2, <2>3
<1> HIDE DEF g
<1>10. g = [n \in 0..k |-> IF n = 0 THEN a ELSE step[<<n, g[n - 1]>>]]
  BY <1>8, <1>9
<1>11. Solvable(k)
  BY <1>8, <1>10 DEF Solves, Solvable
<1> QED BY <1>3, <1>11

(* The i-th point when the roots of unity are raised to a power.           *)
Turned(a, i) == (((a * (2 * i + 1)) % (2 * LoopN)) - 1) \div 2

(* Powers that are inverse to each other undo each other.                  *)
LEMMA TurnedBack ==
  ASSUME Loop!PirLoopAssumption, NEW g \in Nat, NEW h \in Nat, (g * h) % (2 * LoopN) = 1,
         NEW k \in Loop!Points
  PROVE  /\ Turned(g, k) \in Loop!Points
         /\ Turned(h, Turned(g, k)) = k
<1>1. PICK n \in Nat \ {0} : n = LoopN
  BY DEF Loop!PirLoopAssumption
<1>2. PICK m \in Nat \ {0} : m = 2 * n
  OBVIOUS
<1>3. PICK c \in Int : g * h = m * c + 1
  <2>1. PICK x \in Int : x = g * h
    OBVIOUS
  <2>2. x % m = 1 /\ x \div m \in Int /\ x = m * (x \div m) + (x % m)
    <3>1. x % m = 1
      BY <2>1, <1>1, <1>2, Zenon
    <3>2. x \div m \in Int /\ x = m * (x \div m) + (x % m)
      BY IntDiv, Zenon
    <3> QED BY <3>1, <3>2, Zenon
  <2> QED BY <2>1, <2>2
<1>4. \A x \in Int : \E y \in Int : x = 2 * y \/ x = 2 * y + 1
  <2> SUFFICES ASSUME NEW x \in Int PROVE \E y \in Int : x = 2 * y \/ x = 2 * y + 1
    OBVIOUS
  <2>1. x \div 2 \in Int /\ (x = 2 * (x \div 2) \/ x = 2 * (x \div 2) + 1)
    OBVIOUS
  <2> QED BY <2>1
<1>5. \E y \in Int : g = 2 * y + 1
  <2>0. PICK y \in Int : g = 2 * y \/ g = 2 * y + 1
    <3>1. g \in Int
      OBVIOUS
    <3> QED BY <3>1, <1>4, Zenon
  <2>1. SUFFICES ASSUME g = 2 * y PROVE FALSE
    BY <2>0
  <2>2. PICK a \in Int : g * h = 2 * a
    <3>1. g * h = 2 * (y * h) /\ y * h \in Int
      BY <2>1
    <3> QED BY <3>1
  <2>4. PICK b \in Int : b = n * c
    OBVIOUS
  <2>5. m * c = 2 * b
    BY <1>2, <2>4
  <2> QED BY <1>3, <2>2, <2>5
<1>6. \* an odd multiple of an odd number is odd, also modulo m
      ASSUME NEW x \in Nat, NEW z \in Int, x = 2 * z + 1, NEW i \in Loop!Points
      PROVE  \E j \in Loop!Points : (x * (2 * i + 1)) % m = 2 * j + 1
  <2>1. i \in 0..(n - 1)
    BY <1>1 DEF Loop!Points
  <2>2. PICK w \in Int : w = z * (2 * i + 1) + i /\ x * (2 * i + 1) = 2 * w + 1
    BY <1>6, <2>1
  <2>3. PICK e \in Int, r \in 0..(m - 1) : 2 * w + 1 = m * e + r /\ r = (2 * w + 1) % m
    <3>1. PICK x2 \in Int : x2 = 2 * w + 1
      OBVIOUS
    <3>2. x2 \div m \in Int /\ x2 % m \in 0..(m - 1) /\ x2 = m * (x2 \div m) + (x2 % m)
      BY IntDiv
    <3> QED BY <3>1, <3>2
  <2>4. PICK b \in Int : b = n * e
    OBVIOUS
  <2>5. m * e = 2 * b
    BY <1>2, <2>4
  <2>6. r = 2 * (w - b) + 1
    BY <2>3, <2>5
  <2>7. w - b \in 0..(n - 1)
    BY <2>3, <2>6, <1>2
  <2> QED BY <1>1, <2>2, <2>3, <2>6, <2>7 DEF Loop!Points
<1>7. PICK i \in Loop!Points : (g * (2 * k + 1)) % m = 2 * i + 1
  BY <1>5, <1>6
<1>8. k \in 0..(n - 1) /\ i \in 0..(n - 1)
  BY <1>1, <1>7 DEF Loop!Points
<1>9. PICK x \in Int : x = 2 * k + 1 /\ x \in 0..(m - 1)
  BY <1>8, <1>2
<1>10. PICK y \in Int : y = 2 * i + 1
  BY <1>8
<1>11. PICK e \in Int : g * x = m * e + y
  <2>1. PICK z \in Int : z = g * x /\ z % m = y
    BY <1>7, <1>9, <1>10
  <2>2. z \div m \in Int /\ z = m * (z \div m) + (z % m)
    BY <2>1, IntDiv
  <2> QED BY <2>1, <2>2
<1>12. h * y = m * (c * x - h * e) + x
  <2>1. h * (g * x) = h * (m * e) + h * y
    BY <1>11
  <2>2. h * (g * x) = (g * h) * x /\ (g * h) * x = m * (c * x) + x
    BY <1>3
  <2>3. h * (m * e) = m * (h * e)
    OBVIOUS
  <2>4. m * (c * x - h * e) = m * (c * x) - m * (h * e)
    OBVIOUS
  <2> QED BY <2>1, <2>2, <2>3, <2>4
<1>13. (h * y) % m = x
  <2>1. PICK f \in Int : f = c * x - h * e
    OBVIOUS
  <2>2. PICK z \in Int : z = h * y /\ z = m * f + x
    BY <1>12, <2>1
  <2>3. z % m = x
    <3>1. m \in Nat \ {0} /\ x \in 0..(m - 1) /\ f \in Int /\ z \in Int /\ z = m * f + x
      BY <2>2, <1>9
    <3> QED BY <3>1, ModUnique, Zenon
  <2> QED BY <2>2, <2>3
<1>14. (x - 1) \div 2 = k
  BY <1>8, <1>9
<1>15. Turned(h, i) = k
  <2>1. Turned(h, i) = (((h * (2 * i + 1)) % m) - 1) \div 2
    BY <1>1, <1>2 DEF Turned
  <2>2. (h * (2 * i + 1)) % m = x
    BY <1>10, <1>13
  <2> QED BY <2>1, <2>2, <1>14
<1>16. Turned(g, k) = i
  <2>1. Turned(g, k) = (((g * (2 * k + 1)) % m) - 1) \div 2
    BY <1>1, <1>2 DEF Turned
  <2> QED BY <2>1, <1>7, <1>8
<1> QED BY <1>15, <1>16

(* The lookup table is a permutation of the points, as g is a unit, and    *)
(* the automorphism undoes it.                                             *)
LEMMA Lookup ==
  ASSUME Loop!PirLoopAssumption, Loop!ValuesFit, NEW g \in Gens, NEW k \in Loop!Points
  PROVE  /\ Loop!galois_lookup_table(g, k) \in Loop!Points
         /\ Loop!galois_lookup_forward(g, k) \in Loop!Points
         /\ Loop!galois_lookup_table(g, Loop!galois_lookup_forward(g, k)) = k
         /\ Loop!galois_lookup_forward(g, Loop!galois_lookup_table(g, k)) = k
<1> DEFINE is(x) == (g * x) % (2 * LoopN) = 1
           D == 1..(2 * LoopN - 1)
           h == Loop!inverse(g)
<1>1. LoopN \in Nat /\ g \in Nat /\ \E x \in D : is(x)
  BY DEF Loop!PirLoopAssumption, Loop!ValuesFit
<1>2. h = CHOOSE x \in D : is(x)
  BY DEF Loop!inverse
<1>3. h \in D /\ is(h)
  <2> HIDE DEF is, D, h
  <2> QED BY <1>1, <1>2, Zenon
<1>4. h \in Nat /\ (g * h) % (2 * LoopN) = 1 /\ (h * g) % (2 * LoopN) = 1
  <2>1. h \in Nat
    BY <1>1, <1>3
  <2>2. g * h = h * g
    BY <1>1, <2>1
  <2> QED BY <1>3, <2>1, <2>2
<1>5. \A i : Loop!galois_lookup_table(g, i) = Turned(h, i) /\ Loop!galois_lookup_forward(g, i) = Turned(g, i)
  BY Zenon DEF Loop!galois_lookup_table, Loop!galois_lookup_forward, Turned
<1> HIDE DEF h, D, is
<1>6. Turned(g, k) \in Loop!Points /\ Turned(h, Turned(g, k)) = k
  BY <1>1, <1>4, TurnedBack
<1>7. Turned(h, k) \in Loop!Points /\ Turned(g, Turned(h, k)) = k
  BY <1>1, <1>4, TurnedBack
<1> QED BY <1>5, <1>6, <1>7

(* Every point is looked up.                                               *)
LEMMA LookupOnto ==
  ASSUME Loop!PirLoopAssumption, Loop!ValuesFit, NEW g \in Gens, NEW k \in Loop!Points
  PROVE  /\ Loop!galois_lookup_table(g, k) \in Loop!Points
         /\ \E i \in Loop!Points : Loop!galois_lookup_table(g, i) = k
  BY Lookup

(* The largest value of a point n iterations after a reduction.            *)
Most(p, n) == (p - 1) + n * (LoopDigits + 1) * Loop!repr_bound(p) * Loop!repr_bound(p)

(* What an iteration adds to a point at most.                              *)
PerTurn(p) == (LoopDigits + 1) * (Loop!repr_bound(p) * Loop!repr_bound(p))

(* As many iterations as the interval has leave every sum within a word.   *)
LEMMA MostFits ==
  ASSUME Loop!PirLoopAssumption, Loop!ValuesFit, NEW p \in Moduli, NEW n \in Nat,
         n <= Loop!reduce_every_iterations
  PROVE  /\ p \in Nat \ {0} /\ PerTurn(p) \in Nat /\ Loop!Word \in Nat \ {0}
         /\ Most(p, n) \in Nat /\ Most(p, n) < Loop!Word
         /\ Most(p, n + 1) = Most(p, n) + PerTurn(p)
         /\ Most(p, 0) = p - 1
<1>1. /\ p \in Nat \ {0} /\ LoopSignHalf \in Nat \ {0} /\ LoopDigits \in Nat \ {0}
  BY DEF Loop!PirLoopAssumption
<1>2. PICK d \in Nat \ {0} : d = LoopDigits + 1
  BY <1>1
<1>3. PICK r \in Nat \ {0} : r = Loop!repr_bound(p)
  BY <1>1 DEF Loop!repr_bound
<1>4. PICK H \in Nat \ {0} : H = Loop!HalfWord
  BY <1>1 DEF Loop!HalfWord
<1>5. PICK W \in Nat : W = Loop!Word - 1 /\ W + 1 = Loop!Word
  <2>1. PICK v \in Nat \ {0} : v = H * H
    OBVIOUS
  <2> QED BY <2>1, <1>4 DEF Loop!Word
<1>6. PICK M \in Nat \ {0} : M = d * (r * r) /\ M = PerTurn(p)
  <2>1. r * r \in Nat \ {0}
    OBVIOUS
  <2>2. d * (r * r) \in Nat \ {0}
    BY <2>1
  <2> QED BY <2>2, <1>2, <1>3 DEF PerTurn
<1>7. n * M <= W
  <2>1. n <= ((W \div r) \div r) \div d
    <3>1. Moduli # {}
      OBVIOUS
    <3>2. PICK R \in Nat : R = Loop!reduce_every_iterations /\ RoomFor(p) \in Nat /\ R <= RoomFor(p)
      BY <3>1, ReduceEvery
    <3> QED BY <3>2, <1>2, <1>3, <1>5 DEF RoomFor
  <2>2. \A a \in Nat, b \in Nat \ {0}, x \in Nat : a \div b \in Nat /\ (x <= a \div b => b * x <= a)
    <3> SUFFICES ASSUME NEW a \in Nat, NEW b \in Nat \ {0}, NEW x \in Nat
                 PROVE  a \div b \in Nat /\ (x <= a \div b => b * x <= a)
      OBVIOUS
    <3>1. PICK y \in Nat : y = a \div b /\ b * y <= a
      <4>1. a \div b \in Nat /\ a = b * (a \div b) + (a % b) /\ a % b \in 0..(b - 1)
        OBVIOUS
      <4> QED BY <4>1
    <3>2. ASSUME x <= y PROVE b * x <= a
      <4>1. b * x <= b * y
        BY <3>2
      <4> QED BY <4>1, <3>1
    <3> QED BY <3>1, <3>2
  <2>3. PICK a \in Nat : a = W \div r
    BY <2>2
  <2>4. PICK b \in Nat : b = a \div r
    BY <2>2
  <2>5. PICK x \in Nat : x = d * n /\ x <= b
    BY <2>1, <2>2, <2>3, <2>4
  <2>6. PICK y \in Nat : y = r * x /\ y <= a
    BY <2>2, <2>4, <2>5
  <2>7. r * y <= W
    BY <2>2, <2>3, <2>6
  <2>8. r * y = n * M
    BY <2>5, <2>6, <1>6
  <2> QED BY <2>7, <2>8
<1>8. n * M <= M * (W \div M)
  <2>1. PICK e \in Nat, f \in 0..(M - 1) : e = W \div M /\ W = M * e + f
    <3>1. W \div M \in Nat /\ W = M * (W \div M) + (W % M) /\ W % M \in 0..(M - 1)
      OBVIOUS
    <3> QED BY <3>1
  <2>2. n <= e
    <3>1. SUFFICES ASSUME e + 1 <= n PROVE FALSE
      OBVIOUS
    <3>2. M * (e + 1) <= M * n
      BY <3>1
    <3> QED BY <3>2, <2>1, <1>7
  <2>3. M * n <= M * e
    BY <2>2
  <2> QED BY <2>1, <2>3
<1>9. W % M >= p - 1
  BY <1>2, <1>3, <1>5, <1>6 DEF Loop!ValuesFit
<1>10. (p - 1) + n * M <= W
  <2>1. W = M * (W \div M) + (W % M) /\ W \div M \in Nat /\ W % M \in Nat
    OBVIOUS
  <2>2. PICK e \in Nat : e = M * (W \div M)
    BY <2>1
  <2>3. PICK x \in Nat : x = n * M
    OBVIOUS
  <2> QED BY <2>1, <2>2, <2>3, <1>1, <1>8, <1>9
<1>11. \A x \in Nat : x * d * r * r = x * M
  BY <1>6
<1>12. \A x \in Nat : Most(p, x) = (p - 1) + x * M
  BY <1>2, <1>3, <1>11 DEF Most
<1>13. Most(p, n) = (p - 1) + n * M /\ Most(p, n + 1) = (p - 1) + (n + 1) * M /\ Most(p, 0) = (p - 1) + 0 * M
  BY <1>12
<1>14. (n + 1) * M = n * M + M /\ 0 * M = 0 /\ n * M \in Nat
  OBVIOUS
<1>15. PICK x \in Nat : x = n * M /\ (n + 1) * M = x + M
  BY <1>14
<1>16. /\ Most(p, n) = (p - 1) + x /\ Most(p, n + 1) = Most(p, n) + M /\ Most(p, 0) = p - 1
       /\ (p - 1) + x <= W
  BY <1>1, <1>10, <1>13, <1>14, <1>15
<1> QED BY <1>1, <1>5, <1>6, <1>16

(* A product of two representatives is that of the numbers.                *)
LEMMA ProductFits ==
  ASSUME Loop!PirLoopAssumption, Loop!ValuesFit, cfg \in Loop!Configurations,
         NEW l \in Loop!Loops, NEW j \in Loop!Points, NEW d \in Loop!Arrays,
         NEW prep \in [Loop!Arrays -> 0..Loop!repr_bound(cfg.p)]
  PROVE  /\ Loop!product(l, prep, d, j)
              \in 0..(Loop!repr_bound(cfg.p) * Loop!repr_bound(cfg.p))
         /\ Loop!product(l, prep, d, j) = prep[d] * Query(cfg, l, d, j)
<1>1. cfg.p \in Moduli /\ cfg.p \in Nat \ {0} /\ LoopSignHalf \in Nat \ {0}
  BY DEF Loop!Configurations, Loop!PirLoopAssumption
<1>2. PICK r \in Nat \ {0} : r = Loop!repr_bound(cfg.p) /\ r < LoopSignHalf
  BY <1>1 DEF Loop!repr_bound, Loop!ValuesFit
<1>3. PICK H \in Nat \ {0} : H = Loop!HalfWord /\ r < H
  BY <1>1, <1>2 DEF Loop!HalfWord
<1>4. PICK W \in Nat \ {0} : W = Loop!Word /\ r < W
  <2>1. H * 1 <= H * H
    OBVIOUS
  <2>2. PICK W \in Nat \ {0} : W = H * H
    OBVIOUS
  <2> QED BY <2>1, <2>2, <1>3 DEF Loop!Word
<1>5. l \in {"main", "conj"}
  BY DEF Loop!Loops
<1>6. PICK x \in 0..r : x = prep[d]
  BY <1>2
<1>7. PICK y \in 0..r : y = Query(cfg, l, d, j)
  BY <1>2, <1>5 DEF Loop!ValuesFit
<1>8. x % W = x /\ y % W = y /\ x % H = x /\ y % H = y
  BY <1>3, <1>4
<1>9. Loop!product(l, prep, d, j) = x * y
  BY <1>3, <1>4, <1>6, <1>7, <1>8 DEF Loop!product, Loop!mm512_mul_epu32, Loop!mm512_cvtepi32_epi64
<1>10. x * y <= r * r /\ x * y \in Nat /\ r * r \in Nat
  BY ProductBound
<1> QED BY <1>2, <1>6, <1>7, <1>9, <1>10

(* An iteration adds its products to a point without leaving the word.     *)
LEMMA CurrentFits ==
  ASSUME Loop!PirLoopAssumption, Loop!ValuesFit, cfg \in Loop!Configurations,
         NEW l \in Loop!Loops, NEW j \in Loop!Points,
         NEW prep \in [Loop!Arrays -> 0..Loop!repr_bound(cfg.p)],
         NEW b \in Nat, Loop!sum(l)[j] \in 0..b, b + PerTurn(cfg.p) < Loop!Word
  PROVE  /\ Loop!current(l, prep, j) \in 0..(b + PerTurn(cfg.p))
         /\ Loop!current(l, prep, j)
              = Loop!sum(l)[j] + Loop!SumFunction([d \in Loop!Arrays |-> prep[d] * Query(cfg, l, d, j)])
<1>1. cfg.p \in Nat \ {0} /\ LoopSignHalf \in Nat \ {0} /\ LoopDigits \in Nat \ {0}
  BY DEF Loop!Configurations, Loop!PirLoopAssumption
<1>2. PICK r \in Nat : r = Loop!repr_bound(cfg.p)
  BY <1>1 DEF Loop!repr_bound
<1>3. PICK M \in Nat : M = r * r
  OBVIOUS
<1>4. PICK m \in Nat \ {0} : m = LoopDigits + 1
  BY <1>1
<1>5. PICK W \in Nat \ {0} : W = Loop!Word /\ b + m * M < W /\ PerTurn(cfg.p) = m * M
  <2>1. PerTurn(cfg.p) = m * M
    BY <1>2, <1>3, <1>4 DEF PerTurn
  <2>2. PICK H \in Nat \ {0} : H = Loop!HalfWord
    BY <1>1 DEF Loop!HalfWord
  <2>3. H * H \in Nat \ {0} /\ m * M \in Nat
    OBVIOUS
  <2> QED BY <2>1, <2>2, <2>3 DEF Loop!Word
<1>6. PICK v \in 0..b : v = Loop!sum(l)[j]
  OBVIOUS
<1> DEFINE prod(n) == Loop!product(l, prep, n - 1, j)
           step == [e \in (1..m) \X Nat |-> (e[2] + prod(e[1])) % W]
<1>7. \A n \in 1..m : prod(n) \in 0..M
  <2>1. \A n \in 1..m : n - 1 \in Loop!Arrays
    BY <1>1, <1>4 DEF Loop!Arrays
  <2> QED BY <2>1, <1>2, <1>3, ProductFits
<1> HIDE DEF prod
<1>8. step \in [(1..m) \X Nat -> Nat]
  <2>1. ASSUME NEW e \in (1..m) \X Nat PROVE (e[2] + prod(e[1])) % W \in Nat
    <3>1. e[1] \in 1..m /\ e[2] \in Nat
      OBVIOUS
    <3>2. PICK x \in Nat, y \in Nat : x = e[2] /\ y = prod(e[1])
      BY <3>1, <1>7
    <3>3. (x + y) % W \in Nat
      OBVIOUS
    <3> QED BY <3>2, <3>3
  <2> QED BY <2>1
<1>9. \A n \in 1..m, x \in Nat : step[<<n, x>>] = (x + prod(n)) % W
  OBVIOUS
<1> HIDE DEF step
<1> DEFINE Is(f) == f = [n \in 0..m |-> IF n = 0 THEN v ELSE (f[n - 1] + prod(n)) % W]
<1>10. \E f : Is(f)
  <2>1. PICK f : Solves(f, m, Nat, v, step)
    <3>1. m \in Nat /\ v \in Nat
      OBVIOUS
    <3> QED BY <3>1, <1>8, FiniteRecursion, Zenon
  <2>2. f \in [0..m -> Nat] /\ f = [n \in 0..m |-> IF n = 0 THEN v ELSE step[<<n, f[n - 1]>>]]
    BY <2>1 DEF Solves
  <2>3. ASSUME NEW n \in 0..m, n # 0
        PROVE  step[<<n, f[n - 1]>>] = (f[n - 1] + prod(n)) % W
    <3>1. n \in 1..m /\ n - 1 \in 0..m
      BY <2>3
    <3>2. f[n - 1] \in Nat
      BY <2>2, <3>1
    <3> QED BY <3>1, <3>2, <1>9
  <2>4. [n \in 0..m |-> IF n = 0 THEN v ELSE step[<<n, f[n - 1]>>]]
          = [n \in 0..m |-> IF n = 0 THEN v ELSE (f[n - 1] + prod(n)) % W]
    BY <2>3
  <2>5. Is(f)
    BY <2>2, <2>4, Zenon
  <2> QED BY <2>5
<1> DEFINE f == CHOOSE x : Is(x)
<1>11. Loop!current(l, prep, j) = f[m]
  BY <1>4, <1>5, <1>6 DEF Loop!current, Loop!mm512_add_epi64, prod
<1>12. Is(f)
  BY <1>10, Zenon
<1>13. \A n \in 0..m : f[n] = IF n = 0 THEN v ELSE (f[n - 1] + prod(n)) % W
  BY <1>12, Zenon
<1> HIDE DEF f, Is
<1> DEFINE partial(n) == [d \in 0..(n - 1) |-> prod(d + 1)]
           total(n) == Loop!SumFunction(partial(n))
<1>s. total(0) = 0
  <2>1. partial(0) \in [{} -> Nat]
    OBVIOUS
  <2> QED BY <2>1, SumOfNone
<1>t. ASSUME NEW n \in 1..m PROVE total(n - 1) \in Nat /\ total(n) = total(n - 1) + prod(n)
  <2> DEFINE S == 0..(n - 2)
  <2>0. IsFiniteSet(S)
    <3>1. 0 \in Int /\ n - 2 \in Int
      OBVIOUS
    <3> QED BY <3>1, FS_Interval
  <2>1. n - 1 \notin S /\ 0..(n - 1) = S \cup {n - 1} /\ n - 1 - 1 = n - 2
    OBVIOUS
  <2>2. \A d \in 0..(n - 1) : d + 1 \in 1..m /\ prod(d + 1) \in Nat
    BY <1>7
  <2>3. PICK y, R : y = n - 1 /\ R = 0..(n - 1)
    OBVIOUS
  <2>4. PICK x0 \in [S -> Nat], x1 \in [R -> Nat] : x0 = partial(n - 1) /\ x1 = partial(n)
    BY <2>1, <2>2, <2>3
  <2>5. y \notin S /\ R = S \cup {y} /\ (\A d \in S : x1[d] = x0[d]) /\ x1[y] = prod(n)
    BY <2>1, <2>3, <2>4
  <2> HIDE DEF S, partial
  <2>6. Loop!SumFunction(x0) \in Nat /\ Loop!SumFunction(x1) = Loop!SumFunction(x0) + x1[y]
    BY <2>0, <2>5, SumOfMore
  <2> QED BY <2>4, <2>5, <2>6
<1>u. total(m) = Loop!SumFunction([d \in Loop!Arrays |-> prep[d] * Query(cfg, l, d, j)])
  <2>1. Loop!Arrays = 0..(m - 1)
    BY <1>1, <1>4 DEF Loop!Arrays
  <2>2. \A d \in 0..(m - 1) : prod(d + 1) = prep[d] * Query(cfg, l, d, j)
    <3> TAKE d \in 0..(m - 1)
    <3>1. prod(d + 1) = Loop!product(l, prep, d, j)
      BY DEF prod
    <3> QED BY <3>1, <2>1, ProductFits
  <2>3. partial(m) = [d \in Loop!Arrays |-> prep[d] * Query(cfg, l, d, j)]
    BY <2>1, <2>2
  <2> QED BY <2>3
<1> HIDE DEF partial, total
<1> DEFINE T == {n \in 0..m : ~(f[n] \in 0..(b + n * M) /\ f[n] = v + total(n))}
<1>14. T = {}
  <2>1. SUFFICES ASSUME T # {} PROVE FALSE
    OBVIOUS
  <2>2. T \subseteq Nat
    OBVIOUS
  <2>3. PICK n \in T : \A y \in T : n <= y
    BY <2>1, <2>2, LeastNatural
  <2>4. n # 0
    <3>1. f[0] = v
      BY <1>13
    <3>2. f[0] \in 0..(b + 0 * M) /\ f[0] = v + total(0)
      BY <3>1, <1>s
    <3> QED BY <2>3, <3>2
  <2>5. n \in 1..m /\ n - 1 \in 0..m /\ n - 1 \notin T
    BY <2>3, <2>4
  <2>6. PICK k \in Nat : k = (n - 1) * M
    BY <2>5
  <2>7. n * M = k + M
    <3>1. PICK i \in Nat : i = n - 1 /\ n = i + 1
      BY <2>5
    <3>2. (i + 1) * M = i * M + M
      OBVIOUS
    <3> QED BY <3>1, <3>2, <2>6
  <2>8. f[n - 1] \in 0..(b + k) /\ f[n - 1] = v + total(n - 1)
    BY <2>5, <2>6
  <2>9. k + M <= m * M
    <3>1. n * M <= m * M
      BY <2>5
    <3> QED BY <2>7, <3>1
  <2>10. f[n] = (f[n - 1] + prod(n)) % W
    BY <2>5, <1>13
  <2>11. f[n] \in 0..(b + (k + M)) /\ f[n] = v + total(n)
    <3>1. PICK x \in 0..(b + k), y \in 0..M : x = f[n - 1] /\ y = prod(n)
      BY <2>5, <2>8, <1>7
    <3>2. PICK z \in Nat : z = m * M
      OBVIOUS
    <3>3. x + y \in 0..(b + (k + M)) /\ x + y < W
      BY <3>1, <3>2, <2>9, <1>5
    <3>4. (x + y) % W = x + y
      BY <3>3
    <3>5. PICK a \in Nat : a = total(n - 1) /\ total(n) = a + y
      BY <2>5, <3>1, <1>t
    <3> QED BY <3>1, <3>3, <3>4, <3>5, <2>8, <2>10
  <2> QED BY <2>3, <2>7, <2>11
<1>15. f[m] \in 0..(b + m * M) /\ f[m] = v + total(m)
  BY <1>14
<1> QED BY <1>5, <1>6, <1>11, <1>15, <1>u

(* Where the sums stand: mine is the buffer of the sum, next the one that  *)
(* is being filled, from the points before j.                              *)
Filled(p, g, at, ph, mine, next) ==
  /\ at.i_inner <= Loop!reduce_every_iterations
  /\ \A k \in Loop!Points : mine[k] <= Most(p, at.i_inner)
  /\ ph = "body" => \A i \in Loop!Points :
       i < at.j => next[Loop!galois_lookup_table(g, i)] <= Most(p, at.i_inner + 1)

(* The block that was loaded is the next one to be worked on.              *)
Loaded(c, l, at, ph, pre) ==
  ph = "body" /\ at.j < LoopN =>
    pre = [u \in 0..(UNROLL_COUNT - 1) |-> [d \in Loop!Arrays |-> Prepared(c, l, d, at.index + u)]]

Buffers == {"sum", "sum_new"}

SumsInv ==
  /\ cfg \in Loop!Configurations
  /\ cur \in [Loop!Loops -> Buffers]
  /\ caller \in [Loop!Loops -> [Buffers -> [Loop!Points -> Nat]]]
  /\ \A l \in Loop!Loops :
       /\ Filled(cfg.p, cfg.g, pos[l], loop_phase[l], caller[l][cur[l]], caller[l][Loop!other(cur[l])])
       /\ Loaded(cfg, l, pos[l], loop_phase[l], preload[l])

(* A step of one loop that leaves the invariant of that loop intact.       *)
LEMMA SumsSet ==
  ASSUME LoopInv, SumsInv, NEW l \in Loop!Loops, cfg' = cfg, Loop!Loops' = Loop!Loops,
         NEW at, NEW ph, NEW pre, NEW c \in Buffers, NEW bufs \in [Buffers -> [Loop!Points -> Nat]],
         pos' = [pos EXCEPT ![l] = at], loop_phase' = [loop_phase EXCEPT ![l] = ph],
         preload' = [preload EXCEPT ![l] = pre], cur' = [cur EXCEPT ![l] = c],
         caller' = [caller EXCEPT ![l] = bufs],
         Filled(cfg.p, cfg.g, at, ph, bufs[c], bufs[Loop!other(c)]), Loaded(cfg, l, at, ph, pre)
  PROVE  SumsInv'
<1>1. cur' \in [Loop!Loops -> Buffers] /\ caller' \in [Loop!Loops -> [Buffers -> [Loop!Points -> Nat]]]
  BY DEF SumsInv
<1>2. ASSUME NEW m \in Loop!Loops
      PROVE  /\ Filled(cfg.p, cfg.g, pos'[m], loop_phase'[m], caller'[m][cur'[m]], caller'[m][Loop!other(cur'[m])])
             /\ Loaded(cfg, m, pos'[m], loop_phase'[m], preload'[m])
  <2>1. CASE m = l
    <3>1. pos'[m] = at /\ loop_phase'[m] = ph /\ preload'[m] = pre /\ cur'[m] = c /\ caller'[m] = bufs
      BY <2>1 DEF LoopInv, SumsInv
    <3> QED BY <2>1, <3>1
  <2>2. CASE m # l
    <3>1. /\ pos'[m] = pos[m] /\ loop_phase'[m] = loop_phase[m] /\ preload'[m] = preload[m]
          /\ cur'[m] = cur[m] /\ caller'[m] = caller[m]
      BY <2>2 DEF LoopInv, SumsInv
    <3> QED BY <3>1 DEF SumsInv
  <2> QED BY <2>1, <2>2
<1>3. cfg' \in Loop!Configurations
  BY DEF SumsInv
<1>4. Loop!Points' = Loop!Points
  OBVIOUS
<1> QED BY <1>1, <1>2, <1>3 DEF SumsInv

(* What a step can rely on.                                                *)
LEMMA SumsFacts ==
  ASSUME Loop!PirLoopAssumption, Loop!ValuesFit, LoopInv, SumsInv, NEW l \in Loop!Loops
  PROVE  /\ cfg.p \in Moduli /\ cfg.p \in Nat \ {0} /\ cfg.g \in Gens
         /\ cur[l] \in Buffers /\ Loop!other(cur[l]) \in Buffers /\ Loop!other(cur[l]) # cur[l]
         /\ Loop!other(Loop!other(cur[l])) = cur[l]
         /\ caller[l] \in [Buffers -> [Loop!Points -> Nat]]
         /\ Filled(cfg.p, cfg.g, pos[l], loop_phase[l], caller[l][cur[l]], caller[l][Loop!other(cur[l])])
         /\ Loaded(cfg, l, pos[l], loop_phase[l], preload[l])
<1>1. cfg.p \in Moduli /\ cfg.p \in Nat \ {0} /\ cfg.g \in Gens
  BY DEF SumsInv, Loop!Configurations, Loop!PirLoopAssumption
<1>2. cur[l] \in Buffers /\ caller[l] \in [Buffers -> [Loop!Points -> Nat]]
  BY DEF SumsInv
<1>3. /\ Loop!other(cur[l]) \in Buffers /\ Loop!other(cur[l]) # cur[l]
      /\ Loop!other(Loop!other(cur[l])) = cur[l]
  BY <1>2 DEF Loop!other, Buffers
<1> QED BY <1>1, <1>2, <1>3 DEF SumsInv

(* The first load of an iteration.                                         *)
LEMMA PreloadSums ==
  ASSUME Loop!PirLoopAssumption, Loop!ValuesFit, LoopInv, SumsInv, NEW l \in Loop!Loops,
         Loop!preload_first(l)
  PROVE  SumsInv'
<1> DEFINE at == [pos[l] EXCEPT !.j = 0]
           pre == Loop!Block(l, pos[l].index)
<1>1. /\ preload' = [preload EXCEPT ![l] = pre]
      /\ pos' = [pos EXCEPT ![l] = at]
      /\ loop_phase' = [loop_phase EXCEPT ![l] = "body"]
      /\ cfg' = cfg /\ cur' = cur /\ caller' = caller
  BY Zenon DEF Loop!preload_first
<1>2. Loop!Loops' = Loop!Loops
  BY <1>1 DEF Loop!Loops
<1>3. at.j = 0 /\ at.index = pos[l].index /\ at.i_inner = pos[l].i_inner
  BY LoopFacts DEF Positions
<1>4. cur' = [cur EXCEPT ![l] = cur[l]] /\ caller' = [caller EXCEPT ![l] = caller[l]]
  BY <1>1 DEF SumsInv
<1>5. Loaded(cfg, l, at, "body", pre)
  BY <1>3 DEF Loaded, Loop!Block
<1> HIDE DEF at, pre
<1>6. Filled(cfg.p, cfg.g, at, "body", caller[l][cur[l]], caller[l][Loop!other(cur[l])])
  <2>1. \A i \in Loop!Points : ~(i < 0)
    BY LoopFacts DEF Loop!Points
  <2> QED BY <1>3, <2>1, SumsFacts DEF Filled
<1> QED BY <1>1, <1>2, <1>4, <1>5, <1>6, SumsFacts, SumsSet

(* The next iteration reads what this one has filled.                      *)
LEMMA SwapSums ==
  ASSUME Loop!PirLoopAssumption, Loop!ValuesFit, LoopInv, SumsInv, NEW l \in Loop!Loops,
         Loop!swap(l)
  PROVE  SumsInv'
<1> DEFINE at == [pos[l] EXCEPT !.i_inner = pos[l].i_inner + 1]
           c == Loop!other(cur[l])
<1>1. /\ loop_phase[l] = "body" /\ pos[l].j = LoopN
      /\ pos' = [pos EXCEPT ![l] = at]
      /\ loop_phase' = [loop_phase EXCEPT ![l] = "inner"]
      /\ cur' = [cur EXCEPT ![l] = c]
      /\ cfg' = cfg /\ preload' = preload /\ caller' = caller
  BY Zenon DEF Loop!swap
<1>2. Loop!Loops' = Loop!Loops
  BY <1>1 DEF Loop!Loops
<1>3. PICK n \in Nat : n = pos[l].i_inner /\ at.i_inner = n + 1
  BY LoopFacts DEF Positions
<1>4. /\ caller' = [caller EXCEPT ![l] = caller[l]] /\ preload' = [preload EXCEPT ![l] = preload[l]]
  BY <1>1 DEF SumsInv, LoopInv
<1> HIDE DEF at, c
<1>5. n + 1 <= Loop!reduce_every_iterations
  <2>1. n < Interval(cfg.len, pos[l].i_outer)
    BY <1>1, <1>3, LoopFacts DEF Standing
  <2>2. pos[l].i_outer \in Nat /\ cfg.len \in Nat /\ Moduli # {}
    BY LoopFacts DEF Positions
  <2>3. PICK I \in Nat, R \in Nat :
          I = Interval(cfg.len, pos[l].i_outer) /\ R = Loop!reduce_every_iterations /\ I <= R
    BY <2>2, IntervalBounds, ReduceEvery
  <2> QED BY <2>1, <2>3
<1>6. ASSUME NEW k \in Loop!Points PROVE caller[l][c][k] <= Most(cfg.p, n + 1)
  <2>1. PICK i \in Loop!Points : Loop!galois_lookup_table(cfg.g, i) = k
    BY SumsFacts, LookupOnto
  <2>2. i < pos[l].j
    BY <1>1, <2>1, LoopFacts DEF Loop!Points
  <2>3. \A x \in Loop!Points :
          x < pos[l].j => caller[l][c][Loop!galois_lookup_table(cfg.g, x)] <= Most(cfg.p, n + 1)
    BY <1>1, <1>3, SumsFacts DEF Filled, c
  <2> QED BY <2>1, <2>2, <2>3
<1>7. Filled(cfg.p, cfg.g, at, "inner", caller[l][c], caller[l][Loop!other(c)])
  BY <1>3, <1>5, <1>6 DEF Filled
<1>8. Loaded(cfg, l, at, "inner", preload[l])
  BY DEF Loaded
<1>9. c \in Buffers /\ caller[l] \in [Buffers -> [Loop!Points -> Nat]]
  BY SumsFacts DEF c
<1> QED BY <1>1, <1>2, <1>4, <1>7, <1>8, <1>9, SumsSet, Zenon

(* What an iteration is to add at a point.                                 *)
TermOf(c, l, it, j) ==
  Loop!SumFunction([d \in Loop!Arrays |-> Prepared(c, l, d, it * LoopN + j) * Query(c, l, d, j)])

(* The bounds of an iteration that is under way.                           *)
LEMMA TurnFits ==
  ASSUME Loop!PirLoopAssumption, Loop!ValuesFit, LoopInv, SumsInv, NEW l \in Loop!Loops,
         loop_phase[l] = "body", NEW n, n = pos[l].i_inner
  PROVE  /\ n + 1 \in Nat /\ n + 1 <= Loop!reduce_every_iterations
         /\ Most(cfg.p, n) \in Nat /\ PerTurn(cfg.p) \in Nat
         /\ Most(cfg.p, n + 1) = Most(cfg.p, n) + PerTurn(cfg.p)
         /\ Most(cfg.p, n) + PerTurn(cfg.p) < Loop!Word
<1>1. n < Interval(cfg.len, pos[l].i_outer)
  BY LoopFacts DEF Standing
<1>2. pos[l].i_outer \in Nat /\ cfg.len \in Nat /\ Moduli # {}
  BY LoopFacts DEF Positions
<1>3. PICK I \in Nat, R \in Nat :
        I = Interval(cfg.len, pos[l].i_outer) /\ R = Loop!reduce_every_iterations /\ I <= R
  BY <1>2, IntervalBounds, ReduceEvery
<1>4. n <= R /\ n + 1 <= R /\ n \in Nat /\ n + 1 \in Nat
  BY <1>1, <1>3, LoopFacts DEF Positions
<1>5. cfg.p \in Moduli
  BY SumsFacts
<1>6. /\ PerTurn(cfg.p) \in Nat /\ Most(cfg.p, n) \in Nat
      /\ Most(cfg.p, n + 1) = Most(cfg.p, n) + PerTurn(cfg.p)
  BY <1>3, <1>4, <1>5, MostFits
<1>7. Most(cfg.p, n + 1) < Loop!Word
  BY <1>3, <1>4, <1>5, MostFits
<1> QED BY <1>3, <1>4, <1>6, <1>7

(* A block adds to each of its points exactly the products of the numbers. *)
LEMMA BlockAdds ==
  ASSUME Loop!PirLoopAssumption, Loop!ValuesFit, LoopInv, SumsInv, NEW l \in Loop!Loops,
         loop_phase[l] = "body", NEW j, j = pos[l].j, j < LoopN,
         NEW it, it = pos[l].i_outer + pos[l].i_inner
  PROVE  /\ j \in Nat /\ j + UNROLL_COUNT <= LoopN
         /\ DOMAIN preload[l] = 0..(UNROLL_COUNT - 1)
         /\ \A u \in 0..(UNROLL_COUNT - 1) :
              /\ j + u \in Loop!Points
              /\ Loop!current(l, preload[l][u], j + u) \in 0..Most(cfg.p, pos[l].i_inner + 1)
              /\ Loop!current(l, preload[l][u], j + u) = Loop!sum(l)[j + u] + TermOf(cfg, l, it, j + u)
<1>0. j \in Nat
  BY LoopFacts DEF Positions
<1>1. PICK n \in Nat, x \in Nat : n = pos[l].i_inner /\ x = pos[l].index /\ x = it * LoopN + j
  BY LoopFacts DEF Positions, Standing
<1>2. /\ Most(cfg.p, n) \in Nat /\ PerTurn(cfg.p) \in Nat
      /\ Most(cfg.p, n + 1) = Most(cfg.p, n) + PerTurn(cfg.p)
      /\ Most(cfg.p, n) + PerTurn(cfg.p) < Loop!Word
  BY <1>1, TurnFits
<1>3. PICK P \in Nat, M \in Nat : P = Most(cfg.p, n) /\ M = P + PerTurn(cfg.p) /\ M = Most(cfg.p, n + 1)
  BY <1>2
<1>4. preload[l] = Loop!Block(l, x)
  <2>1. Loaded(cfg, l, pos[l], loop_phase[l], preload[l])
    BY SumsFacts
  <2>2. pos[l].j < LoopN /\ pos[l].index = x
    BY <1>1
  <2> QED BY <2>1, <2>2 DEF Loaded, Loop!Block
<1>5. x + UNROLL_COUNT <= LoopN * cfg.len /\ j + UNROLL_COUNT <= LoopN
  <2>1. DOMAIN preload[l] = 0..(UNROLL_COUNT - 1) /\ 0 \in DOMAIN preload[l]
    BY <1>4, LoopFacts DEF Loop!Block
  <2>2. preload[l] # <<>>
    <3>1. DOMAIN <<>> = {}
      OBVIOUS
    <3> QED BY <2>1, <3>1, Zenon
  <2>3. j \in Nat /\ j % UNROLL_COUNT = 0 /\ j < LoopN
    BY LoopFacts DEF Standing, Positions
  <2>4. j + UNROLL_COUNT <= LoopN
    BY <2>3, LoopFacts, BlocksFit
  <2> QED BY <1>1, <2>2, <2>4, LoopInvGivesBounds DEF Loop!LoadsInBounds
<1>6. ASSUME NEW u \in 0..(UNROLL_COUNT - 1)
       PROVE  /\ j + u \in Loop!Points
              /\ Loop!current(l, preload[l][u], j + u) \in 0..M
              /\ Loop!current(l, preload[l][u], j + u) = Loop!sum(l)[j + u] + TermOf(cfg, l, it, j + u)
  <2>1. l \in {"main", "conj"} /\ cfg \in Loop!Configurations
    BY DEF Loop!Loops, SumsInv
  <2>2. x + u \in 0..(LoopN * cfg.len - 1)
    <3>1. PICK E \in Nat : E = LoopN * cfg.len
      BY LoopFacts
    <3> QED BY <3>1, <1>5, LoopFacts
  <2>3. preload[l][u] = [d \in Loop!Arrays |-> Prepared(cfg, l, d, x + u)]
    BY <1>4 DEF Loop!Block
  <2>4. \A d \in Loop!Arrays : Prepared(cfg, l, d, x + u) \in 0..Loop!repr_bound(cfg.p)
    BY <2>1, <2>2 DEF Loop!ValuesFit
  <2>5. preload[l][u] \in [Loop!Arrays -> 0..Loop!repr_bound(cfg.p)]
    BY <2>3, <2>4
  <2>6. j + u \in Loop!Points
    BY <1>0, <1>5, LoopFacts DEF Loop!Points
  <2>7. Loop!sum(l)[j + u] \in 0..P
    <3>1. caller[l][cur[l]] \in [Loop!Points -> Nat]
      BY SumsFacts
    <3>2. caller[l][cur[l]][j + u] <= P
      BY <1>1, <1>3, <2>6, SumsFacts DEF Filled
    <3> QED BY <2>6, <3>1, <3>2 DEF Loop!sum
  <2>8. P + PerTurn(cfg.p) < Loop!Word
    BY <1>2, <1>3
  <2> DEFINE prep == preload[l][u]
             terms == [d \in Loop!Arrays |-> prep[d] * Query(cfg, l, d, j + u)]
  <2>9. /\ Loop!current(l, prep, j + u) \in 0..(P + PerTurn(cfg.p))
        /\ Loop!current(l, prep, j + u) = Loop!sum(l)[j + u] + Loop!SumFunction(terms)
    BY <2>1, <2>5, <2>6, <2>7, <2>8, CurrentFits
  <2>10. terms = [d \in Loop!Arrays |-> Prepared(cfg, l, d, it * LoopN + (j + u)) * Query(cfg, l, d, j + u)]
    <3>1. x + u = it * LoopN + (j + u)
      <4>1. PICK e \in Nat : e = it * LoopN
        BY LoopFacts DEF Positions
      <4> QED BY <4>1, <1>0, <1>1
    <3>2. \A d \in Loop!Arrays : prep[d] = Prepared(cfg, l, d, x + u)
      BY <2>3
    <3> QED BY <3>1, <3>2
  <2>11. Loop!SumFunction(terms) = TermOf(cfg, l, it, j + u)
    BY <2>10, Zenon DEF TermOf
  <2> HIDE DEF terms
  <2> QED BY <1>3, <2>6, <2>9, <2>11
<1>7. DOMAIN preload[l] = 0..(UNROLL_COUNT - 1)
  BY <1>4 DEF Loop!Block
<1> QED BY <1>1, <1>3, <1>5, <1>6, <1>7, <1>0

(* A block goes where the lookup table says, and touches no earlier point. *)
LEMMA BlockScatters ==
  ASSUME Loop!PirLoopAssumption, Loop!ValuesFit, LoopInv, SumsInv, NEW l \in Loop!Loops,
         NEW j \in Nat, j + UNROLL_COUNT <= LoopN, DOMAIN preload[l] = 0..(UNROLL_COUNT - 1),
         NEW old, old = caller[l][Loop!other(cur[l])], NEW new, new = Loop!scattered(l, j)
  PROVE  /\ new = [k \in Loop!Points |-> new[k]]
         /\ \A k \in Loop!Points : \/ new[k] = old[k]
                                   \/ \E u \in 0..(UNROLL_COUNT - 1) :
                                        new[k] = Loop!current(l, preload[l][u], j + u)
         /\ \A i \in Loop!Points :
              i < j => new[Loop!galois_lookup_table(cfg.g, i)] = old[Loop!galois_lookup_table(cfg.g, i)]
         /\ \A u \in 0..(UNROLL_COUNT - 1) :
              new[Loop!galois_lookup_table(cfg.g, j + u)] = Loop!current(l, preload[l][u], j + u)
<1> DEFINE D == 0..(UNROLL_COUNT - 1)
           table(i) == Loop!galois_lookup_table(cfg.g, i)
           hit(k, u) == table(j + u) = k
           stored(u) == Loop!current(l, preload[l][u], j + u)
<1>1. new = [k \in Loop!Points |->
               IF \E u \in D : hit(k, u) THEN stored(CHOOSE u \in D : hit(k, u)) ELSE old[k]]
  BY Zenon DEF Loop!scattered
<1>2. \A u \in D : j + u \in Loop!Points
  BY LoopFacts DEF Loop!Points
<1>3. \A i, k \in Loop!Points : table(i) \in Loop!Points /\ (table(i) = table(k) => i = k)
  BY SumsFacts, Lookup
<1> HIDE DEF table, stored, D
<1>4. ASSUME NEW i \in Loop!Points, i < j PROVE new[table(i)] = old[table(i)]
  <2>1. \A u \in D : j + u # i
    BY <1>4, LoopFacts DEF D, Loop!Points
  <2>2. ~ \E u \in D : hit(table(i), u)
    BY <1>2, <1>3, <2>1
  <2>3. table(i) \in Loop!Points
    BY <1>3
  <2> HIDE DEF hit
  <2> QED BY <1>1, <2>2, <2>3, Zenon
<1>5. ASSUME NEW u \in D PROVE new[table(j + u)] = stored(u)
  <2> DEFINE v == CHOOSE v \in D : hit(table(j + u), v)
  <2>1. table(j + u) \in Loop!Points /\ \E w \in D : hit(table(j + u), w)
    BY <1>2, <1>3
  <2>2. v \in D /\ hit(table(j + u), v) /\ new[table(j + u)] = stored(v)
    <3> HIDE DEF hit
    <3> QED BY <1>1, <2>1, Zenon
  <2> HIDE DEF v
  <2>3. j + v = j + u
    BY <1>2, <1>3, <2>2
  <2>4. v = u
    BY <2>2, <2>3, LoopFacts DEF D
  <2> QED BY <2>2, <2>4
<1>6. ASSUME NEW k \in Loop!Points PROVE new[k] = old[k] \/ \E u \in D : new[k] = stored(u)
  <2> HIDE DEF hit
  <2>1. CASE \E u \in D : hit(k, u)
    <3>1. (CHOOSE u \in D : hit(k, u)) \in D
      BY <2>1, Zenon
    <3>2. new[k] = stored(CHOOSE u \in D : hit(k, u))
      BY <1>1, <2>1, Zenon
    <3> QED BY <3>1, <3>2
  <2>2. CASE ~ \E u \in D : hit(k, u)
    BY <1>1, <2>2, Zenon
  <2> QED BY <2>1, <2>2
<1>7. new = [k \in Loop!Points |-> new[k]]
  BY <1>1, Zenon
<1> QED BY <1>4, <1>5, <1>6, <1>7 DEF table, stored, D

(* A block of points is added up and scattered.                            *)
LEMMA BodySums ==
  ASSUME Loop!PirLoopAssumption, Loop!ValuesFit, LoopInv, SumsInv, NEW l \in Loop!Loops,
         Loop!unrolled_loop_body(l)
  PROVE  SumsInv'
<1> DEFINE at == [pos[l] EXCEPT !.j = @ + UNROLL_COUNT, !.index = @ + UNROLL_COUNT]
           pre == IF Loop!should_preload(pos[l].j)
                  THEN Loop!Block(l, pos[l].index + UNROLL_COUNT) ELSE <<>>
           o == Loop!other(cur[l])
           new == Loop!scattered(l, pos[l].j)
           bufs == [caller[l] EXCEPT ![o] = new]
<1>1. /\ loop_phase[l] = "body" /\ pos[l].j < LoopN
      /\ preload' = [preload EXCEPT ![l] = pre]
      /\ loop_phase' = loop_phase
      /\ cfg' = cfg /\ cur' = cur
  BY Zenon DEF Loop!unrolled_loop_body
<1>2. pos' = [pos EXCEPT ![l] = at]
  <2>1. pos' = [pos EXCEPT ![l].j = @ + UNROLL_COUNT, ![l].index = @ + UNROLL_COUNT]
    BY Zenon DEF Loop!unrolled_loop_body
  <2> QED BY <2>1 DEF LoopInv, Positions
<1>3. caller' = [caller EXCEPT ![l] = bufs]
  <2>1. caller' = [caller EXCEPT ![l][o] = new]
    BY Zenon DEF Loop!unrolled_loop_body
  <2> HIDE DEF o, new
  <2> QED BY <2>1 DEF SumsInv
<1>4. loop_phase' = [loop_phase EXCEPT ![l] = "body"] /\ cur' = [cur EXCEPT ![l] = cur[l]]
  BY <1>1 DEF LoopInv, SumsInv
<1>5. Loop!Loops' = Loop!Loops
  BY <1>1 DEF Loop!Loops
<1>6. PICK j \in Nat, n \in Nat, x \in Nat :
        /\ j = pos[l].j /\ n = pos[l].i_inner /\ x = pos[l].index
        /\ at.j = j + UNROLL_COUNT /\ at.index = x + UNROLL_COUNT /\ at.i_inner = n
  <2>1. PICK r \in Positions : r = pos[l]
    BY LoopFacts
  <2>2. PICK a \in Nat : a = r.j + UNROLL_COUNT
    BY LoopFacts DEF Positions
  <2>3. PICK b \in Nat : b = r.index + UNROLL_COUNT
    BY LoopFacts DEF Positions
  <2>4. at = [r EXCEPT !.j = a, !.index = b]
    BY <2>1, <2>2, <2>3
  <2> HIDE DEF at
  <2>5. at.j = a /\ at.index = b /\ at.i_inner = r.i_inner
    BY <2>4 DEF Positions
  <2> QED BY <2>1, <2>2, <2>3, <2>5 DEF Positions
<1>7. Loaded(cfg, l, at, "body", pre)
  <2>1. at.j < LoopN => pre = Loop!Block(l, at.index)
    BY <1>6 DEF Loop!should_preload
  <2> QED BY <2>1 DEF Loaded, Loop!Block
<1> HIDE DEF at, pre
<1>8. /\ n + 1 <= Loop!reduce_every_iterations /\ Most(cfg.p, n) <= Most(cfg.p, n + 1)
      /\ Most(cfg.p, n + 1) \in Nat
  BY <1>1, <1>6, TurnFits
<1>9. PICK M \in Nat : M = Most(cfg.p, n + 1)
  BY <1>8
<1>10. /\ j + UNROLL_COUNT <= LoopN /\ DOMAIN preload[l] = 0..(UNROLL_COUNT - 1)
       /\ \A u \in 0..(UNROLL_COUNT - 1) : Loop!current(l, preload[l][u], j + u) \in 0..M
  BY <1>1, <1>6, <1>9, BlockAdds
<1>11. caller[l][o] \in [Loop!Points -> Nat]
  BY SumsFacts
<1>12. /\ new = [k \in Loop!Points |-> new[k]]
       /\ \A k \in Loop!Points : \/ new[k] = caller[l][o][k]
                                 \/ \E u \in 0..(UNROLL_COUNT - 1) :
                                      new[k] = Loop!current(l, preload[l][u], j + u)
       /\ \A i \in Loop!Points :
            i < j => new[Loop!galois_lookup_table(cfg.g, i)] = caller[l][o][Loop!galois_lookup_table(cfg.g, i)]
       /\ \A u \in 0..(UNROLL_COUNT - 1) :
            new[Loop!galois_lookup_table(cfg.g, j + u)] = Loop!current(l, preload[l][u], j + u)
  <2>1. new = Loop!scattered(l, j)
    BY <1>6
  <2> HIDE DEF new, o
  <2>2. PICK old : old = caller[l][o]
    OBVIOUS
  <2>3. old = caller[l][Loop!other(cur[l])]
    BY <2>2 DEF o
  <2>4. /\ new = [k \in Loop!Points |-> new[k]]
        /\ \A k \in Loop!Points : \/ new[k] = old[k]
                                  \/ \E u \in 0..(UNROLL_COUNT - 1) :
                                       new[k] = Loop!current(l, preload[l][u], j + u)
        /\ \A i \in Loop!Points :
             i < j => new[Loop!galois_lookup_table(cfg.g, i)] = old[Loop!galois_lookup_table(cfg.g, i)]
        /\ \A u \in 0..(UNROLL_COUNT - 1) :
             new[Loop!galois_lookup_table(cfg.g, j + u)] = Loop!current(l, preload[l][u], j + u)
    BY <2>1, <2>3, <1>10, BlockScatters
  <2> QED BY <2>2, <2>4
<1> HIDE DEF new
<1>13. new \in [Loop!Points -> Nat]
  BY <1>10, <1>11, <1>12
<1>14. bufs \in [Buffers -> [Loop!Points -> Nat]] /\ bufs[cur[l]] = caller[l][cur[l]] /\ bufs[o] = new
  <2>1. o \in Buffers /\ o # cur[l] /\ cur[l] \in Buffers /\ caller[l] \in [Buffers -> [Loop!Points -> Nat]]
    BY SumsFacts
  <2> HIDE DEF o
  <2> QED BY <1>13, <2>1
<1> HIDE DEF bufs
<1>15. ASSUME NEW i \in Loop!Points, i < j + UNROLL_COUNT
       PROVE  new[Loop!galois_lookup_table(cfg.g, i)] <= M
  <2>1. CASE i < j
    <3>1. caller[l][o][Loop!galois_lookup_table(cfg.g, i)] <= M
      BY <1>1, <1>6, <1>9, <2>1, SumsFacts DEF Filled
    <3> QED BY <1>12, <2>1, <3>1
  <2>2. CASE ~(i < j)
    <3>1. PICK u \in 0..(UNROLL_COUNT - 1) : i = j + u
      <4>1. i - j \in 0..(UNROLL_COUNT - 1) /\ i = j + (i - j)
        BY <1>15, <2>2, LoopFacts DEF Loop!Points
      <4> QED BY <4>1
    <3>2. new[Loop!galois_lookup_table(cfg.g, i)] \in 0..M
      BY <3>1, <1>10, <1>12
    <3> QED BY <3>2
  <2> QED BY <2>1, <2>2
<1>16. Filled(cfg.p, cfg.g, at, "body", bufs[cur[l]], bufs[Loop!other(cur[l])])
  BY <1>6, <1>8, <1>9, <1>14, <1>15, SumsFacts DEF Filled
<1> QED BY <1>1, <1>2, <1>3, <1>4, <1>5, <1>7, <1>14, <1>16, SumsFacts, SumsSet

(* Every point is reduced and the count of iterations starts again.        *)
LEMMA ReduceSums ==
  ASSUME Loop!PirLoopAssumption, Loop!ValuesFit, LoopInv, SumsInv, NEW l \in Loop!Loops,
         Loop!reduce(l)
  PROVE  SumsInv'
<1>0. PICK R \in Nat : R = Loop!reduce_every_iterations
  BY LoopFacts, ReduceEvery
<1> DEFINE at == [pos[l] EXCEPT !.i_outer = pos[l].i_outer + R, !.i_inner = 0]
           ph == IF pos[l].i_outer + R < cfg.len THEN "inner" ELSE "done"
           new == [k \in Loop!Points |-> caller[l][cur[l]][k] % cfg.p]
           bufs == [caller[l] EXCEPT ![cur[l]] = new]
<1>1. /\ pos' = [pos EXCEPT ![l].i_outer = pos[l].i_outer + R, ![l].i_inner = 0]
      /\ loop_phase' = [loop_phase EXCEPT ![l] = ph]
      /\ caller' = [caller EXCEPT ![l][cur[l]] = new]
      /\ cfg' = cfg /\ preload' = preload /\ cur' = cur
  BY <1>0, Zenon DEF Loop!reduce, Loop!p
<1>2. pos' = [pos EXCEPT ![l] = at]
  BY <1>1 DEF LoopInv, Positions
<1>3. at.i_inner = 0
  BY LoopFacts DEF Positions
<1>4. ph # "body"
  OBVIOUS
<1> HIDE DEF at, ph
<1>5. PICK p \in Nat \ {0} : p = cfg.p /\ p \in Moduli
  BY SumsFacts
<1>6. \A k \in Loop!Points : new[k] \in 0..(p - 1)
  <2>1. caller[l][cur[l]] \in [Loop!Points -> Nat]
    BY SumsFacts
  <2> QED BY <1>5, <2>1
<1>7. new \in [Loop!Points -> Nat]
  BY <1>6
<1> HIDE DEF new
<1>8. caller' = [caller EXCEPT ![l] = bufs] /\ preload' = [preload EXCEPT ![l] = preload[l]] /\ cur' = [cur EXCEPT ![l] = cur[l]]
  BY <1>1 DEF SumsInv, LoopInv
<1>9. bufs \in [Buffers -> [Loop!Points -> Nat]] /\ bufs[cur[l]] = new /\ cur[l] \in Buffers
  BY <1>7, SumsFacts
<1> HIDE DEF bufs
<1>10. Most(cfg.p, 0) = p - 1 /\ 0 <= Loop!reduce_every_iterations
  BY <1>0, <1>5, MostFits
<1>11. Filled(cfg.p, cfg.g, at, ph, bufs[cur[l]], bufs[Loop!other(cur[l])])
  BY <1>3, <1>4, <1>5, <1>6, <1>9, <1>10 DEF Filled
<1>12. Loaded(cfg, l, at, ph, preload[l])
  BY <1>4 DEF Loaded
<1>13. Loop!Loops' = Loop!Loops
  BY <1>1 DEF Loop!Loops
<1>14. cfg' = cfg /\ loop_phase' = [loop_phase EXCEPT ![l] = ph]
  BY <1>1
<1> QED BY <1>2, <1>8, <1>9, <1>11, <1>12, <1>13, <1>14, SumsSet

(* All buffers start with zeros.                                           *)
LEMMA SumsInit ==
  ASSUME Loop!PirLoopAssumption, Loop!ValuesFit, Loop!Init PROVE SumsInv
<1>1. cfg \in Loop!Configurations
  BY Zenon DEF Loop!Init
<1>2. /\ caller = [l \in Loop!Loops |-> [b \in Buffers |-> [j \in Loop!Points |-> 0]]]
      /\ cur = [l \in Loop!Loops |-> "sum"]
      /\ pos = [l \in Loop!Loops |-> [i_outer |-> 0, i_inner |-> 0, j |-> 0, index |-> 0]]
      /\ loop_phase = [l \in Loop!Loops |-> "inner"]
  BY Zenon DEF Loop!Init, Buffers
<1>3. cur \in [Loop!Loops -> Buffers] /\ caller \in [Loop!Loops -> [Buffers -> [Loop!Points -> Nat]]]
  BY <1>2 DEF Buffers
<1>4. PICK p \in Nat \ {0} : p = cfg.p /\ p \in Moduli
  BY <1>1 DEF Loop!Configurations, Loop!PirLoopAssumption
<1>5. PICK R \in Nat : R = Loop!reduce_every_iterations
  BY <1>4, ReduceEvery
<1>6. Most(cfg.p, 0) = p - 1 /\ 0 <= Loop!reduce_every_iterations
  BY <1>4, <1>5, MostFits
<1>7. ASSUME NEW l \in Loop!Loops
      PROVE  /\ Filled(cfg.p, cfg.g, pos[l], loop_phase[l], caller[l][cur[l]], caller[l][Loop!other(cur[l])])
             /\ Loaded(cfg, l, pos[l], loop_phase[l], preload[l])
  <2>1. \A k \in Loop!Points : caller[l][cur[l]][k] = 0
    BY <1>2 DEF Buffers
  <2>2. pos[l].i_inner = 0 /\ loop_phase[l] = "inner"
    BY <1>2
  <2> QED BY <1>4, <1>6, <2>1, <2>2 DEF Filled, Loaded
<1> QED BY <1>1, <1>3, <1>7 DEF SumsInv

(* Every step keeps the invariant.                                         *)
LEMMA SumsStep ==
  ASSUME Loop!PirLoopAssumption, Loop!ValuesFit, LoopInv, SumsInv, [Loop!Next]_(Loop!vars)
  PROVE  SumsInv'
<1> DEFINE Same == /\ cfg' = cfg /\ pos' = pos /\ preload' = preload /\ loop_phase' = loop_phase
                   /\ cur' = cur /\ caller' = caller
<1>1. ASSUME NEW l \in Loop!Loops, Loop!preload_first(l) PROVE SumsInv'
  BY <1>1, PreloadSums
<1>2. ASSUME NEW l \in Loop!Loops, Loop!unrolled_loop_body(l) PROVE SumsInv'
  BY <1>2, BodySums
<1>3. ASSUME NEW l \in Loop!Loops, Loop!swap(l) PROVE SumsInv'
  BY <1>3, SwapSums
<1>4. ASSUME NEW l \in Loop!Loops, Loop!reduce(l) PROVE SumsInv'
  BY <1>4, ReduceSums
<1>5. ASSUME Same PROVE SumsInv'
  BY <1>5 DEF SumsInv, Loop!Loops
<1>6. Loop!finish => Same
  BY Zenon DEF Loop!finish
<1>7. UNCHANGED Loop!vars => Same
  BY Zenon DEF Loop!vars
<1> HIDE DEF Same
<1> QED BY <1>1, <1>2, <1>3, <1>4, <1>5, <1>6, <1>7 DEF Loop!Next

(* Between two reductions main_pir_loop adds up products of lazily reduced *)
(* residues in words, for as many iterations as the smaller of two rounded *)
(* quotients: no sum ever leaves its word.  For all moduli and values of   *)
(* ValuesFit, every unit g, loop length, block size and order in which the *)
(* two loops run.                                                          *)
THEOREM SumsStayInAWord == Loop!Spec => []SumsFitAWord
<1>0. Loop!PirLoopAssumption /\ Loop!ValuesFit
  BY KernelAssumption
<1>1. Loop!Init => LoopInv /\ SumsInv
  BY <1>0, LoopInit, SumsInit
<1>2. LoopInv /\ SumsInv /\ [Loop!Next]_(Loop!vars) => LoopInv' /\ SumsInv'
  BY <1>0, LoopStep, SumsStep
<1>3. LoopInv /\ SumsInv => SumsFitAWord
  <2> SUFFICES ASSUME LoopInv, SumsInv, NEW l \in Loop!Loops, NEW k \in Loop!Points
               PROVE  /\ Most(cfg.p, pos[l].i_inner) < Loop!Word
                      /\ caller[l][cur[l]][k] <= Most(cfg.p, pos[l].i_inner)
    BY Zenon DEF SumsFitAWord, Loop!SumsFitAWord, Loop!sum, Loop!p, Most
  <2>1. pos[l].i_inner \in Nat /\ cfg.p \in Moduli
    BY <1>0, LoopFacts, SumsFacts DEF Positions
  <2>2. Filled(cfg.p, cfg.g, pos[l], loop_phase[l], caller[l][cur[l]], caller[l][Loop!other(cur[l])])
    BY <1>0, SumsFacts
  <2>3. /\ pos[l].i_inner <= Loop!reduce_every_iterations
        /\ caller[l][cur[l]][k] <= Most(cfg.p, pos[l].i_inner)
    BY <2>2 DEF Filled
  <2> QED BY <1>0, <2>1, <2>3, MostFits
<1> QED BY <1>1, <1>2, <1>3, PTL DEF Loop!Spec

----------------------------------------------------------------------------
(* The reply of the loop.                                                  *)

(* A sum of naturals is one.                                               *)
LEMMA SumIsNatural ==
  ASSUME NEW S, IsFiniteSet(S), NEW f \in [S -> Nat] PROVE Loop!SumFunction(f) \in Nat
  BY SumCounts, UnitsCount

(* The notions of the reply, of a configuration instead of the variable.   *)
OriginOf(c) ==
  CHOOSE o : o = [n \in 0..c.len |->
    [k \in Loop!Points |-> IF n = 0 THEN k ELSE o[n - 1][Loop!galois_lookup_forward(c.g, k)]]]

(* They are those of the reply.                                            *)
LEMMA SameNotions ==
  /\ Loop!Origin = OriginOf(cfg)
  /\ \A l, it, j : Loop!Term(l, it, j) = TermOf(cfg, l, it, j)
<1>1. Loop!Origin = OriginOf(cfg)
  BY DEF Loop!Origin, OriginOf
<1>2. \A l, it, j : Loop!Term(l, it, j) = TermOf(cfg, l, it, j)
  BY Zenon DEF Loop!Term, TermOf
<1> QED BY <1>1, <1>2

(* The lookup table undoes one automorphism.                               *)
LEMMA Origins ==
  ASSUME Loop!PirLoopAssumption, Loop!ValuesFit, NEW c \in Loop!Configurations,
         NEW k \in Loop!Points
  PROVE  /\ \A n \in 0..c.len : OriginOf(c)[n][k] \in Loop!Points
         /\ \A n \in 1..c.len :
              OriginOf(c)[n][Loop!galois_lookup_table(c.g, k)] = OriginOf(c)[n - 1][k]
         /\ OriginOf(c)[0][k] = k
<1>1. PICK m \in Nat, g \in Gens : m = c.len /\ g = c.g
  BY DEF Loop!Configurations, Loop!PirLoopAssumption
<1> DEFINE P == Loop!Points
           forward(i) == Loop!galois_lookup_forward(g, i)
           S == [P -> P]
           id == [i \in P |-> i]
           step == [e \in (1..m) \X S |-> [i \in P |-> e[2][forward(i)]]]
           Is(o) == o = [n \in 0..m |-> [i \in P |-> IF n = 0 THEN i ELSE o[n - 1][forward(i)]]]
           o == OriginOf(c)
<1>2. \A i \in P : forward(i) \in P /\ forward(Loop!galois_lookup_table(g, i)) = i
                   /\ Loop!galois_lookup_table(g, i) \in P
  BY Lookup
<1> HIDE DEF P, forward
<1>3. id \in S /\ step \in [(1..m) \X S -> S]
  BY <1>2
<1>4. \E f : Is(f)
  <2>1. PICK f : Solves(f, m, S, id, step)
    <3> HIDE DEF S, id, step
    <3> QED BY <1>3, FiniteRecursion
  <2>2. f \in [0..m -> S] /\ f = [n \in 0..m |-> IF n = 0 THEN id ELSE step[<<n, f[n - 1]>>]]
    BY <2>1 DEF Solves
  <2>3. ASSUME NEW n \in 0..m, n # 0 PROVE step[<<n, f[n - 1]>>] = [i \in P |-> f[n - 1][forward(i)]]
    <3>1. n \in 1..m /\ n - 1 \in 0..m
      BY <2>3
    <3>2. f[n - 1] \in S
      BY <2>2, <3>1
    <3> HIDE DEF S
    <3> QED BY <3>1, <3>2
  <2>4. ASSUME NEW n \in 0..m
        PROVE  (IF n = 0 THEN id ELSE step[<<n, f[n - 1]>>])
                 = [i \in P |-> IF n = 0 THEN i ELSE f[n - 1][forward(i)]]
    <3>1. CASE n = 0
      BY <3>1
    <3>2. CASE n # 0
      BY <2>3, <3>2
    <3> QED BY <3>1, <3>2
  <2> HIDE DEF id, step, S
  <2>5. [n \in 0..m |-> IF n = 0 THEN id ELSE step[<<n, f[n - 1]>>]]
          = [n \in 0..m |-> [i \in P |-> IF n = 0 THEN i ELSE f[n - 1][forward(i)]]]
    BY <2>4
  <2>6. Is(f)
    BY <2>2, <2>5, Zenon
  <2> QED BY <2>6
<1>5. Is(o)
  <2>1. o = CHOOSE f : Is(f)
    BY <1>1 DEF OriginOf, P, forward
  <2> HIDE DEF Is, o
  <2> QED BY <2>1, <1>4, Zenon
<1> HIDE DEF o
<1>6. \A n \in 0..m : o[n] = [i \in P |-> IF n = 0 THEN i ELSE o[n - 1][forward(i)]]
  BY <1>5, Zenon
<1>7. \A n \in 0..m, i \in P : o[n][i] = IF n = 0 THEN i ELSE o[n - 1][forward(i)]
  <2>1. TAKE n \in 0..m, i \in P
  <2>2. o[n] = [k2 \in P |-> IF n = 0 THEN k2 ELSE o[n - 1][forward(k2)]]
    BY <1>6, Zenon
  <2> HIDE DEF P, forward
  <2> QED BY <2>2
<1> DEFINE Bad == {n \in 0..m : ~ \A i \in P : o[n][i] \in P}
<1>8. Bad = {}
  <2>1. SUFFICES ASSUME Bad # {} PROVE FALSE
    OBVIOUS
  <2>2. Bad \subseteq Nat
    OBVIOUS
  <2>3. PICK n \in Bad : \A y \in Bad : n <= y
    BY <2>1, <2>2, LeastNatural
  <2>4. n \in 0..m /\ n # 0
    BY <2>3, <1>7
  <2>5. n - 1 \in 0..m /\ n - 1 \notin Bad
    BY <2>3, <2>4
  <2>6. \A i \in P : o[n - 1][i] \in P
    BY <2>5
  <2>7. \A i \in P : o[n][i] \in P
    BY <2>4, <2>6, <1>2, <1>7
  <2> QED BY <2>3, <2>7
<1>9. \A n \in 0..m : o[n][k] \in P
  BY <1>8 DEF P
<1>10. k \in P /\ 0 \in 0..m
  BY DEF P
<1>11. o[0][k] = k
  BY <1>7, <1>10
<1>12. ASSUME NEW n \in 1..m PROVE o[n][Loop!galois_lookup_table(g, k)] = o[n - 1][k]
  <2>1. n \in 0..m /\ n # 0
    OBVIOUS
  <2> QED BY <2>1, <1>2, <1>7, <1>10
<1> QED BY <1>1, <1>9, <1>11, <1>12 DEF P, o

(* What the first n iterations add up to at a point.                       *)
SumAfter(c, l, n, k) ==
  Loop!SumFunction([it \in 0..(n - 1) |-> TermOf(c, l, it, OriginOf(c)[n - it][k])])

(* What an iteration is to add is a natural.                               *)
LEMMA TermIsNatural ==
  ASSUME Loop!PirLoopAssumption, Loop!ValuesFit, NEW c \in Loop!Configurations,
         NEW l \in {"main", "conj"}, NEW it \in 0..(c.len - 1), NEW j \in Loop!Points
  PROVE  TermOf(c, l, it, j) \in Nat
<1>1. PICK n \in Nat \ {0}, m \in Nat : n = LoopN /\ m = c.len
  BY DEF Loop!Configurations, Loop!PirLoopAssumption
<1>2. it * n + j \in 0..(n * m - 1)
  <2>1. it + 1 <= m /\ it \in Nat /\ j \in 0..(n - 1)
    BY <1>1 DEF Loop!Points
  <2>2. n * (it + 1) <= n * m /\ n * (it + 1) = it * n + n
    BY <2>1
  <2>3. PICK e \in Nat, f \in Nat : e = it * n /\ f = n * m
    BY <2>1
  <2> QED BY <2>1, <2>2, <2>3
<1>3. PICK r \in Nat : r = Loop!repr_bound(c.p)
  BY DEF Loop!Configurations, Loop!PirLoopAssumption, Loop!repr_bound
<1>4. \A d \in Loop!Arrays : Prepared(c, l, d, it * n + j) \in 0..r /\ Query(c, l, d, j) \in 0..r
  BY <1>1, <1>2, <1>3 DEF Loop!ValuesFit
<1>5. \A x, y \in 0..r : x * y \in Nat
  OBVIOUS
<1>6. [d \in Loop!Arrays |-> Prepared(c, l, d, it * LoopN + j) * Query(c, l, d, j)] \in [Loop!Arrays -> Nat]
  BY <1>1, <1>4, <1>5
<1>7. IsFiniteSet(Loop!Arrays)
  <2>1. 0 \in Int /\ LoopDigits \in Int
    BY DEF Loop!PirLoopAssumption
  <2> QED BY <2>1, FS_Interval DEF Loop!Arrays
<1> QED BY <1>6, <1>7, SumIsNatural DEF TermOf

(* The summands of the first iterations, wherever they have got to.        *)
LEMMA TermsAreNatural ==
  ASSUME Loop!PirLoopAssumption, Loop!ValuesFit, NEW c \in Loop!Configurations,
         NEW l \in {"main", "conj"}, NEW n \in 0..c.len, NEW k \in Loop!Points
  PROVE  /\ [it \in 0..(n - 1) |-> TermOf(c, l, it, OriginOf(c)[n - it][k])] \in [0..(n - 1) -> Nat]
         /\ IsFiniteSet(0..(n - 1))
         /\ SumAfter(c, l, n, k) \in Nat
<1>1. PICK m \in Nat : m = c.len
  BY DEF Loop!Configurations, Loop!PirLoopAssumption
<1>2. \A it \in 0..(n - 1) : TermOf(c, l, it, OriginOf(c)[n - it][k]) \in Nat
  <2> TAKE it \in 0..(n - 1)
  <2>1. it \in 0..(c.len - 1) /\ n - it \in 0..c.len
    BY <1>1
  <2>2. OriginOf(c)[n - it][k] \in Loop!Points
    BY <2>1, Origins
  <2> QED BY <2>1, <2>2, TermIsNatural
<1>3. IsFiniteSet(0..(n - 1))
  <2>1. 0 \in Int /\ n - 1 \in Int
    BY <1>1
  <2> QED BY <2>1, FS_Interval
<1> QED BY <1>2, <1>3, SumIsNatural DEF SumAfter

(* Before the first iteration.                                             *)
LEMMA SumAfterNone == ASSUME NEW c, NEW l, NEW k PROVE SumAfter(c, l, 0, k) = 0
<1> DEFINE f == [it \in 0..(0 - 1) |-> TermOf(c, l, it, OriginOf(c)[0 - it][k])]
<1>1. f \in [{} -> Nat]
  <2>1. 0..(0 - 1) = {}
    OBVIOUS
  <2> QED BY <2>1
<1>2. SumAfter(c, l, 0, k) = Loop!SumFunction(f)
  BY Zenon DEF SumAfter
<1> HIDE DEF f
<1> QED BY <1>1, <1>2, SumOfNone

(* One iteration more: it adds its products and rotates the sum.           *)
LEMMA SumAfterOneMore ==
  ASSUME Loop!PirLoopAssumption, Loop!ValuesFit, NEW c \in Loop!Configurations,
         NEW l \in {"main", "conj"}, NEW n \in Nat, n < c.len, NEW j \in Loop!Points
  PROVE  SumAfter(c, l, n + 1, Loop!galois_lookup_table(c.g, j))
           = SumAfter(c, l, n, j) + TermOf(c, l, n, j)
<1>1. PICK m \in Nat : m = c.len /\ c.g \in Gens
  BY DEF Loop!Configurations, Loop!PirLoopAssumption
<1>2. PICK k \in Loop!Points : k = Loop!galois_lookup_table(c.g, j)
  BY <1>1, Lookup
<1>3. PICK S, T : S = 0..(n - 1) /\ T = 0..n
  OBVIOUS
<1> DEFINE f == [it \in 0..(n - 1) |-> TermOf(c, l, it, OriginOf(c)[n - it][j])]
           h == [it \in 0..((n + 1) - 1) |-> TermOf(c, l, it, OriginOf(c)[(n + 1) - it][k])]
<1>4. f \in [S -> Nat] /\ IsFiniteSet(S)
  <2>1. n \in 0..c.len
    BY <1>1
  <2> QED BY <2>1, <1>3, TermsAreNatural
<1>5. h \in [T -> Nat]
  <2>1. n + 1 \in 0..c.len /\ (n + 1) - 1 = n
    BY <1>1
  <2>2. h \in [0..((n + 1) - 1) -> Nat]
    <3>1. PICK x \in 0..c.len : x = n + 1
      BY <2>1
    <3>2. [it \in 0..(x - 1) |-> TermOf(c, l, it, OriginOf(c)[x - it][k])] \in [0..(x - 1) -> Nat]
      BY TermsAreNatural
    <3> QED BY <3>1, <3>2
  <2> QED BY <2>1, <2>2, <1>3
<1>6. n \notin S /\ T = S \cup {n}
  BY <1>3
<1>7. \A it \in T : h[it] = TermOf(c, l, it, OriginOf(c)[n - it][j])
  <2> TAKE it \in T
  <2>1. it \in 0..n /\ (n + 1) - 1 = n /\ (n + 1) - it \in 1..m /\ (n + 1) - it - 1 = n - it
    BY <1>1, <1>3
  <2>2. OriginOf(c)[(n + 1) - it][k] = OriginOf(c)[n - it][j]
    BY <2>1, <1>1, <1>2, Origins
  <2>3. h[it] = TermOf(c, l, it, OriginOf(c)[(n + 1) - it][k])
    BY <2>1
  <2> QED BY <2>2, <2>3
<1>8. \A it \in S : h[it] = f[it]
  <2> TAKE it \in S
  <2>1. f[it] = TermOf(c, l, it, OriginOf(c)[n - it][j])
    BY <1>3
  <2> QED BY <2>1, <1>6, <1>7
<1>9. h[n] = TermOf(c, l, n, j)
  <2>1. n - n = 0 /\ n \in T
    BY <1>3
  <2>2. OriginOf(c)[0][j] = j
    BY Origins
  <2> QED BY <2>1, <2>2, <1>7
<1>10. SumAfter(c, l, n, j) = Loop!SumFunction(f) /\ SumAfter(c, l, n + 1, k) = Loop!SumFunction(h)
  BY Zenon DEF SumAfter
<1> HIDE DEF f, h
<1>11. Loop!SumFunction(h) = Loop!SumFunction(f) + h[n]
  BY <1>4, <1>5, <1>6, <1>8, SumOfMore
<1> QED BY <1>2, <1>9, <1>10, <1>11

(* x is s but for multiples of q that reductions have taken away.          *)
Short(p, x, s) == \E m \in Nat : s = x + m * p

(* What the buffers hold when n iterations are done: mine the sum so far,  *)
(* next that of n + 1 iterations at the points before j, and after an even *)
(* number of iterations mine is the buffer the caller calls sum.           *)
Summed(c, l, n, at, ph, b, mine, next) ==
  /\ n \in 0..c.len
  /\ ph # "done" => n = at.i_outer + at.i_inner /\ at.i_outer <= c.len
  /\ ph = "done" => n = c.len /\ at.i_inner = 0
  /\ ph = "body" => n < c.len
  /\ b = IF n % 2 = 0 THEN "sum" ELSE "sum_new"
  /\ \A k \in Loop!Points : Short(c.p, mine[k], SumAfter(c, l, n, k))
  /\ ph = "body" => \A i \in Loop!Points : i < at.j =>
       Short(c.p, next[Loop!galois_lookup_table(c.g, i)], SumAfter(c, l, n, i) + TermOf(c, l, n, i))

ValueInv ==
  \A l \in Loop!Loops : \E n :
    Summed(cfg, l, n, pos[l], loop_phase[l], cur[l], caller[l][cur[l]], caller[l][Loop!other(cur[l])])

(* A step of one loop that leaves the invariant of that loop intact.       *)
LEMMA ValueSet ==
  ASSUME LoopInv, SumsInv, ValueInv, NEW l \in Loop!Loops, cfg' = cfg, Loop!Loops' = Loop!Loops,
         NEW at, NEW ph, NEW b, NEW bufs, NEW n,
         pos' = [pos EXCEPT ![l] = at], loop_phase' = [loop_phase EXCEPT ![l] = ph],
         cur' = [cur EXCEPT ![l] = b], caller' = [caller EXCEPT ![l] = bufs],
         Summed(cfg, l, n, at, ph, b, bufs[b], bufs[Loop!other(b)])
  PROVE  ValueInv'
<1> SUFFICES ASSUME NEW m \in Loop!Loops
             PROVE  \E x : Summed(cfg, m, x, pos'[m], loop_phase'[m], cur'[m],
                                  caller'[m][cur'[m]], caller'[m][Loop!other(cur'[m])])
  BY Zenon DEF ValueInv
<1>1. CASE m = l
  <2>1. pos'[m] = at /\ loop_phase'[m] = ph /\ cur'[m] = b /\ caller'[m] = bufs
    BY <1>1 DEF LoopInv, SumsInv
  <2> QED BY <1>1, <2>1
<1>2. CASE m # l
  <2>1. /\ pos'[m] = pos[m] /\ loop_phase'[m] = loop_phase[m]
        /\ cur'[m] = cur[m] /\ caller'[m] = caller[m]
    BY <1>2 DEF LoopInv, SumsInv
  <2> QED BY <2>1 DEF ValueInv
<1> QED BY <1>1, <1>2

(* What a step can rely on.                                                *)
LEMMA ValueFacts ==
  ASSUME Loop!PirLoopAssumption, Loop!ValuesFit, SumsInv, ValueInv, NEW l \in Loop!Loops
  PROVE  /\ cfg \in Loop!Configurations /\ l \in {"main", "conj"}
         /\ \E n \in Nat : Summed(cfg, l, n, pos[l], loop_phase[l], cur[l], caller[l][cur[l]],
                                  caller[l][Loop!other(cur[l])])
<1>1. cfg \in Loop!Configurations /\ l \in {"main", "conj"}
  BY DEF SumsInv, Loop!Loops
<1>2. PICK n : Summed(cfg, l, n, pos[l], loop_phase[l], cur[l], caller[l][cur[l]],
                      caller[l][Loop!other(cur[l])])
  BY DEF ValueInv
<1>3. n \in Nat
  BY <1>2 DEF Summed
<1> QED BY <1>1, <1>2, <1>3

(* The first load of an iteration.                                         *)
LEMMA PreloadValue ==
  ASSUME Loop!PirLoopAssumption, Loop!ValuesFit, LoopInv, SumsInv, ValueInv,
         NEW l \in Loop!Loops, Loop!preload_first(l)
  PROVE  ValueInv'
<1> DEFINE at == [pos[l] EXCEPT !.j = 0]
<1>1. /\ loop_phase[l] = "inner" /\ pos[l].i_inner < Loop!InnerLen(l)
      /\ pos' = [pos EXCEPT ![l] = at]
      /\ loop_phase' = [loop_phase EXCEPT ![l] = "body"]
      /\ cfg' = cfg /\ cur' = cur /\ caller' = caller
  BY Zenon DEF Loop!preload_first
<1>2. Loop!Loops' = Loop!Loops
  BY <1>1 DEF Loop!Loops
<1>3. at.j = 0 /\ at.i_outer = pos[l].i_outer /\ at.i_inner = pos[l].i_inner
  BY LoopFacts DEF Positions
<1>4. cur' = [cur EXCEPT ![l] = cur[l]] /\ caller' = [caller EXCEPT ![l] = caller[l]]
  BY <1>1 DEF SumsInv
<1> HIDE DEF at
<1>5. PICK n \in Nat : Summed(cfg, l, n, pos[l], "inner", cur[l], caller[l][cur[l]],
                              caller[l][Loop!other(cur[l])])
  BY <1>1, ValueFacts
<1>6. n = pos[l].i_outer + pos[l].i_inner /\ n < cfg.len
  <2>1. n = pos[l].i_outer + pos[l].i_inner
    BY <1>5 DEF Summed
  <2>2. pos[l].i_outer + pos[l].i_inner < cfg.len
    BY <1>1, LoopFacts, IntervalBounds DEF Positions
  <2> QED BY <2>1, <2>2
<1>7. \A i \in Loop!Points : ~(i < 0)
  BY LoopFacts DEF Loop!Points
<1>8. Summed(cfg, l, n, at, "body", cur[l], caller[l][cur[l]], caller[l][Loop!other(cur[l])])
  BY <1>3, <1>5, <1>6, <1>7 DEF Summed
<1>9. PICK b, bufs, ph : b = cur[l] /\ bufs = caller[l] /\ ph = "body"
  OBVIOUS
<1>10. Summed(cfg, l, n, at, ph, b, bufs[b], bufs[Loop!other(b)])
  BY <1>8, <1>9
<1>11. /\ cfg' = cfg /\ pos' = [pos EXCEPT ![l] = at] /\ loop_phase' = [loop_phase EXCEPT ![l] = ph]
       /\ cur' = [cur EXCEPT ![l] = b] /\ caller' = [caller EXCEPT ![l] = bufs]
  BY <1>1, <1>4, <1>9
<1> QED BY <1>2, <1>10, <1>11, ValueSet

(* A block of points is added up and scattered.                            *)
LEMMA BodyValue ==
  ASSUME Loop!PirLoopAssumption, Loop!ValuesFit, LoopInv, SumsInv, ValueInv,
         NEW l \in Loop!Loops, Loop!unrolled_loop_body(l)
  PROVE  ValueInv'
<1> DEFINE at == [pos[l] EXCEPT !.j = @ + UNROLL_COUNT, !.index = @ + UNROLL_COUNT]
           o == Loop!other(cur[l])
           mine == caller[l][cur[l]]
           old == caller[l][o]
           table(i) == Loop!galois_lookup_table(cfg.g, i)
<1>0. PICK new : new = Loop!scattered(l, pos[l].j)
  OBVIOUS
<1>1. PICK j \in Nat : j = pos[l].j /\ new = Loop!scattered(l, j)
  BY <1>0, LoopFacts DEF Positions
<1> DEFINE bufs == [caller[l] EXCEPT ![o] = new]
<1>2. /\ loop_phase[l] = "body" /\ j < LoopN
      /\ loop_phase' = loop_phase
      /\ cfg' = cfg /\ cur' = cur
  BY <1>1, Zenon DEF Loop!unrolled_loop_body
<1>3. pos' = [pos EXCEPT ![l] = at]
  <2>1. pos' = [pos EXCEPT ![l].j = @ + UNROLL_COUNT, ![l].index = @ + UNROLL_COUNT]
    BY Zenon DEF Loop!unrolled_loop_body
  <2> QED BY <2>1 DEF LoopInv, Positions
<1>4. caller' = [caller EXCEPT ![l] = bufs]
  <2>1. caller' = [caller EXCEPT ![l][o] = new]
    BY <1>1, Zenon DEF Loop!unrolled_loop_body
  <2> HIDE DEF o
  <2> QED BY <2>1 DEF SumsInv
<1>5. loop_phase' = [loop_phase EXCEPT ![l] = "body"] /\ cur' = [cur EXCEPT ![l] = cur[l]]
  BY <1>2 DEF LoopInv, SumsInv
<1>6. Loop!Loops' = Loop!Loops
  BY <1>2 DEF Loop!Loops
<1>7. at.j = j + UNROLL_COUNT /\ at.i_outer = pos[l].i_outer /\ at.i_inner = pos[l].i_inner
  <2>1. PICK r \in Positions : r = pos[l]
    BY LoopFacts
  <2> QED BY <1>1, <2>1, LoopFacts DEF Positions
<1> HIDE DEF at
<1>8. PICK n \in Nat : Summed(cfg, l, n, pos[l], "body", cur[l], mine, old)
  BY <1>2, ValueFacts
<1>9. n = pos[l].i_outer + pos[l].i_inner
  BY <1>8 DEF Summed
<1>10. /\ j + UNROLL_COUNT <= LoopN /\ DOMAIN preload[l] = 0..(UNROLL_COUNT - 1)
       /\ \A u \in 0..(UNROLL_COUNT - 1) :
            /\ j + u \in Loop!Points
            /\ Loop!current(l, preload[l][u], j + u) = Loop!sum(l)[j + u] + TermOf(cfg, l, n, j + u)
  BY <1>1, <1>2, <1>9, BlockAdds
<1>11. /\ \A i \in Loop!Points : i < j => new[table(i)] = old[table(i)]
       /\ \A u \in 0..(UNROLL_COUNT - 1) : new[table(j + u)] = Loop!current(l, preload[l][u], j + u)
  BY <1>1, <1>10, BlockScatters
<1>12. /\ bufs[cur[l]] = mine /\ bufs[o] = new
  <2>1. o \in Buffers /\ o # cur[l] /\ caller[l] \in [Buffers -> [Loop!Points -> Nat]]
    BY SumsFacts
  <2> HIDE DEF o
  <2> QED BY <2>1
<1> HIDE DEF bufs
<1>13. ASSUME NEW i \in Loop!Points, i < j + UNROLL_COUNT
       PROVE  Short(cfg.p, new[table(i)], SumAfter(cfg, l, n, i) + TermOf(cfg, l, n, i))
  <2>1. CASE i < j
    <3>1. Short(cfg.p, old[table(i)], SumAfter(cfg, l, n, i) + TermOf(cfg, l, n, i))
      BY <1>1, <1>8, <2>1 DEF Summed
    <3> QED BY <1>11, <2>1, <3>1
  <2>2. CASE ~(i < j)
    <3>1. PICK u \in 0..(UNROLL_COUNT - 1) : i = j + u
      <4>1. i - j \in 0..(UNROLL_COUNT - 1) /\ i = j + (i - j)
        BY <1>13, <2>2, LoopFacts DEF Loop!Points
      <4> QED BY <4>1
    <3>2. new[table(i)] = mine[i] + TermOf(cfg, l, n, i)
      BY <3>1, <1>10, <1>11 DEF Loop!sum
    <3>3. PICK m \in Nat : SumAfter(cfg, l, n, i) = mine[i] + m * cfg.p
      BY <1>8 DEF Summed, Short
    <3>4. mine[i] \in Nat /\ cfg.p \in Nat /\ TermOf(cfg, l, n, i) \in Nat
      <4>1. mine[i] \in Nat /\ cfg.p \in Nat
        BY SumsFacts
      <4>2. n \in 0..(cfg.len - 1)
        BY <1>8, LoopFacts DEF Summed
      <4> QED BY <4>1, <4>2, ValueFacts, TermIsNatural
    <3>5. PICK a \in Nat, b \in Nat, e \in Nat :
            a = mine[i] /\ b = TermOf(cfg, l, n, i) /\ e = m * cfg.p
      BY <3>4
    <3>6. SumAfter(cfg, l, n, i) + TermOf(cfg, l, n, i) = new[table(i)] + m * cfg.p
      BY <3>2, <3>3, <3>5
    <3> QED BY <3>6 DEF Short
  <2> QED BY <2>1, <2>2
<1>14. Summed(cfg, l, n, at, "body", cur[l], bufs[cur[l]], bufs[o])
  BY <1>7, <1>8, <1>12, <1>13 DEF Summed
<1> QED BY <1>2, <1>3, <1>4, <1>5, <1>6, <1>14, ValueSet

(* The next iteration reads what this one has filled.                      *)
LEMMA SwapValue ==
  ASSUME Loop!PirLoopAssumption, Loop!ValuesFit, LoopInv, SumsInv, ValueInv,
         NEW l \in Loop!Loops, Loop!swap(l)
  PROVE  ValueInv'
<1> DEFINE at == [pos[l] EXCEPT !.i_inner = pos[l].i_inner + 1]
           b == Loop!other(cur[l])
<1>1. /\ loop_phase[l] = "body" /\ pos[l].j = LoopN
      /\ pos' = [pos EXCEPT ![l] = at]
      /\ loop_phase' = [loop_phase EXCEPT ![l] = "inner"]
      /\ cur' = [cur EXCEPT ![l] = b]
      /\ cfg' = cfg /\ caller' = caller
  BY Zenon DEF Loop!swap
<1>2. Loop!Loops' = Loop!Loops
  BY <1>1 DEF Loop!Loops
<1>3. at.i_inner = pos[l].i_inner + 1 /\ at.i_outer = pos[l].i_outer
  BY LoopFacts DEF Positions
<1>4. caller' = [caller EXCEPT ![l] = caller[l]]
  BY <1>1 DEF SumsInv
<1> HIDE DEF at
<1>5. PICK n \in Nat : Summed(cfg, l, n, pos[l], "body", cur[l], caller[l][cur[l]], caller[l][b])
  BY <1>1, ValueFacts
<1>6. /\ n + 1 = at.i_outer + at.i_inner /\ at.i_outer <= cfg.len
      /\ n + 1 \in 0..cfg.len /\ n < cfg.len
  <2>1. n = pos[l].i_outer + pos[l].i_inner /\ pos[l].i_outer <= cfg.len /\ n < cfg.len
    BY <1>5 DEF Summed
  <2> QED BY <2>1, <1>3, LoopFacts DEF Positions
<1>7. b = IF (n + 1) % 2 = 0 THEN "sum" ELSE "sum_new"
  <2>1. cur[l] = IF n % 2 = 0 THEN "sum" ELSE "sum_new"
    BY <1>5 DEF Summed
  <2>2. n % 2 = 0 <=> (n + 1) % 2 # 0
    OBVIOUS
  <2> QED BY <2>1, <2>2 DEF Loop!other
<1>8. ASSUME NEW k \in Loop!Points PROVE Short(cfg.p, caller[l][b][k], SumAfter(cfg, l, n + 1, k))
  <2>1. PICK i \in Loop!Points : Loop!galois_lookup_table(cfg.g, i) = k
    BY SumsFacts, LookupOnto
  <2>2. i < pos[l].j
    BY <1>1, LoopFacts DEF Loop!Points
  <2>3. Short(cfg.p, caller[l][b][k], SumAfter(cfg, l, n, i) + TermOf(cfg, l, n, i))
    BY <1>5, <2>1, <2>2 DEF Summed
  <2>4. SumAfter(cfg, l, n + 1, k) = SumAfter(cfg, l, n, i) + TermOf(cfg, l, n, i)
    BY <2>1, <1>6, ValueFacts, SumAfterOneMore
  <2> QED BY <2>3, <2>4
<1> HIDE DEF b
<1>9. Summed(cfg, l, n + 1, at, "inner", b, caller[l][b], caller[l][Loop!other(b)])
  BY <1>6, <1>7, <1>8 DEF Summed
<1> QED BY <1>1, <1>2, <1>4, <1>9, ValueSet

(* A reduction takes away multiples of the modulus.  The loop ends with    *)
(* the last iteration.                                                     *)
LEMMA ReduceValue ==
  ASSUME Loop!PirLoopAssumption, Loop!ValuesFit, LoopInv, SumsInv, ValueInv,
         NEW l \in Loop!Loops, Loop!reduce(l)
  PROVE  ValueInv'
<1>0. PICK R \in Nat : R = Loop!reduce_every_iterations
  BY LoopFacts, ReduceEvery
<1> DEFINE at == [pos[l] EXCEPT !.i_outer = pos[l].i_outer + R, !.i_inner = 0]
           ph == IF pos[l].i_outer + R < cfg.len THEN "inner" ELSE "done"
           mine == caller[l][cur[l]]
           new == [k \in Loop!Points |-> mine[k] % cfg.p]
           bufs == [caller[l] EXCEPT ![cur[l]] = new]
<1>1. /\ loop_phase[l] = "inner" /\ pos[l].i_inner = Loop!InnerLen(l)
      /\ pos' = [pos EXCEPT ![l].i_outer = pos[l].i_outer + R, ![l].i_inner = 0]
      /\ loop_phase' = [loop_phase EXCEPT ![l] = ph]
      /\ caller' = [caller EXCEPT ![l][cur[l]] = new]
      /\ cfg' = cfg /\ cur' = cur
  BY <1>0, Zenon DEF Loop!reduce, Loop!p
<1>2. pos' = [pos EXCEPT ![l] = at]
  BY <1>1 DEF LoopInv, Positions
<1>3. PICK r \in Positions : r = pos[l]
  BY LoopFacts
<1>4. at.i_inner = 0 /\ at.i_outer = r.i_outer + R
  BY <1>3 DEF Positions
<1> HIDE DEF at
<1>5. PICK p \in Nat \ {0}, e \in Nat : p = cfg.p /\ e = cfg.len
  BY SumsFacts, LoopFacts
<1>6. PICK n \in Nat : Summed(cfg, l, n, r, "inner", cur[l], mine, caller[l][Loop!other(cur[l])])
  BY <1>1, <1>3, ValueFacts
<1>7. n = r.i_outer + r.i_inner /\ r.i_outer <= e /\ n \in 0..e /\ r.i_inner = Interval(e, r.i_outer)
  <2>1. n = r.i_outer + r.i_inner /\ r.i_outer <= e /\ n \in 0..e
    BY <1>5, <1>6 DEF Summed
  <2> QED BY <2>1, <1>1, <1>3, <1>5, LoopFacts
<1>8. r.i_outer + R < e => n = at.i_outer + at.i_inner /\ at.i_outer <= e
  <2>1. SUFFICES ASSUME r.i_outer + R < e PROVE n = at.i_outer + at.i_inner /\ at.i_outer <= e
    OBVIOUS
  <2>2. r.i_inner = R
    BY <2>1, <1>0, <1>3, <1>7, LoopFacts, IntervalBounds DEF Positions
  <2> QED BY <2>1, <2>2, <1>4, <1>7 DEF Positions
<1>9. ~(r.i_outer + R < e) => n = e
  <2>1. SUFFICES ASSUME ~(r.i_outer + R < e) PROVE n = e
    OBVIOUS
  <2>2. r.i_inner = e - r.i_outer
    BY <2>1, <1>0, <1>3, <1>7, LoopFacts, IntervalBounds DEF Positions
  <2> QED BY <2>2, <1>7 DEF Positions
<1>10. ASSUME NEW k \in Loop!Points PROVE Short(p, new[k], SumAfter(cfg, l, n, k))
  <2>1. PICK x \in Nat : x = mine[k]
    BY SumsFacts
  <2>2. PICK m \in Nat : SumAfter(cfg, l, n, k) = x + m * p
    BY <1>5, <1>6, <2>1 DEF Summed, Short
  <2>3. PICK d \in Nat, y \in Nat : d = x \div p /\ y = x % p /\ x = p * d + y
    <3>1. x \div p \in Nat /\ x % p \in Nat /\ x = p * (x \div p) + (x % p)
      OBVIOUS
    <3> QED BY <3>1, Zenon
  <2>4. PICK z \in Nat : x + m * p = y + z * p
    <3>1. x + m * p = y + (d + m) * p /\ d + m \in Nat
      BY <2>3
    <3> QED BY <3>1
  <2>5. new[k] = y
    BY <1>5, <2>1, <2>3
  <2> QED BY <2>2, <2>4, <2>5 DEF Short
<1> HIDE DEF new
<1>11. caller' = [caller EXCEPT ![l] = bufs] /\ cur' = [cur EXCEPT ![l] = cur[l]]
  BY <1>1 DEF SumsInv
<1>12. bufs[cur[l]] = new
  BY SumsFacts
<1> HIDE DEF bufs
<1>13. ph = IF r.i_outer + R < e THEN "inner" ELSE "done"
  BY <1>3, <1>5
<1> HIDE DEF ph
<1>14. Summed(cfg, l, n, at, ph, cur[l], bufs[cur[l]], bufs[Loop!other(cur[l])])
  <2>1. cur[l] = IF n % 2 = 0 THEN "sum" ELSE "sum_new"
    BY <1>6 DEF Summed
  <2>2. \A k \in Loop!Points : Short(cfg.p, bufs[cur[l]][k], SumAfter(cfg, l, n, k))
    BY <1>5, <1>10, <1>12
  <2>3. ph # "body" /\ (ph # "done" <=> r.i_outer + R < e)
    BY <1>13
  <2> HIDE DEF mine
  <2> QED BY <2>1, <2>2, <2>3, <1>4, <1>5, <1>7, <1>8, <1>9 DEF Summed
<1>15. Loop!Loops' = Loop!Loops
  BY <1>1 DEF Loop!Loops
<1>16. cfg' = cfg /\ loop_phase' = [loop_phase EXCEPT ![l] = ph]
  BY <1>1
<1> QED BY <1>2, <1>11, <1>14, <1>15, <1>16, ValueSet

(* All sums start at zero.                                                 *)
LEMMA ValueInit ==
  ASSUME Loop!PirLoopAssumption, Loop!ValuesFit, Loop!Init PROVE ValueInv
<1>1. cfg \in Loop!Configurations
  BY Zenon DEF Loop!Init
<1>2. /\ caller = [l \in Loop!Loops |-> [b \in Buffers |-> [j \in Loop!Points |-> 0]]]
      /\ cur = [l \in Loop!Loops |-> "sum"]
      /\ pos = [l \in Loop!Loops |-> [i_outer |-> 0, i_inner |-> 0, j |-> 0, index |-> 0]]
      /\ loop_phase = [l \in Loop!Loops |-> "inner"]
  BY Zenon DEF Loop!Init, Buffers
<1>3. PICK e \in Nat, p \in Nat : e = cfg.len /\ p = cfg.p
  BY <1>1 DEF Loop!Configurations, Loop!PirLoopAssumption
<1> SUFFICES ASSUME NEW l \in Loop!Loops
             PROVE  Summed(cfg, l, 0, pos[l], loop_phase[l], cur[l], caller[l][cur[l]],
                           caller[l][Loop!other(cur[l])])
  BY DEF ValueInv
<1>4. /\ cur[l] = "sum" /\ loop_phase[l] = "inner" /\ pos[l].i_outer = 0 /\ pos[l].i_inner = 0
      /\ \A k \in Loop!Points : caller[l][cur[l]][k] = 0
  BY <1>2 DEF Buffers
<1>5. \A k \in Loop!Points : Short(cfg.p, caller[l][cur[l]][k], SumAfter(cfg, l, 0, k))
  <2> TAKE k \in Loop!Points
  <2>1. SumAfter(cfg, l, 0, k) = 0
    BY SumAfterNone
  <2>2. 0 = 0 + 0 * p
    OBVIOUS
  <2> QED BY <2>1, <2>2, <1>3, <1>4 DEF Short
<1>6. 0 \in 0..e /\ 0 % 2 = 0 /\ 0 = 0 + 0 /\ 0 <= e
  BY <1>3
<1> QED BY <1>3, <1>4, <1>5, <1>6 DEF Summed

(* The iterations of one loop, each rotated once per iteration behind it.  *)
RotatedSum(c, l, k) ==
  Loop!SumFunction([it \in 0..(c.len - 1) |-> TermOf(c, l, it, OriginOf(c)[c.len - 1 - it][k])])

(* What the reply has to be.                                               *)
LoopsOf(c) == IF c.requires_conj THEN {"main", "conj"} ELSE {"main"}
Answers(c, answer) ==
  answer # <<>> => \A k \in Loop!Points :
    answer[k] = Loop!SumFunction([l \in LoopsOf(c) |-> RotatedSum(c, l, k)]) % c.p

(* It is what the property asks for.                                       *)
LEMMA SameReply == ReplyIsRotatedSum <=> Answers(cfg, result)
<1> DEFINE There(l, k) == Loop!SumFunction([it \in 0..(cfg.len - 1) |-> Loop!Term(l, it, Loop!Origin[cfg.len - 1 - it][k])])
<1>1. \A l, k : There(l, k) = RotatedSum(cfg, l, k)
  <2> TAKE l, k
  <2>1. \A it : Loop!Term(l, it, Loop!Origin[cfg.len - 1 - it][k])
               = TermOf(cfg, l, it, OriginOf(cfg)[cfg.len - 1 - it][k])
    BY SameNotions, Zenon
  <2>2. [it \in 0..(cfg.len - 1) |-> Loop!Term(l, it, Loop!Origin[cfg.len - 1 - it][k])]
          = [it \in 0..(cfg.len - 1) |-> TermOf(cfg, l, it, OriginOf(cfg)[cfg.len - 1 - it][k])]
    BY <2>1, Zenon
  <2> QED BY <2>2, Zenon DEF RotatedSum
<1>2. Loop!Loops = LoopsOf(cfg)
  BY Zenon DEF Loop!Loops, LoopsOf
<1>3. ReplyIsRotatedSum <=>
        (result # <<>> => \A k \in Loop!Points :
           result[k] = Loop!SumFunction([l \in Loop!Loops |-> There(l, k)]) % cfg.p)
  BY Zenon DEF ReplyIsRotatedSum, Loop!ReplyIsRotatedSum, Loop!p
<1> HIDE DEF There
<1>4. \A k : [l \in Loop!Loops |-> There(l, k)] = [l \in LoopsOf(cfg) |-> RotatedSum(cfg, l, k)]
  BY <1>1, <1>2, Zenon
<1> QED BY <1>3, <1>4, Zenon DEF Answers

(* The rotation that permute undoes is the last one.                       *)
LEMMA LastRotation ==
  ASSUME Loop!PirLoopAssumption, Loop!ValuesFit, NEW c \in Loop!Configurations, NEW l,
         NEW k \in Loop!Points
  PROVE  SumAfter(c, l, c.len, Loop!galois_lookup_table(c.g, k)) = RotatedSum(c, l, k)
<1>0. PICK x : x = Loop!galois_lookup_table(c.g, k)
  OBVIOUS
<1>1. PICK m \in Nat : m = c.len /\ x = Loop!galois_lookup_table(c.g, k)
  BY <1>0 DEF Loop!Configurations, Loop!PirLoopAssumption
<1>2. \A it \in 0..(m - 1) : OriginOf(c)[m - it][x] = OriginOf(c)[m - 1 - it][k]
  <2> TAKE it \in 0..(m - 1)
  <2>1. m - it \in 1..m /\ (m - it) - 1 = m - 1 - it
    OBVIOUS
  <2> QED BY <2>1, <1>1, Origins
<1>3. [it \in 0..(m - 1) |-> TermOf(c, l, it, OriginOf(c)[m - it][x])]
        = [it \in 0..(m - 1) |-> TermOf(c, l, it, OriginOf(c)[m - 1 - it][k])]
  BY <1>2
<1> QED BY <1>1, <1>3, Zenon DEF SumAfter, RotatedSum

(* The two loops together.                                                 *)
LEMMA BothLoops ==
  ASSUME NEW c, NEW k, RotatedSum(c, "main", k) \in Nat, RotatedSum(c, "conj", k) \in Nat
  PROVE  Loop!SumFunction([l \in LoopsOf(c) |-> RotatedSum(c, l, k)])
           = IF c.requires_conj THEN RotatedSum(c, "main", k) + RotatedSum(c, "conj", k)
             ELSE RotatedSum(c, "main", k)
<1> DEFINE f == [l \in {"main"} |-> RotatedSum(c, l, k)]
           h == [l \in {"main", "conj"} |-> RotatedSum(c, l, k)]
<1>1. Loop!SumFunction(f) = RotatedSum(c, "main", k)
  <2>1. DOMAIN f = {"main"} /\ f = [l \in {"main"} |-> f[l]] /\ f["main"] = RotatedSum(c, "main", k)
    OBVIOUS
  <2> HIDE DEF f
  <2> QED BY <2>1, SumOfOne
<1>2. Loop!SumFunction(h) = RotatedSum(c, "main", k) + RotatedSum(c, "conj", k)
  <2>1. f \in [{"main"} -> Nat] /\ h \in [{"main", "conj"} -> Nat]
    OBVIOUS
  <2>2. /\ {"main", "conj"} = {"main"} \cup {"conj"} /\ "conj" \notin {"main"}
        /\ \A y \in {"main"} : h[y] = f[y]
        /\ h["conj"] = RotatedSum(c, "conj", k)
    OBVIOUS
  <2>3. IsFiniteSet({"main"})
    BY FS_Singleton
  <2> HIDE DEF f, h
  <2>4. Loop!SumFunction(h) = Loop!SumFunction(f) + h["conj"]
    BY <2>1, <2>2, <2>3, SumOfMore
  <2> QED BY <2>2, <2>4, <1>1
<1>3. [l \in LoopsOf(c) |-> RotatedSum(c, l, k)] = IF c.requires_conj THEN h ELSE f
  BY DEF LoopsOf
<1> HIDE DEF f, h
<1> QED BY <1>1, <1>2, <1>3

(* Multiples of the modulus make no difference to a residue.               *)
LEMMA ModDropsMultiples ==
  ASSUME NEW p \in Nat \ {0}, NEW x \in Nat, NEW m \in Nat
  PROVE  (x + m * p) % p = x % p
<1>1. PICK d \in Int, r \in 0..(p - 1) : r = x % p /\ x = p * d + r
  <2>1. x \div p \in Int /\ x % p \in 0..(p - 1) /\ x = p * (x \div p) + (x % p)
    OBVIOUS
  <2> QED BY <2>1, Zenon
<1>2. PICK z \in Int : z = x + m * p
  OBVIOUS
<1>3. PICK e \in Int : e = d + m
  OBVIOUS
<1>4. z = p * e + r
  BY <1>1, <1>2, <1>3
<1>5. z % p = r
  BY <1>4, ModUnique
<1> QED BY <1>1, <1>2, <1>5

(* What a loop that has ended left in the buffer its caller reads.         *)
LEMMA EndOfLoop ==
  ASSUME Loop!PirLoopAssumption, Loop!ValuesFit, LoopInv, SumsInv, ValueInv,
         NEW l \in Loop!Loops, loop_phase[l] = "done", NEW x \in Loop!Points
  PROVE  /\ caller[l]["sum"][x] \in 0..(cfg.p - 1)
         /\ Short(cfg.p, caller[l]["sum"][x], SumAfter(cfg, l, cfg.len, x))
<1>1. PICK n \in Nat : Summed(cfg, l, n, pos[l], "done", cur[l], caller[l][cur[l]],
                              caller[l][Loop!other(cur[l])])
  BY ValueFacts
<1>2. n = cfg.len /\ pos[l].i_inner = 0
  BY <1>1 DEF Summed
<1>3. cfg.len % 2 = 0
  BY ValueFacts DEF Loop!Configurations, Loop!ValuesFit
<1>4. cur[l] = "sum"
  BY <1>1, <1>2, <1>3 DEF Summed
<1>5. caller[l]["sum"][x] \in Nat
  BY <1>4, SumsFacts
<1>6. caller[l]["sum"][x] <= Most(cfg.p, 0)
  BY <1>2, <1>4, SumsFacts DEF Filled
<1>7. Most(cfg.p, 0) = cfg.p - 1
  <2>1. PICK R \in Nat : R = Loop!reduce_every_iterations
    BY LoopFacts, ReduceEvery
  <2>2. 0 \in Nat /\ 0 <= Loop!reduce_every_iterations
    BY <2>1
  <2> QED BY <2>2, SumsFacts, MostFits
<1>8. cfg.p \in Nat \ {0}
  BY SumsFacts
<1> QED BY <1>1, <1>2, <1>4, <1>5, <1>6, <1>7, <1>8 DEF Summed

(* The joined loops give the reply.                                        *)
LEMMA FinishAnswers ==
  ASSUME Loop!PirLoopAssumption, Loop!ValuesFit, LoopInv, SumsInv, ValueInv, Loop!finish
  PROVE  Answers(cfg, result')
<1> DEFINE table(k) == Loop!galois_lookup_table(cfg.g, k)
           A(x) == caller["main"]["sum"][x]
           D(x) == caller["conj"]["sum"][x]
           added == [x \in Loop!Points |->
                       IF cfg.requires_conj THEN Loop!mm512_add_epi64(A(x), D(x)) ELSE A(x)]
<1>1. /\ \A l \in Loop!Loops : loop_phase[l] = "done"
      /\ result' = [k \in Loop!Points |-> added[table(k)] % cfg.p]
  BY Zenon DEF Loop!finish, Loop!p
<1> SUFFICES ASSUME NEW k \in Loop!Points
             PROVE  result'[k] = Loop!SumFunction([l \in LoopsOf(cfg) |-> RotatedSum(cfg, l, k)]) % cfg.p
  BY Zenon DEF Answers
<1>2. cfg \in Loop!Configurations /\ cfg.p \in Moduli /\ cfg.g \in Gens
  BY DEF SumsInv, Loop!Configurations
<1>3. PICK p \in Nat \ {0} : p = cfg.p
  BY <1>2 DEF Loop!PirLoopAssumption
<1>4. PICK x \in Loop!Points : x = table(k)
  BY <1>2, Lookup
<1>5. result'[k] = (IF cfg.requires_conj THEN Loop!mm512_add_epi64(A(x), D(x)) ELSE A(x)) % p
  BY <1>1, <1>3, <1>4
<1>6. \A l \in {"main", "conj"} : RotatedSum(cfg, l, k) = SumAfter(cfg, l, cfg.len, x)
  BY <1>2, <1>4, LastRotation
<1>7. RotatedSum(cfg, "main", k) \in Nat /\ RotatedSum(cfg, "conj", k) \in Nat
  <2>1. cfg.len \in 0..cfg.len
    BY <1>2 DEF Loop!Configurations, Loop!PirLoopAssumption
  <2>2. \A l \in {"main", "conj"} : SumAfter(cfg, l, cfg.len, x) \in Nat
    BY <1>2, <2>1, TermsAreNatural
  <2> QED BY <1>6, <2>2
<1>8. "main" \in Loop!Loops /\ (cfg.requires_conj => "conj" \in Loop!Loops)
  BY DEF Loop!Loops
<1>9. PICK a \in 0..(p - 1), m \in Nat : a = A(x) /\ RotatedSum(cfg, "main", k) = a + m * p
  <2>1. A(x) \in 0..(p - 1) /\ Short(p, A(x), SumAfter(cfg, "main", cfg.len, x))
    BY <1>1, <1>3, <1>8, EndOfLoop
  <2> QED BY <2>1, <1>6 DEF Short
<1>10. CASE cfg.requires_conj
  <2>1. PICK b \in 0..(p - 1), j \in Nat : b = D(x) /\ RotatedSum(cfg, "conj", k) = b + j * p
    <3>1. D(x) \in 0..(p - 1) /\ Short(p, D(x), SumAfter(cfg, "conj", cfg.len, x))
      BY <1>1, <1>3, <1>8, <1>10, EndOfLoop
    <3> QED BY <3>1, <1>6 DEF Short
  <2>2. PICK W \in Nat : W = Loop!Word /\ 2 * p < W
    <3>1. PICK H \in Nat \ {0} : H = Loop!HalfWord /\ 2 * p < H
      BY <1>2, <1>3 DEF Loop!HalfWord, Loop!ValuesFit, Loop!repr_bound, Loop!PirLoopAssumption
    <3>2. H * 1 <= H * H /\ H * H \in Nat
      OBVIOUS
    <3>3. PICK v \in Nat : v = H * H /\ H <= v
      BY <3>2
    <3> QED BY <3>1, <3>3 DEF Loop!Word
  <2>3. PICK s \in Nat : s = a + b /\ s < W
    BY <2>2
  <2>4. Loop!mm512_add_epi64(A(x), D(x)) = s
    BY <1>9, <2>1, <2>2, <2>3 DEF Loop!mm512_add_epi64
  <2>5. result'[k] = s % p
    BY <1>5, <1>10, <2>4
  <2>6. PICK z \in Nat : z = m + j
    OBVIOUS
  <2>7. RotatedSum(cfg, "main", k) + RotatedSum(cfg, "conj", k) = s + z * p
    BY <1>9, <2>1, <2>3, <2>6
  <2>8. (s + z * p) % p = s % p
    BY ModDropsMultiples
  <2>9. Loop!SumFunction([l \in LoopsOf(cfg) |-> RotatedSum(cfg, l, k)]) = s + z * p
    BY <1>7, <1>10, <2>7, BothLoops
  <2> QED BY <1>3, <2>5, <2>8, <2>9
<1>11. CASE ~cfg.requires_conj
  <2>1. result'[k] = a % p
    BY <1>5, <1>9, <1>11
  <2>2. (a + m * p) % p = a % p
    BY ModDropsMultiples
  <2>3. Loop!SumFunction([l \in LoopsOf(cfg) |-> RotatedSum(cfg, l, k)]) = a + m * p
    BY <1>7, <1>9, <1>11, BothLoops
  <2> QED BY <1>3, <2>1, <2>2, <2>3
<1> QED BY <1>10, <1>11

(* Every step keeps the invariant.                                         *)
LEMMA ValueStep ==
  ASSUME Loop!PirLoopAssumption, Loop!ValuesFit, LoopInv, SumsInv, ValueInv, Answers(cfg, result),
         [Loop!Next]_(Loop!vars)
  PROVE  ValueInv' /\ Answers(cfg', result')
<1> DEFINE Same == /\ cfg' = cfg /\ pos' = pos /\ loop_phase' = loop_phase
                   /\ cur' = cur /\ caller' = caller
<1>1. ASSUME NEW l \in Loop!Loops, Loop!preload_first(l) PROVE ValueInv' /\ Answers(cfg', result')
  <2>1. ValueInv'
    BY <1>1, PreloadValue
  <2>2. cfg' = cfg /\ result' = result
    BY <1>1, Zenon DEF Loop!preload_first
  <2> QED BY <2>1, <2>2
<1>2. ASSUME NEW l \in Loop!Loops, Loop!unrolled_loop_body(l) PROVE ValueInv' /\ Answers(cfg', result')
  <2>1. ValueInv'
    BY <1>2, BodyValue
  <2>2. cfg' = cfg /\ result' = result
    BY <1>2, Zenon DEF Loop!unrolled_loop_body
  <2> QED BY <2>1, <2>2
<1>3. ASSUME NEW l \in Loop!Loops, Loop!swap(l) PROVE ValueInv' /\ Answers(cfg', result')
  <2>1. ValueInv'
    BY <1>3, SwapValue
  <2>2. cfg' = cfg /\ result' = result
    BY <1>3, Zenon DEF Loop!swap
  <2> QED BY <2>1, <2>2
<1>4. ASSUME NEW l \in Loop!Loops, Loop!reduce(l) PROVE ValueInv' /\ Answers(cfg', result')
  <2>1. ValueInv'
    BY <1>4, ReduceValue
  <2>2. cfg' = cfg /\ result' = result
    BY <1>4, Zenon DEF Loop!reduce
  <2> QED BY <2>1, <2>2
<1>5. ASSUME Same PROVE ValueInv'
  BY <1>5 DEF ValueInv, Loop!Loops
<1>6. ASSUME Loop!finish PROVE ValueInv' /\ Answers(cfg', result')
  <2>1. Same
    BY <1>6, Zenon DEF Loop!finish
  <2>2. Answers(cfg, result')
    BY <1>6, FinishAnswers
  <2> QED BY <1>5, <2>1, <2>2
<1>7. ASSUME UNCHANGED Loop!vars PROVE ValueInv' /\ Answers(cfg', result')
  <2>1. Same /\ result' = result
    BY <1>7, Zenon DEF Loop!vars
  <2> QED BY <1>5, <2>1
<1> HIDE DEF Same
<1> QED BY <1>1, <1>2, <1>3, <1>4, <1>6, <1>7 DEF Loop!Next

(* The reply of perform_pir_split is, at every point and modulo the        *)
(* modulus, the sum of what every iteration of both loops is to add, each  *)
(* rotated once per iteration behind it.  For all moduli and values of     *)
(* ValuesFit, every unit g, even loop length, number of gadget digits,     *)
(* block size and interval of reductions, and every order in which the two *)
(* loops run.                                                              *)
THEOREM ReplyIsTheRotatedSum == Loop!Spec => []ReplyIsRotatedSum
<1>0. Loop!PirLoopAssumption /\ Loop!ValuesFit
  BY KernelAssumption
<1> DEFINE AllOfIt == LoopInv /\ SumsInv /\ ValueInv /\ Answers(cfg, result)
<1>1. Loop!Init => AllOfIt
  <2>1. Loop!Init => result = <<>>
    BY Zenon DEF Loop!Init
  <2>2. result = <<>> => Answers(cfg, result)
    BY DEF Answers
  <2> QED BY <1>0, <2>1, <2>2, LoopInit, SumsInit, ValueInit
<1>2. AllOfIt /\ [Loop!Next]_(Loop!vars) => AllOfIt'
  BY <1>0, LoopStep, SumsStep, ValueStep
<1>3. AllOfIt => ReplyIsRotatedSum
  BY SameReply
<1> QED BY <1>1, <1>2, <1>3, PTL DEF Loop!Spec


----------------------------------------------------------------------------
(* A query and a reply as bytes.                                           *)

(* Sums of any function, as those of the loop.                             *)
LEMMA SameSum == ASSUME NEW f PROVE Loop!SumFunction(f) = SumFunction(f)
  BY DEF Loop!SumFunction, SumFunction, Loop!SumFunctionOnSet, SumFunctionOnSet,
         Loop!FoldFunctionOnSet, FoldFunctionOnSet, Loop!MapThenFoldSet, MapThenFoldSet

LEMMA NoSummands == ASSUME NEW f \in [{} -> Nat] PROVE SumFunction(f) = 0
  BY SumOfNone, SameSum

(* One summand more.                                                       *)
LEMMA OneMoreSummand ==
  ASSUME NEW S, IsFiniteSet(S), NEW x, x \notin S, NEW f \in [S \cup {x} -> Nat]
  PROVE  /\ SumFunction([y \in S |-> f[y]]) \in Nat
         /\ SumFunction(f) = SumFunction([y \in S |-> f[y]]) + f[x]
<1> DEFINE T == S \cup {x}
           g == [y \in S |-> f[y]]
<1>1. g \in [S -> Nat] /\ \A y \in S : f[y] = g[y]
  OBVIOUS
<1>2. T = S \cup {x} /\ f \in [T -> Nat]
  OBVIOUS
<1> HIDE DEF T, g
<1>3. Loop!SumFunction(g) \in Nat /\ Loop!SumFunction(f) = Loop!SumFunction(g) + f[x]
  BY <1>1, <1>2, SumOfMore
<1>4. SumFunction(g) = Loop!SumFunction(g) /\ SumFunction(f) = Loop!SumFunction(f)
  BY SameSum
<1>5. SumFunction(g) \in Nat /\ SumFunction(f) = SumFunction(g) + f[x]
  BY <1>3, <1>4, Zenon
<1> QED BY <1>5 DEF g

(* The powers of two, from the number of subsets of a finite set.          *)
LEMMA PowerStep == ASSUME NEW n \in Nat PROVE 2^(n + 1) = 2^n + 2^n /\ 2^n \in Nat
<1> DEFINE S == 1..n
           x == n + 1
           with(A) == A \cup {x}
           W == {with(A) : A \in SUBSET S}
           f == [A \in SUBSET S |-> with(A)]
<1>1. IsFiniteSet(S) /\ Cardinality(S) = n /\ IsFiniteSet(S \cup {x}) /\ Cardinality(S \cup {x}) = n + 1
  <2>1. IsFiniteSet(1..n) /\ Cardinality(1..n) = n
    BY FS_Interval
  <2>2. IsFiniteSet(1..(n + 1)) /\ Cardinality(1..(n + 1)) = n + 1
    BY FS_Interval
  <2>3. 1..(n + 1) = S \cup {x}
    OBVIOUS
  <2> QED BY <2>1, <2>2, <2>3
<1>2. x \notin S
  OBVIOUS
<1> HIDE DEF S, x
<1>3. IsFiniteSet(SUBSET S) /\ Cardinality(SUBSET S) = 2^n
  BY <1>1, FS_SUBSET
<1>4. IsFiniteSet(SUBSET (S \cup {x})) /\ Cardinality(SUBSET (S \cup {x})) = 2^(n + 1)
  BY <1>1, FS_SUBSET
<1>5. SUBSET (S \cup {x}) = (SUBSET S) \cup W
  <2>1. ASSUME NEW A \in SUBSET (S \cup {x}), A \notin SUBSET S PROVE A \in W
    <3>1. A \ {x} \in SUBSET S /\ x \in A
      BY <2>1
    <3>2. A = with(A \ {x})
      BY <3>1
    <3> QED BY <3>1, <3>2, Zenon
  <2>2. \A A \in SUBSET S : with(A) \in SUBSET (S \cup {x}) /\ A \in SUBSET (S \cup {x})
    OBVIOUS
  <2> QED BY <2>1, <2>2
<1>6. (SUBSET S) \cap W = {}
  BY <1>2
<1>7. ExistsBijection(SUBSET S, W)
  <2>1. f \in [SUBSET S -> W]
    OBVIOUS
  <2>2. ASSUME NEW A \in SUBSET S, NEW U \in SUBSET S, f[A] = f[U] PROVE A = U
    <3>1. with(A) = with(U)
      BY <2>2
    <3> QED BY <3>1, <1>2
  <2>3. \A C \in W : \E A \in SUBSET S : f[A] = C
    OBVIOUS
  <2>4. f \in Bijection(SUBSET S, W)
    BY <2>1, <2>2, <2>3, Zenon DEF Bijection, Injection, Surjection, IsInjective
  <2> QED BY <2>4, Zenon DEF ExistsBijection
<1>8. IsFiniteSet(W) /\ Cardinality(W) = 2^n
  BY <1>3, <1>7, FS_Bijection
<1> HIDE DEF W
<1>9. Cardinality((SUBSET S) \cup W) = 2^n + 2^n - Cardinality((SUBSET S) \cap W)
  BY <1>3, <1>8, FS_Union
<1>10. Cardinality((SUBSET S) \cap W) = 0 /\ 2^n \in Nat
  BY <1>3, <1>6, FS_EmptySet, FS_CardinalityType
<1>11. 2^(n + 1) = 2^n + 2^n - Cardinality((SUBSET S) \cap W)
  BY <1>4, <1>5, <1>9, Zenon
<1> QED BY <1>10, <1>11

(* Powers of two are positive, and multiply by adding exponents.           *)
LEMMA PowerSum ==
  ASSUME NEW a \in Nat, NEW b \in Nat
  PROVE  2^a \in Nat \ {0} /\ 2^(a + b) = 2^a * 2^b
<1>1. ASSUME NEW c \in Nat PROVE 2^c \in Nat \ {0}
  <2> DEFINE T == {k \in Nat : ~(2^k \in Nat \ {0})}
  <2>1. SUFFICES ASSUME T # {} PROVE FALSE
    OBVIOUS
  <2>2. T \subseteq Nat
    OBVIOUS
  <2>3. PICK k \in T : \A y \in T : k <= y
    BY <2>1, <2>2, LeastNatural
  <2>4. k # 0
    <3>1. 2^0 = 1
      OBVIOUS
    <3>2. 2^0 \in Nat \ {0}
      BY <3>1
    <3> QED BY <2>3, <3>2, Zenon
  <2>5. PICK m \in Nat : k = m + 1 /\ m \notin T
    <3>1. k - 1 \in Nat /\ k = (k - 1) + 1 /\ ~(k <= k - 1)
      BY <2>4
    <3> QED BY <2>3, <3>1
  <2>6. 2^m \in Nat \ {0} /\ 2^k = 2^m + 2^m
    BY <2>5, PowerStep
  <2> QED BY <2>3, <2>6
<1>2. 2^(a + b) = 2^a * 2^b
  <2> DEFINE T == {k \in Nat : ~(2^(a + k) = 2^a * 2^k)}
  <2>1. SUFFICES ASSUME T # {} PROVE FALSE
    OBVIOUS
  <2>2. T \subseteq Nat
    OBVIOUS
  <2>3. PICK k \in T : \A y \in T : k <= y
    BY <2>1, <2>2, LeastNatural
  <2>4. k # 0
    <3>1. a + 0 = a /\ 2^0 = 1 /\ 2^a \in Int
      OBVIOUS
    <3>2. 2^(a + 0) = 2^a * 2^0
      BY <3>1
    <3> QED BY <2>3, <3>2
  <2>5. PICK m \in Nat : k = m + 1 /\ m \notin T
    <3>1. k - 1 \in Nat /\ k = (k - 1) + 1 /\ ~(k <= k - 1)
      BY <2>4
    <3> QED BY <2>3, <3>1
  <2>6. 2^(a + m) = 2^a * 2^m
    BY <2>5
  <2>7. 2^k = 2^m + 2^m /\ 2^(a + k) = 2^(a + m) + 2^(a + m)
    <3>1. a + k = (a + m) + 1 /\ a + m \in Nat
      BY <2>5
    <3> QED BY <2>5, <3>1, PowerStep
  <2>8. PICK x \in Nat, y \in Nat : x = 2^a /\ y = 2^m
    BY <1>1
  <2>9. 2^(a + k) = 2^a * 2^k
    <3>1. x * (y + y) = x * y + x * y
      OBVIOUS
    <3> QED BY <2>6, <2>7, <2>8, <3>1
  <2> QED BY <2>3, <2>9
<1> QED BY <1>1, <1>2

(* The last summand of a sum over an interval.                             *)
LEMMA SumStep ==
  ASSUME NEW a \in Int, NEW m \in Int, a <= m, NEW f \in [a..m -> Nat]
  PROVE  /\ SumFunction([i \in a..(m - 1) |-> f[i]]) \in Nat
         /\ SumFunction(f) = SumFunction([i \in a..(m - 1) |-> f[i]]) + f[m]
<1> DEFINE S == a..(m - 1)
<1>1. IsFiniteSet(S)
  <2>1. a \in Int /\ m - 1 \in Int
    OBVIOUS
  <2> QED BY <2>1, FS_Interval
<1>2. m \notin S /\ a..m = S \cup {m}
  OBVIOUS
<1>3. f \in [S \cup {m} -> Nat]
  BY <1>2
<1> HIDE DEF S
<1>4. /\ SumFunction([i \in S |-> f[i]]) \in Nat
      /\ SumFunction(f) = SumFunction([i \in S |-> f[i]]) + f[m]
  BY <1>1, <1>2, <1>3, OneMoreSummand
<1> QED BY <1>4 DEF S

(* Bounds of quotient and remainder.                                       *)
LEMMA Quotient ==
  ASSUME NEW a \in Nat, NEW b \in Nat \ {0}
  PROVE  a \div b \in Nat /\ a % b \in 0..(b - 1) /\ a = b * (a \div b) + (a % b)
  OBVIOUS

(* Where the k-th of them starts.                                          *)
StartOf(ss, k) == SumFunction([j \in 1..(k - 1) |-> Len(ss[j])])

(* Each starts where the one before ends.                                  *)
LEMMA StartSteps ==
  ASSUME NEW m \in Nat, NEW ss, \A k \in 1..m : Len(ss[k]) \in Nat
  PROVE  /\ StartOf(ss, 1) = 0
         /\ \A k \in 1..m : StartOf(ss, k) \in Nat /\ StartOf(ss, k + 1) = StartOf(ss, k) + Len(ss[k])
<1>1. StartOf(ss, 1) = 0
  <2> DEFINE f == [j \in 1..(1 - 1) |-> Len(ss[j])]
  <2>1. f \in [{} -> Nat]
    OBVIOUS
  <2> HIDE DEF f
  <2>2. SumFunction(f) = 0
    BY <2>1, NoSummands
  <2> QED BY <2>2 DEF StartOf, f
<1>2. ASSUME NEW k \in 1..m
      PROVE  StartOf(ss, k) \in Nat /\ StartOf(ss, k + 1) = StartOf(ss, k) + Len(ss[k])
  <2> DEFINE f == [j \in 1..k |-> Len(ss[j])]
             g == [j \in 1..(k - 1) |-> Len(ss[j])]
  <2>1. f \in [1..k -> Nat]
    OBVIOUS
  <2>2. [j \in 1..(k - 1) |-> f[j]] = g /\ f[k] = Len(ss[k])
    OBVIOUS
  <2>3. StartOf(ss, k) = SumFunction(g) /\ StartOf(ss, k + 1) = SumFunction(f)
    <3>1. k + 1 - 1 = k
      OBVIOUS
    <3> QED BY <3>1 DEF StartOf
  <2>4. 1 \in Int /\ k \in Int /\ 1 <= k
    OBVIOUS
  <2> HIDE DEF f, g
  <2>5. SumFunction(g) \in Nat /\ SumFunction(f) = SumFunction(g) + f[k]
    BY <2>1, <2>2, <2>4, SumStep
  <2> QED BY <2>2, <2>3, <2>5
<1> QED BY <1>1, <1>2

(* The recursion of FlattenSeq.                                            *)
Flattens(ss, m) ==
  \E f : /\ f[1] = ss[1] /\ \A i \in 2..m : f[i] = f[i - 1] \o ss[i]
         /\ FlattenSeq(ss) = f[m]

LEMMA FlattenIs ==
  ASSUME NEW T, NEW m \in Nat \ {0}, NEW ss, Len(ss) = m, \A g \in 1..m : ss[g] \in Seq(T)
  PROVE  Flattens(ss, m)
<1> DEFINE step == [e \in (1..(m - 1)) \X Seq(T) |-> e[2] \o ss[e[1] + 1]]
<1>1. step \in [(1..(m - 1)) \X Seq(T) -> Seq(T)]
  <2>1. ASSUME NEW e \in (1..(m - 1)) \X Seq(T) PROVE e[2] \o ss[e[1] + 1] \in Seq(T)
    <3>1. e[2] \in Seq(T) /\ e[1] + 1 \in 1..m
      OBVIOUS
    <3>2. ss[e[1] + 1] \in Seq(T)
      BY <3>1
    <3> QED BY <3>1, <3>2
  <2> QED BY <2>1
<1>2. \A i \in 1..(m - 1), x \in Seq(T) : step[<<i, x>>] = x \o ss[i + 1]
  OBVIOUS
<1> HIDE DEF step
<1>3. PICK h : Solves(h, m - 1, Seq(T), ss[1], step)
  <2>1. m - 1 \in Nat /\ ss[1] \in Seq(T)
    OBVIOUS
  <2> QED BY <2>1, <1>1, FiniteRecursion, Zenon
<1>4. h \in [0..(m - 1) -> Seq(T)] /\ h = [i \in 0..(m - 1) |-> IF i = 0 THEN ss[1] ELSE step[<<i, h[i - 1]>>]]
  BY <1>3 DEF Solves
<1>5. \A i \in 0..(m - 1) : h[i] = IF i = 0 THEN ss[1] ELSE step[<<i, h[i - 1]>>]
  BY <1>4, Zenon
<1> DEFINE Is(f) == f = [i \in 1..m |-> IF i = 1 THEN ss[1] ELSE f[i - 1] \o ss[i]]
           g0 == [i \in 1..m |-> h[i - 1]]
<1>6. Is(g0)
  <2>1. ASSUME NEW i \in 1..m PROVE g0[i] = IF i = 1 THEN ss[1] ELSE g0[i - 1] \o ss[i]
    <3>1. CASE i = 1
      <4>0. 0 \in 0..(m - 1)
        OBVIOUS
      <4>1. h[0] = ss[1]
        BY <3>1, <4>0, <1>5, Zenon
      <4>2. i - 1 = 0
        BY <3>1
      <4> QED BY <3>1, <4>1, <4>2
    <3>2. CASE i # 1
      <4>1. i - 1 \in 1..(m - 1) /\ i - 1 \in 0..(m - 1) /\ i - 1 \in 1..m /\ (i - 1) - 1 \in 0..(m - 1) /\ (i - 1) + 1 = i /\ i - 1 # 0
        BY <3>2
      <4>2. h[i - 1] = step[<<i - 1, h[(i - 1) - 1]>>] /\ h[(i - 1) - 1] \in Seq(T)
        BY <4>1, <1>4, <1>5
      <4>3. h[i - 1] = h[(i - 1) - 1] \o ss[i]
        BY <4>1, <4>2, <1>2
      <4>4. g0[i] = h[i - 1] /\ g0[i - 1] = h[(i - 1) - 1]
        BY <4>1
      <4> QED BY <3>2, <4>3, <4>4
    <3> QED BY <3>1, <3>2
  <2>2. g0 = [i \in 1..m |-> g0[i]]
    OBVIOUS
  <2> HIDE DEF g0
  <2>3. [i \in 1..m |-> g0[i]] = [i \in 1..m |-> IF i = 1 THEN ss[1] ELSE g0[i - 1] \o ss[i]]
    BY <2>1
  <2> QED BY <2>2, <2>3, Zenon
<1> HIDE DEF g0
<1> DEFINE f == CHOOSE x : Is(x)
<1>7. FlattenSeq(ss) = f[m]
  <2>1. FlattenSeq(ss) = (CHOOSE x : x = [i \in 1..m |-> IF i = 1 THEN ss[i] ELSE x[i - 1] \o ss[i]])[m]
    BY DEF FlattenSeq
  <2>2. ASSUME NEW x
        PROVE  [i \in 1..m |-> IF i = 1 THEN ss[i] ELSE x[i - 1] \o ss[i]]
                 = [i \in 1..m |-> IF i = 1 THEN ss[1] ELSE x[i - 1] \o ss[i]]
    OBVIOUS
  <2>3. \A x : (x = [i \in 1..m |-> IF i = 1 THEN ss[i] ELSE x[i - 1] \o ss[i]]) <=> Is(x)
    BY <2>2, Zenon
  <2>4. (CHOOSE x : x = [i \in 1..m |-> IF i = 1 THEN ss[i] ELSE x[i - 1] \o ss[i]]) = (CHOOSE x : Is(x))
    <3> HIDE DEF Is
    <3> QED BY <2>3
  <2> QED BY <2>1, <2>4
<1>8. Is(f)
  BY <1>6, Zenon
<1> HIDE DEF f
<1>9. \A i \in 1..m : f[i] = IF i = 1 THEN ss[1] ELSE f[i - 1] \o ss[i]
  BY <1>8, Zenon
<1>10. f[1] = ss[1] /\ \A i \in 2..m : f[i] = f[i - 1] \o ss[i]
  <2>1. 1 \in 1..m
    OBVIOUS
  <2>2. \A i \in 2..m : i \in 1..m /\ i # 1
    OBVIOUS
  <2> QED BY <1>9, <2>1, <2>2, Zenon
<1> QED BY <1>7, <1>10 DEF Flattens

(* The places of two sequences in their concatenation.                     *)
LEMMA Concatenated ==
  ASSUME NEW T, NEW x \in Seq(T), NEW y \in Seq(T)
  PROVE  /\ x \o y \in Seq(T) /\ Len(x \o y) = Len(x) + Len(y)
         /\ \A i \in 1..Len(x) : (x \o y)[i] = x[i]
         /\ \A i \in 1..Len(y) : (x \o y)[Len(x) + i] = y[i]
  OBVIOUS

(* Each of the sequences stands in the whole where it starts.              *)
LEMMA FlattenParts ==
  ASSUME NEW T, NEW m \in Nat, NEW ss \in Seq(Seq(T)), Len(ss) = m
  PROVE  /\ FlattenSeq(ss) \in Seq(T) /\ Len(FlattenSeq(ss)) = StartOf(ss, m + 1)
         /\ \A g \in 1..m : \A k \in 1..Len(ss[g]) :
              /\ StartOf(ss, g) + k \in 1..StartOf(ss, m + 1)
              /\ FlattenSeq(ss)[StartOf(ss, g) + k] = ss[g][k]
<1>0. Len(ss) = m /\ \A k \in 1..m : ss[k] \in Seq(T)
  OBVIOUS
<1>1. CASE m = 0
  <2>1. FlattenSeq(ss) = ss
    BY <1>0, <1>1 DEF FlattenSeq
  <2>2. ss = <<>>
    BY <1>1
  <2>3. StartOf(ss, m + 1) = 0
    <3>1. m + 1 = 1 /\ \A k \in 1..m : Len(ss[k]) \in Nat
      BY <1>1
    <3>2. StartOf(ss, 1) = 0
      BY <3>1, StartSteps, Zenon
    <3> QED BY <3>1, <3>2, Zenon
  <2>4. FlattenSeq(ss) \in Seq(T) /\ Len(FlattenSeq(ss)) = 0 /\ 1..m = {}
    <3>1. <<>> \in Seq(T) /\ Len(<<>>) = 0
      OBVIOUS
    <3>2. 1..m = {}
      BY <1>1
    <3> QED BY <2>1, <2>2, <3>1, <3>2, Zenon
  <2> QED BY <2>3, <2>4
<1>2. CASE m # 0
  <2>1. PICK f : f[1] = ss[1] /\ (\A i \in 2..m : f[i] = f[i - 1] \o ss[i]) /\ FlattenSeq(ss) = f[m]
    <3>1. m \in Nat \ {0}
      BY <1>2
    <3>2. Flattens(ss, m)
      BY <1>0, <3>1, FlattenIs, Zenon
    <3> QED BY <3>2 DEF Flattens
  <2>2. /\ StartOf(ss, 1) = 0
        /\ \A k \in 1..m : StartOf(ss, k) \in Nat /\ StartOf(ss, k + 1) = StartOf(ss, k) + Len(ss[k])
    <3>1. \A k \in 1..m : Len(ss[k]) \in Nat
      BY <1>0
    <3> QED BY <3>1, StartSteps, Zenon
  <2> DEFINE Good(i) ==
               /\ f[i] \in Seq(T) /\ Len(f[i]) = StartOf(ss, i + 1)
               /\ \A g \in 1..i : \A k \in 1..Len(ss[g]) :
                    StartOf(ss, g) + k \in 1..StartOf(ss, i + 1) /\ f[i][StartOf(ss, g) + k] = ss[g][k]
             C == {i \in 1..m : ~Good(i)}
  <2> HIDE DEF Good
  <2>3. C = {}
    <3>1. SUFFICES ASSUME C # {} PROVE FALSE
      OBVIOUS
    <3>2. C \subseteq Nat
      OBVIOUS
    <3>3. PICK i \in C : \A y \in C : i <= y
      BY <3>1, <3>2, LeastNatural
    <3>4. CASE i = 1
      <4>1. f[1] \in Seq(T) /\ Len(f[1]) = StartOf(ss, 1 + 1) /\ StartOf(ss, 1) + Len(ss[1]) = StartOf(ss, 1 + 1)
        BY <2>1, <2>2, <1>2
      <4>2. ASSUME NEW g \in 1..1, NEW k \in 1..Len(ss[g])
            PROVE  StartOf(ss, g) + k \in 1..StartOf(ss, 1 + 1) /\ f[1][StartOf(ss, g) + k] = ss[g][k]
        <5>1. g = 1 /\ StartOf(ss, g) + k = k
          BY <2>2
        <5>2. Len(ss[1]) \in Nat
          BY <1>2
        <5> QED BY <2>1, <2>2, <4>1, <5>1, <5>2
      <4>3. Good(1)
        BY <4>1, <4>2 DEF Good
      <4> QED BY <3>3, <3>4, <4>3
    <3>5. CASE i # 1
      <4>1. i \in 2..m /\ i - 1 \in 1..m /\ i \in 1..m /\ (i - 1) + 1 = i
        BY <3>3, <3>5
      <4>2. Good(i - 1)
        <5>1. ~(i <= i - 1)
          BY <4>1
        <5> QED BY <3>3, <4>1, <5>1
      <4>3. PICK a \in Seq(T), b \in Seq(T) : a = f[i - 1] /\ b = ss[i]
        BY <4>1, <4>2 DEF Good
      <4>4. PICK n \in Nat : n = Len(a) /\ n = StartOf(ss, i) /\ StartOf(ss, i + 1) = n + Len(b)
        BY <2>2, <4>1, <4>2, <4>3 DEF Good
      <4>5. f[i] = a \o b
        BY <2>1, <4>1, <4>3
      <4>c. /\ a \o b \in Seq(T) /\ Len(a \o b) = Len(a) + Len(b)
            /\ \A x \in 1..Len(a) : (a \o b)[x] = a[x]
            /\ \A x \in 1..Len(b) : (a \o b)[Len(a) + x] = b[x]
        BY Concatenated
      <4>6. f[i] \in Seq(T) /\ Len(f[i]) = StartOf(ss, i + 1)
        BY <4>4, <4>5, <4>c, Zenon
      <4>7. ASSUME NEW g \in 1..i, NEW k \in 1..Len(ss[g])
            PROVE  StartOf(ss, g) + k \in 1..StartOf(ss, i + 1) /\ f[i][StartOf(ss, g) + k] = ss[g][k]
        <5>0. Len(b) \in Nat
          OBVIOUS
        <5>1. CASE g = i
          <6>1. k \in 1..Len(b) /\ n + k \in 1..(n + Len(b))
            BY <4>3, <5>0, <5>1
          <6>2. (a \o b)[n + k] = b[k]
            BY <4>4, <4>c, <6>1, Zenon
          <6> QED BY <4>3, <4>4, <4>5, <5>1, <6>1, <6>2
        <5>2. CASE g # i
          <6>1. g \in 1..(i - 1)
            BY <5>2, <4>1
          <6>2. PICK x : x = StartOf(ss, g) + k
            OBVIOUS
          <6>3. x \in 1..n /\ a[x] = ss[g][k]
            BY <4>1, <4>2, <4>3, <4>4, <6>1, <6>2 DEF Good
          <6>4. (a \o b)[x] = a[x]
            BY <4>4, <4>c, <6>3, Zenon
          <6>5. x \in 1..(n + Len(b))
            BY <6>3, <5>0
          <6> QED BY <4>4, <4>5, <6>2, <6>3, <6>4, <6>5
        <5> QED BY <5>1, <5>2
      <4>8. Good(i)
        BY <4>6, <4>7 DEF Good
      <4> QED BY <3>3, <4>8
    <3> QED BY <3>4, <3>5
  <2>4. Good(m)
    <3>1. m \in 1..m
      BY <1>2
    <3> QED BY <2>3, <3>1
  <2> QED BY <2>1, <2>4 DEF Good
<1> QED BY <1>1, <1>2

(* s is a sequence of n values, of whatever kind.                          *)
IsSequence(s, n) == \E T : s \in Seq(T) /\ Len(s) = n

LEMMA ListIsSequence ==
  ASSUME NEW n \in Nat, NEW s, s = [k \in 1..n |-> s[k]] PROVE IsSequence(s, n)
<1> DEFINE T == {s[k] : k \in 1..n}
<1>1. s \in [1..n -> T]
  <2>1. \A k \in 1..n : s[k] \in T
    OBVIOUS
  <2> HIDE DEF T
  <2> QED BY <2>1
<1> HIDE DEF T
<1>2. s \in Seq(T) /\ Len(s) = n
  BY <1>1
<1> QED BY <1>2 DEF IsSequence

LEMMA SequenceOver ==
  ASSUME NEW T, NEW U, T \subseteq U, NEW s \in Seq(T) PROVE s \in Seq(U)
  OBVIOUS

LEMMA JoinedSequence ==
  ASSUME NEW x, NEW y, NEW n \in Nat, NEW m \in Nat, IsSequence(x, n), IsSequence(y, m)
  PROVE  IsSequence(x \o y, n + m)
<1>1. PICK T : x \in Seq(T) /\ Len(x) = n
  BY DEF IsSequence
<1>2. PICK U : y \in Seq(U) /\ Len(y) = m
  BY DEF IsSequence
<1> DEFINE V == T \cup U
<1>3. T \subseteq V /\ U \subseteq V
  OBVIOUS
<1> HIDE DEF V
<1>4. x \in Seq(V) /\ y \in Seq(V)
  BY <1>1, <1>2, <1>3, SequenceOver
<1>5. x \o y \in Seq(V) /\ Len(x \o y) = n + m
  BY <1>1, <1>2, <1>4, Concatenated
<1> QED BY <1>5 DEF IsSequence

(* The whole is as long as its parts together.                             *)
LEMMA FlattenedSequence ==
  ASSUME NEW m \in Nat, NEW ss, ss = [k \in 1..m |-> ss[k]],
         NEW n, \A k \in 1..m : n[k] \in Nat /\ IsSequence(ss[k], n[k])
  PROVE  IsSequence(FlattenSeq(ss), SumFunction([k \in 1..m |-> n[k]]))
<1> DEFINE V == UNION {{ss[k][i] : i \in 1..n[k]} : k \in 1..m}
<1>1. ASSUME NEW k \in 1..m PROVE ss[k] \in Seq(V) /\ Len(ss[k]) = n[k]
  <2>1. PICK T : ss[k] \in Seq(T) /\ Len(ss[k]) = n[k]
    BY DEF IsSequence
  <2>2. ss[k] = [i \in 1..n[k] |-> ss[k][i]]
    BY <2>1
  <2>3. \A i \in 1..n[k] : ss[k][i] \in V
    OBVIOUS
  <2> HIDE DEF V
  <2>4. ss[k] \in [1..n[k] -> V]
    BY <2>2, <2>3
  <2>5. PICK l \in Nat : l = n[k]
    OBVIOUS
  <2>6. ss[k] \in Seq(V)
    <3>1. ss[k] \in [1..l -> V]
      BY <2>4, <2>5
    <3> QED BY <3>1
  <2> QED BY <2>1, <2>6
<1> HIDE DEF V
<1>2. ss \in Seq(Seq(V)) /\ Len(ss) = m
  <2>1. ss \in [1..m -> Seq(V)]
    BY <1>1
  <2> QED BY <2>1
<1>3. FlattenSeq(ss) \in Seq(V) /\ Len(FlattenSeq(ss)) = StartOf(ss, m + 1)
  BY <1>2, FlattenParts
<1>4. StartOf(ss, m + 1) = SumFunction([k \in 1..m |-> n[k]])
  <2>1. m + 1 - 1 = m
    OBVIOUS
  <2>2. [j \in 1..m |-> Len(ss[j])] = [k \in 1..m |-> n[k]]
    BY <1>1
  <2>3. PICK e : e = m + 1
    OBVIOUS
  <2>4. e - 1 = m
    BY <2>3
  <2>5. StartOf(ss, e) = SumFunction([j \in 1..(e - 1) |-> Len(ss[j])])
    BY DEF StartOf
  <2>6. StartOf(ss, m + 1) = SumFunction([j \in 1..m |-> Len(ss[j])])
    BY <2>3, <2>4, <2>5, Zenon
  <2> QED BY <2>2, <2>6, Zenon
<1> QED BY <1>3, <1>4 DEF IsSequence

(* A sum of equal summands.                                                *)
LEMMA SumOfEqual ==
  ASSUME NEW m \in Nat, NEW n \in Nat PROVE SumFunction([k \in 1..m |-> n]) = m * n
<1> DEFINE Holds(k) == SumFunction([i \in 1..k |-> n]) = k * n
           C == {k \in Nat : ~Holds(k)}
<1>1. SUFFICES C = {}
  OBVIOUS
<1> HIDE DEF Holds
<1>2. SUFFICES ASSUME C # {} PROVE FALSE
  OBVIOUS
<1>3. PICK k \in C : \A y \in C : k <= y
  <2>1. C \subseteq Nat
    OBVIOUS
  <2> HIDE DEF C
  <2> QED BY <2>1, <1>2, LeastNatural
<1>4. CASE k = 0
  <2> DEFINE f == [i \in 1..0 |-> n]
  <2>1. f \in [{} -> Nat]
    OBVIOUS
  <2> HIDE DEF f
  <2>2. SumFunction(f) = 0
    BY <2>1, NoSummands
  <2>3. 0 * n = 0
    OBVIOUS
  <2>4. Holds(0)
    BY <2>2, <2>3 DEF Holds, f
  <2> QED BY <1>3, <1>4, <2>4
<1>5. CASE k # 0
  <2>1. k \in Nat /\ k - 1 \in Nat /\ 1 <= k /\ ~(k <= k - 1)
    BY <1>3, <1>5
  <2>2. Holds(k - 1)
    BY <1>3, <2>1
  <2> DEFINE f == [i \in 1..k |-> n]
  <2>3. f \in [1..k -> Nat] /\ f[k] = n /\ [i \in 1..(k - 1) |-> f[i]] = [i \in 1..(k - 1) |-> n]
    BY <2>1
  <2> HIDE DEF f
  <2>4. SumFunction(f) = SumFunction([i \in 1..(k - 1) |-> f[i]]) + f[k]
    <3>1. 1 \in Int /\ k \in Int
      BY <2>1
    <3> QED BY <2>1, <2>3, <3>1, SumStep
  <2>5. SumFunction(f) = (k - 1) * n + n
    BY <2>2, <2>3, <2>4 DEF Holds
  <2>6. (k - 1) * n + n = k * n
    BY <2>1
  <2>7. Holds(k)
    BY <2>5, <2>6 DEF Holds, f
  <2> QED BY <1>3, <2>7
<1> QED BY <1>4, <1>5

(* A common factor of the summands.                                        *)
InProportion(m, f, g, a, n) == \A k \in 1..m : a * f[k] = n * g[k]

LEMMA ScaledSum ==
  ASSUME NEW m \in Nat, NEW f \in [1..m -> Nat], NEW g \in [1..m -> Nat],
         NEW a \in Nat, NEW n \in Nat, InProportion(m, f, g, a, n)
  PROVE  a * SumFunction(f) = n * SumFunction(g)
<1> DEFINE upto(h, k) == SumFunction([i \in 1..k |-> h[i]])
           Holds(k) == a * upto(f, k) = n * upto(g, k) /\ upto(f, k) \in Nat /\ upto(g, k) \in Nat
           C == {k \in 0..m : ~Holds(k)}
<1>1. ASSUME NEW h \in [1..m -> Nat], NEW k \in 1..m
      PROVE  upto(h, k - 1) \in Nat /\ upto(h, k) = upto(h, k - 1) + h[k]
  <2> DEFINE r == [i \in 1..k |-> h[i]]
  <2>1. r \in [1..k -> Nat] /\ r[k] = h[k] /\ [i \in 1..(k - 1) |-> r[i]] = [i \in 1..(k - 1) |-> h[i]]
    <3>1. \A i \in 1..k : i \in 1..m /\ h[i] \in Nat
      OBVIOUS
    <3>2. k \in 1..k /\ \A i \in 1..(k - 1) : i \in 1..k
      OBVIOUS
    <3> QED BY <3>1, <3>2
  <2>2. 1 \in Int /\ k \in Int /\ 1 <= k
    OBVIOUS
  <2> HIDE DEF r
  <2>3. SumFunction([i \in 1..(k - 1) |-> r[i]]) \in Nat /\ SumFunction(r) = SumFunction([i \in 1..(k - 1) |-> r[i]]) + r[k]
    BY <2>1, <2>2, SumStep
  <2> QED BY <2>1, <2>3 DEF r
<1>2. ASSUME NEW h \in [1..m -> Nat] PROVE upto(h, 0) = 0
  <2> DEFINE r == [i \in 1..0 |-> h[i]]
  <2>1. r \in [{} -> Nat]
    OBVIOUS
  <2> HIDE DEF r
  <2>2. SumFunction(r) = 0
    BY <2>1, NoSummands
  <2> QED BY <2>2 DEF r
<1>3. upto(f, m) = SumFunction(f) /\ upto(g, m) = SumFunction(g)
  <2>1. [i \in 1..m |-> f[i]] = f /\ [i \in 1..m |-> g[i]] = g
    OBVIOUS
  <2> QED BY <2>1
<1> HIDE DEF upto
<1>4. C = {}
  <2>1. SUFFICES ASSUME C # {} PROVE FALSE
    OBVIOUS
  <2>2. C \subseteq Nat
    OBVIOUS
  <2>3. PICK k \in C : \A y \in C : k <= y
    <3> HIDE DEF C
    <3> QED BY <2>1, <2>2, LeastNatural
  <2>4. k # 0
    <3>1. a * 0 = n * 0
      OBVIOUS
    <3>2. upto(f, 0) = 0 /\ upto(g, 0) = 0
      BY <1>2
    <3>3. a * upto(f, 0) = n * upto(g, 0)
      BY <3>1, <3>2, Zenon
    <3>4. Holds(0)
      BY <3>2, <3>3
    <3> QED BY <2>3, <3>4
  <2>5. k \in 1..m /\ k - 1 \in 0..m /\ ~(k <= k - 1)
    BY <2>3, <2>4
  <2>6. Holds(k - 1)
    BY <2>3, <2>5
  <2>7. PICK u \in Nat, v \in Nat : u = upto(f, k - 1) /\ v = upto(g, k - 1) /\ a * u = n * v
    BY <2>6
  <2>8. upto(f, k) = u + f[k] /\ upto(g, k) = v + g[k] /\ a * f[k] = n * g[k] /\ f[k] \in Nat /\ g[k] \in Nat
    BY <1>1, <2>5, <2>7 DEF InProportion
  <2>9. a * (u + f[k]) = n * (v + g[k])
    <3>1. PICK fk \in Nat, gk \in Nat : fk = f[k] /\ gk = g[k] /\ a * fk = n * gk
      BY <2>8
    <3>2. a * (u + fk) = a * u + a * fk /\ n * (v + gk) = n * v + n * gk
      OBVIOUS
    <3> QED BY <2>7, <3>1, <3>2
  <2>10. Holds(k)
    <3>1. a * upto(f, k) = n * upto(g, k)
      BY <2>8, <2>9, Zenon
    <3>2. upto(f, k) \in Nat /\ upto(g, k) \in Nat
      <4>1. PICK x \in Nat, y \in Nat : x = f[k] /\ y = g[k]
        BY <2>8
      <4>2. u + x \in Nat /\ v + y \in Nat
        OBVIOUS
      <4> QED BY <2>8, <4>1, <4>2, Zenon
    <3> QED BY <3>1, <3>2
  <2> QED BY <2>3, <2>10
<1>5. Holds(m)
  <2>1. m \in 0..m
    OBVIOUS
  <2> QED BY <1>4, <2>1
<1> QED BY <1>3, <1>5

(* Whole bytes.                                                            *)
LEMMA PlanesLength ==
  ASSUME NEW bits \in Nat, NEW n \in Nat, NEW data, Len(data) = n
  PROVE  IsSequence(planes(bits, data), (bits \div 8) * n)
<1>1. PICK m \in Nat : m = bits \div 8
  BY Quotient
<1> DEFINE plane(i) == [k \in 1..n |-> bits_of(data[k], 8 * (i - 1), 8)]
           ss == [i \in 1..m |-> plane(i)]
           c == [i \in 1..m |-> n]
<1>2. \A i \in 1..m : IsSequence(plane(i), n)
  BY ListIsSequence
<1> HIDE DEF plane
<1>3. ss = [i \in 1..m |-> ss[i]] /\ \A i \in 1..m : c[i] \in Nat /\ IsSequence(ss[i], c[i])
  BY <1>2
<1>4. [i \in 1..m |-> c[i]] = c
  OBVIOUS
<1> HIDE DEF ss, c
<1>5. IsSequence(FlattenSeq(ss), SumFunction(c))
  BY <1>3, <1>4, FlattenedSequence
<1>6. SumFunction(c) = m * n
  BY SumOfEqual DEF c
<1>7. planes(bits, data) = FlattenSeq(ss)
  BY <1>1 DEF planes, ss, plane
<1> QED BY <1>1, <1>5, <1>6, <1>7

(* A fragment of w bits: 8 / w values to a byte.                           *)
LEMMA FragmentLength ==
  ASSUME NEW bits, NEW n \in Nat, NEW data, Len(data) = n,
         NEW w, NEW per \in Nat \ {0}, 8 \div w = per
  PROVE  fragment_bytes(bits, w, n) \in Nat /\ IsSequence(fragments(bits, w, data), fragment_bytes(bits, w, n))
<1>1. PICK m \in Nat : m = n \div per
  BY Quotient
<1>2. CASE has_fragment(bits, w)
  <2>1. fragment_bytes(bits, w, n) = m
    BY <1>1, <1>2 DEF fragment_bytes
  <2> DEFINE s == packed(bits, w, data)
  <2>2. s = [c \in 1..m |-> s[c]]
    BY <1>1 DEF packed
  <2> HIDE DEF s
  <2>3. IsSequence(s, m)
    BY <2>2, ListIsSequence
  <2> QED BY <1>2, <2>1, <2>3 DEF fragments, s
<1>3. CASE ~has_fragment(bits, w)
  <2>1. fragment_bytes(bits, w, n) = 0 /\ fragments(bits, w, data) = <<>>
    BY <1>3 DEF fragments, fragment_bytes
  <2>2. <<>> \in Seq({}) /\ Len(<<>>) = 0
    OBVIOUS
  <2> QED BY <2>1, <2>2 DEF IsSequence
<1> QED BY <1>2, <1>3

(* A section is as long as its reader takes it to be.                      *)
LEMMA CondenseLength ==
  ASSUME NEW bits \in Nat, NEW n \in Nat, NEW data, Len(data) = n
  PROVE  taken(bits, n) \in Nat /\ IsSequence(condense(bits, data), taken(bits, n))
<1>1. 8 \div 4 = 2 /\ 8 \div 2 = 4 /\ 8 \div 1 = 8
  OBVIOUS
<1> DEFINE f(w) == fragment_bytes(bits, w, n)
           s(w) == fragments(bits, w, data)
           whole == (bits \div 8) * n
<1>2. /\ f(4) \in Nat /\ IsSequence(s(4), f(4))
      /\ f(2) \in Nat /\ IsSequence(s(2), f(2))
      /\ f(1) \in Nat /\ IsSequence(s(1), f(1))
  <2>1. 2 \in Nat \ {0} /\ 4 \in Nat \ {0} /\ 8 \in Nat \ {0}
    OBVIOUS
  <2> QED BY <1>1, <2>1, FragmentLength
<1>3. whole \in Nat /\ IsSequence(planes(bits, data), whole)
  <2>1. PICK m \in Nat : m = bits \div 8
    BY Quotient
  <2>2. IsSequence(planes(bits, data), whole)
    BY PlanesLength
  <2>3. m * n \in Nat
    OBVIOUS
  <2> QED BY <2>1, <2>2, <2>3
<1> HIDE DEF whole, f, s
<1>4. IsSequence(planes(bits, data) \o s(4), whole + f(4)) /\ whole + f(4) \in Nat
  BY <1>2, <1>3, JoinedSequence
<1>5. IsSequence(planes(bits, data) \o s(4) \o s(2), whole + f(4) + f(2)) /\ whole + f(4) + f(2) \in Nat
  BY <1>2, <1>4, JoinedSequence
<1>6. IsSequence(planes(bits, data) \o s(4) \o s(2) \o s(1), whole + f(4) + f(2) + f(1)) /\ whole + f(4) + f(2) + f(1) \in Nat
  BY <1>2, <1>5, JoinedSequence
<1> QED BY <1>6 DEF taken, condense, whole, f, s

(* The binary digits of bits % 8.                                          *)
LEMMA TakenBits ==
  ASSUME NEW bits \in Nat, NEW n \in Nat, n % 8 = 0 PROVE 8 * taken(bits, n) = n * bits
<1>1. PICK h \in Nat : n = 8 * h
  BY Quotient
<1>2. PICK d \in Nat, e \in 0..7 : bits = 8 * d + e /\ d = bits \div 8
  BY Quotient
<1>3. n \div 2 = 4 * h /\ n \div 4 = 2 * h /\ n \div 8 = h
  BY <1>1
<1>4. 8 \div 4 = 2 /\ 8 \div 2 = 4 /\ 8 \div 1 = 8 /\ 2 * 4 = 8 /\ 2 * 2 = 4 /\ 2 * 1 = 2
  OBVIOUS
<1> DEFINE f(w) == fragment_bytes(bits, w, n)
<1>5. bits % 8 = e /\ bits % 4 = e % 4 /\ bits % 2 = e % 2
  BY <1>2
<1>6. f(4) = IF e >= 4 THEN 4 * h ELSE 0
  BY <1>3, <1>4, <1>5 DEF fragment_bytes, has_fragment
<1>7. f(2) = IF e % 4 >= 2 THEN 2 * h ELSE 0
  BY <1>3, <1>4, <1>5 DEF fragment_bytes, has_fragment
<1>8. f(1) = IF e % 2 >= 1 THEN h ELSE 0
  BY <1>3, <1>4, <1>5 DEF fragment_bytes, has_fragment
<1>9. f(4) + f(2) + f(1) = e * h
  <2>1. e = 0 \/ e = 1 \/ e = 2 \/ e = 3 \/ e = 4 \/ e = 5 \/ e = 6 \/ e = 7
    BY <1>2
  <2> HIDE DEF f
  <2> QED BY <2>1, <1>6, <1>7, <1>8
<1>10. taken(bits, n) = d * n + f(4) + f(2) + f(1)
  BY <1>2 DEF taken
<1>11. f(4) \in Nat /\ f(2) \in Nat /\ f(1) \in Nat
  <2> HIDE DEF f
  <2> QED BY <1>6, <1>7, <1>8
<1> HIDE DEF f
<1>12. taken(bits, n) = d * n + e * h
  <2>1. d * n \in Nat
    BY <1>2
  <2> QED BY <1>9, <1>10, <1>11, <2>1
<1>13. 8 * (d * n + e * h) = n * bits
  <2>1. n * bits = 8 * (h * (8 * d + e))
    BY <1>1, <1>2
  <2>2. h * (8 * d + e) = 8 * (h * d) + e * h /\ d * (8 * h) = 8 * (h * d)
    BY <1>1, <1>2
  <2> QED BY <1>1, <1>2, <2>1, <2>2
<1> QED BY <1>12, <1>13

LEMMA DegreeIsNatural == N \in Nat \ {0}
<1>1. LOG2_N \in Nat
  BY BfvAssumption
<1> QED BY <1>1, PowerSum DEF N

(* Nothing between two queries and as many bytes as the sections come to   *)
(* while one travels.                                                      *)
WireInv ==
  \/ stream = <<>>
  \/ \E m \in Nat :
       /\ sections = [k \in 1..m |-> sections[k]]
       /\ \A k \in 1..m : sections[k].bits \in Nat
       /\ stream = to_wire(sections)

(* Of a stream of sections.                                                *)
LEMMA StreamLength ==
  ASSUME NEW n \in Nat, n % 8 = 0, NEW m \in Nat, NEW secs, secs = [k \in 1..m |-> secs[k]],
         \A k \in 1..m : secs[k].bits \in Nat /\ Len(secs[k].data) = n
  PROVE  LET widths == [k \in 1..m |-> secs[k].bits]
             sent == packed_stream(secs)
         IN  /\ Len(sent) = section_start(widths, n, m + 1)
             /\ 8 * Len(sent) = n * SumFunction(widths)
<1> DEFINE widths == [k \in 1..m |-> secs[k].bits]
           ss == [k \in 1..m |-> condense(secs[k].bits, secs[k].data)]
           len == [k \in 1..m |-> taken(widths[k], n)]
<1>1. \A k \in 1..m : len[k] \in Nat /\ IsSequence(ss[k], len[k])
  BY CondenseLength
<1>2. ss = [k \in 1..m |-> ss[k]] /\ len = [k \in 1..m |-> len[k]] /\ len \in [1..m -> Nat]
  BY <1>1
<1>3. packed_stream(secs) = FlattenSeq(ss)
  <2>1. DOMAIN secs = 1..m
    OBVIOUS
  <2> QED BY <2>1 DEF packed_stream
<1>4. PICK z : z = section_start(widths, n, m + 1) /\ z = SumFunction(len)
  <2>1. PICK e : e = m + 1
    OBVIOUS
  <2>2. e - 1 = m
    BY <2>1
  <2>3. section_start(widths, n, e) = SumFunction([j \in 1..(e - 1) |-> taken(widths[j], n)])
    BY DEF section_start
  <2> QED BY <2>1, <2>2, <2>3, Zenon
<1>5. \A k \in 1..m : 8 * len[k] = n * widths[k] /\ widths[k] \in Nat
  BY TakenBits
<1> HIDE DEF ss, len
<1>6. IsSequence(FlattenSeq(ss), SumFunction(len))
  BY <1>1, <1>2, FlattenedSequence
<1>7. Len(packed_stream(secs)) = SumFunction(len)
  BY <1>3, <1>6 DEF IsSequence
<1>9. widths \in [1..m -> Nat] /\ len \in [1..m -> Nat]
  BY <1>2
<1> HIDE DEF widths
<1>8. 8 * SumFunction(len) = n * SumFunction(widths)
  <2>1. 8 \in Nat /\ \A k \in 1..m : 8 * len[k] = n * widths[k]
    BY <1>5
  <2>2. PICK a \in Nat : a = 8
    OBVIOUS
  <2>3. InProportion(m, len, widths, a, n)
    BY <2>1, <2>2, Zenon DEF InProportion
  <2>4. a * SumFunction(len) = n * SumFunction(widths)
    <3>1. \A f, g \in [1..m -> Nat] :
            \A c, d \in Nat : InProportion(m, f, g, c, d) => c * SumFunction(f) = d * SumFunction(g)
      BY ScaledSum, Zenon
    <3>2. \A g \in [1..m -> Nat] :
            \A c, d \in Nat : InProportion(m, len, g, c, d) => c * SumFunction(len) = d * SumFunction(g)
      BY <1>9, <3>1, Zenon
    <3> QED BY <1>9, <2>3, <3>2, Zenon
  <2> QED BY <2>2, <2>4, Zenon
<1> QED BY <1>4, <1>7, <1>8 DEF widths

(* What is sent is one byte after the other, section by section.           *)
LEMMA SentLength ==
  ASSUME NEW m \in Nat, NEW secs, secs = [k \in 1..m |-> secs[k]], \A k \in 1..m : secs[k].bits \in Nat
  PROVE  LET widths == [k \in 1..m |-> secs[k].bits]
         IN  /\ Len(to_wire(secs)) = section_start(widths, N, m + 1)
             /\ 8 * Len(to_wire(secs)) = N * SumFunction(widths)
<1> DEFINE widths == [k \in 1..m |-> secs[k].bits]
           data(k) == coefficient_seq(mod_switch_encode(secs[k].bits, secs[k].el))
           ss == [k \in 1..m |-> [bits |-> secs[k].bits, data |-> data(k)]]
<1>1. N \in Nat /\ N % 8 = 0
  BY DegreeIsNatural, WireAssumption
<1>2. \A k \in 1..m : Len(data(k)) = N
  <2>1. ASSUME NEW k \in 1..m PROVE Len(data(k)) = N
    <3>1. PICK x : x = mod_switch_encode(secs[k].bits, secs[k].el)
      OBVIOUS
    <3>2. Len(coefficient_seq(x)) = N
      BY <1>1 DEF coefficient_seq
    <3> QED BY <3>1, <3>2
  <2> QED BY <2>1
<1>3. to_wire(secs) = packed_stream(ss)
  <2>1. DOMAIN secs = 1..m
    OBVIOUS
  <2> QED BY <2>1 DEF to_wire
<1> HIDE DEF data
<1>4. ss = [k \in 1..m |-> ss[k]] /\ \A k \in 1..m : ss[k].bits \in Nat /\ Len(ss[k].data) = N
  BY <1>2
<1>5. [k \in 1..m |-> ss[k].bits] = widths
  OBVIOUS
<1> HIDE DEF ss
<1>6. /\ Len(packed_stream(ss)) = section_start([k \in 1..m |-> ss[k].bits], N, m + 1)
      /\ 8 * Len(packed_stream(ss)) = N * SumFunction([k \in 1..m |-> ss[k].bits])
  BY <1>1, <1>4, StreamLength
<1> QED BY <1>3, <1>5, <1>6

(* The lists of widths.                                                    *)
LEMMA QueryWidths ==
  \E m \in Nat : DOMAIN query_widths = 1..m /\ \A k \in 1..m : query_widths[k] \in Nat
<1>1. Len(query_loops) \in Nat
  BY DEF query_loops
<1>2. GK_DIGITS + Len(query_loops) \in Nat
  BY <1>1, TransformAssumption
<1> QED BY <1>2, WidthAssumption DEF query_widths

LEMMA WireStep ==
  ASSUME WireInv, [Next]_vars
  PROVE  WireInv'
<1>1. CASE stream' = <<>>
  BY <1>1 DEF WireInv
<1>2. CASE UNCHANGED <<sections, stream>>
  BY <1>2 DEF WireInv, to_wire
<1>3. CASE prepare_query
  <2>1. PICK m \in Nat : DOMAIN query_widths = 1..m /\ \A k \in 1..m : query_widths[k] \in Nat
    BY QueryWidths
  <2>2. \E el : sections' = [k \in DOMAIN query_widths |-> [bits |-> query_widths[k], el |-> el[k]]]
    <3>1. PICK s \in Keys, idx \in Columns(grp), n \in NoiseChoices :
            LET sk == small(s)
                seed(x) == get_qry_seeds(use_seeds)[x]
                qry(x) == enc_sym_b(seed(x), sk, monomial(t, selector(x, idx)), Noise(n, seed(x)))
                gk(k) == gen_gk_b(get_gk_seeds[k], sk, gen_H, B, k - 1, Noise(n, get_gk_seeds[k]))
            IN  /\ client' = [sk |-> sk, idx |-> idx]
                /\ sections' = [k \in DOMAIN query_widths |->
                     [bits |-> query_widths[k],
                      el |-> IF k <= GK_DIGITS THEN gk(k) ELSE qry(query_loops[k - GK_DIGITS])]]
      BY <1>3, Zenon DEF prepare_query
    <3> DEFINE sk == small(s)
               seed(x) == get_qry_seeds(use_seeds)[x]
               qry(x) == enc_sym_b(seed(x), sk, monomial(t, selector(x, idx)), Noise(n, seed(x)))
               gk(k) == gen_gk_b(get_gk_seeds[k], sk, gen_H, B, k - 1, Noise(n, get_gk_seeds[k]))
               el == [k \in DOMAIN query_widths |-> IF k <= GK_DIGITS THEN gk(k) ELSE qry(query_loops[k - GK_DIGITS])]
    <3> HIDE DEF sk, seed, qry, gk
    <3>2. sections' = [k \in DOMAIN query_widths |->
            [bits |-> query_widths[k], el |-> IF k <= GK_DIGITS THEN gk(k) ELSE qry(query_loops[k - GK_DIGITS])]]
      BY <3>1 DEF sk, seed, qry, gk
    <3>3. sections' = [k \in DOMAIN query_widths |-> [bits |-> query_widths[k], el |-> el[k]]]
      BY <3>2
    <3> QED BY <3>3
  <2>3. sections' = [k \in 1..m |-> sections'[k]] /\ \A k \in 1..m : sections'[k].bits \in Nat
    BY <2>1, <2>2
  <2>4. stream' = to_wire(sections')
    BY <1>3 DEF prepare_query
  <2> QED BY <2>3, <2>4 DEF WireInv, to_wire
<1>4. CASE send_reply
  <2>1. sections' = [k \in 1..2 |-> [bits |-> reply_widths[k], el |-> reply[k]]]
    <3>1. {1, 2} = 1..2
      OBVIOUS
    <3> QED BY <1>4, <3>1 DEF send_reply, reply_sections
  <2>2. sections' = [k \in 1..2 |-> sections'[k]] /\ \A k \in 1..2 : sections'[k].bits \in Nat
    BY <2>1, WidthAssumption DEF reply_widths
  <2>3. stream' = to_wire(sections') /\ 2 \in Nat
    BY <1>4 DEF send_reply
  <2> QED BY <2>2, <2>3 DEF WireInv, to_wire
<1>5. CASE store_parts \/ next_call
  BY <1>1, <1>5 DEF store_parts, next_call
<1>6. CASE set_transformed_entries \/ preprocess \/ process_query \/ perform_pir \/ process_reply
  BY <1>2, <1>6 DEF set_transformed_entries, preprocess, process_query, perform_pir, process_reply, wirevars
<1>7. CASE \E x \in Loops(grp) : preprocess_loop(x) \/ main_pir_loop(x)
  BY <1>2, <1>7 DEF preprocess_loop, main_pir_loop, wirevars
<1>8. CASE UNCHANGED vars
  BY <1>2, <1>8 DEF vars, wirevars
<1> QED BY <1>3, <1>4, <1>5, <1>6, <1>7, <1>8 DEF Next

LEMMA WireInvGivesLength ==
  ASSUME WireInv PROVE StreamLengthExact
<1>1. SUFFICES ASSUME stream # <<>>
      PROVE  LET widths == [k \in DOMAIN sections |-> sections[k].bits]
             IN  /\ 8 * Len(stream) = N * SumFunction(widths)
                 /\ Len(stream) = section_start(widths, N, Len(widths) + 1)
  BY DEF StreamLengthExact
<1>2. PICK m \in Nat : /\ sections = [k \in 1..m |-> sections[k]]
                       /\ \A k \in 1..m : sections[k].bits \in Nat
                       /\ stream = to_wire(sections)
  BY <1>1 DEF WireInv
<1> DEFINE widths == [k \in 1..m |-> sections[k].bits]
<1>3. [k \in DOMAIN sections |-> sections[k].bits] = widths /\ Len(widths) = m
  BY <1>2
<1> HIDE DEF widths
<1>4. Len(to_wire(sections)) = section_start(widths, N, m + 1) /\ 8 * Len(to_wire(sections)) = N * SumFunction(widths)
  BY <1>2, SentLength DEF widths
<1> QED BY <1>2, <1>3, <1>4

(* For every degree, width, database and query, the stream is as long as   *)
(* its sections are wide (the debug assertion of condense), and its reader *)
(* comes to its end with the last of them.                                 *)
THEOREM StreamsAreExact == Spec => []StreamLengthExact
<1>1. Init => WireInv
  BY DEF Init, WireInv
<1>2. WireInv /\ [Next]_vars => WireInv'
  BY WireStep
<1>3. WireInv => StreamLengthExact
  BY WireInvGivesLength
<1> QED BY <1>1, <1>2, <1>3, PTL DEF Spec

=============================================================================
