------------------------------- MODULE Permute -------------------------------
(***************************************************************************)
(* Permuting a vector in place (permute.rs).  Both directions follow each  *)
(* cycle of the permutation by swaps and mark the positions they have      *)
(* visited.  One step is one turn of a loop.  The values are never looked  *)
(* at, so it is enough that they can be told apart.                        *)
(***************************************************************************)
EXTENDS Integers

CONSTANT Size   \* length of the vector

Indices == 0..(Size - 1)

VARIABLES
  inv,      \* permute_inv runs instead of permute
  perm,     \* the permutation
  orig,     \* ghost: the vector at the call
  values,   \* the vector
  swapped_indices,
  start, current,
  inner     \* control is in the inner loop

vars == <<inv, perm, orig, values, swapped_indices, start, current, inner>>

Bijections == {f \in [Indices -> Indices] : \A i, j \in Indices : f[i] = f[j] => i = j}

Swap(f, i, j) == [f EXCEPT ![i] = f[j], ![j] = f[i]]
Mark(i) == swapped_indices' = [swapped_indices EXCEPT ![i] = TRUE]

Init ==
  /\ inv \in BOOLEAN
  /\ perm \in Bijections
  /\ orig = [i \in Indices |-> i] /\ values = orig
  /\ swapped_indices = [i \in Indices |-> FALSE]
  /\ start = 0 /\ current = 0 /\ inner = FALSE

----------------------------------------------------------------------------
(* permute: values_new[i] = values[perm(i)].                               *)
permute_start ==
  /\ ~inv /\ ~inner /\ start < Size
  /\ current' = start
  /\ inner' = TRUE
  /\ UNCHANGED <<inv, perm, orig, values, swapped_indices, start>>

\* mutant: positions on the way are not marked
permute_turn_unmarked ==
  /\ ~inv /\ inner /\ ~swapped_indices[perm[current]]
  /\ values' = Swap(values, current, perm[current])
  /\ current' = perm[current]
  /\ UNCHANGED <<inv, perm, orig, swapped_indices, start, inner>>

permute_turn ==
  /\ ~inv /\ inner /\ ~swapped_indices[perm[current]]
  /\ Mark(current)
  /\ values' = Swap(values, current, perm[current])
  /\ current' = perm[current]
  /\ UNCHANGED <<inv, perm, orig, start, inner>>

\* mutant: the last position of a cycle is not marked
permute_end_unmarked ==
  /\ ~inv /\ inner /\ swapped_indices[perm[current]]
  /\ start' = start + 1
  /\ inner' = FALSE
  /\ UNCHANGED <<inv, perm, orig, values, swapped_indices, current>>

permute_end ==
  /\ ~inv /\ inner /\ swapped_indices[perm[current]]
  /\ Mark(current)
  /\ start' = start + 1
  /\ inner' = FALSE
  /\ UNCHANGED <<inv, perm, orig, values, current>>

----------------------------------------------------------------------------
(* permute_inv: values_new[perm(i)] = values[i].                           *)
permute_inv_start ==
  /\ inv /\ ~inner /\ start < Size
  /\ current' = perm[start]
  /\ Mark(start)
  /\ inner' = TRUE
  /\ UNCHANGED <<inv, perm, orig, values, start>>

permute_inv_turn ==
  /\ inv /\ inner /\ ~swapped_indices[current]
  /\ Mark(current)
  /\ values' = Swap(values, current, start)
  /\ current' = perm[current]
  /\ UNCHANGED <<inv, perm, orig, start, inner>>

permute_inv_end ==
  /\ inv /\ inner /\ swapped_indices[current]
  /\ start' = start + 1
  /\ inner' = FALSE
  /\ UNCHANGED <<inv, perm, orig, values, swapped_indices, current>>

Next ==
  \/ permute_start \/ permute_turn \/ permute_end
  \/ permute_inv_start \/ permute_inv_turn \/ permute_inv_end

Spec == Init /\ [][Next]_vars /\ WF_vars(Next)

----------------------------------------------------------------------------
(* Types; the inner loops never index behind the end of the vector.        *)
TypeOK ==
  /\ inv \in BOOLEAN /\ inner \in BOOLEAN
  /\ perm \in Bijections
  /\ values \in Bijections
  /\ swapped_indices \in [Indices -> BOOLEAN]
  /\ start \in 0..Size /\ current \in 0..Size
  /\ inner => start \in Indices /\ current \in Indices

Done == start = Size

(* The documented results: permute puts at each place what the permutation *)
(* says, permute_inv is its inverse, for cycles of every shape.            *)
PermuteCorrect ==
  Done => \A i \in Indices : IF inv THEN values[perm[i]] = orig[i]
                                     ELSE values[i] = orig[perm[i]]

(* The two nested loops end.                                               *)
Terminates == <>Done

=============================================================================
