---------------------------- MODULE EngineKernels ----------------------------
(***************************************************************************)
(* The three machines below the database of BasePir: the inner loop of a   *)
(* reply on its buffers (PirLoop), the lazily reduced residues these hold  *)
(* (SpecialZn) and the permutation of a vector in place (Permute).  They   *)
(* share no state.                                                         *)
(***************************************************************************)
EXTENDS Integers

CONSTANTS
  K, alpha, SignHalf, Regs, Ints, U64s,              \* SpecialZn
  LoopSignHalf, LoopN, LoopDigits, UNROLL_COUNT,     \* PirLoop
  Moduli, Gens, Lens, Scenarios, Prepared(_, _, _, _), Query(_, _, _, _),
  Size                                               \* Permute

VARIABLES
  reg, val, twiddle, tval, acc, summands, aval,        \* SpecialZn
  cfg, caller, cur, pos, preload, loop_phase, result,  \* PirLoop
  inv, perm, orig, vector, swapped_indices, start, current, inner  \* Permute

RingOf == INSTANCE SpecialZn WITH i <- summands

Loop == INSTANCE PirLoop WITH
  SignHalf <- LoopSignHalf, N <- LoopN, GK_DIGITS <- LoopDigits, phase <- loop_phase

Vector == INSTANCE Permute WITH values <- vector

(* What SpecialZnx8::new asserts, and the types of the other parameters.   *)
ASSUME KernelAssumption ==
  /\ RingOf!check_invariant /\ Ints \subseteq Int /\ U64s \subseteq Nat
  /\ Loop!PirLoopAssumption /\ Loop!ValuesFit
  /\ Size \in Nat

ringvars == <<reg, val, twiddle, tval, acc, summands, aval>>
loopvars == <<cfg, caller, cur, pos, preload, loop_phase, result>>
vectorvars == <<inv, perm, orig, vector, swapped_indices, start, current, inner>>

----------------------------------------------------------------------------
(* After every sequence of ring operations (simd_zn.rs) each register is   *)
(* within the bound the next operation relies on, also the running sum,    *)
(* and stands for the right residue, whichever representative it holds:    *)
(* the assertions of check_repr, which the code has commented out.         *)
ResiduesRepresent == RingOf!ResiduesRepresent

(* main_pir_loop: products added since the last reduction never carry a    *)
(* sum over the end of a word.                                             *)
SumsFitAWord == Loop!SumsFitAWord

(* main_pir_loop: the preload of the next block stays inside the arrays.   *)
LoadsInBounds == Loop!LoadsInBounds

(* perform_pir_split: the reply is the sum over all iterations, each       *)
(* rotated once per iteration behind it.                                   *)
ReplyIsRotatedSum == Loop!ReplyIsRotatedSum

(* permute puts at each place what its documentation says, and permute_inv *)
(* is its inverse.                                                         *)
PermuteCorrect == Vector!PermuteCorrect

(* The nested loops of both end.                                           *)
Terminates == Vector!Terminates

=============================================================================
