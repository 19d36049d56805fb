------------------------------ MODULE MC_Engine ------------------------------
(***************************************************************************)
(* The four machines of the PIR engine in one model: a database from its   *)
(* entries to a decrypted reply (BasePir), the buffers of its inner loop   *)
(* (PirLoop), the lazily reduced residues these hold (SpecialZn) and the   *)
(* permutation of a vector in place (Permute).  They share no state: a     *)
(* behaviour runs one of them while the others rest.                       *)
(***************************************************************************)
EXTENDS BasePir, EngineKernels

VARIABLE machine   \* the one that runs

(* The least and the largest integers of each source; the rest of the      *)
(* residues arises by arithmetic.                                          *)
Ring_Ints == {0, 1, -1}
Ring_U64s == {(2 * SignHalf) * (2 * SignHalf) - 1}

(* The arrays of the loop are filled with the largest representative, or   *)
(* with values that differ from place to place.                            *)
Loop_Prepared(c, l, d, index) ==
  IF c.scenario = "largest" THEN 2 * c.p
  ELSE (index * (d + 1) + (IF l = "conj" THEN 3 ELSE d)) % (2 * c.p + 1)

Loop_Query(c, l, d, j) ==
  IF c.scenario = "largest" THEN 2 * c.p
  ELSE (5 * j + d + (IF l = "conj" THEN 1 ELSE 2)) % (2 * c.p + 1)

(* The arithmetic shift of the emulated build (avx.rs) is that of the      *)
(* native one, for every word and every shift up to K bits.                *)
ASSUME ShiftsAgree ==
  \A x \in 0..(RingOf!Word - 1), k \in 0..K :
    RingOf!mm512_srai_emulated(2^k, x) = RingOf!mm512_srai_native(2^k, x)

enginevars == <<machine, vars, ringvars, loopvars, vectorvars>>

----------------------------------------------------------------------------
(* The database.  Index groups of 8, 4 and 2 entries run two loops of four *)
(* iterations, one of four and one of two.  The moduli keep the            *)
(* proportions of the code: 2 t N < q1, q below half the square of the     *)
(* gadget base, and noise of all kinds inside the budget q / (2 t).        *)
MC_zeta ==
  << <<1, 36, 237, 60, 42, 100, 70, 49, 352, 317, 116, 293, 311, 253, 283, 304>>,
     <<1, 35, 95, 48, 98, 40, 44, 71, 112, 78, 18, 65, 15, 73, 69, 42>> >>
MC_Expand(s) == [i \in Coeffs |-> ((s + 3) * (7919 + 97 * i * (i + s)) + 211 * i) % q]
MC_Groups == {[l |-> 8], [l |-> 4], [l |-> 2]}
MC_Databases(l) ==
  { [j \in 0..(l - 1) |-> [i \in Coeffs |-> (3 * j + i * i + j * i) % t]],
    [j \in 0..(l - 1) |-> [i \in Coeffs |-> IF i = j THEN t - 1 ELSE 0]] }
MC_Keys == { [i \in Coeffs |-> IF i \in {0, 5} THEN -1 ELSE IF i = 6 THEN 1 ELSE 0] }
MC_Noise(n, s) == [i \in Coeffs |-> ((i + s * n) % 3) - 1]

----------------------------------------------------------------------------
(* A machine that does not run rests in one state: a database without      *)
(* content, a ring and a loop that have not started, and a vector permuted *)
(* by the identity.                                                        *)
DatabaseRests ==
  /\ grp = [l |-> 2] /\ use_seeds = "FirstSet" /\ phase = "created" /\ sets = 0
  /\ db = None /\ transformed_entries = None /\ inner_prod_gk = None
  /\ sum_a = None /\ reply_a = None /\ client = None /\ query = None
  /\ sum_b = None /\ reply = None /\ parts = None /\ got = None
  /\ sections = <<>> /\ stream = <<>> /\ arrived = <<>>
  /\ done_a = AllLoops(0) /\ done_b = AllLoops(0)
LoopRests ==
  cfg = [p |-> 7, g |-> 5, len |-> 2, requires_conj |-> FALSE, scenario |-> "largest"]
VectorRests ==
  /\ inv = FALSE /\ inner = FALSE
  /\ perm = [x \in Vector!Indices |-> x]
  /\ orig = perm /\ vector = perm
  /\ swapped_indices = [x \in Vector!Indices |-> TRUE]
  /\ start = Size /\ current = 0

EngineInit ==
  /\ machine \in {"database", "ring", "loop", "vector"}
  /\ IF machine = "database" THEN Init ELSE DatabaseRests
  /\ RingOf!Init
  /\ Loop!Init /\ (machine # "loop" => LoopRests)
  /\ IF machine = "vector" THEN Vector!Init ELSE VectorRests

database_step ==
  machine = "database" /\ Next /\ UNCHANGED <<machine, ringvars, loopvars, vectorvars>>
ring_step ==
  machine = "ring" /\ RingOf!Next /\ UNCHANGED <<machine, vars, loopvars, vectorvars>>
loop_step ==
  machine = "loop" /\ Loop!Next /\ UNCHANGED <<machine, vars, ringvars, vectorvars>>
vector_step ==
  machine = "vector" /\ Vector!Next /\ UNCHANGED <<machine, vars, ringvars, loopvars>>

EngineNext == database_step \/ ring_step \/ loop_step \/ vector_step

(* Only the loops of permute are asked to end.                             *)
EngineSpec == EngineInit /\ [][EngineNext]_enginevars /\ WF_enginevars(vector_step)

=============================================================================
