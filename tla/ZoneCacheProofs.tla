--------------------------- MODULE ZoneCacheProofs ---------------------------
(***************************************************************************)
(* Proofs about ZoneCache, for any number of client processes, versions    *)
(* and dump lengths: saves that overlap leave the whole dump in the file   *)
(* when they save the same version and none of them fails, whatever the    *)
(* order of their truncations and writes.                                  *)
(*                                                                         *)
(* The second half is about ZoneFile, the text a dump is made of, for any  *)
(* set of lines, any labels and any length of the file: parsing answers    *)
(* every lookup with what the lines say, and the dump parsed again does,   *)
(* too.                                                                    *)
(***************************************************************************)
EXTENDS ZoneCache, ZoneFile, FiniteSetTheorems, SequenceTheorems, NaturalsInduction,
        WellFoundedInduction, TLAPS

----------------------------------------------------------------------------
(* The inductive invariant.                                                *)

(* All that client t wrote since it truncated the file is still there.     *)
Written(t) == off[t] <= Len(file) /\ \A i \in 1..off[t] : file[i] = <<gz[t], i>>

(* While no save is torn, those under way save one version and the file is *)
(* no longer than its dump; either the file is whole, or the save that     *)
(* truncated it last is under way and so far nothing it wrote is lost.     *)
SaveInv ==
  ~torn =>
    /\ Savers = {} => saved = None \/ file = bytes(saved)
    /\ \A c \in Savers : file # None /\ Len(file) <= Pieces[gz[c]]
    /\ \A c, o \in Savers : gz[c] = gz[o]
    /\ Savers # {} => \E t \in Savers : file = bytes(gz[t]) \/ Written(t)

Inv == TypeOK /\ SaveInv

----------------------------------------------------------------------------
(* Facts about the contents of files.                                      *)

(* A function on 1..n is a sequence of length n.                           *)
LEMMA FunctionIsSeq ==
  ASSUME NEW S, NEW n \in Nat, NEW f \in [1..n -> S]
  PROVE  f \in Seq(S) /\ Len(f) = n
<1>1. f \in Seq(S)
  BY SeqDef
<1>2. DOMAIN f = 1..n /\ DOMAIN f = 1..Len(f) /\ Len(f) \in Nat
  BY <1>1, LenProperties
<1>3. Len(f) = n
  BY <1>2
<1> QED BY <1>1, <1>3

(* The pieces of a dump.                                                   *)
LEMMA BytesProperties ==
  ASSUME NEW d \in 0..MaxVersion
  PROVE  /\ bytes(d) \in Seq(Piece) /\ Len(bytes(d)) = Pieces[d] /\ Pieces[d] \in Nat \ {0}
         /\ \A i \in 1..Pieces[d] : bytes(d)[i] = <<d, i>>
<1>1. Pieces[d] \in Nat \ {0}
  BY ZoneCacheAssumption
<1>2. bytes(d) \in [1..Pieces[d] -> Piece]
  BY <1>1 DEF bytes, Piece
<1>3. bytes(d) \in Seq(Piece) /\ Len(bytes(d)) = Pieces[d]
  BY <1>1, <1>2, FunctionIsSeq
<1> QED BY <1>1, <1>3 DEF bytes

(* A write at an offset changes that piece alone.                          *)
LEMMA PwriteProperties ==
  ASSUME NEW s \in Seq(Piece), NEW a \in Nat \ {0}, NEW p \in Piece
  PROVE  /\ pwrite(s, a, p) \in Seq(Piece)
         /\ Len(pwrite(s, a, p)) = IF a > Len(s) THEN a ELSE Len(s)
         /\ pwrite(s, a, p)[a] = p
         /\ \A i \in 1..Len(s) : i # a => pwrite(s, a, p)[i] = s[i]
<1> DEFINE n == IF a > Len(s) THEN a ELSE Len(s)
<1>1. Len(s) \in Nat /\ n \in Nat /\ a \in 1..n /\ 1..Len(s) \subseteq 1..n
  BY LenProperties
<1>2. \A i \in 1..Len(s) : s[i] \in Piece
  BY ElementOfSeq
<1>3. pwrite(s, a, p) = [i \in 1..n |-> IF i = a THEN p ELSE IF i <= Len(s) THEN s[i] ELSE Hole]
  BY DEF pwrite
<1> HIDE DEF n
<1>4. pwrite(s, a, p) \in [1..n -> Piece]
  BY <1>1, <1>2, <1>3 DEF Piece
<1>5. pwrite(s, a, p) \in Seq(Piece) /\ Len(pwrite(s, a, p)) = n
  BY <1>1, <1>4, FunctionIsSeq
<1>6. \A i \in 1..Len(s) : i # a => pwrite(s, a, p)[i] = s[i]
  BY <1>1, <1>3
<1> QED BY <1>1, <1>3, <1>5, <1>6 DEF n

(* A file that is a whole dump is read as that dump: the first pieces of   *)
(* two dumps differ.                                                       *)
LEMMA WholeDumpLoads ==
  ASSUME NEW d \in Versions
  PROVE  load_dump(bytes(d)) = d
<1>0. d \in 0..MaxVersion /\ Versions \subseteq 0..MaxVersion
  BY ZoneCacheAssumption DEF Versions
<1> DEFINE whole == {e \in Versions : IsPrefix(bytes(e), bytes(d))}
<1>1. ASSUME NEW e \in whole PROVE e = d
  <2>1. /\ bytes(e) \in Seq(Piece) /\ Len(bytes(e)) = Pieces[e] /\ Pieces[e] \in Nat \ {0}
        /\ bytes(e)[1] = <<e, 1>>
    BY <1>0, BytesProperties
  <2>2. /\ bytes(d) \in Seq(Piece) /\ Len(bytes(d)) = Pieces[d] /\ Pieces[d] \in Nat \ {0}
        /\ bytes(d)[1] = <<d, 1>>
    BY <1>0, BytesProperties
  <2>3. /\ Pieces[e] <= Pieces[d]
        /\ SubSeq(bytes(e), 1, Pieces[e]) = SubSeq(bytes(d), 1, Pieces[e])
    BY <2>1, <2>2 DEF IsPrefix
  <2>4. SubSeq(bytes(e), 1, Pieces[e])[1] = bytes(e)[1]
    <3>1. \A i \in 1..Pieces[e] : bytes(e)[i] \in Piece
      BY <2>1, ElementOfSeq
    <3> QED BY <2>1, <3>1, SubSeqProperties
  <2>5. SubSeq(bytes(d), 1, Pieces[e])[1] = bytes(d)[1]
    <3>1. \A i \in 1..Pieces[e] : bytes(d)[i] \in Piece
      BY <2>1, <2>2, <2>3, ElementOfSeq
    <3> QED BY <2>1, <3>1, SubSeqProperties
  <2>6. <<e, 1>> = <<d, 1>>
    BY <2>1, <2>2, <2>3, <2>4, <2>5, Zenon
  <2> QED BY <2>6
<1>2. d \in whole
  <2>1. bytes(d) \in Seq(Piece) /\ Len(bytes(d)) \in Nat
    BY <1>0, BytesProperties
  <2> QED BY <2>1 DEF IsPrefix
<1>3. whole = {d}
  BY <1>1, <1>2
<1> HIDE DEF whole
<1>4. whole # {} /\ (CHOOSE e \in whole : TRUE) = d
  BY <1>3
<1> QED BY <1>4 DEF load_dump, whole

(* The invariant gives the property.                                       *)
LEMMA InvImpliesProperty == Inv => QuietFileIsLastSave
<1> SUFFICES ASSUME Inv, Savers = {}, ~torn, saved # None, saved # Unparsable
             PROVE  load_dump(Contents) = saved
  BY DEF QuietFileIsLastSave
<1>1. file = bytes(saved) /\ saved \in Versions /\ saved \in 0..MaxVersion
  BY ZoneCacheAssumption DEF Inv, TypeOK, SaveInv, Unparsable, Versions
<1>2. Contents = bytes(saved)
  <2>1. bytes(saved) # None
    BY <1>1, BytesProperties, ZoneCacheAssumption
  <2> QED BY <1>1, <2>1 DEF Contents
<1> QED BY <1>1, <1>2, WholeDumpLoads

(* Before the first run there is no file.                                  *)
LEMMA InitInv == Init => Inv
<1> SUFFICES ASSUME Init PROVE Inv
  OBVIOUS
<1>1. TypeOK
  <2>1. <<>> \in Seq(Piece)
    BY EmptySeq
  <2>2. 1 \in Versions /\ 0 \in 0..MaxFaults
    BY ZoneCacheAssumption DEF Versions
  <2> QED BY <2>1, <2>2 DEF Init, TypeOK
<1>2. SaveInv
  BY DEF Init, SaveInv, Savers
<1> QED BY <1>1, <1>2 DEF Inv

----------------------------------------------------------------------------
(* Steps that touch neither the file nor a save leave the save part alone. *)
LEMMA OutsideSaves ==
  ASSUME Inv, UNCHANGED <<file, saved, torn>>,
         Savers' = Savers,
         \A c \in Savers : gz'[c] = gz[c] /\ off'[c] = off[c]
  PROVE  SaveInv'
  BY DEF Inv, SaveInv, Written

(* The content of the file is a sequence of pieces.                        *)
LEMMA ContentsAreSeq ==
  ASSUME TypeOK
  PROVE  Contents \in Seq(Piece)
  BY EmptySeq DEF TypeOK, Contents

(* Readers change nothing the invariant speaks of.                         *)
LEMMA ReadInv ==
  ASSUME Inv, NEW c \in Clients, run_inner(c) \/ load_cache(c) \/ read_piece(c) \/ read_end(c)
  PROVE  Inv'
<1>0. TypeOK
  BY DEF Inv
<1>1. /\ UNCHANGED <<file, version, live, gz, off, faults, saved, torn>>
      /\ pc[c] \in {"idle", "load", "read"}
      /\ \E p \in {"idle", "load", "read", "bootstrap"} : pc' = [pc EXCEPT ![c] = p]
  <2>1. CASE run_inner(c)
    BY <2>1 DEF run_inner
  <2>2. CASE load_cache(c)
    BY <2>2 DEF load_cache
  <2>3. CASE read_piece(c)
    <3>1. pc' = [pc EXCEPT ![c] = "read"]
      BY <1>0, <2>3 DEF read_piece, TypeOK
    <3> QED BY <2>3, <3>1 DEF read_piece
  <2>4. CASE read_end(c)
    BY <2>4 DEF read_end
  <2> QED BY <2>1, <2>2, <2>3, <2>4
<1>2. /\ pc' \in [Clients -> {"idle", "load", "read", "bootstrap", "open", "write"}]
      /\ \A o \in Clients : pc'[o] \in {"open", "write"} => pc'[o] = pc[o]
      /\ Savers' = Savers
  BY <1>0, <1>1 DEF TypeOK, Savers
<1>3. buf' \in [Clients -> Seq(Piece)]
  <2>1. CASE read_piece(c)
    <3>1. Contents \in Seq(Piece) /\ buf[c] \in Seq(Piece) /\ Len(buf[c]) < Len(Contents)
      BY <1>0, <2>1, ContentsAreSeq DEF read_piece, TypeOK
    <3>2. Contents[Len(buf[c]) + 1] \in Piece
      <4>1. Len(buf[c]) + 1 \in 1..Len(Contents)
        BY <3>1, LenProperties
      <4> QED BY <3>1, <4>1, ElementOfSeq
    <3>3. Append(buf[c], Contents[Len(buf[c]) + 1]) \in Seq(Piece)
      BY <3>1, <3>2, AppendProperties
    <3>4. buf' = [buf EXCEPT ![c] = Append(buf[c], Contents[Len(buf[c]) + 1])]
      BY <2>1 DEF read_piece
    <3> QED BY <1>0, <3>3, <3>4 DEF TypeOK
  <2>2. CASE ~read_piece(c)
    <3>1. <<>> \in Seq(Piece)
      BY EmptySeq
    <3> QED BY <1>0, <2>2, <3>1 DEF TypeOK, run_inner, load_cache, read_end
  <2> QED BY <2>1, <2>2
<1>4. TypeOK'
  BY <1>0, <1>1, <1>2, <1>3 DEF TypeOK
<1>5. SaveInv'
  BY <1>1, <1>2, OutsideSaves DEF Savers
<1> QED BY <1>4, <1>5 DEF Inv

(* Faults are counted up to their bound.                                   *)
LEMMA FaultType == TypeOK /\ (Fault \/ UNCHANGED faults) => faults' \in 0..MaxFaults
  BY ZoneCacheAssumption DEF TypeOK, Fault

(* A new version leaves the file alone.                                    *)
LEMMA PublishInv == ASSUME Inv, NEW alive \in SUBSET live, Publish(alive) PROVE Inv'
<1>1. TypeOK'
  BY ZoneCacheAssumption DEF Inv, TypeOK, Publish, Versions
<1>2. SaveInv'
  BY OutsideSaves DEF Publish, Savers
<1> QED BY <1>1, <1>2 DEF Inv

(* A download is not in the file yet.                                      *)
LEMMA ConnectInv == ASSUME Inv, NEW c \in Clients, NEW d \in 0..MaxVersion, connect(c, d) PROVE Inv'
<1>0. TypeOK
  BY DEF Inv
<1>1. faults' \in 0..MaxFaults
  BY <1>0, FaultType DEF connect
<1>2. /\ pc[c] = "bootstrap" /\ pc' = [pc EXCEPT ![c] = "open"] /\ gz' = [gz EXCEPT ![c] = d]
      /\ UNCHANGED <<file, version, live, buf, off, saved, torn>>
  BY DEF connect
<1>3. /\ pc' \in [Clients -> {"idle", "load", "read", "bootstrap", "open", "write"}]
      /\ gz' \in [Clients -> (0..MaxVersion) \cup {None}]
      /\ gz'[c] = d /\ d # None /\ pc'[c] = "open"
      /\ \A o \in Clients : o # c => pc'[o] = pc[o] /\ gz'[o] = gz[o]
  BY <1>0, <1>2, ZoneCacheAssumption DEF TypeOK
<1>4. TypeOK'
  BY <1>0, <1>1, <1>2, <1>3 DEF TypeOK
<1>5. Savers' = Savers /\ c \notin Savers
  BY <1>2, <1>3 DEF Savers
<1>6. SaveInv'
  BY <1>2, <1>3, <1>5, OutsideSaves DEF Savers
<1> QED BY <1>4, <1>6 DEF Inv

(* A zone without dump is not saved.                                       *)
LEMMA ConnectWithoutCacheInv == ASSUME Inv, NEW c \in Clients, connect_without_cache(c) PROVE Inv'
<1>0. TypeOK
  BY DEF Inv
<1>1. faults' \in 0..MaxFaults
  BY <1>0, FaultType DEF connect_without_cache
<1>2. /\ pc[c] = "bootstrap" /\ pc' = [pc EXCEPT ![c] = "idle"]
      /\ UNCHANGED <<file, version, live, buf, gz, off, saved, torn>>
  BY DEF connect_without_cache
<1>3. TypeOK' /\ Savers' = Savers
  BY <1>0, <1>1, <1>2 DEF TypeOK, Savers
<1>4. SaveInv'
  BY <1>2, <1>3, OutsideSaves
<1> QED BY <1>3, <1>4 DEF Inv

----------------------------------------------------------------------------
(* Opening truncates; the moment is quiet only if nobody else saves.       *)
LEMMA OpenInv == ASSUME Inv, NEW c \in Clients, save_cache_open(c) PROVE Inv'
<1>0. TypeOK
  BY DEF Inv
<1>1. /\ pc[c] = "open" /\ file' = <<>> /\ off' = [off EXCEPT ![c] = 0]
      /\ torn' = (\E o \in Savers : (gz[o] # gz[c] \/ torn))
      /\ pc' = [pc EXCEPT ![c] = "write"]
      /\ UNCHANGED <<version, live, buf, gz, faults, saved>>
  BY DEF save_cache_open
<1>2. gz[c] \in 0..MaxVersion /\ Pieces[gz[c]] \in Nat \ {0}
  BY <1>0, <1>1, BytesProperties DEF TypeOK
<1>3. <<>> \in Seq(Piece) /\ Len(<<>>) = 0 /\ <<>> # None
  <2>1. <<>> \in Seq(Piece) /\ Len(<<>>) = 0
    BY EmptySeq
  <2> QED BY <2>1, ZoneCacheAssumption
<1>4. /\ Savers' = Savers \cup {c} /\ off'[c] = 0
      /\ pc'[c] = "write" /\ \A o \in Clients : o # c => pc'[o] = pc[o] /\ off'[o] = off[o]
  BY <1>0, <1>1 DEF TypeOK, Savers
<1>5. TypeOK'
  <2>1. /\ pc' \in [Clients -> {"idle", "load", "read", "bootstrap", "open", "write"}]
        /\ off' \in [Clients -> Nat]
    BY <1>0, <1>1 DEF TypeOK
  <2>2. \A o \in Clients : /\ pc'[o] \in {"open", "write"} => gz[o] # None
                          /\ pc'[o] = "write" => off'[o] <= Pieces[gz[o]]
    BY <1>0, <1>1, <1>2, <1>4 DEF TypeOK
  <2>3. torn' \in BOOLEAN
    BY <1>1, Zenon
  <2> QED BY <1>0, <1>1, <1>3, <2>1, <2>2, <2>3 DEF TypeOK
<1>6. SaveInv'
  <2> SUFFICES ASSUME ~torn'
               PROVE  /\ \A o \in Savers' : file' # None /\ Len(file') <= Pieces[gz'[o]]
                      /\ \A o, q \in Savers' : gz'[o] = gz'[q]
                      /\ \E t \in Savers' : Written(t)'
    BY <1>4 DEF SaveInv
  <2>1. \A o \in Savers' : gz'[o] = gz[c]
    BY <1>1, <1>4
  <2>2. Written(c)'
    BY <1>1, <1>3, <1>4 DEF Written
  <2>3. Len(file') = 0 /\ file' # None
    BY <1>1, <1>3
  <2> QED BY <1>2, <1>4, <2>1, <2>2, <2>3
<1> QED BY <1>5, <1>6 DEF Inv

(* An undisturbed save has written a prefix of its dump.                   *)
LEMMA WriteInv == ASSUME Inv, NEW c \in Clients, save_cache_write(c) PROVE Inv'
<1>0. TypeOK
  BY DEF Inv
<1> DEFINE d == gz[c]  a == off[c] + 1
<1>1. /\ pc[c] = "write" /\ off[c] < Pieces[d]
      /\ file' = pwrite(Contents, a, bytes(d)[a]) /\ off' = [off EXCEPT ![c] = a]
      /\ UNCHANGED <<version, live, pc, buf, gz, faults, saved, torn>>
  BY DEF save_cache_write
<1>2. /\ d \in 0..MaxVersion /\ Pieces[d] \in Nat \ {0} /\ off[c] \in Nat
      /\ a \in 1..Pieces[d] /\ a \in Nat \ {0} /\ bytes(d)[a] = <<d, a>> /\ <<d, a>> \in Piece
  <2>1. d \in 0..MaxVersion /\ off[c] \in Nat
    BY <1>0, <1>1 DEF TypeOK
  <2>2. Pieces[d] \in Nat \ {0} /\ \A i \in 1..Pieces[d] : bytes(d)[i] = <<d, i>>
    BY <2>1, BytesProperties
  <2>3. a \in 1..Pieces[d] /\ a \in Nat \ {0}
    BY <1>1, <2>1, <2>2
  <2> QED BY <2>1, <2>2, <2>3 DEF Piece
<1> HIDE DEF a, d
<1>3. /\ file' \in Seq(Piece) /\ file' # None
      /\ Len(file') = IF a > Len(Contents) THEN a ELSE Len(Contents)
      /\ file'[a] = <<d, a>>
      /\ \A i \in 1..Len(Contents) : i # a => file'[i] = Contents[i]
      /\ Len(Contents) \in Nat
  <2>1. Contents \in Seq(Piece) /\ Len(Contents) \in Nat
    BY <1>0, ContentsAreSeq, LenProperties
  <2>2. PICK p \in Piece : p = <<d, a>>
    BY <1>2, Zenon
  <2>3. file' = pwrite(Contents, a, p)
    BY <1>1, <1>2, <2>2
  <2>4. PICK s \in Seq(Piece) : s = Contents
    BY <2>1, Zenon
  <2>5. a \in Nat \ {0}
    BY <1>2
  <2>6. /\ pwrite(s, a, p) \in Seq(Piece)
        /\ Len(pwrite(s, a, p)) = IF a > Len(s) THEN a ELSE Len(s)
        /\ pwrite(s, a, p)[a] = p
        /\ \A i \in 1..Len(s) : i # a => pwrite(s, a, p)[i] = s[i]
    BY <2>5, PwriteProperties, ZenonT(60)
  <2>7. file' = pwrite(s, a, p)
    BY <2>3, <2>4
  <2>8. /\ file' \in Seq(Piece) /\ Len(file') = IF a > Len(s) THEN a ELSE Len(s)
        /\ file'[a] = p /\ \A i \in 1..Len(s) : i # a => file'[i] = s[i]
    BY <2>6, <2>7, Zenon
  <2> QED BY <2>1, <2>2, <2>4, <2>8, ZoneCacheAssumption
<1>4. off' \in [Clients -> Nat] /\ off'[c] = a /\ \A o \in Clients : o # c => off'[o] = off[o]
  BY <1>0, <1>1, <1>2 DEF TypeOK
<1>5. TypeOK'
  BY <1>0, <1>1, <1>2, <1>3, <1>4, SMTT(30) DEF TypeOK, d
<1>6. Savers' = Savers /\ c \in Savers
  BY <1>1 DEF Savers
<1>7. ASSUME ~torn
      PROVE  /\ \A o \in Savers : Len(file') <= Pieces[gz[o]]
             /\ \A o, q \in Savers : gz[o] = gz[q]
             /\ \E t \in Savers : file' = bytes(gz[t]) \/ Written(t)'
  <2>1. /\ \A o \in Savers : gz[o] = d /\ file # None /\ Len(file) <= Pieces[d]
        /\ \E t \in Savers : file = bytes(gz[t]) \/ Written(t)
    BY <1>6, <1>7 DEF Inv, SaveInv, d
  <2>2. file # None /\ Len(file) <= Pieces[d] /\ Contents = file
    BY <1>6, <2>1 DEF Contents
  <2>3. Len(file') <= Pieces[d]
    BY <1>2, <1>3, <2>2
  <2>4. PICK t \in Savers : file = bytes(d) \/ Written(t)
    BY <2>1
  <2>5. CASE file = bytes(d)
    <3>1. Len(file) = Pieces[d] /\ file \in Seq(Piece) /\ \A i \in 1..Pieces[d] : file[i] = <<d, i>>
      BY <1>2, <2>5, BytesProperties
    <3>2. Len(file') = Pieces[d]
      BY <1>2, <1>3, <2>2, <3>1
    <3>3. \A i \in 1..Pieces[d] : file'[i] = file[i]
      BY <1>2, <1>3, <2>2, <3>1
    <3>4. file' = file
      BY <1>3, <3>1, <3>2, <3>3, SeqEqual
    <3> QED BY <2>1, <2>3, <2>4, <2>5, <3>4
  <2>6. CASE Written(t)
    <3>1. gz[t] = d /\ off[t] <= Len(file) /\ \A i \in 1..off[t] : file[i] = <<d, i>>
      BY <2>1, <2>6 DEF Written
    <3>2. off[t] \in Nat /\ Len(file) \in Nat /\ t \in Clients
      BY <1>0, <1>3, <2>2 DEF TypeOK, Savers
    <3>3. off'[t] <= Len(file')
      BY <1>2, <1>3, <1>4, <2>2, <3>1, <3>2
    <3>4. ASSUME NEW i \in 1..off'[t] PROVE file'[i] = <<d, i>>
      <4>1. CASE i = a
        BY <1>3, <4>1
      <4>2. CASE i # a
        <5>1. i \in 1..off[t]
          BY <1>2, <1>4, <3>2, <4>2 DEF a
        <5>2. i \in 1..Len(file)
          BY <3>1, <3>2, <5>1
        <5> QED BY <1>3, <2>2, <3>1, <4>2, <5>1, <5>2
      <4> QED BY <4>1, <4>2
    <3>5. Written(t)'
      BY <1>1, <3>1, <3>3, <3>4 DEF Written
    <3> QED BY <2>1, <2>3, <3>5
  <2> QED BY <2>4, <2>5, <2>6
<1>8. SaveInv'
  BY <1>1, <1>3, <1>6, <1>7 DEF SaveInv
<1> QED BY <1>5, <1>8 DEF Inv

(* When the run of c is over.                                              *)
LEMMA LeaveType ==
  ASSUME TypeOK, NEW c \in Clients, leave(c), UNCHANGED <<file, version, live>>,
         faults' \in 0..MaxFaults, torn' \in BOOLEAN, saved' \in (0..MaxVersion) \cup {None}
  PROVE  /\ TypeOK' /\ Savers' = Savers \ {c}
         /\ \A o \in Clients : o # c => gz'[o] = gz[o] /\ off'[o] = off[o]
<1>1. <<>> \in Seq(Piece)
  BY EmptySeq
<1>2. /\ pc' \in [Clients -> {"idle", "load", "read", "bootstrap", "open", "write"}]
      /\ buf' \in [Clients -> Seq(Piece)]
      /\ gz' \in [Clients -> (0..MaxVersion) \cup {None}]
      /\ off' \in [Clients -> Nat]
      /\ pc'[c] = "idle"
      /\ \A o \in Clients : o # c => pc'[o] = pc[o] /\ gz'[o] = gz[o] /\ off'[o] = off[o]
  BY <1>1 DEF TypeOK, leave
<1>3. TypeOK'
  BY <1>2 DEF TypeOK
<1>4. Savers' = Savers \ {c}
  BY <1>2 DEF Savers
<1> QED BY <1>2, <1>3, <1>4

(* An undisturbed save ends with its dump in the file.                     *)
LEMMA EndInv == ASSUME Inv, NEW c \in Clients, save_cache_end(c) PROVE Inv'
<1>0. TypeOK
  BY DEF Inv
<1> DEFINE d == gz[c]
<1>1. /\ pc[c] = "write" /\ off[c] = Pieces[d] /\ saved' = d /\ leave(c)
      /\ UNCHANGED <<file, version, live, faults, torn>>
  BY DEF save_cache_end
<1>2. d \in 0..MaxVersion /\ c \in Savers
  BY <1>0, <1>1 DEF TypeOK, Savers
<1>3. /\ TypeOK' /\ Savers' = Savers \ {c}
      /\ \A o \in Clients : o # c => gz'[o] = gz[o] /\ off'[o] = off[o]
  <2>1. faults' \in 0..MaxFaults /\ torn' \in BOOLEAN
    BY <1>0, <1>1 DEF TypeOK
  <2> QED BY <1>0, <1>1, <1>2, <2>1, LeaveType
<1>4. ASSUME ~torn
      PROVE  /\ \A o \in Savers : gz[o] = d /\ file # None /\ Len(file) <= Pieces[d]
             /\ file = bytes(d) \/ \E t \in Savers \ {c} : Written(t)
  <2>1. /\ \A o \in Savers : gz[o] = d /\ file # None /\ Len(file) <= Pieces[d]
        /\ \E t \in Savers : file = bytes(d) \/ Written(t)
    BY <1>2, <1>4 DEF Inv, SaveInv
  <2>2. ASSUME Written(c) PROVE file = bytes(d)
    <3>1. /\ bytes(d) \in Seq(Piece) /\ Len(bytes(d)) = Pieces[d] /\ Pieces[d] \in Nat
          /\ \A i \in 1..Pieces[d] : bytes(d)[i] = <<d, i>>
      BY <1>2, BytesProperties
    <3>2. file \in Seq(Piece) /\ Len(file) \in Nat
      BY <1>0, <1>2, <2>1 DEF TypeOK
    <3>3. Len(file) = Pieces[d] /\ \A i \in 1..Pieces[d] : file[i] = <<d, i>>
      BY <1>1, <1>2, <2>1, <2>2, <3>1, <3>2 DEF Written
    <3> QED BY <3>1, <3>2, <3>3, SeqEqual
  <2> QED BY <2>1, <2>2
<1>5. SaveInv'
  <2> SUFFICES ASSUME ~torn PROVE SaveInv'
    BY <1>1 DEF SaveInv
  <2>1. \A o \in Savers' : o \in Clients /\ gz'[o] = d /\ off'[o] = off[o]
    BY <1>3, <1>4 DEF Savers
  <2>2. Savers' = {} => file' = bytes(saved')
    BY <1>1, <1>3, <1>4
  <2>3. \A o \in Savers' : file' # None /\ Len(file') <= Pieces[gz'[o]]
    BY <1>1, <1>3, <1>4, <2>1
  <2>4. ASSUME Savers' # {} PROVE \E t \in Savers' : file' = bytes(gz'[t]) \/ Written(t)'
    <3>1. CASE file = bytes(d)
      BY <1>1, <2>1, <2>4, <3>1
    <3>2. ASSUME NEW t \in Savers \ {c}, Written(t) PROVE Written(t)'
      BY <1>1, <1>3, <1>4, <2>1, <3>2 DEF Written
    <3> QED BY <1>3, <1>4, <3>1, <3>2
  <2> QED BY <2>1, <2>2, <2>3, <2>4 DEF SaveInv
<1> QED BY <1>3, <1>5 DEF Inv

(* A save that fails or dies half-way is torn; otherwise none is touched.  *)
LEMMA FailInv ==
  ASSUME Inv, NEW c \in Clients, save_cache_error(c) \/ Crash(c)
  PROVE  Inv'
<1>0. TypeOK
  BY DEF Inv
<1>1. /\ Fault /\ torn' = (torn \/ pc[c] = "write") /\ leave(c)
      /\ UNCHANGED <<file, version, live, saved>>
  BY DEF save_cache_error, Crash
<1>2. /\ TypeOK' /\ Savers' = Savers \ {c}
      /\ \A o \in Clients : o # c => gz'[o] = gz[o] /\ off'[o] = off[o]
  <2>1. faults' \in 0..MaxFaults
    BY <1>0, <1>1, FaultType
  <2>2. torn' \in BOOLEAN /\ saved' \in (0..MaxVersion) \cup {None}
    BY <1>0, <1>1 DEF TypeOK
  <2> QED BY <1>0, <1>1, <2>1, <2>2, LeaveType
<1>3. CASE pc[c] = "write"
  BY <1>1, <1>2, <1>3 DEF Inv, SaveInv
<1>4. CASE pc[c] # "write"
  <2>1. c \notin Savers /\ torn' = torn /\ Savers' = Savers
    BY <1>0, <1>1, <1>2, <1>4 DEF Savers, TypeOK
  <2>2. \A o \in Savers : gz'[o] = gz[o] /\ off'[o] = off[o]
    BY <1>2, <2>1 DEF Savers
  <2>3. SaveInv'
    BY <1>1, <2>1, <2>2, OutsideSaves
  <2> QED BY <1>2, <2>3 DEF Inv
<1> QED BY <1>3, <1>4

(* Every step keeps the invariant.                                         *)
LEMMA NextInv == Inv /\ [Next]_vars => Inv'
<1> SUFFICES ASSUME Inv, [Next]_vars PROVE Inv'
  OBVIOUS
<1>1. CASE UNCHANGED vars
  BY <1>1 DEF vars, Inv, TypeOK, SaveInv, Savers, Written
<1>2. ASSUME NEW alive \in SUBSET live, Publish(alive) PROVE Inv'
  BY <1>2, PublishInv
<1>3. ASSUME NEW c \in Clients, run_inner(c) \/ Step(c) PROVE Inv'
  BY <1>3, ReadInv, ConnectInv, OpenInv, WriteInv, EndInv DEF Step
<1>4. ASSUME NEW c \in Clients, connect_without_cache(c) \/ save_cache_error(c) \/ Crash(c)
      PROVE  Inv'
  BY <1>4, ConnectWithoutCacheInv, FailInv
<1> QED BY <1>1, <1>2, <1>3, <1>4 DEF Next

(* The invariant always holds.                                             *)
LEMMA InvAlways == Spec => []Inv
  BY InitInv, NextInv, PTL DEF Spec

(* The cache file and the clients that read and write it have their types. *)
THEOREM TypeCorrect == Spec => []TypeOK
<1>1. Inv => TypeOK
  BY DEF Inv
<1> QED BY <1>1, InvAlways, PTL

(* Whatever the order in which processes truncate and write the cache file *)
(* (save_cache's fs::write is neither locked nor atomic): once all of them *)
(* are done, and unless one failed or saved another version, load_cache    *)
(* reads the dump saved last.                                              *)
THEOREM QuietFile == Spec => []QuietFileIsLastSave
  BY InvAlways, InvImpliesProperty, PTL

----------------------------------------------------------------------------
(* Induction over the naturals, as the existence of a least element.       *)

(* A set of naturals has a least element.                                  *)
LEMMA LeastNatural ==
  ASSUME NEW T, T \subseteq Nat, T # {}
  PROVE  \E x \in T : \A y \in T : x <= y
<1> DEFINE Less == {ss \in Nat \X Nat : ss[1] < ss[2]}
<1>1. IsWellFoundedOn(Less, Nat)
  BY NatLessThanWellFounded DEF OpToRel
<1> HIDE DEF Less
<1>2. PICK x \in T : \A y \in T : ~(<<y, x>> \in Less)
  BY <1>1, WFMin, Zenon
<1>3. \A y \in T : ~(y < x)
  BY <1>2 DEF Less
<1> QED BY <1>3

(* f solves a recursion from a up to k.                                    *)
Solves(f, k, S, a, step) ==
  f \in [0..k -> S] /\ f = [n \in 0..k |-> IF n = 0 THEN a ELSE step[<<n, f[n - 1]>>]]

(* A function that is defined by recursion over an initial segment of the  *)
(* naturals exists.                                                        *)
LEMMA FiniteRecursion ==
  ASSUME NEW m \in Nat, NEW S, NEW a \in S, NEW step \in [(1..m) \X S -> S]
  PROVE  \E f : Solves(f, m, S, a, step)
<1> DEFINE Solvable(k) == \E f : Solves(f, k, S, a, step)
           T == {k \in 0..m : ~ Solvable(k)}
<1> HIDE DEF Solvable
<1>2. SUFFICES ASSUME T # {} PROVE FALSE
  <2>1. Solvable(m)
    BY <1>2
  <2> QED BY <2>1 DEF Solvable
<1>3. PICK k \in T : \A y \in T : k <= y
  <2>1. T \subseteq Nat
    OBVIOUS
  <2> QED BY <1>2, <2>1, LeastNatural
<1>4. Solvable(0)
  <2> DEFINE f == [n \in 0..0 |-> a]
  <2>1. f \in [0..0 -> S]
    OBVIOUS
  <2>2. f = [n \in 0..0 |-> IF n = 0 THEN a ELSE step[<<n, f[n - 1]>>]]
    OBVIOUS
  <2> QED BY <2>1, <2>2 DEF Solves, Solvable
<1>5. k \in 1..m /\ Solvable(k - 1)
  <2>1. k \in 0..m /\ k # 0
    BY <1>3, <1>4
  <2>2. k - 1 \in 0..m /\ ~(k <= k - 1)
    BY <2>1
  <2> QED BY <1>3, <2>1, <2>2
<1>6. PICK f : f \in [0..(k - 1) -> S] /\ \A n \in 0..(k - 1) : f[n] = IF n = 0 THEN a ELSE step[<<n, f[n - 1]>>]
  <2>1. PICK f : Solves(f, k - 1, S, a, step)
    BY <1>5 DEF Solvable
  <2>2. f \in [0..(k - 1) -> S] /\ f = [n \in 0..(k - 1) |-> IF n = 0 THEN a ELSE step[<<n, f[n - 1]>>]]
    BY <2>1 DEF Solves
  <2>3. \A n \in 0..(k - 1) : f[n] = IF n = 0 THEN a ELSE step[<<n, f[n - 1]>>]
    BY <2>2, Zenon
  <2> QED BY <2>2, <2>3
<1>7. PICK last \in S : last = step[<<k, f[k - 1]>>]
  BY <1>5, <1>6
<1> DEFINE g == [n \in 0..k |-> IF n = k THEN last ELSE f[n]]
<1>8. g \in [0..k -> S]
  BY <1>5, <1>6, <1>7
<1>9. ASSUME NEW n \in 0..k
      PROVE  g[n] = IF n = 0 THEN a ELSE step[<<n, g[n - 1]>>]
  <2>1. CASE n = k
    <3>1. n # 0 /\ n - 1 \in 0..k /\ n - 1 # k
      BY <2>1, <1>5
    <3>2. g[n] = last /\ g[n - 1] = f[n - 1]
      BY <2>1, <3>1
    <3> QED BY <2>1, <3>1, <3>2, <1>7
  <2>2. CASE n # k /\ n # 0
    <3>1. n \in 0..(k - 1) /\ n - 1 \in 0..k /\ n - 1 # k
      BY <2>2, <1>5
    <3>2. g[n] = f[n] /\ g[n - 1] = f[n - 1]
      BY <2>2, <3>1
    <3> QED BY <2>2, <3>1, <3>2, <1>6
  <2>3. CASE n # k /\ n = 0
    <3>1. g[n] = f[n] /\ n \in 0..(k - 1)
      BY <2>3, <1>5
    <3> QED BY <2>3, <3>1, <1>6
  <2> QED BY <2>1, <2>2, <2>3
<1> HIDE DEF g
<1>10. g = [n \in 0..k |-> IF n = 0 THEN a ELSE step[<<n, g[n - 1]>>]]
  BY <1>8, <1>9
<1>11. Solvable(k)
  BY <1>8, <1>10 DEF Solves, Solvable
<1> QED BY <1>3, <1>11

----------------------------------------------------------------------------
(* The data a sequence of lines holds for a name and a type.               *)

GoodLines ==
  {l \in Lines \cup [name : Names, type : {"A", "AAAA", "NS"}, data : Datas] :
     l.name \in Names /\ l.data \in Datas /\ (l.type = "NS" => l.data \in Names)}

LEMMA LinesAreGood == Lines \subseteq GoodLines
  BY ZoneFileAssumption DEF GoodLines, Datas

Collects(f, lines, n, ty) ==
  /\ f \in [0..Len(lines) -> Seq(Datas)] /\ f[0] = <<>>
  /\ \A k \in 1..Len(lines) :
       f[k] = IF Kept(lines[k], n, ty) THEN Append(f[k - 1], lines[k].data) ELSE f[k - 1]

(* The recursion of Data has a solution.                                   *)
LEMMA Collected ==
  ASSUME NEW lines \in Seq(GoodLines), NEW n, NEW ty
  PROVE  \E f : Collects(f, lines, n, ty) /\ Data(lines, n, ty) = f[Len(lines)]
<1>1. PICK m \in Nat : m = Len(lines)
  OBVIOUS
<1>2. \A k \in 1..m : lines[k].data \in Datas
  BY <1>1 DEF GoodLines
<1>3. PICK keep : keep = [k \in 1..m |-> Kept(lines[k], n, ty)]
  OBVIOUS
<1>4. PICK what \in [1..m -> Datas] : what = [k \in 1..m |-> lines[k].data]
  BY <1>2
<1>5. \A k \in 1..m : keep[k] = Kept(lines[k], n, ty) /\ what[k] = lines[k].data
  BY <1>3, <1>4
<1> DEFINE one(k, s) == IF Kept(lines[k], n, ty) THEN Append(s, lines[k].data) ELSE s
           step == [e \in (1..m) \X Seq(Datas) |-> one(e[1], e[2])]
<1>6. ASSUME NEW k \in 1..m, NEW s \in Seq(Datas) PROVE one(k, s) \in Seq(Datas)
  BY <1>2
<1>7. step \in [(1..m) \X Seq(Datas) -> Seq(Datas)]
  <2> HIDE DEF one
  <2>1. \A e \in (1..m) \X Seq(Datas) : one(e[1], e[2]) \in Seq(Datas)
    BY <1>6
  <2> QED BY <2>1
<1>8. \A k \in 1..m, s \in Seq(Datas) : step[<<k, s>>] = one(k, s)
  <2> HIDE DEF one
  <2> QED OBVIOUS
<1>9. <<>> \in Seq(Datas)
  OBVIOUS
<1> HIDE DEF step
<1>10. PICK g : Solves(g, m, Seq(Datas), <<>>, step)
  BY <1>7, <1>9, FiniteRecursion, Zenon
<1>11. g \in [0..m -> Seq(Datas)] /\ g = [k \in 0..m |-> IF k = 0 THEN <<>> ELSE step[<<k, g[k - 1]>>]]
  BY <1>10 DEF Solves
<1> DEFINE Is(f) == f = [k \in 0..m |-> IF k = 0 THEN <<>> ELSE one(k, f[k - 1])]
<1>12. ASSUME NEW k \in 0..m, k # 0 PROVE step[<<k, g[k - 1]>>] = one(k, g[k - 1])
  <2> HIDE DEF one
  <2>1. k \in 1..m /\ k - 1 \in 0..m
    BY <1>12
  <2>2. g[k - 1] \in Seq(Datas)
    BY <1>11, <2>1
  <2> QED BY <2>1, <2>2, <1>8
<1>13. Is(g)
  <2> HIDE DEF one
  <2>1. [k \in 0..m |-> IF k = 0 THEN <<>> ELSE step[<<k, g[k - 1]>>]]
          = [k \in 0..m |-> IF k = 0 THEN <<>> ELSE one(k, g[k - 1])]
    BY <1>12
  <2> QED BY <1>11, <2>1, Zenon
<1> DEFINE f == CHOOSE x : Is(x)
<1>14. Data(lines, n, ty) = f[m]
  <2>1. Data(lines, n, ty) =
          (CHOOSE x : x = [k \in 0..m |-> IF k = 0 THEN <<>>
                                          ELSE IF Kept(lines[k], n, ty) THEN Append(x[k - 1], lines[k].data)
                                          ELSE x[k - 1]])[m]
    BY <1>1 DEF Data
  <2> QED BY <2>1
<1>15. Is(f)
  BY <1>13, Zenon
<1> HIDE DEF f
<1>16. f = [k \in 0..m |-> f[k]] /\ \A k \in 0..m : f[k] = IF k = 0 THEN <<>> ELSE one(k, f[k - 1])
  <2> HIDE DEF one
  <2> QED BY <1>15, Zenon
<1> HIDE DEF Is
<1> DEFINE U == {k \in 0..m : f[k] \notin Seq(Datas)}
<1>17. U = {}
  <2> HIDE DEF one
  <2>1. SUFFICES ASSUME U # {} PROVE FALSE
    OBVIOUS
  <2>2. U \subseteq Nat
    OBVIOUS
  <2>3. PICK k \in U : \A y \in U : k <= y
    BY <2>1, <2>2, LeastNatural
  <2>4. k # 0
    <3>1. 0 \in 0..m
      OBVIOUS
    <3>2. f[0] = <<>>
      BY <3>1, <1>16, Zenon
    <3> QED BY <2>3, <3>2, <1>9, Zenon
  <2>5. k \in 1..m /\ k \in 0..m /\ k - 1 \in 0..m /\ f[k - 1] \in Seq(Datas)
    BY <2>3, <2>4
  <2>6. f[k] = one(k, f[k - 1])
    BY <2>4, <2>5, <1>16, Zenon
  <2>7. one(k, f[k - 1]) \in Seq(Datas)
    BY <2>5, <1>6, Zenon
  <2> QED BY <2>3, <2>6, <2>7, Zenon
<1>18. Collects(f, lines, n, ty)
  <2>1. f \in [0..m -> Seq(Datas)]
    <3> HIDE DEF one
    <3>1. \A k \in 0..m : f[k] \in Seq(Datas)
      BY <1>17
    <3> QED BY <1>16, <3>1
  <2>2. f[0] = <<>>
    <3>1. 0 \in 0..m
      OBVIOUS
    <3> HIDE DEF one
    <3> QED BY <3>1, <1>16, Zenon
  <2>3. ASSUME NEW k \in 1..m PROVE f[k] = one(k, f[k - 1])
    <3>1. k \in 0..m /\ k # 0
      OBVIOUS
    <3> HIDE DEF one
    <3> QED BY <3>1, <1>16, Zenon
  <2> QED BY <1>1, <2>1, <2>2, <2>3 DEF Collects
<1> QED BY <1>1, <1>14, <1>18

AgreeTo(s, t, m) == m <= Len(s) /\ m <= Len(t) /\ \A k \in 1..m : s[k] = t[k]

(* What is collected depends on the lines read so far only.                *)
LEMMA CollectsSame ==
  ASSUME NEW s \in Seq(GoodLines), NEW t \in Seq(GoodLines), NEW n, NEW ty, NEW f, NEW g,
         Collects(f, s, n, ty), Collects(g, t, n, ty),
         NEW m \in Nat, AgreeTo(s, t, m)
  PROVE  f[m] = g[m]
<1>a. m <= Len(s) /\ m <= Len(t) /\ \A k \in 1..m : s[k] = t[k]
  BY DEF AgreeTo
<1> DEFINE U == {k \in 0..m : f[k] # g[k]}
<1>1. SUFFICES ASSUME U # {} PROVE FALSE
  <2>1. m \in 0..m
    OBVIOUS
  <2> QED BY <1>1, <2>1
<1>2. U \subseteq Nat
  OBVIOUS
<1>3. PICK k \in U : \A y \in U : k <= y
  BY <1>1, <1>2, LeastNatural
<1>4. f[0] = <<>> /\ g[0] = <<>>
  BY DEF Collects
<1>5. k # 0
  BY <1>3, <1>4
<1>6. k \in 1..m /\ k \in 1..Len(s) /\ k \in 1..Len(t) /\ k - 1 \in 0..m
  BY <1>3, <1>5, <1>a
<1>7. f[k - 1] = g[k - 1]
  BY <1>3, <1>6
<1>8. /\ f[k] = IF Kept(s[k], n, ty) THEN Append(f[k - 1], s[k].data) ELSE f[k - 1]
      /\ g[k] = IF Kept(t[k], n, ty) THEN Append(g[k - 1], t[k].data) ELSE g[k - 1]
  BY <1>6, Zenon DEF Collects
<1>9. s[k] = t[k]
  BY <1>6, <1>a
<1>10. f[k] = g[k]
  BY <1>7, <1>8, <1>9
<1> QED BY <1>3, <1>10

LEMMA DataType ==
  ASSUME NEW lines \in Seq(GoodLines), NEW n, NEW ty
  PROVE  Data(lines, n, ty) \in Seq(Datas)
<1>1. PICK f : Collects(f, lines, n, ty) /\ Data(lines, n, ty) = f[Len(lines)]
  BY Collected
<1>2. Len(lines) \in 0..Len(lines)
  OBVIOUS
<1> QED BY <1>1, <1>2 DEF Collects

LEMMA DataEmpty ==
  ASSUME NEW n, NEW ty PROVE Data(<<>>, n, ty) = <<>>
<1>1. <<>> \in Seq(GoodLines) /\ Len(<<>>) = 0
  OBVIOUS
<1>2. PICK f : Collects(f, <<>>, n, ty) /\ Data(<<>>, n, ty) = f[Len(<<>>)]
  BY <1>1, Collected, Zenon
<1> QED BY <1>1, <1>2 DEF Collects

(* One more line.                                                          *)
LEMMA DataAppend ==
  ASSUME NEW lines \in Seq(GoodLines), NEW l \in GoodLines, NEW n, NEW ty
  PROVE  Data(Append(lines, l), n, ty) =
           IF Kept(l, n, ty) THEN Append(Data(lines, n, ty), l.data) ELSE Data(lines, n, ty)
<1>1. PICK m \in Nat : m = Len(lines)
  OBVIOUS
<1>s. PICK s : s = Append(lines, l)
  OBVIOUS
<1>2. s \in Seq(GoodLines) /\ Len(s) = m + 1 /\ s[m + 1] = l /\ \A k \in 1..m : s[k] = lines[k]
  BY <1>s, <1>1, AppendProperties
<1>3. PICK f : Collects(f, s, n, ty) /\ Data(s, n, ty) = f[m + 1]
  <2>1. \E f : Collects(f, s, n, ty) /\ Data(s, n, ty) = f[Len(s)]
    BY <1>2, Collected, Zenon
  <2> QED BY <1>2, <2>1, Zenon
<1>4. PICK g : Collects(g, lines, n, ty) /\ Data(lines, n, ty) = g[m]
  BY <1>1, Collected
<1>5. f[m] = g[m]
  <2>1. AgreeTo(s, lines, m)
    BY <1>1, <1>2 DEF AgreeTo
  <2>2. s \in Seq(GoodLines)
    BY <1>2
  <2> QED BY <1>3, <1>4, <2>1, <2>2, CollectsSame
<1>6. f[m + 1] = IF Kept(s[m + 1], n, ty) THEN Append(f[m], s[m + 1].data) ELSE f[m]
  <2>1. m + 1 \in 1..Len(s) /\ (m + 1) - 1 = m
    BY <1>2
  <2>2. f[m + 1] = IF Kept(s[m + 1], n, ty) THEN Append(f[(m + 1) - 1], s[m + 1].data) ELSE f[(m + 1) - 1]
    BY <1>3, <2>1, Zenon DEF Collects
  <2> QED BY <2>1, <2>2, Zenon
<1> QED BY <1>s, <1>2, <1>3, <1>4, <1>5, <1>6

(* Lines behind each other.                                                *)
LEMMA DataConcat ==
  ASSUME NEW s \in Seq(GoodLines), NEW t \in Seq(GoodLines), NEW n, NEW ty
  PROVE  Data(s \o t, n, ty) = Data(s, n, ty) \o Data(t, n, ty)
<1>1. PICK a \in Nat, b \in Nat : a = Len(s) /\ b = Len(t)
  OBVIOUS
<1>w. PICK w : w = s \o t
  OBVIOUS
<1>2. w = s \o t /\ w \in Seq(GoodLines) /\ Len(w) = a + b
  BY <1>w, <1>1, ConcatProperties
<1>3. \A k \in 1..a : w[k] = s[k]
  BY <1>1, <1>2
<1>4. \A k \in 1..b : w[a + k] = t[k]
  BY <1>1, <1>2
<1>5. PICK f : Collects(f, w, n, ty) /\ Data(w, n, ty) = f[a + b]
  <2>0. w \in Seq(GoodLines) /\ Len(w) = a + b
    BY <1>2
  <2>1. \E f : Collects(f, w, n, ty) /\ Data(w, n, ty) = f[Len(w)]
    BY <2>0, Collected, Zenon
  <2> QED BY <2>0, <2>1, Zenon
<1>6. PICK g : Collects(g, s, n, ty) /\ Data(s, n, ty) = g[a]
  BY <1>1, Collected
<1>7. PICK h : Collects(h, t, n, ty) /\ Data(t, n, ty) = h[b]
  BY <1>1, Collected
<1>8. PICK d \in Seq(Datas) : d = Data(s, n, ty)
  BY DataType
<1>9. f[a] = d
  <2>1. AgreeTo(w, s, a)
    BY <1>1, <1>2, <1>3 DEF AgreeTo
  <2>2. w \in Seq(GoodLines)
    BY <1>2
  <2>3. f[a] = g[a]
    BY <1>5, <1>6, <2>1, <2>2, CollectsSame
  <2> QED BY <1>6, <1>8, <2>3
<1> DEFINE U == {k \in 0..b : f[a + k] # d \o h[k]}
<1>10. U = {}
  <2>1. SUFFICES ASSUME U # {} PROVE FALSE
    OBVIOUS
  <2>2. U \subseteq Nat
    OBVIOUS
  <2>3. PICK k \in U : \A y \in U : k <= y
    BY <2>1, <2>2, LeastNatural
  <2>4. k # 0
    <3>1. h[0] = <<>> /\ a + 0 = a /\ d \o <<>> = d
      BY <1>7 DEF Collects
    <3> QED BY <2>3, <1>9, <3>1
  <2>5. k \in 1..b /\ k - 1 \in 0..b /\ f[a + (k - 1)] = d \o h[k - 1]
    <3>1. k \in 1..b /\ k - 1 \in 0..b /\ ~(k <= k - 1)
      BY <2>3, <2>4
    <3>2. k - 1 \notin U
      BY <2>3, <3>1, Zenon
    <3> QED BY <3>1, <3>2, Zenon
  <2>6. PICK x : x = f[a + (k - 1)]
    OBVIOUS
  <2>7. PICK y \in Seq(Datas) : y = h[k - 1] /\ x = d \o y
    BY <1>1, <1>7, <2>5, <2>6 DEF Collects
  <2>8. PICK l \in GoodLines : l = t[k] /\ l = w[a + k]
    BY <1>1, <1>4, <2>5
  <2>9. h[k] = IF Kept(l, n, ty) THEN Append(y, l.data) ELSE y
    BY <1>1, <1>7, <2>5, <2>7, <2>8, Zenon DEF Collects
  <2>10. f[a + k] = IF Kept(l, n, ty) THEN Append(x, l.data) ELSE x
    <3>1. a + k \in 1..Len(w) /\ (a + k) - 1 = a + (k - 1)
      BY <1>2, <2>5
    <3>2. f[a + k] = IF Kept(w[a + k], n, ty) THEN Append(f[(a + k) - 1], w[a + k].data) ELSE f[(a + k) - 1]
      BY <1>5, <3>1, Zenon DEF Collects
    <3> QED BY <2>6, <2>8, <3>1, <3>2, Zenon
  <2>11. PICK v \in Datas : v = l.data
    BY DEF GoodLines
  <2>12. Append(d \o y, v) = d \o Append(y, v)
    <3>1. d \o y \in Seq(Datas) /\ <<v>> \in Seq(Datas)
      OBVIOUS
    <3>2. Append(d \o y, v) = (d \o y) \o <<v>> /\ Append(y, v) = y \o <<v>>
      BY <3>1, AppendIsConcat, Zenon
    <3>3. (d \o y) \o <<v>> = d \o (y \o <<v>>)
      BY <3>1, ConcatAssociative, SMTT(30)
    <3> QED BY <3>2, <3>3, Zenon
  <2>13. f[a + k] = d \o h[k]
    BY <2>7, <2>9, <2>10, <2>11, <2>12, Zenon
  <2> QED BY <2>3, <2>13
<1>11. f[a + b] = d \o h[b]
  <2>1. b \in 0..b
    OBVIOUS
  <2> QED BY <1>10, <2>1, Zenon
<1> QED BY <1>2, <1>5, <1>7, <1>8, <1>11, Zenon

(* Lines none of which is kept, and lines all of which are.                *)
LEMMA DataNone ==
  ASSUME NEW t \in Seq(GoodLines), NEW n, NEW ty, \A k \in 1..Len(t) : ~Kept(t[k], n, ty)
  PROVE  Data(t, n, ty) = <<>>
<1>1. PICK m \in Nat : m = Len(t)
  OBVIOUS
<1>2. PICK f : Collects(f, t, n, ty) /\ Data(t, n, ty) = f[m]
  BY <1>1, Collected
<1> DEFINE U == {k \in 0..m : f[k] # <<>>}
<1>3. U = {}
  <2>1. SUFFICES ASSUME U # {} PROVE FALSE
    OBVIOUS
  <2>2. U \subseteq Nat
    OBVIOUS
  <2>3. PICK k \in U : \A y \in U : k <= y
    BY <2>1, <2>2, LeastNatural
  <2>4. k # 0
    BY <1>2, <2>3 DEF Collects
  <2>5. k \in 1..m /\ k - 1 \in 0..m /\ k - 1 \notin U
    BY <2>3, <2>4
  <2>6. f[k] = f[k - 1]
    BY <1>1, <1>2, <2>5, Zenon DEF Collects
  <2> QED BY <2>3, <2>5, <2>6
<1> QED BY <1>2, <1>3

LEMMA DataAll ==
  ASSUME NEW t \in Seq(GoodLines), NEW n, NEW ty, \A k \in 1..Len(t) : Kept(t[k], n, ty)
  PROVE  Len(Data(t, n, ty)) = Len(t) /\ \A k \in 1..Len(t) : Data(t, n, ty)[k] = t[k].data
<1>1. PICK m \in Nat : m = Len(t)
  OBVIOUS
<1>2. PICK f : Collects(f, t, n, ty) /\ Data(t, n, ty) = f[m]
  BY <1>1, Collected
<1> DEFINE Good(k) == Len(f[k]) = k /\ \A i \in 1..k : f[k][i] = t[i].data
           U == {k \in 0..m : ~Good(k)}
<1>3. U = {}
  <2>1. SUFFICES ASSUME U # {} PROVE FALSE
    OBVIOUS
  <2>2. U \subseteq Nat
    OBVIOUS
  <2>3. PICK k \in U : \A y \in U : k <= y
    BY <2>1, <2>2, LeastNatural
  <2>4. k # 0
    <3>1. f[0] = <<>>
      BY <1>2 DEF Collects
    <3>2. Good(0)
      BY <3>1
    <3> QED BY <2>3, <3>2
  <2>5. k \in 1..m /\ k - 1 \in 0..m /\ k - 1 \notin U
    BY <2>3, <2>4
  <2>6. PICK y \in Seq(Datas) : y = f[k - 1] /\ Len(y) = k - 1 /\ \A i \in 1..(k - 1) : y[i] = t[i].data
    BY <1>1, <1>2, <2>5 DEF Collects
  <2>7. PICK v \in Datas : v = t[k].data
    BY <1>1, <2>5 DEF GoodLines
  <2>8. f[k] = Append(y, v)
    BY <1>1, <1>2, <2>5, <2>6, <2>7, Zenon DEF Collects
  <2>9. Good(k)
    <3>1. Len(Append(y, v)) = k /\ Append(y, v)[k] = v /\ \A i \in 1..(k - 1) : Append(y, v)[i] = y[i]
      BY <2>6
    <3>2. \A i \in 1..k : i = k \/ i \in 1..(k - 1)
      OBVIOUS
    <3> QED BY <2>6, <2>7, <2>8, <3>1, <3>2
  <2> QED BY <2>3, <2>9
<1>4. Good(m)
  BY <1>3
<1> QED BY <1>1, <1>2, <1>4

----------------------------------------------------------------------------
(* Suffixes of names.                                                      *)

LEMMA Prefixed ==
  ASSUME NEW T, NEW s \in Seq(T), NEW t \in Seq(T)
  PROVE  IsPrefix(s, t) <=> Len(s) <= Len(t) /\ \A k \in 1..Len(s) : s[k] = t[k]
<1>1. PICK n \in Nat : n = Len(s)
  OBVIOUS
<1>2. ASSUME n <= Len(t) PROVE SubSeq(s, 1, n) = SubSeq(t, 1, n) <=> \A k \in 1..n : s[k] = t[k]
  <2>1. PICK a, b : a = SubSeq(s, 1, n) /\ b = SubSeq(t, 1, n)
    OBVIOUS
  <2>2. a \in Seq(T) /\ Len(a) = n /\ \A k \in 1..n : a[k] = s[k]
    BY <1>1, <2>1
  <2>3. b \in Seq(T) /\ Len(b) = n
    BY <1>2, <2>1
  <2>4. \A k \in 1..n : b[k] = t[k]
    BY <1>2, <2>1
  <2>5. (\A k \in 1..n : a[k] = b[k]) => a = b
    BY <2>2, <2>3, SeqEqual
  <2> QED BY <2>1, <2>2, <2>3, <2>4, <2>5
<1> QED BY <1>1, <1>2 DEF IsPrefix

LEMMA PrefixOrder ==
  ASSUME NEW T, NEW s \in Seq(T), NEW t \in Seq(T)
  PROVE  /\ IsPrefix(s, s) /\ (IsPrefix(s, t) => Len(s) <= Len(t))
         /\ (IsPrefix(s, t) /\ IsPrefix(t, s) => s = t)
<1>1. IsPrefix(s, s)
  BY Prefixed
<1>2. IsPrefix(s, t) => Len(s) <= Len(t)
  BY DEF IsPrefix
<1>3. ASSUME IsPrefix(s, t), IsPrefix(t, s) PROVE s = t
  <2>1. Len(s) <= Len(t) /\ Len(t) <= Len(s) /\ \A k \in 1..Len(s) : s[k] = t[k]
    BY <1>3, Prefixed
  <2>2. Len(s) = Len(t)
    BY <2>1
  <2> QED BY <2>1, <2>2, SeqEqual
<1> QED BY <1>1, <1>2, <1>3

LEMMA PrefixTransitive ==
  ASSUME NEW T, NEW s \in Seq(T), NEW t \in Seq(T), NEW u \in Seq(T), IsPrefix(s, t), IsPrefix(t, u)
  PROVE  IsPrefix(s, u)
<1>1. PICK a \in Nat, b \in Nat, c \in Nat : a = Len(s) /\ b = Len(t) /\ c = Len(u)
  OBVIOUS
<1>2. a <= b /\ b <= c /\ (\A k \in 1..a : s[k] = t[k]) /\ (\A k \in 1..b : t[k] = u[k])
  BY <1>1, Prefixed
<1>3. \A k \in 1..a : k \in 1..b
  BY <1>2
<1>4. a <= c /\ \A k \in 1..a : s[k] = u[k]
  BY <1>2, <1>3
<1> QED BY <1>1, <1>4, Prefixed

(* Of two prefixes of a sequence the shorter one is a prefix of the other. *)
LEMMA PrefixesNest ==
  ASSUME NEW T, NEW s \in Seq(T), NEW t \in Seq(T), NEW u \in Seq(T),
         IsPrefix(s, u), IsPrefix(t, u), Len(s) <= Len(t)
  PROVE  IsPrefix(s, t)
<1>1. PICK a \in Nat, b \in Nat : a = Len(s) /\ b = Len(t) /\ a <= b
  OBVIOUS
<1>2. (\A k \in 1..a : s[k] = u[k]) /\ (\A k \in 1..b : t[k] = u[k])
  BY <1>1, Prefixed
<1>3. \A k \in 1..a : k \in 1..b
  BY <1>1
<1>4. \A k \in 1..a : s[k] = t[k]
  BY <1>2, <1>3
<1> QED BY <1>1, <1>4, Prefixed

LEMMA Reversed ==
  ASSUME NEW T, NEW s \in Seq(T)
  PROVE  /\ Reverse(s) \in Seq(T) /\ Len(Reverse(s)) = Len(s) /\ Reverse(Reverse(s)) = s
<1>1. PICK n \in Nat : n = Len(s)
  OBVIOUS
<1>2. PICK r : r = Reverse(s)
  OBVIOUS
<1>3. r = [i \in 1..n |-> s[(n - i) + 1]]
  BY <1>1, <1>2 DEF Reverse
<1>4. \A i \in 1..n : (n - i) + 1 \in 1..n
  OBVIOUS
<1>5. r \in Seq(T) /\ Len(r) = n /\ \A i \in 1..n : r[i] = s[(n - i) + 1]
  BY <1>1, <1>3, <1>4
<1>6. PICK q : q = Reverse(r)
  OBVIOUS
<1>7. q = [i \in 1..n |-> r[(n - i) + 1]]
  BY <1>5, <1>6 DEF Reverse
<1>8. q \in Seq(T) /\ Len(q) = n /\ \A i \in 1..n : q[i] = r[(n - i) + 1]
  BY <1>4, <1>5, <1>7
<1>9. \A i \in 1..n : (n - ((n - i) + 1)) + 1 = i
  OBVIOUS
<1>10. ASSUME NEW i \in 1..n PROVE q[i] = s[i]
  <2>1. PICK j \in 1..n : j = (n - i) + 1 /\ (n - j) + 1 = i
    BY <1>4, <1>9
  <2> QED BY <1>5, <1>8, <2>1
<1>11. q = s
  BY <1>1, <1>8, <1>10, SeqEqual
<1> QED BY <1>1, <1>2, <1>5, <1>6, <1>11

(* The prefixes of the longest common prefix are the common prefixes.      *)
LEMMA LongestCommon ==
  ASSUME NEW T, NEW a \in Seq(T), NEW b \in Seq(T)
  PROVE  /\ LongestCommonPrefix({a, b}) \in Seq(T)
         /\ \A s \in Seq(T) : IsPrefix(s, LongestCommonPrefix({a, b})) <=> IsPrefix(s, a) /\ IsPrefix(s, b)
<1> DEFINE C == CommonPrefixes({a, b})
<1>1. ASSUME NEW c \in C PROVE c \in Seq(T) /\ IsPrefix(c, a) /\ IsPrefix(c, b)
  <2>1. IsPrefix(c, a) /\ IsPrefix(c, b)
    BY DEF CommonPrefixes
  <2>2. \E x \in {a, b} : \E l \in 0..Len(x) : c = SubSeq(x, 1, l)
    BY Zenon DEF CommonPrefixes, Prefixes
  <2>3. \A x \in Seq(T), l \in Nat : l <= Len(x) => SubSeq(x, 1, l) \in Seq(T)
    OBVIOUS
  <2>4. PICK x \in Seq(T) : \E l \in 0..Len(x) : c = SubSeq(x, 1, l)
    BY <2>2
  <2>5. PICK l \in 0..Len(x) : c = SubSeq(x, 1, l)
    BY <2>4
  <2>6. l \in Nat /\ l <= Len(x)
    OBVIOUS
  <2> QED BY <2>1, <2>3, <2>5, <2>6
<1>2. ASSUME NEW s \in Seq(T), IsPrefix(s, a), IsPrefix(s, b) PROVE s \in C
  <2>1. PICK n \in Nat : n = Len(s) /\ n <= Len(a) /\ n \in 0..Len(a)
    BY <1>2, PrefixOrder
  <2>2. SubSeq(s, 1, n) = SubSeq(a, 1, n)
    BY <1>2, <2>1 DEF IsPrefix
  <2>3. SubSeq(s, 1, n) = s
    BY <2>1
  <2>4. s \in Prefixes(a)
    BY <2>1, <2>2, <2>3, Zenon DEF Prefixes
  <2>5. \A t \in {a, b} : IsPrefix(s, t)
    BY <1>2
  <2> QED BY <2>4, <2>5, Zenon DEF CommonPrefixes
<1> HIDE DEF C
<1>3. \E c \in C : \A o \in C : Len(o) <= Len(c)
  <2> DEFINE M == {Len(a) - Len(c) : c \in C}
  <2>1. \A c \in C : Len(c) \in Nat /\ Len(c) <= Len(a)
    BY <1>1, PrefixOrder
  <2>2. M \subseteq Nat
    BY <2>1
  <2>3. <<>> \in C
    <3>1. <<>> \in Seq(T) /\ Len(<<>>) = 0
      OBVIOUS
    <3>e. PICK e : e = <<>>
      OBVIOUS
    <3>f. e \in Seq(T) /\ Len(e) = 0 /\ \A k \in 1..Len(e) : FALSE
      BY <3>1, <3>e
    <3>g. Len(e) <= Len(a) /\ Len(e) <= Len(b)
      BY <3>f
    <3>2. IsPrefix(e, a) /\ IsPrefix(e, b)
      BY <3>f, <3>g, Prefixed
    <3>3. e \in C
      BY <1>2, <3>f, <3>2
    <3> QED BY <3>e, <3>3
  <2>4. M # {}
    BY <2>3
  <2>5. PICK x \in M : \A y \in M : x <= y
    BY <2>2, <2>4, LeastNatural
  <2>6. PICK c \in C : x = Len(a) - Len(c)
    OBVIOUS
  <2>7. ASSUME NEW o \in C PROVE Len(o) <= Len(c)
    <3>1. Len(a) - Len(o) \in M
      OBVIOUS
    <3>2. Len(a) - Len(c) <= Len(a) - Len(o)
      BY <2>5, <2>6, <3>1
    <3>3. Len(a) \in Nat
      OBVIOUS
    <3> HIDE DEF M
    <3> QED BY <2>1, <3>2, <3>3
  <2> QED BY <2>7
<1>4. PICK p \in C : p = LongestCommonPrefix({a, b}) /\ \A o \in C : Len(o) <= Len(p)
  <2>1. LongestCommonPrefix({a, b}) = CHOOSE c \in C : \A o \in C : Len(o) <= Len(c)
    BY DEF LongestCommonPrefix, C
  <2> QED BY <1>3, <2>1, Zenon
<1>5. p \in Seq(T) /\ IsPrefix(p, a) /\ IsPrefix(p, b)
  BY <1>1
<1>6. ASSUME NEW s \in Seq(T), IsPrefix(s, a), IsPrefix(s, b) PROVE IsPrefix(s, p)
  <2>1. Len(s) <= Len(p)
    BY <1>2, <1>4, <1>6
  <2> QED BY <1>5, <1>6, <2>1, PrefixesNest
<1>7. ASSUME NEW s \in Seq(T), IsPrefix(s, p) PROVE IsPrefix(s, a) /\ IsPrefix(s, b)
  BY <1>5, <1>7, PrefixTransitive
<1> QED BY <1>4, <1>5, <1>6, <1>7

(* The suffixes of what common_suffix_str returns are the common suffixes. *)
LEMMA CommonSuffix ==
  ASSUME NEW a \in Names, NEW b \in Names
  PROVE  /\ common_suffix_str(a, b) \in Names
         /\ \A s \in Names : IsSuffix(s, common_suffix_str(a, b)) <=> IsSuffix(s, a) /\ IsSuffix(s, b)
<1>1. PICK T : Names = Seq(T)
  BY DEF Names
<1>2. PICK x \in Seq(T), y \in Seq(T) : x = Reverse(a) /\ y = Reverse(b)
  BY <1>1, Reversed
<1>3. PICK p \in Seq(T) :
        p = LongestCommonPrefix({x, y}) /\ \A s \in Seq(T) : IsPrefix(s, p) <=> IsPrefix(s, x) /\ IsPrefix(s, y)
  BY LongestCommon
<1>4. PICK c \in Seq(T) : c = common_suffix_str(a, b) /\ Reverse(c) = p
  <2>1. common_suffix_str(a, b) = Reverse(p)
    BY <1>2, <1>3, Zenon DEF common_suffix_str
  <2>2. Reverse(p) \in Seq(T) /\ Reverse(Reverse(p)) = p
    BY Reversed
  <2> QED BY <2>1, <2>2
<1>5. ASSUME NEW s \in Names PROVE IsSuffix(s, c) <=> IsSuffix(s, a) /\ IsSuffix(s, b)
  <2>1. Reverse(s) \in Seq(T)
    BY <1>1, Reversed
  <2> QED BY <1>2, <1>3, <1>4, <2>1 DEF IsSuffix
<1> QED BY <1>1, <1>4, <1>5

LEMMA SuffixOrder ==
  ASSUME NEW s \in Names, NEW t \in Names
  PROVE  /\ IsSuffix(s, s) /\ (IsSuffix(s, t) => Len(s) <= Len(t))
         /\ (IsSuffix(s, t) /\ IsSuffix(t, s) => s = t)
<1>1. PICK T : Names = Seq(T)
  BY DEF Names
<1>2. PICK x \in Seq(T) : x = Reverse(s) /\ Len(x) = Len(s) /\ Reverse(x) = s
  BY <1>1, Reversed
<1>3. PICK y \in Seq(T) : y = Reverse(t) /\ Len(y) = Len(t) /\ Reverse(y) = t
  BY <1>1, Reversed
<1>4. IsPrefix(x, x) /\ (IsPrefix(x, y) => Len(x) <= Len(y)) /\ (IsPrefix(x, y) /\ IsPrefix(y, x) => x = y)
  BY PrefixOrder
<1> QED BY <1>2, <1>3, <1>4 DEF IsSuffix

LEMMA SuffixTransitive ==
  ASSUME NEW s \in Names, NEW t \in Names, NEW u \in Names, IsSuffix(s, t), IsSuffix(t, u)
  PROVE  IsSuffix(s, u)
<1>1. PICK T : Names = Seq(T)
  BY DEF Names
<1>2. Reverse(s) \in Seq(T) /\ Reverse(t) \in Seq(T) /\ Reverse(u) \in Seq(T)
  BY <1>1, Reversed
<1> QED BY <1>2, PrefixTransitive DEF IsSuffix

(* The suffixes of sfx are those that all names of H share.                *)
SuffixOf(sfx, H) ==
  IF H = {} THEN sfx = Nil
  ELSE sfx \in Names /\ \A s \in Names : IsSuffix(s, sfx) <=> \A n \in H : IsSuffix(s, n)

LEMMA NilIsNoName == Nil \notin Names
  BY ZoneFileAssumption DEF Datas

LEMMA SuffixExtended ==
  ASSUME NEW H, H \subseteq Names, NEW sfx, SuffixOf(sfx, H), NEW n \in Names
  PROVE  SuffixOf(extend_suffix(sfx, n), H \cup {n})
<1>1. CASE H = {}
  <2>1. extend_suffix(sfx, n) = n
    BY <1>1 DEF SuffixOf, extend_suffix
  <2> QED BY <1>1, <2>1 DEF SuffixOf
<1>2. CASE H # {}
  <2>1. sfx \in Names /\ sfx # Nil /\ \A s \in Names : IsSuffix(s, sfx) <=> \A m \in H : IsSuffix(s, m)
    BY <1>2, NilIsNoName DEF SuffixOf
  <2>2. CASE IsSuffix(sfx, n)
    <3>1. extend_suffix(sfx, n) = sfx
      BY <2>1, <2>2 DEF extend_suffix, name_in_suffix
    <3>2. \A s \in Names : IsSuffix(s, sfx) => IsSuffix(s, n)
      BY <2>1, <2>2, SuffixTransitive
    <3>3. \A s \in Names : IsSuffix(s, sfx) <=> \A m \in H \cup {n} : IsSuffix(s, m)
      BY <2>1, <3>2
    <3> QED BY <1>2, <2>1, <3>1, <3>3 DEF SuffixOf
  <2>3. CASE ~IsSuffix(sfx, n)
    <3>1. PICK c \in Names : /\ c = common_suffix_str(sfx, n)
                             /\ \A s \in Names : IsSuffix(s, c) <=> IsSuffix(s, sfx) /\ IsSuffix(s, n)
      BY <2>1, CommonSuffix
    <3>2. extend_suffix(sfx, n) = c
      BY <2>1, <2>3, <3>1 DEF extend_suffix, name_in_suffix
    <3>3. \A s \in Names : IsSuffix(s, c) <=> \A m \in H \cup {n} : IsSuffix(s, m)
      BY <2>1, <3>1
    <3> QED BY <1>2, <3>2, <3>3 DEF SuffixOf
  <2> QED BY <2>2, <2>3
<1> QED BY <1>1, <1>2

LEMMA SuffixUnique ==
  ASSUME NEW H, NEW x, NEW y, SuffixOf(x, H), SuffixOf(y, H)
  PROVE  x = y
<1>1. CASE H = {}
  BY <1>1 DEF SuffixOf
<1>2. CASE H # {}
  <2>1. /\ x \in Names /\ \A s \in Names : IsSuffix(s, x) <=> \A m \in H : IsSuffix(s, m)
        /\ y \in Names /\ \A s \in Names : IsSuffix(s, y) <=> \A m \in H : IsSuffix(s, m)
    BY <1>2 DEF SuffixOf
  <2>2. IsSuffix(x, x) /\ IsSuffix(y, y)
    BY <2>1, SuffixOrder
  <2>3. IsSuffix(x, y) /\ IsSuffix(y, x)
    BY <2>1, <2>2
  <2> QED BY <2>1, <2>3, SuffixOrder
<1> QED BY <1>1, <1>2

----------------------------------------------------------------------------
(* The zone a parse has built from the lines it has read.                  *)

Types == {"A", "AAAA", "NS"}
CanonicalNames == {n \in Names : canonical(n) = n}

LEMMA CanonicalName ==
  ASSUME NEW n \in Names
  PROVE  canonical(n) \in CanonicalNames
<1>1. PICK m \in Nat : m = Len(n)
  BY DEF Names
<1>2. \A i \in 1..m : n[i] \in DOMAIN Lower
  BY <1>1 DEF Names
<1>3. PICK c : c = canonical(n)
  OBVIOUS
<1>4. c = [i \in 1..m |-> Lower[n[i]]]
  BY <1>1, <1>3 DEF canonical, Names
<1>5. \A i \in 1..m : Lower[n[i]] \in DOMAIN Lower /\ Lower[Lower[n[i]]] = Lower[n[i]]
  BY <1>2, ZoneFileAssumption
<1>6. c \in Seq(DOMAIN Lower) /\ DOMAIN c = 1..m
  BY <1>4, <1>5
<1>7. canonical(c) = [i \in 1..m |-> Lower[c[i]]]
  BY <1>6 DEF canonical
<1>8. \A i \in 1..m : Lower[c[i]] = c[i]
  BY <1>4, <1>5
<1>9. canonical(c) = c
  BY <1>4, <1>7, <1>8
<1> QED BY <1>3, <1>6, <1>9 DEF CanonicalNames, Names

(* The entry of a name holds what the lines say of it.                     *)
EntryOf(rec, pool, h, n) ==
  /\ rec = [a |-> Data(h, n, "A"), aaaa |-> Data(h, n, "AAAA"), ns |-> rec.ns]
  /\ rec.ns \in Seq(Nat) /\ Len(rec.ns) = Len(Data(h, n, "NS"))
  /\ \A i \in 1..Len(rec.ns) :
       rec.ns[i] \in 1..Len(pool) /\ pool[rec.ns[i]] = canonical(Data(h, n, "NS")[i])

NoData(h, n) == \A ty \in Types : Data(h, n, ty) = <<>>
Held(h) == {n \in Names : ~NoData(h, n)}

(* Records, pool and suffix hold what the lines h say.                     *)
Holds(R, pool, sfx, h) ==
  /\ IsFiniteSet(DOMAIN R) /\ DOMAIN R \subseteq CanonicalNames
  /\ R = [n \in DOMAIN R |-> R[n]]
  /\ pool \in Seq(CanonicalNames)
  /\ \A n \in DOMAIN R : EntryOf(R[n], pool, h, n)
  /\ \A n \in Names \ DOMAIN R : NoData(h, n)
  /\ SuffixOf(sfx, Held(h))

Represents(zn, h) ==
  /\ zn = [records |-> zn.records, ns_pool |-> zn.ns_pool, suffix |-> zn.suffix]
  /\ Holds(zn.records, zn.ns_pool, zn.suffix, h)

LEMMA EmptyRepresents == Represents(EmptyZone, <<>>)
<1>1. PICK R, pool, sfx : EmptyZone = [records |-> R, ns_pool |-> pool, suffix |-> sfx]
                           /\ R = [n \in {} |-> EmptyRecords] /\ pool = <<>> /\ sfx = Nil
  BY DEF EmptyZone
<1>2. DOMAIN R = {} /\ R = [n \in DOMAIN R |-> R[n]] /\ IsFiniteSet({})
  BY <1>1, FS_EmptySet
<1>3. \A n : NoData(<<>>, n)
  BY DataEmpty DEF NoData
<1>4. Held(<<>>) = {}
  BY <1>3 DEF Held
<1>5. pool \in Seq(CanonicalNames)
  BY <1>1
<1>6. Holds(R, pool, sfx, <<>>)
  BY <1>1, <1>2, <1>3, <1>4, <1>5 DEF Holds, SuffixOf
<1> QED BY <1>1, <1>6 DEF Represents

(* An empty entry for a name without data.                                 *)
LEMMA EntryAdded ==
  ASSUME NEW R, NEW pool, NEW sfx, NEW h, Holds(R, pool, sfx, h), NEW name \in CanonicalNames
  PROVE  /\ Holds(with_entry(R, name), pool, sfx, h)
         /\ name \in DOMAIN with_entry(R, name)
         /\ DOMAIN with_entry(R, name) = DOMAIN R \cup {name}
<1>1. PICK Q : Q = with_entry(R, name)
  OBVIOUS
<1>2. Q = [n \in DOMAIN R \cup {name} |-> IF n \in DOMAIN R THEN R[n] ELSE EmptyRecords]
  BY <1>1 DEF with_entry
<1>3. DOMAIN Q = DOMAIN R \cup {name} /\ Q = [n \in DOMAIN Q |-> Q[n]]
  BY <1>2
<1>4. IsFiniteSet(DOMAIN Q) /\ DOMAIN Q \subseteq CanonicalNames
  BY <1>3, FS_AddElement DEF Holds
<1>5. ASSUME NEW n \in DOMAIN Q PROVE EntryOf(Q[n], pool, h, n)
  <2>1. CASE n \in DOMAIN R
    <3>1. Q[n] = R[n]
      BY <1>2, <2>1
    <3> QED BY <2>1, <3>1 DEF Holds
  <2>2. CASE n \notin DOMAIN R
    <3>1. Q[n] = EmptyRecords /\ n \in Names
      BY <1>2, <1>3, <2>2 DEF CanonicalNames, Holds
    <3>2. NoData(h, n)
      BY <2>2, <3>1 DEF Holds
    <3>3. Data(h, n, "A") = <<>> /\ Data(h, n, "AAAA") = <<>> /\ Data(h, n, "NS") = <<>>
      BY <3>2 DEF NoData, Types
    <3> QED BY <3>1, <3>3 DEF EntryOf, EmptyRecords
  <2> QED BY <2>1, <2>2
<1>6. \A n \in Names \ DOMAIN Q : NoData(h, n)
  BY <1>3 DEF Holds
<1>7. pool \in Seq(CanonicalNames) /\ SuffixOf(sfx, Held(h))
  BY DEF Holds
<1>8. Holds(Q, pool, sfx, h)
  BY <1>3, <1>4, <1>5, <1>6, <1>7 DEF Holds
<1> QED BY <1>1, <1>3, <1>8

(* A line that no lookup sees changes nothing.                             *)
LEMMA LineSkipped ==
  ASSUME NEW h \in Seq(GoodLines), NEW l \in GoodLines, NEW R, NEW pool, NEW sfx,
         Holds(R, pool, sfx, h), l.type \notin Types \/ l.data = Bad
  PROVE  Holds(R, pool, sfx, Append(h, l))
<1>1. PICK g : g = Append(h, l)
  OBVIOUS
<1>2. ASSUME NEW n, NEW ty \in Types PROVE Data(g, n, ty) = Data(h, n, ty)
  <2>1. ~Kept(l, n, ty)
    BY DEF Kept
  <2> QED BY <1>1, <2>1, DataAppend
<1>3. \A n : NoData(g, n) <=> NoData(h, n)
  BY <1>2 DEF NoData
<1>4. Held(g) = Held(h)
  BY <1>3 DEF Held
<1>5. ASSUME NEW n, NEW rec, EntryOf(rec, pool, h, n) PROVE EntryOf(rec, pool, g, n)
  <2>1. Data(g, n, "A") = Data(h, n, "A") /\ Data(g, n, "AAAA") = Data(h, n, "AAAA")
          /\ Data(g, n, "NS") = Data(h, n, "NS")
    BY <1>2 DEF Types
  <2> QED BY <1>5, <2>1, Zenon DEF EntryOf
<1>6. Holds(R, pool, sfx, g)
  BY <1>3, <1>4, <1>5, Zenon DEF Holds
<1> QED BY <1>1, <1>6

PoolExtends(old, new) == Len(old) <= Len(new) /\ \A i \in 1..Len(old) : new[i] = old[i]

(* A line that is kept changes the entry of its name and the suffix.       *)
LEMMA LineKept ==
  ASSUME NEW h \in Seq(GoodLines), NEW l \in GoodLines, NEW R, NEW pool, NEW sfx,
         Holds(R, pool, sfx, h), NEW name \in DOMAIN R, NEW kind \in Types, Kept(l, name, kind),
         NEW rec, NEW pool2 \in Seq(CanonicalNames), PoolExtends(pool, pool2),
         EntryOf(rec, pool2, Append(h, l), name)
  PROVE  Holds([R EXCEPT ![name] = rec], pool2, extend_suffix(sfx, name), Append(h, l))
<1>1. PICK g : g = Append(h, l)
  OBVIOUS
<1>2. name \in Names /\ name \in CanonicalNames
  BY DEF Holds, CanonicalNames
<1>3. ASSUME NEW n, NEW ty, n # name PROVE Data(g, n, ty) = Data(h, n, ty)
  <2>1. ~Kept(l, n, ty)
    BY <1>3 DEF Kept
  <2> QED BY <1>1, <2>1, DataAppend
<1>4. ~NoData(g, name)
  <2>1. Data(g, name, kind) = Append(Data(h, name, kind), l.data)
    BY <1>1, DataAppend
  <2>2. PICK d \in Seq(Datas), v \in Datas : d = Data(h, name, kind) /\ v = l.data
    BY DataType DEF GoodLines
  <2>3. Append(d, v) # <<>>
    <3>1. Append(d, v) \in Seq(Datas) /\ Len(Append(d, v)) = Len(d) + 1 /\ Len(d) \in Nat
      BY AppendProperties, LenProperties
    <3>2. Len(Append(d, v)) # 0 /\ Len(<<>>) = 0
      BY <3>1
    <3> QED BY <3>2, Zenon
  <2> QED BY <2>1, <2>2, <2>3 DEF NoData
<1>5. \A n : n # name => (NoData(g, n) <=> NoData(h, n))
  BY <1>3 DEF NoData
<1>6. Held(g) = Held(h) \cup {name}
  BY <1>2, <1>4, <1>5 DEF Held
<1>7. SuffixOf(extend_suffix(sfx, name), Held(g))
  <2>1. Held(h) \subseteq Names /\ SuffixOf(sfx, Held(h))
    BY DEF Holds, Held
  <2> QED BY <1>2, <1>6, <2>1, SuffixExtended
<1>8. PICK Q : Q = [R EXCEPT ![name] = rec]
  OBVIOUS
<1>9. R = [n \in DOMAIN R |-> R[n]]
  BY DEF Holds
<1>10. DOMAIN Q = DOMAIN R /\ Q = [n \in DOMAIN Q |-> Q[n]] /\ Q[name] = rec
         /\ \A n \in DOMAIN R : n # name => Q[n] = R[n]
  BY <1>8, <1>9
<1>11. ASSUME NEW n \in DOMAIN R, n # name PROVE EntryOf(R[n], pool2, g, n)
  <2>1. EntryOf(R[n], pool, h, n)
    BY DEF Holds
  <2>2. PICK e : e = R[n]
    OBVIOUS
  <2>3. Data(g, n, "A") = Data(h, n, "A") /\ Data(g, n, "AAAA") = Data(h, n, "AAAA")
          /\ Data(g, n, "NS") = Data(h, n, "NS")
    BY <1>3, <1>11
  <2>4. PICK hosts : hosts = Data(h, n, "NS")
    OBVIOUS
  <2>5. \A i \in 1..Len(e.ns) : e.ns[i] \in 1..Len(pool) /\ pool[e.ns[i]] = canonical(hosts[i])
    BY <2>1, <2>2, <2>4 DEF EntryOf
  <2>6. \A i \in 1..Len(e.ns) : e.ns[i] \in 1..Len(pool2) /\ pool2[e.ns[i]] = canonical(hosts[i])
    <3>1. pool \in Seq(CanonicalNames)
      BY DEF Holds
    <3>2. \A k \in 1..Len(pool) : k \in 1..Len(pool2) /\ pool2[k] = pool[k]
      BY <3>1 DEF PoolExtends
    <3> QED BY <2>5, <3>2, Zenon
  <2> QED BY <2>1, <2>2, <2>3, <2>4, <2>6, Zenon DEF EntryOf
<1>12. \A n \in DOMAIN Q : EntryOf(Q[n], pool2, g, n)
  BY <1>1, <1>10, <1>11
<1>13. ASSUME NEW n \in Names \ DOMAIN Q PROVE NoData(g, n)
  <2>1. n # name /\ n \in Names \ DOMAIN R
    BY <1>10, <1>13
  <2>2. NoData(h, n)
    BY <2>1 DEF Holds
  <2> QED BY <1>5, <2>1, <2>2
<1>14. IsFiniteSet(DOMAIN Q) /\ DOMAIN Q \subseteq CanonicalNames
  BY <1>10 DEF Holds
<1>15. Holds(Q, pool2, extend_suffix(sfx, name), g)
  BY <1>7, <1>10, <1>12, <1>13, <1>14, Zenon DEF Holds
<1> QED BY <1>1, <1>8, <1>15

IsAppended(t, s, e) ==
  t = Append(s, e) /\ Len(t) = Len(s) + 1 /\ t[Len(s) + 1] = e /\ \A i \in 1..Len(s) : t[i] = s[i]

LEMMA Appended ==
  ASSUME NEW S, NEW s \in Seq(S), NEW e \in S
  PROVE  \E t \in Seq(S) : IsAppended(t, s, e)
<1>1. PICK t : t = Append(s, e)
  OBVIOUS
<1>2. t \in Seq(S) /\ Len(t) = Len(s) + 1 /\ t[Len(s) + 1] = e /\ \A i \in 1..Len(s) : t[i] = s[i]
  BY <1>1, AppendProperties
<1> QED BY <1>1, <1>2 DEF IsAppended

(* The pool with an interned host.                                         *)
LEMMA Interned ==
  ASSUME NEW pool \in Seq(CanonicalNames), NEW host \in CanonicalNames
  PROVE  /\ intern(pool, host).pool \in Seq(CanonicalNames)
         /\ PoolExtends(pool, intern(pool, host).pool)
         /\ intern(pool, host).idx \in 1..Len(intern(pool, host).pool)
         /\ intern(pool, host).pool[intern(pool, host).idx] = host
<1>1. CASE host \in ToSet(pool)
  <2>1. \E i \in DOMAIN pool : pool[i] = host
    BY <1>1 DEF ToSet
  <2>2. PICK j \in DOMAIN pool : j = (CHOOSE i \in DOMAIN pool : pool[i] = host) /\ pool[j] = host
    BY <2>1, Zenon
  <2>3. intern(pool, host).pool = pool /\ intern(pool, host).idx = j
    BY <1>1, <2>2 DEF intern
  <2>4. PoolExtends(pool, pool) /\ j \in 1..Len(pool)
    BY DEF PoolExtends
  <2> QED BY <2>2, <2>3, <2>4
<1>2. CASE host \notin ToSet(pool)
  <2>j. PICK j \in Nat : j = Len(pool) + 1
    OBVIOUS
  <2>p. PICK p \in Seq(CanonicalNames) : IsAppended(p, pool, host)
    BY Appended
  <2>1. p = Append(pool, host) /\ j = Len(pool) + 1 /\ Len(p) = j /\ p[j] = host
          /\ \A i \in 1..Len(pool) : p[i] = pool[i]
    BY <2>j, <2>p DEF IsAppended
  <2>2. intern(pool, host).pool = p /\ intern(pool, host).idx = j
    BY <1>2, <2>1 DEF intern
  <2>3. PoolExtends(pool, p) /\ j \in 1..Len(p)
    BY <2>1 DEF PoolExtends
  <2> QED BY <2>1, <2>2, <2>3
<1> QED BY <1>1, <1>2

(* One turn of the parse keeps pace with the lines.                        *)
LEMMA ParseStep ==
  ASSUME NEW h \in Seq(GoodLines), NEW l \in GoodLines, NEW zn, Represents(zn, h)
  PROVE  Represents(parse_line(zn, l), Append(h, l))
<1>1. PICK R, pool, sfx : zn = [records |-> R, ns_pool |-> pool, suffix |-> sfx] /\ Holds(R, pool, sfx, h)
  BY DEF Represents
<1>2. zn.records = R /\ zn.ns_pool = pool /\ zn.suffix = sfx
  BY <1>1
<1>3. l.name \in Names /\ l.data \in Datas /\ (l.type = "NS" => l.data \in Names)
  BY DEF GoodLines
<1>4. PICK name \in CanonicalNames : name = canonical(l.name)
  BY <1>3, CanonicalName
<1>5. PICK Q : Q = with_entry(R, name) /\ Holds(Q, pool, sfx, h) /\ name \in DOMAIN Q
  BY <1>1, EntryAdded
<1>6. PICK g : g = Append(h, l)
  OBVIOUS
<1>7. PICK s2 : s2 = extend_suffix(sfx, name)
  OBVIOUS
<1>q. Q = [n \in DOMAIN Q |-> Q[n]]
  BY <1>5 DEF Holds
<1>e. PICK old : /\ old = Q[name]
                 /\ old = [a |-> Data(h, name, "A"), aaaa |-> Data(h, name, "AAAA"), ns |-> old.ns]
                 /\ old.ns \in Seq(Nat) /\ Len(old.ns) = Len(Data(h, name, "NS"))
                 /\ \A i \in 1..Len(old.ns) :
                      old.ns[i] \in 1..Len(pool) /\ pool[old.ns[i]] = canonical(Data(h, name, "NS")[i])
  BY <1>5 DEF Holds, EntryOf
<1>p. pool \in Seq(CanonicalNames) /\ PoolExtends(pool, pool)
  BY <1>1 DEF Holds, PoolExtends
<1>d. ASSUME NEW ty
      PROVE  Data(g, name, ty) = IF Kept(l, name, ty) THEN Append(Data(h, name, ty), l.data) ELSE Data(h, name, ty)
  BY <1>6, DataAppend
<1>8. CASE l.type \notin Types
  <2>1. parse_line(zn, l) = zn
    BY <1>8 DEF parse_line, Types
  <2>2. Holds(R, pool, sfx, g)
    BY <1>1, <1>6, <1>8, LineSkipped
  <2> QED BY <1>1, <1>6, <2>1, <2>2 DEF Represents
<1>9. CASE l.type \in {"A", "AAAA"} /\ l.data = Bad
  <2>1. parse_line(zn, l) = [zn EXCEPT !.records = Q]
    BY <1>2, <1>4, <1>5, <1>9 DEF parse_line
  <2>2. parse_line(zn, l) = [records |-> Q, ns_pool |-> pool, suffix |-> sfx]
    BY <1>1, <2>1
  <2>3. Holds(Q, pool, sfx, g)
    BY <1>5, <1>6, <1>9, LineSkipped
  <2> QED BY <1>6, <2>2, <2>3 DEF Represents
<1>10. CASE l.type = "A" /\ l.data # Bad
  <2>1. parse_line(zn, l) = [zn EXCEPT !.records = [Q EXCEPT ![name].a = Append(@, l.data)], !.suffix = s2]
    BY <1>2, <1>4, <1>5, <1>7, <1>10 DEF parse_line
  <2>k. Kept(l, name, "A") /\ ~Kept(l, name, "AAAA") /\ ~Kept(l, name, "NS")
    BY <1>4, <1>10 DEF Kept
  <2>2. PICK rec : rec = [old EXCEPT !.a = Append(@, l.data)]
    OBVIOUS
  <2>r. PICK xa, xb, xc : old = [a |-> xa, aaaa |-> xb, ns |-> xc]
                            /\ xa = Data(h, name, "A") /\ xb = Data(h, name, "AAAA") /\ xc = old.ns
    BY <1>e
  <2>3. Data(g, name, "A") = Append(Data(h, name, "A"), l.data)
          /\ Data(g, name, "AAAA") = Data(h, name, "AAAA") /\ Data(g, name, "NS") = Data(h, name, "NS")
    BY <1>d, <2>k
  <2>4. rec = [a |-> Data(g, name, "A"), aaaa |-> Data(g, name, "AAAA"), ns |-> old.ns] /\ rec.ns = old.ns
    BY <2>r, <2>2, <2>3
  <2>5. EntryOf(rec, pool, g, name)
    BY <1>e, <2>3, <2>4, Zenon DEF EntryOf
  <2>6. PICK W : W = [Q EXCEPT ![name] = rec]
    OBVIOUS
  <2>7. Holds(W, pool, s2, g)
    <3>1. "A" \in Types
      BY DEF Types
    <3> QED BY <1>5, <1>6, <1>7, <1>p, <2>k, <2>5, <2>6, <3>1, LineKept
  <2>8. [Q EXCEPT ![name].a = Append(@, l.data)] = W
    BY <1>e, <1>q, <2>2, <2>6
  <2>9. parse_line(zn, l) = [records |-> W, ns_pool |-> pool, suffix |-> s2]
    BY <1>1, <2>1, <2>8
  <2> QED BY <1>6, <2>7, <2>9 DEF Represents
<1>11. CASE l.type = "AAAA" /\ l.data # Bad
  <2>1. parse_line(zn, l) = [zn EXCEPT !.records = [Q EXCEPT ![name].aaaa = Append(@, l.data)], !.suffix = s2]
    BY <1>2, <1>4, <1>5, <1>7, <1>11 DEF parse_line
  <2>k. ~Kept(l, name, "A") /\ Kept(l, name, "AAAA") /\ ~Kept(l, name, "NS")
    BY <1>4, <1>11 DEF Kept
  <2>2. PICK rec : rec = [old EXCEPT !.aaaa = Append(@, l.data)]
    OBVIOUS
  <2>r. PICK xa, xb, xc : old = [a |-> xa, aaaa |-> xb, ns |-> xc]
                            /\ xa = Data(h, name, "A") /\ xb = Data(h, name, "AAAA") /\ xc = old.ns
    BY <1>e
  <2>3. Data(g, name, "A") = Data(h, name, "A")
          /\ Data(g, name, "AAAA") = Append(Data(h, name, "AAAA"), l.data)
          /\ Data(g, name, "NS") = Data(h, name, "NS")
    BY <1>d, <2>k
  <2>4. rec = [a |-> Data(g, name, "A"), aaaa |-> Data(g, name, "AAAA"), ns |-> old.ns] /\ rec.ns = old.ns
    BY <2>r, <2>2, <2>3
  <2>5. EntryOf(rec, pool, g, name)
    BY <1>e, <2>3, <2>4, Zenon DEF EntryOf
  <2>6. PICK W : W = [Q EXCEPT ![name] = rec]
    OBVIOUS
  <2>7. Holds(W, pool, s2, g)
    <3>1. "AAAA" \in Types
      BY DEF Types
    <3> QED BY <1>5, <1>6, <1>7, <1>p, <2>k, <2>5, <2>6, <3>1, LineKept
  <2>8. [Q EXCEPT ![name].aaaa = Append(@, l.data)] = W
    BY <1>e, <1>q, <2>2, <2>6
  <2>9. parse_line(zn, l) = [records |-> W, ns_pool |-> pool, suffix |-> s2]
    BY <1>1, <2>1, <2>8
  <2> QED BY <1>6, <2>7, <2>9 DEF Represents
<1>12. CASE l.type = "NS"
  <2>h. PICK host \in CanonicalNames : host = canonical(l.data)
    BY <1>3, <1>12, CanonicalName
  <2>i. PICK p2 \in Seq(CanonicalNames), idx \in Nat :
          /\ p2 = intern(pool, host).pool /\ idx = intern(pool, host).idx
          /\ PoolExtends(pool, p2) /\ idx \in 1..Len(p2) /\ p2[idx] = host
    BY <1>p, Interned
  <2>1. parse_line(zn, l) =
          [records |-> [Q EXCEPT ![name].ns = Append(@, idx)], ns_pool |-> p2, suffix |-> s2]
    BY <1>2, <1>4, <1>5, <1>7, <1>12, <2>h, <2>i DEF parse_line
  <2>k. ~Kept(l, name, "A") /\ ~Kept(l, name, "AAAA") /\ Kept(l, name, "NS")
    BY <1>3, <1>4, <1>12, ZoneFileAssumption DEF Kept
  <2>2. PICK rec : rec = [old EXCEPT !.ns = Append(@, idx)]
    OBVIOUS
  <2>r. PICK xa, xb, xc : old = [a |-> xa, aaaa |-> xb, ns |-> xc]
                            /\ xa = Data(h, name, "A") /\ xb = Data(h, name, "AAAA") /\ xc = old.ns
    BY <1>e
  <2>d. PICK hosts \in Seq(Datas) : hosts = Data(h, name, "NS")
    BY DataType
  <2>v. PICK v \in Datas : v = l.data
    BY <1>3
  <2>n. PICK ids \in Seq(Nat) : ids = old.ns
    BY <1>e
  <2>3. Data(g, name, "A") = Data(h, name, "A") /\ Data(g, name, "AAAA") = Data(h, name, "AAAA")
          /\ Data(g, name, "NS") = Append(hosts, v)
    BY <1>d, <2>k, <2>d, <2>v
  <2>4. rec = [a |-> Data(g, name, "A"), aaaa |-> Data(g, name, "AAAA"), ns |-> Append(ids, idx)]
          /\ rec.ns = Append(ids, idx)
    BY <2>r, <2>2, <2>3, <2>n
  <2>m. PICK m \in Nat : m = Len(ids) /\ m = Len(hosts)
    BY <1>e, <2>d, <2>n
  <2>p. PICK ids2 \in Seq(Nat), hosts2 \in Seq(Datas) : IsAppended(ids2, ids, idx) /\ IsAppended(hosts2, hosts, v)
    BY Appended
  <2>a. ids2 = Append(ids, idx) /\ Len(ids2) = m + 1 /\ ids2[m + 1] = idx /\ \A i \in 1..m : ids2[i] = ids[i]
    BY <2>m, <2>p DEF IsAppended
  <2>b. hosts2 = Append(hosts, v) /\ Len(hosts2) = m + 1 /\ hosts2[m + 1] = v
          /\ \A i \in 1..m : hosts2[i] = hosts[i]
    BY <2>m, <2>p DEF IsAppended
  <2>c. ASSUME NEW i \in 1..(m + 1)
        PROVE  ids2[i] \in 1..Len(p2) /\ p2[ids2[i]] = canonical(hosts2[i])
    <3>1. CASE i = m + 1
      BY <2>a, <2>b, <2>h, <2>i, <2>v, <3>1
    <3>2. CASE i # m + 1
      <4>1. i \in 1..m
        BY <3>2
      <4>2. ids[i] \in 1..Len(pool) /\ pool[ids[i]] = canonical(hosts[i])
        BY <1>e, <2>d, <2>m, <2>n, <4>1
      <4>3. \A k \in 1..Len(pool) : k \in 1..Len(p2) /\ p2[k] = pool[k]
        BY <1>p, <2>i DEF PoolExtends
      <4> QED BY <2>a, <2>b, <4>1, <4>2, <4>3
    <3> QED BY <3>1, <3>2
  <2>5. EntryOf(rec, p2, g, name)
    <3>1. rec.ns = ids2 /\ Data(g, name, "NS") = hosts2
      BY <2>3, <2>4, <2>a, <2>b
    <3>2. rec = [a |-> Data(g, name, "A"), aaaa |-> Data(g, name, "AAAA"), ns |-> rec.ns]
      BY <2>4
    <3>3. rec.ns \in Seq(Nat) /\ Len(rec.ns) = Len(Data(g, name, "NS"))
      BY <3>1, <2>a, <2>b
    <3>4. \A i \in 1..Len(rec.ns) :
             rec.ns[i] \in 1..Len(p2) /\ p2[rec.ns[i]] = canonical(Data(g, name, "NS")[i])
      BY <3>1, <2>a, <2>c, Zenon
    <3> QED BY <3>2, <3>3, <3>4, Zenon DEF EntryOf
  <2>6. PICK W : W = [Q EXCEPT ![name] = rec]
    OBVIOUS
  <2>7. Holds(W, p2, s2, g)
    <3>1. "NS" \in Types
      BY DEF Types
    <3> QED BY <1>5, <1>6, <1>7, <2>i, <2>k, <2>5, <2>6, <3>1, LineKept
  <2>8. [Q EXCEPT ![name].ns = Append(@, idx)] = W
    BY <1>e, <1>q, <2>2, <2>6
  <2>9. parse_line(zn, l) = [records |-> W, ns_pool |-> p2, suffix |-> s2]
    BY <2>1, <2>8
  <2> QED BY <1>6, <2>7, <2>9 DEF Represents
<1> QED BY <1>8, <1>9, <1>10, <1>11, <1>12 DEF Types

(* What a lookup in the zone answers is what the lines say.                *)
LEMMA LookupAnswers ==
  ASSUME NEW h \in Seq(GoodLines), NEW zn, Represents(zn, h), NEW n \in Names
  PROVE  lookup(zn, n) = Answers(h, n)
<1>1. PICK R, pool, sfx : zn = [records |-> R, ns_pool |-> pool, suffix |-> sfx] /\ Holds(R, pool, sfx, h)
  BY DEF Represents
<1>2. zn.records = R /\ zn.ns_pool = pool /\ zn.suffix = sfx
  BY <1>1
<1>3. CASE n \notin DOMAIN R
  <2>1. NoData(h, n)
    BY <1>1, <1>3 DEF Holds
  <2>2. Data(h, n, "A") = <<>> /\ Data(h, n, "AAAA") = <<>> /\ Data(h, n, "NS") = <<>>
    BY <2>1 DEF NoData, Types
  <2>3. lookup(zn, n) = <<>>
    BY <1>2, <1>3 DEF lookup
  <2>4. Answers(h, n) = <<>>
    BY <2>2 DEF Answers
  <2> QED BY <2>3, <2>4
<1>4. CASE n \in DOMAIN R
  <2>1. PICK rec : rec = R[n] /\ EntryOf(rec, pool, h, n)
    BY <1>1, <1>4 DEF Holds
  <2>2. PICK hosts \in Seq(Datas) : hosts = Data(h, n, "NS")
    BY DataType
  <2>3. rec.a = Data(h, n, "A") /\ rec.aaaa = Data(h, n, "AAAA")
          /\ rec.ns \in Seq(Nat) /\ Len(rec.ns) = Len(hosts)
    BY <2>1, <2>2 DEF EntryOf
  <2>4. ASSUME NEW i \in DOMAIN hosts PROVE ns_address(zn, rec.ns[i]) = GlueIn(h, canonical(hosts[i]))
    <3>1. i \in 1..Len(rec.ns)
      BY <2>3
    <3>2. rec.ns[i] \in 1..Len(pool) /\ pool[rec.ns[i]] = canonical(hosts[i])
      BY <2>1, <2>2, <3>1, Zenon DEF EntryOf
    <3>3. pool \in Seq(CanonicalNames)
      BY <1>1 DEF Holds
    <3>4. PICK host \in CanonicalNames : host = canonical(hosts[i]) /\ host = ns_hostname(zn, rec.ns[i])
      BY <1>2, <3>2, <3>3 DEF ns_hostname
    <3>5. PICK x \in Seq(Datas), y \in Seq(Datas) : x = Data(h, host, "A") /\ y = Data(h, host, "AAAA")
      BY DataType
    <3>6. (x # <<>> => Head(x) # Nil) /\ (y # <<>> => Head(y) # Nil)
      <4>1. (x # <<>> => Head(x) \in Datas) /\ (y # <<>> => Head(y) \in Datas)
        OBVIOUS
      <4> QED BY <4>1, ZoneFileAssumption
    <3>7. CASE host \in DOMAIN R
      <4>1. EntryOf(R[host], pool, h, host)
        BY <1>1, <3>7 DEF Holds
      <4>2. R[host].a = x /\ R[host].aaaa = y
        BY <3>5, <4>1 DEF EntryOf
      <4>3. glue_for(zn, host) = IF x # <<>> THEN Head(x) ELSE IF y # <<>> THEN Head(y) ELSE Nil
        BY <1>2, <3>7, <4>2 DEF glue_for
      <4>4. GlueIn(h, host) = IF x # <<>> THEN Head(x) ELSE IF y # <<>> THEN Head(y) ELSE dummy_ip(host)
        BY <3>5 DEF GlueIn
      <4>5. ns_address(zn, rec.ns[i]) = IF glue_for(zn, host) = Nil THEN dummy_ip(host) ELSE glue_for(zn, host)
        BY <3>4 DEF ns_address
      <4> QED BY <3>4, <3>6, <4>3, <4>4, <4>5
    <3>8. CASE host \notin DOMAIN R
      <4>1. host \in Names
        BY DEF CanonicalNames
      <4>2. NoData(h, host)
        BY <1>1, <3>8, <4>1 DEF Holds
      <4>3. x = <<>> /\ y = <<>>
        BY <3>5, <4>2 DEF NoData, Types
      <4>4. glue_for(zn, host) = Nil
        BY <1>2, <3>8 DEF glue_for
      <4>5. GlueIn(h, host) = dummy_ip(host)
        BY <3>5, <4>3 DEF GlueIn
      <4>6. ns_address(zn, rec.ns[i]) = IF glue_for(zn, host) = Nil THEN dummy_ip(host) ELSE glue_for(zn, host)
        BY <3>4 DEF ns_address
      <4> QED BY <3>4, <4>4, <4>5, <4>6
    <3> QED BY <3>7, <3>8
  <2>5. DOMAIN rec.ns = DOMAIN hosts
    BY <2>3
  <2>6. [i \in DOMAIN rec.ns |-> <<"NS", ns_address(zn, rec.ns[i])>>]
          = [i \in DOMAIN hosts |-> <<"NS", GlueIn(h, canonical(hosts[i]))>>]
    BY <2>4, <2>5
  <2>7. lookup(zn, n) = [i \in DOMAIN rec.a |-> <<"A", rec.a[i]>>]
                          \o [i \in DOMAIN rec.aaaa |-> <<"AAAA", rec.aaaa[i]>>]
                          \o [i \in DOMAIN rec.ns |-> <<"NS", ns_address(zn, rec.ns[i])>>]
    BY <1>2, <1>4, <2>1, Zenon DEF lookup
  <2>8. Answers(h, n) = [i \in DOMAIN rec.a |-> <<"A", rec.a[i]>>]
                          \o [i \in DOMAIN rec.aaaa |-> <<"AAAA", rec.aaaa[i]>>]
                          \o [i \in DOMAIN hosts |-> <<"NS", GlueIn(h, canonical(hosts[i]))>>]
    BY <2>2, <2>3, Zenon DEF Answers
  <2> QED BY <2>6, <2>7, <2>8, Zenon
<1> QED BY <1>3, <1>4

----------------------------------------------------------------------------
(* The lines of a dump.                                                    *)

(* Data that does not parse is never collected.                            *)
LEMMA DataGood ==
  ASSUME NEW lines \in Seq(GoodLines), NEW n, NEW ty
  PROVE  \A i \in 1..Len(Data(lines, n, ty)) : Data(lines, n, ty)[i] # Bad
<1>1. PICK m \in Nat : m = Len(lines)
  OBVIOUS
<1>2. PICK f : Collects(f, lines, n, ty) /\ Data(lines, n, ty) = f[m]
  BY <1>1, Collected
<1> DEFINE Clean(k) == \A i \in 1..Len(f[k]) : f[k][i] # Bad
           U == {k \in 0..m : ~Clean(k)}
<1>3. U = {}
  <2>1. SUFFICES ASSUME U # {} PROVE FALSE
    OBVIOUS
  <2>2. U \subseteq Nat
    OBVIOUS
  <2>3. PICK k \in U : \A y \in U : k <= y
    BY <2>1, <2>2, LeastNatural
  <2>4. k # 0
    <3>1. f[0] = <<>>
      BY <1>2 DEF Collects
    <3>2. Clean(0)
      BY <3>1
    <3> QED BY <2>3, <3>2
  <2>5. k \in 1..m /\ k - 1 \in 0..m /\ k - 1 \notin U
    BY <2>3, <2>4
  <2>6. PICK y \in Seq(Datas) : y = f[k - 1] /\ \A i \in 1..Len(y) : y[i] # Bad
    BY <1>1, <1>2, <2>5 DEF Collects
  <2>7. PICK v \in Datas : v = lines[k].data
    BY <1>1, <2>5 DEF GoodLines
  <2>8. f[k] = IF Kept(lines[k], n, ty) THEN Append(y, v) ELSE y
    BY <1>1, <1>2, <2>5, <2>6, <2>7, Zenon DEF Collects
  <2>9. CASE ~Kept(lines[k], n, ty)
    BY <2>3, <2>6, <2>8, <2>9
  <2>10. CASE Kept(lines[k], n, ty)
    <3>1. v # Bad
      BY <2>7, <2>10 DEF Kept
    <3>2. PICK t \in Seq(Datas) : IsAppended(t, y, v)
      BY Appended
    <3>3. f[k] = t
      BY <2>8, <2>10, <3>2 DEF IsAppended
    <3>4. PICK w \in Nat : w = Len(y)
      OBVIOUS
    <3>5. Len(t) = w + 1 /\ t[w + 1] = v /\ \A i \in 1..w : t[i] = y[i]
      BY <3>2, <3>4 DEF IsAppended
    <3>6. \A i \in 1..(w + 1) : i = w + 1 \/ i \in 1..w
      OBVIOUS
    <3>7. \A i \in 1..Len(t) : t[i] # Bad
      BY <2>6, <3>1, <3>4, <3>5, <3>6
    <3> QED BY <2>3, <3>3, <3>7
  <2> QED BY <2>9, <2>10
<1>4. m \in 0..m
  OBVIOUS
<1> QED BY <1>2, <1>3, <1>4

LinesOf(n, ty, s) == [i \in DOMAIN s |-> [name |-> n, type |-> ty, data |-> s[i]]]

Parsable(s, ty) == \A i \in 1..Len(s) : s[i] # Bad /\ (ty = "NS" => s[i] \in Names)
WrittenAs(t, n, ty, s) ==
  /\ t \in Seq(GoodLines)
  /\ \A m, uy : Data(t, m, uy) = IF m = n /\ uy = ty THEN s ELSE <<>>

(* The lines written for one name and type hold the data they were         *)
(* written from, and nothing for another name or type.                     *)
LEMMA LinesWritten ==
  ASSUME NEW n \in CanonicalNames, NEW ty \in Types, NEW s \in Seq(Datas), Parsable(s, ty)
  PROVE  WrittenAs(LinesOf(n, ty, s), n, ty, s)
<1>0. \A i \in 1..Len(s) : s[i] # Bad /\ (ty = "NS" => s[i] \in Names)
  BY DEF Parsable
<1>1. PICK k \in Nat : k = Len(s)
  OBVIOUS
<1>2. PICK t : t = LinesOf(n, ty, s)
  OBVIOUS
<1>3. t = [i \in 1..k |-> [name |-> n, type |-> ty, data |-> s[i]]]
  BY <1>1, <1>2 DEF LinesOf
<1>4. n \in Names /\ canonical(n) = n
  BY DEF CanonicalNames
<1>5. ASSUME NEW i \in 1..k
      PROVE  t[i] \in GoodLines /\ t[i].name = n /\ t[i].type = ty /\ t[i].data = s[i]
  <2>1. t[i] = [name |-> n, type |-> ty, data |-> s[i]]
    BY <1>3
  <2>2. s[i] \in Datas /\ (ty = "NS" => s[i] \in Names)
    BY <1>0, <1>1
  <2>3. t[i] \in [name : Names, type : {"A", "AAAA", "NS"}, data : Datas]
    BY <1>4, <2>1, <2>2 DEF Types
  <2> QED BY <1>4, <2>1, <2>2, <2>3 DEF GoodLines
<1>6. t \in Seq(GoodLines) /\ Len(t) = k
  <2>1. t \in [1..k -> GoodLines]
    BY <1>3, <1>5
  <2> QED BY <2>1
<1>7. ASSUME NEW i \in 1..k, NEW m, NEW uy PROVE Kept(t[i], m, uy) <=> m = n /\ uy = ty
  <2>1. s[i] # Bad
    BY <1>0, <1>1
  <2> QED BY <1>4, <1>5, <2>1 DEF Kept
<1>8. ASSUME NEW m, NEW uy, ~(m = n /\ uy = ty) PROVE Data(t, m, uy) = <<>>
  <2>1. \A i \in 1..Len(t) : ~Kept(t[i], m, uy)
    BY <1>6, <1>7, <1>8
  <2> QED BY <1>6, <2>1, DataNone
<1>9. Data(t, n, ty) = s
  <2>1. \A i \in 1..Len(t) : Kept(t[i], n, ty)
    BY <1>6, <1>7
  <2>2. Len(Data(t, n, ty)) = Len(t) /\ \A i \in 1..Len(t) : Data(t, n, ty)[i] = t[i].data
    BY <1>6, <2>1, DataAll
  <2>3. PICK d \in Seq(Datas) : d = Data(t, n, ty)
    BY <1>6, DataType
  <2>4. Len(d) = k /\ \A i \in 1..k : d[i] = s[i]
    BY <1>5, <1>6, <2>2, <2>3
  <2> QED BY <1>1, <2>3, <2>4, SeqEqual
<1> QED BY <1>2, <1>6, <1>8, <1>9 DEF WrittenAs

(* What a zone stores for a name and a type.                               *)
HostsOf(zn, n) == [i \in DOMAIN zn.records[n].ns |-> ns_hostname(zn, zn.records[n].ns[i])]
Stored(zn, n, ty) ==
  IF n \notin DOMAIN zn.records THEN <<>>
  ELSE IF ty = "A" THEN zn.records[n].a
  ELSE IF ty = "AAAA" THEN zn.records[n].aaaa
  ELSE HostsOf(zn, n)

LEMMA StoredIs ==
  ASSUME NEW h \in Seq(GoodLines), NEW zn, Represents(zn, h), NEW n \in DOMAIN zn.records
  PROVE  /\ n \in CanonicalNames
         /\ zn.records[n].a = Data(h, n, "A") /\ zn.records[n].aaaa = Data(h, n, "AAAA")
         /\ HostsOf(zn, n) \in Seq(Datas) /\ Len(HostsOf(zn, n)) = Len(Data(h, n, "NS"))
         /\ \A i \in 1..Len(HostsOf(zn, n)) :
              HostsOf(zn, n)[i] \in CanonicalNames /\ HostsOf(zn, n)[i] = canonical(Data(h, n, "NS")[i])
<1>1. PICK rec, pool : rec = zn.records[n] /\ pool = zn.ns_pool
  OBVIOUS
<1>2. n \in CanonicalNames /\ EntryOf(rec, pool, h, n) /\ pool \in Seq(CanonicalNames)
  BY <1>1 DEF Represents, Holds
<1>3. PICK hosts \in Seq(Datas) : hosts = Data(h, n, "NS")
  BY DataType
<1>4. /\ rec.a = Data(h, n, "A") /\ rec.aaaa = Data(h, n, "AAAA")
      /\ rec.ns \in Seq(Nat) /\ Len(rec.ns) = Len(hosts)
  BY <1>2, <1>3 DEF EntryOf
<1>5. \A i \in 1..Len(rec.ns) : rec.ns[i] \in 1..Len(pool) /\ pool[rec.ns[i]] = canonical(hosts[i])
  BY <1>2, <1>3, Zenon DEF EntryOf
<1>6. PICK k \in Nat : k = Len(hosts) /\ k = Len(rec.ns) /\ DOMAIN rec.ns = 1..k
  BY <1>4
<1>7. PICK q : q = HostsOf(zn, n)
  OBVIOUS
<1>8. q = [i \in 1..k |-> pool[rec.ns[i]]]
  BY <1>1, <1>6, <1>7 DEF HostsOf, ns_hostname
<1>9. ASSUME NEW i \in 1..k PROVE q[i] \in CanonicalNames /\ q[i] = canonical(hosts[i])
  BY <1>2, <1>5, <1>6, <1>8
<1>10. CanonicalNames \subseteq Datas
  BY DEF CanonicalNames, Datas
<1>11. q \in Seq(Datas) /\ Len(q) = k
  <2>1. q \in [1..k -> Datas]
    BY <1>8, <1>9, <1>10
  <2> QED BY <2>1
<1> QED BY <1>1, <1>2, <1>3, <1>4, <1>6, <1>7, <1>9, <1>11

(* The lines of one name.                                                  *)
LEMMA SerializedName ==
  ASSUME NEW h \in Seq(GoodLines), NEW zn, Represents(zn, h), NEW n \in DOMAIN zn.records
  PROVE  /\ serialize_name(zn, n) \in Seq(GoodLines)
         /\ \A m, ty : ty \in Types =>
              Data(serialize_name(zn, n), m, ty) = IF m = n THEN Stored(zn, n, ty) ELSE <<>>
<1>1. PICK xa, xb, xc : /\ xa = zn.records[n].a /\ xb = zn.records[n].aaaa /\ xc = HostsOf(zn, n)
  OBVIOUS
<1>2. /\ n \in CanonicalNames /\ xa = Data(h, n, "A") /\ xb = Data(h, n, "AAAA") /\ xc \in Seq(Datas)
      /\ \A i \in 1..Len(xc) : xc[i] \in CanonicalNames
  BY <1>1, StoredIs
<1>3. xa \in Seq(Datas) /\ xb \in Seq(Datas)
  BY <1>2, DataType
<1>4. (\A i \in 1..Len(xa) : xa[i] # Bad) /\ (\A i \in 1..Len(xb) : xb[i] # Bad)
  BY <1>2, DataGood
<1>5. \A i \in 1..Len(xc) : xc[i] # Bad /\ xc[i] \in Names
  BY <1>2, ZoneFileAssumption DEF CanonicalNames
<1>6. PICK ta, tb, tc : ta = LinesOf(n, "A", xa) /\ tb = LinesOf(n, "AAAA", xb) /\ tc = LinesOf(n, "NS", xc)
  OBVIOUS
<1>t. "A" \in Types /\ "AAAA" \in Types /\ "NS" \in Types
  BY DEF Types
<1>7. /\ ta \in Seq(GoodLines)
      /\ \A m, ty : Data(ta, m, ty) = IF m = n /\ ty = "A" THEN xa ELSE <<>>
  <2>1. Parsable(xa, "A")
    BY <1>4 DEF Parsable
  <2>2. WrittenAs(ta, n, "A", xa)
    BY <1>2, <1>3, <1>6, <1>t, <2>1, LinesWritten, Zenon
  <2> QED BY <2>2 DEF WrittenAs
<1>8. /\ tb \in Seq(GoodLines)
      /\ \A m, ty : Data(tb, m, ty) = IF m = n /\ ty = "AAAA" THEN xb ELSE <<>>
  <2>1. Parsable(xb, "AAAA")
    BY <1>4 DEF Parsable
  <2>2. WrittenAs(tb, n, "AAAA", xb)
    BY <1>2, <1>3, <1>6, <1>t, <2>1, LinesWritten, Zenon
  <2> QED BY <2>2 DEF WrittenAs
<1>9. /\ tc \in Seq(GoodLines)
      /\ \A m, ty : Data(tc, m, ty) = IF m = n /\ ty = "NS" THEN xc ELSE <<>>
  <2>1. Parsable(xc, "NS")
    BY <1>5 DEF Parsable
  <2>2. WrittenAs(tc, n, "NS", xc)
    BY <1>2, <1>3, <1>6, <1>t, <2>1, LinesWritten, Zenon
  <2> QED BY <2>2 DEF WrittenAs
<1>10. serialize_name(zn, n) = ta \o tb \o tc
  <2>1. tc = [i \in DOMAIN zn.records[n].ns |->
                [name |-> n, type |-> "NS", data |-> ns_hostname(zn, zn.records[n].ns[i])]]
    BY <1>1, <1>6 DEF LinesOf, HostsOf
  <2>2. /\ ta = [i \in DOMAIN zn.records[n].a |-> [name |-> n, type |-> "A", data |-> zn.records[n].a[i]]]
        /\ tb = [i \in DOMAIN zn.records[n].aaaa |-> [name |-> n, type |-> "AAAA", data |-> zn.records[n].aaaa[i]]]
    BY <1>1, <1>6 DEF LinesOf
  <2> QED BY <2>1, <2>2, Zenon DEF serialize_name
<1>p. PICK tab : tab = ta \o tb
  OBVIOUS
<1>o. tab \in Seq(GoodLines) /\ tab = ta \o tb
  BY <1>7, <1>8, <1>p
<1>11. tab \o tc \in Seq(GoodLines) /\ serialize_name(zn, n) = tab \o tc
  <2>1. tab \o tc \in Seq(GoodLines)
    BY <1>9, <1>o
  <2> QED BY <1>10, <1>o, <2>1, Zenon
<1>12. ASSUME NEW m, NEW ty \in Types
       PROVE  Data(tab \o tc, m, ty) = IF m = n THEN Stored(zn, n, ty) ELSE <<>>
  <2>0. tab \in Seq(GoodLines) /\ tc \in Seq(GoodLines)
    BY <1>9, <1>o
  <2>w. PICK w : w = tab \o tc
    OBVIOUS
  <2>v. Data(w, m, ty) = Data(tab, m, ty) \o Data(tc, m, ty)
    BY <2>0, <2>w, DataConcat
  <2>1. Data(tab \o tc, m, ty) = Data(tab, m, ty) \o Data(tc, m, ty)
    BY <2>v, <2>w, Zenon
  <2>2. Data(tab, m, ty) = Data(ta, m, ty) \o Data(tb, m, ty)
    BY <1>7, <1>8, <1>o, DataConcat
  <2>3. xa \o <<>> = xa /\ <<>> \o xb = xb /\ xb \o <<>> = xb /\ <<>> \o xc = xc /\ <<>> \o <<>> = <<>>
    BY <1>2, <1>3
  <2>4. CASE m # n
    <3>1. Data(ta, m, ty) = <<>> /\ Data(tb, m, ty) = <<>> /\ Data(tc, m, ty) = <<>>
      BY <1>7, <1>8, <1>9, <2>4
    <3> QED BY <2>1, <2>2, <2>3, <2>4, <3>1
  <2>5. CASE m = n /\ ty = "A"
    <3>1. Data(ta, m, ty) = xa /\ Data(tb, m, ty) = <<>> /\ Data(tc, m, ty) = <<>>
      BY <1>7, <1>8, <1>9, <2>5
    <3> QED BY <1>1, <2>1, <2>2, <2>3, <2>5, <3>1 DEF Stored
  <2>6. CASE m = n /\ ty = "AAAA"
    <3>1. Data(ta, m, ty) = <<>> /\ Data(tb, m, ty) = xb /\ Data(tc, m, ty) = <<>>
      BY <1>7, <1>8, <1>9, <2>6
    <3> QED BY <1>1, <2>1, <2>2, <2>3, <2>6, <3>1 DEF Stored
  <2>7. CASE m = n /\ ty = "NS"
    <3>1. Data(ta, m, ty) = <<>> /\ Data(tb, m, ty) = <<>> /\ Data(tc, m, ty) = xc
      BY <1>7, <1>8, <1>9, <2>7
    <3> QED BY <1>1, <2>1, <2>2, <2>3, <2>7, <3>1 DEF Stored
  <2> QED BY <2>4, <2>5, <2>6, <2>7 DEF Types
<1> QED BY <1>11, <1>12

(* The lines of a dump, name after name.                                   *)
Writes(f, zn, order) ==
  /\ f \in [0..Len(order) -> Seq(GoodLines)] /\ f[0] = <<>>
  /\ \A k \in 1..Len(order) : f[k] = f[k - 1] \o serialize_name(zn, order[k])

LEMMA SerializeWrites ==
  ASSUME NEW h \in Seq(GoodLines), NEW zn, Represents(zn, h), NEW order \in Seq(DOMAIN zn.records)
  PROVE  \E f : Writes(f, zn, order) /\ serialize(zn, order) = f[Len(order)]
<1>1. PICK m \in Nat : m = Len(order)
  OBVIOUS
<1> DEFINE G == Seq(GoodLines)
           one(k, s) == s \o serialize_name(zn, order[k])
           step == [e \in (1..m) \X G |-> one(e[1], e[2])]
<1>2. ASSUME NEW k \in 1..m, NEW s \in G PROVE one(k, s) \in G
  <2>1. order[k] \in DOMAIN zn.records
    BY <1>1
  <2>2. serialize_name(zn, order[k]) \in G
    BY <2>1, SerializedName
  <2> QED BY <2>2
<1>9. <<>> \in G
  OBVIOUS
<1> HIDE DEF one, G
<1>7. step \in [(1..m) \X G -> G]
  <2>1. \A e \in (1..m) \X G : one(e[1], e[2]) \in G
    BY <1>2
  <2> QED BY <2>1
<1>8. \A k \in 1..m, s \in G : step[<<k, s>>] = one(k, s)
  OBVIOUS
<1> HIDE DEF step
<1>10. PICK g : Solves(g, m, G, <<>>, step)
  BY <1>7, <1>9, FiniteRecursion, Zenon
<1>11. g \in [0..m -> G] /\ g = [k \in 0..m |-> IF k = 0 THEN <<>> ELSE step[<<k, g[k - 1]>>]]
  BY <1>10 DEF Solves
<1> DEFINE Is(f) == f = [k \in 0..m |-> IF k = 0 THEN <<>> ELSE one(k, f[k - 1])]
<1>12. ASSUME NEW k \in 0..m, k # 0 PROVE step[<<k, g[k - 1]>>] = one(k, g[k - 1])
  <2>1. k \in 1..m /\ k - 1 \in 0..m
    BY <1>12
  <2>2. g[k - 1] \in G
    BY <1>11, <2>1
  <2> QED BY <2>1, <2>2, <1>8
<1>13. Is(g)
  <2>1. [k \in 0..m |-> IF k = 0 THEN <<>> ELSE step[<<k, g[k - 1]>>]]
          = [k \in 0..m |-> IF k = 0 THEN <<>> ELSE one(k, g[k - 1])]
    BY <1>12
  <2> QED BY <1>11, <2>1, Zenon
<1> DEFINE f == CHOOSE x : Is(x)
<1>14. serialize(zn, order) = f[m]
  <2>1. serialize(zn, order) =
          (CHOOSE x : x = [k \in 0..m |-> IF k = 0 THEN <<>>
                                          ELSE x[k - 1] \o serialize_name(zn, order[k])])[m]
    BY <1>1 DEF serialize
  <2> QED BY <2>1 DEF one
<1>15. Is(f)
  BY <1>13, Zenon
<1> HIDE DEF f
<1>16. f = [k \in 0..m |-> f[k]] /\ \A k \in 0..m : f[k] = IF k = 0 THEN <<>> ELSE one(k, f[k - 1])
  BY <1>15, Zenon
<1> HIDE DEF Is
<1>z. f[0] = <<>>
  <2>1. 0 \in 0..m
    OBVIOUS
  <2> QED BY <2>1, <1>16, Zenon
<1> DEFINE U == {k \in 0..m : f[k] \notin G}
<1>17. U = {}
  <2>1. SUFFICES ASSUME U # {} PROVE FALSE
    OBVIOUS
  <2>2. U \subseteq Nat
    OBVIOUS
  <2>3. PICK k \in U : \A y \in U : k <= y
    BY <2>1, <2>2, LeastNatural
  <2>4. k # 0
    BY <2>3, <1>z, <1>9, Zenon
  <2>5. k \in 1..m /\ k \in 0..m /\ k - 1 \in 0..m /\ f[k - 1] \in G
    BY <2>3, <2>4
  <2>6. f[k] = one(k, f[k - 1])
    BY <2>4, <2>5, <1>16, Zenon
  <2>7. one(k, f[k - 1]) \in G
    BY <2>5, <1>2, Zenon
  <2> QED BY <2>3, <2>6, <2>7, Zenon
<1>18. Writes(f, zn, order)
  <2>1. f \in [0..m -> G]
    <3>1. \A k \in 0..m : f[k] \in G
      BY <1>17
    <3> QED BY <1>16, <3>1
  <2>3. ASSUME NEW k \in 1..m PROVE f[k] = one(k, f[k - 1])
    <3>1. k \in 0..m /\ k # 0
      OBVIOUS
    <3> QED BY <3>1, <1>16, Zenon
  <2> QED BY <1>1, <1>z, <2>1, <2>3 DEF Writes, one, G
<1> QED BY <1>1, <1>14, <1>18

(* The dump holds for every name what the zone stores for it.              *)
LEMMA Serialized ==
  ASSUME NEW h \in Seq(GoodLines), NEW zn, Represents(zn, h), NEW order \in SetToSeqs(DOMAIN zn.records)
  PROVE  /\ serialize(zn, order) \in Seq(GoodLines)
         /\ \A m, ty : ty \in Types => Data(serialize(zn, order), m, ty) = Stored(zn, m, ty)
<1>1. PICK D : D = DOMAIN zn.records /\ IsFiniteSet(D)
  BY DEF Represents, Holds
<1>2. PICK c \in Nat : c = Cardinality(D)
  BY <1>1, FS_CardinalityType
<1>3. order \in [1..c -> D] /\ \A i, j \in 1..c : i # j => order[i] # order[j]
  BY <1>1, <1>2 DEF SetToSeqs
<1>4. order \in Seq(D) /\ Len(order) = c
  BY <1>3
<1>5. \A n \in D : \E i \in 1..c : order[i] = n
  <2>1. order \in Injection(1..c, D)
    BY <1>3 DEF Injection, IsInjective
  <2>2. Cardinality(1..c) = c
    BY FS_Interval
  <2>3. order \in Surjection(1..c, D)
    BY <1>1, <1>2, <2>1, <2>2, FS_Injection
  <2> QED BY <2>3 DEF Surjection
<1>6. PICK f : Writes(f, zn, order) /\ serialize(zn, order) = f[c]
  BY <1>1, <1>4, SerializeWrites
<1>7. f \in [0..c -> Seq(GoodLines)] /\ f[0] = <<>>
        /\ \A k \in 1..c : f[k] = f[k - 1] \o serialize_name(zn, order[k])
  BY <1>4, <1>6, Zenon DEF Writes
<1>8. ASSUME NEW m, NEW ty \in Types PROVE Data(f[c], m, ty) = Stored(zn, m, ty)
  <2> DEFINE Seen(k) == \E j \in 1..k : order[j] = m
             Right(k) == Data(f[k], m, ty) = IF Seen(k) THEN Stored(zn, m, ty) ELSE <<>>
             U == {k \in 0..c : ~Right(k)}
  <2>1. U = {}
    <3>1. SUFFICES ASSUME U # {} PROVE FALSE
      OBVIOUS
    <3> HIDE DEF Right
    <3>2. U \subseteq Nat
      OBVIOUS
    <3>3. PICK k \in U : \A y \in U : k <= y
      BY <3>1, <3>2, LeastNatural
    <3>4. k # 0
      <4>1. Data(f[0], m, ty) = <<>>
        BY <1>7, DataEmpty
      <4>2. ~Seen(0)
        OBVIOUS
      <4>3. Right(0)
        BY <4>1, <4>2 DEF Right
      <4> QED BY <3>3, <4>3
    <3>5. k \in 1..c /\ k - 1 \in 0..c /\ Right(k - 1)
      BY <3>3, <3>4
    <3>6. PICK x \in Seq(GoodLines) : x = f[k - 1]
      BY <1>7, <3>5
    <3>7. PICK n \in D : n = order[k]
      BY <1>3, <3>5
    <3>8. PICK y \in Seq(GoodLines) : y = serialize_name(zn, n)
      BY <1>1, SerializedName
    <3>9. Data(y, m, ty) = IF m = n THEN Stored(zn, n, ty) ELSE <<>>
      BY <1>1, <3>8, SerializedName
    <3>10. f[k] = x \o y
      BY <1>7, <3>5, <3>6, <3>7, <3>8
    <3>11. Data(f[k], m, ty) = Data(x, m, ty) \o Data(y, m, ty)
      BY <3>10, DataConcat
    <3>12. Data(x, m, ty) = IF Seen(k - 1) THEN Stored(zn, m, ty) ELSE <<>>
      BY <3>5, <3>6, Zenon DEF Right
    <3>13. PICK dx \in Seq(Datas), dy \in Seq(Datas) : dx = Data(x, m, ty) /\ dy = Data(y, m, ty)
      BY DataType
    <3>14. dx \o <<>> = dx /\ <<>> \o dy = dy
      OBVIOUS
    <3>15. CASE m = n
      <4>1. Seen(k) /\ ~Seen(k - 1)
        <5>1. \A j \in 1..(k - 1) : j \in 1..c /\ j # k
          BY <3>5
        <5> QED BY <1>3, <3>5, <3>7, <3>15, <5>1
      <4>2. dx = <<>> /\ dy = Stored(zn, m, ty)
        BY <3>9, <3>12, <3>13, <3>15, <4>1
      <4>3. Right(k)
        BY <3>11, <3>13, <3>14, <4>1, <4>2 DEF Right
      <4> QED BY <3>3, <4>3
    <3>16. CASE m # n
      <4>1. Seen(k) <=> Seen(k - 1)
        <5>1. \A j \in 1..k : j = k \/ j \in 1..(k - 1)
          BY <3>5
        <5>2. \A j \in 1..(k - 1) : j \in 1..k
          BY <3>5
        <5> QED BY <3>7, <3>16, <5>1, <5>2
      <4>2. dy = <<>>
        BY <3>9, <3>13, <3>16
      <4>3. Data(f[k], m, ty) = dx
        BY <3>11, <3>13, <3>14, <4>2
      <4>4. Right(k)
        BY <3>12, <3>13, <4>1, <4>3 DEF Right
      <4> QED BY <3>3, <4>4
    <3> QED BY <3>15, <3>16
  <2>2. Right(c)
    <3>1. c \in 0..c
      OBVIOUS
    <3> HIDE DEF Right
    <3> QED BY <2>1, <3>1
  <2>3. CASE m \in D
    <3>1. Seen(c)
      BY <1>5, <2>3
    <3> QED BY <2>2, <3>1
  <2>4. CASE m \notin D
    <3>1. ~Seen(c)
      BY <1>3, <2>4
    <3>2. Stored(zn, m, ty) = <<>>
      BY <1>1, <2>4 DEF Stored
    <3> QED BY <2>2, <3>1, <3>2
  <2> QED BY <2>3, <2>4
<1>9. f[c] \in Seq(GoodLines)
  BY <1>7
<1> QED BY <1>6, <1>8, <1>9

(* The dump says what the lines of the file said, hosts in lower case.     *)
LEMMA DumpSays ==
  ASSUME NEW h \in Seq(GoodLines), NEW zn, Represents(zn, h), NEW s \in Seq(GoodLines),
         \A m, ty : ty \in Types => Data(s, m, ty) = Stored(zn, m, ty), NEW n \in Names
  PROVE  /\ Data(s, n, "A") = Data(h, n, "A") /\ Data(s, n, "AAAA") = Data(h, n, "AAAA")
         /\ Len(Data(s, n, "NS")) = Len(Data(h, n, "NS"))
         /\ \A i \in 1..Len(Data(h, n, "NS")) :
              /\ canonical(Data(s, n, "NS")[i]) = canonical(Data(h, n, "NS")[i])
              /\ canonical(Data(h, n, "NS")[i]) \in Names
<1>1. Data(s, n, "A") = Stored(zn, n, "A") /\ Data(s, n, "AAAA") = Stored(zn, n, "AAAA")
        /\ Data(s, n, "NS") = Stored(zn, n, "NS")
  BY DEF Types
<1>2. CASE n \notin DOMAIN zn.records
  <2>1. NoData(h, n)
    BY <1>2 DEF Represents, Holds
  <2>2. Data(h, n, "A") = <<>> /\ Data(h, n, "AAAA") = <<>> /\ Data(h, n, "NS") = <<>>
    BY <2>1 DEF NoData, Types
  <2>3. \A ty : Stored(zn, n, ty) = <<>>
    BY <1>2 DEF Stored
  <2> QED BY <1>1, <2>2, <2>3
<1>3. CASE n \in DOMAIN zn.records
  <2>1. Stored(zn, n, "A") = zn.records[n].a /\ Stored(zn, n, "AAAA") = zn.records[n].aaaa
          /\ Stored(zn, n, "NS") = HostsOf(zn, n)
    BY <1>3 DEF Stored
  <2>2. PICK hosts, q : hosts = Data(h, n, "NS") /\ q = HostsOf(zn, n)
    OBVIOUS
  <2>3. zn.records[n].a = Data(h, n, "A") /\ zn.records[n].aaaa = Data(h, n, "AAAA") /\ Len(q) = Len(hosts)
          /\ \A i \in 1..Len(q) : q[i] \in CanonicalNames /\ q[i] = canonical(hosts[i])
    BY <1>3, <2>2, StoredIs
  <2>4. \A i \in 1..Len(hosts) : canonical(q[i]) = canonical(hosts[i]) /\ canonical(hosts[i]) \in Names
    BY <2>3 DEF CanonicalNames
  <2> QED BY <1>1, <2>1, <2>2, <2>3, <2>4
<1> QED BY <1>2, <1>3

LEMMA DumpAnswers ==
  ASSUME NEW h \in Seq(GoodLines), NEW zn, Represents(zn, h), NEW s \in Seq(GoodLines),
         \A m, ty : ty \in Types => Data(s, m, ty) = Stored(zn, m, ty)
  PROVE  Held(s) = Held(h) /\ \A n \in Names : Answers(s, n) = Answers(h, n)
<1>1. ASSUME NEW n \in Names
      PROVE  /\ Data(s, n, "A") = Data(h, n, "A") /\ Data(s, n, "AAAA") = Data(h, n, "AAAA")
             /\ Len(Data(s, n, "NS")) = Len(Data(h, n, "NS"))
             /\ \A i \in 1..Len(Data(h, n, "NS")) :
                  /\ canonical(Data(s, n, "NS")[i]) = canonical(Data(h, n, "NS")[i])
                  /\ canonical(Data(h, n, "NS")[i]) \in Names
  BY DumpSays
<1>2. ASSUME NEW n \in Names PROVE NoData(s, n) <=> NoData(h, n)
  <2>1. PICK x \in Seq(Datas), y \in Seq(Datas) : x = Data(s, n, "NS") /\ y = Data(h, n, "NS")
    BY DataType
  <2>2. Len(x) = Len(y)
    BY <1>1, <2>1
  <2>3. x = <<>> <=> y = <<>>
    BY <2>2
  <2> QED BY <1>1, <2>1, <2>3 DEF NoData, Types
<1>3. Held(s) = Held(h)
  BY <1>2 DEF Held
<1>4. ASSUME NEW n \in Names PROVE GlueIn(s, n) = GlueIn(h, n)
  BY <1>1 DEF GlueIn
<1>5. ASSUME NEW n \in Names PROVE Answers(s, n) = Answers(h, n)
  <2>1. PICK x \in Seq(Datas), y \in Seq(Datas) : x = Data(s, n, "NS") /\ y = Data(h, n, "NS")
    BY DataType
  <2>2. DOMAIN x = DOMAIN y /\ \A i \in DOMAIN y : canonical(x[i]) = canonical(y[i]) /\ canonical(y[i]) \in Names
    BY <1>1, <2>1
  <2>3. \A i \in DOMAIN y : GlueIn(s, canonical(x[i])) = GlueIn(h, canonical(y[i]))
    BY <1>4, <2>2
  <2>4. [i \in DOMAIN x |-> <<"NS", GlueIn(s, canonical(x[i]))>>]
          = [i \in DOMAIN y |-> <<"NS", GlueIn(h, canonical(y[i]))>>]
    BY <2>2, <2>3
  <2>5. PICK da, db : da = Data(h, n, "A") /\ db = Data(h, n, "AAAA")
    OBVIOUS
  <2>6. Data(s, n, "A") = da /\ Data(s, n, "AAAA") = db
    BY <1>1, <2>5
  <2>7. Answers(s, n) = [i \in DOMAIN da |-> <<"A", da[i]>>] \o [i \in DOMAIN db |-> <<"AAAA", db[i]>>]
                          \o [i \in DOMAIN x |-> <<"NS", GlueIn(s, canonical(x[i]))>>]
    BY <2>1, <2>6, Zenon DEF Answers
  <2>8. Answers(h, n) = [i \in DOMAIN da |-> <<"A", da[i]>>] \o [i \in DOMAIN db |-> <<"AAAA", db[i]>>]
                          \o [i \in DOMAIN y |-> <<"NS", GlueIn(h, canonical(y[i]))>>]
    BY <2>1, <2>5, Zenon DEF Answers
  <2> QED BY <2>4, <2>7, <2>8, Zenon
<1> QED BY <1>3, <1>5

----------------------------------------------------------------------------
(* The three phases of a zone's text.                                      *)

(* The part h of the dump of org has been read into zn, txt is left.       *)
DumpRead(zn, txt, org, lines, order, h) ==
  /\ Represents(org, lines) /\ order \in SetToSeqs(DOMAIN org.records)
  /\ h \in Seq(GoodLines) /\ txt \in Seq(GoodLines) /\ h \o txt = serialize(org, order)
  /\ Represents(zn, h)

ZoneInv ==
  /\ phase \in {"file", "parsed", "dump", "loaded"}
  /\ fed \in Seq(Lines)
  /\ phase \in {"file", "parsed"} => Represents(z, fed)
  /\ phase \in {"dump", "loaded"} => \E order, h : DumpRead(z, text, origin, fed, order, h)
  /\ phase = "loaded" => text = <<>>

LEMMA FedIsGood ==
  ASSUME NEW s \in Seq(Lines) PROVE s \in Seq(GoodLines)
  BY LinesAreGood

LEMMA ZoneInvInit == ZoneInit => ZoneInv
  BY EmptyRepresents DEF ZoneInit, ZoneInv

LEMMA ZoneInvStep == ZoneInv /\ [ZoneNext]_zonevars => ZoneInv'
<1> SUFFICES ASSUME ZoneInv, [ZoneNext]_zonevars PROVE ZoneInv'
  OBVIOUS
<1>g. fed \in Seq(GoodLines)
  BY FedIsGood DEF ZoneInv
<1>1. ASSUME NEW line \in Lines, parse(line) PROVE ZoneInv'
  <2>1. phase = "file" /\ fed' = Append(fed, line) /\ z' = parse_line(z, line) /\ phase' = "file"
    BY <1>1 DEF parse
  <2>2. Represents(z, fed) /\ line \in GoodLines
    BY <2>1, LinesAreGood DEF ZoneInv
  <2>3. Represents(parse_line(z, line), Append(fed, line))
    BY <1>g, <2>2, ParseStep
  <2>4. Append(fed, line) \in Seq(Lines)
    BY DEF ZoneInv
  <2> QED BY <2>1, <2>3, <2>4 DEF ZoneInv
<1>2. ASSUME end_of_file PROVE ZoneInv'
  BY <1>2 DEF ZoneInv, end_of_file
<1>3. ASSUME NEW order \in SetToSeqs(DOMAIN z.records), dump(order) PROVE ZoneInv'
  <2>1. phase = "parsed" /\ origin' = z /\ text' = serialize(z, order) /\ z' = EmptyZone /\ phase' = "dump" /\ fed' = fed
    BY <1>3 DEF dump
  <2>2. Represents(z, fed)
    BY <2>1 DEF ZoneInv
  <2>3. PICK s \in Seq(GoodLines) : s = serialize(z, order)
    BY <1>g, <2>2, Serialized
  <2>4. <<>> \in Seq(GoodLines) /\ <<>> \o s = s
    OBVIOUS
  <2>5. DumpRead(EmptyZone, s, z, fed, order, <<>>)
    BY <2>2, <2>3, <2>4, EmptyRepresents DEF DumpRead
  <2>6. \E o, h : DumpRead(z', text', origin', fed', o, h)
    BY <2>1, <2>3, <2>5
  <2> QED BY <2>1, <2>6 DEF ZoneInv
<1>4. ASSUME parse_dump PROVE ZoneInv'
  <2>1. phase = "dump" /\ text # <<>> /\ z' = parse_line(z, Head(text)) /\ text' = Tail(text)
          /\ phase' = "dump" /\ fed' = fed /\ origin' = origin
    BY <1>4 DEF parse_dump
  <2>2. PICK order, h : DumpRead(z, text, origin, fed, order, h)
    BY <2>1 DEF ZoneInv
  <2>3. Represents(z, h) /\ h \in Seq(GoodLines) /\ text \in Seq(GoodLines) /\ h \o text = serialize(origin, order)
    BY <2>2 DEF DumpRead
  <2>a. PICK l, rest : l = Head(text) /\ rest = Tail(text)
    OBVIOUS
  <2>4. l \in GoodLines /\ rest \in Seq(GoodLines) /\ l = Head(text) /\ rest = Tail(text)
    BY <2>1, <2>3, <2>a
  <2>5. text = <<l>> \o rest
    BY <2>1, <2>3, <2>4
  <2>b. PICK h2 : h2 = Append(h, l)
    OBVIOUS
  <2>6. h2 \in Seq(GoodLines) /\ h2 = Append(h, l) /\ h2 = h \o <<l>>
    BY <2>3, <2>4, <2>b, AppendIsConcat
  <2>7. h2 \o rest = h \o text
    <3>1. <<l>> \in Seq(GoodLines)
      BY <2>4
    <3>2. (h \o <<l>>) \o rest = h \o (<<l>> \o rest)
      BY <2>3, <2>4, <3>1, ConcatAssociative
    <3> QED BY <2>5, <2>6, <3>2, Zenon
  <2>8. Represents(parse_line(z, l), h2)
    BY <2>3, <2>4, <2>6, ParseStep
  <2>9. DumpRead(z', text', origin', fed', order, h2)
    BY <2>1, <2>2, <2>3, <2>4, <2>6, <2>7, <2>8 DEF DumpRead
  <2> QED BY <2>1, <2>9 DEF ZoneInv
<1>5. ASSUME loaded PROVE ZoneInv'
  BY <1>5 DEF ZoneInv, loaded
<1>6. ASSUME UNCHANGED zonevars PROVE ZoneInv'
  BY <1>6 DEF ZoneInv, zonevars
<1> QED BY <1>1, <1>2, <1>3, <1>4, <1>5, <1>6 DEF ZoneNext

LEMMA ZoneInvHolds == ZoneSpec => []ZoneInv
  BY ZoneInvInit, ZoneInvStep, PTL DEF ZoneSpec

LEMMA AllNamesCanonical == AllNames \subseteq CanonicalNames /\ AllNames \subseteq Names
<1>1. ASSUME NEW l \in Lines PROVE canonical(l.name) \in CanonicalNames
  BY ZoneFileAssumption, CanonicalName
<1> QED BY <1>1 DEF AllNames, CanonicalNames

(* Parsing with interned NS hosts answers every lookup with the lines of   *)
(* the file (Zone::parse, zone.rs), whatever the file holds.               *)
THEOREM ParsingIsFaithful == ZoneSpec => []ParseIsFaithful
<1>1. ZoneInv => ParseIsFaithful
  <2> SUFFICES ASSUME ZoneInv, phase = "parsed", NEW n \in AllNames PROVE lookup(z, n) = Answers(fed, n)
    BY DEF ParseIsFaithful
  <2>1. Represents(z, fed) /\ fed \in Seq(GoodLines) /\ n \in Names
    BY FedIsGood, AllNamesCanonical DEF ZoneInv
  <2> QED BY <2>1, LookupAnswers
<1> QED BY <1>1, ZoneInvHolds, PTL

LEMMA AnswersEmpty ==
  ASSUME NEW h \in Seq(GoodLines), NEW n PROVE Answers(h, n) = <<>> <=> NoData(h, n)
<1>1. PICK x \in Seq(Datas), y \in Seq(Datas), w \in Seq(Datas) :
        x = Data(h, n, "A") /\ y = Data(h, n, "AAAA") /\ w = Data(h, n, "NS")
  BY DataType
<1>2. PICK ax, ay, aw : /\ ax = [i \in DOMAIN x |-> <<"A", x[i]>>]
                        /\ ay = [i \in DOMAIN y |-> <<"AAAA", y[i]>>]
                        /\ aw = [i \in DOMAIN w |-> <<"NS", GlueIn(h, canonical(w[i]))>>]
  OBVIOUS
<1>3. Answers(h, n) = ax \o ay \o aw
  BY <1>1, <1>2, Zenon DEF Answers
<1>4. PICK V : V = {<<"A", x[i]>> : i \in DOMAIN x} \cup {<<"AAAA", y[i]>> : i \in DOMAIN y}
                     \cup {<<"NS", GlueIn(h, canonical(w[i]))>> : i \in DOMAIN w}
  OBVIOUS
<1>b. PICK i1 \in Nat, i2 \in Nat, i3 \in Nat : i1 = Len(x) /\ i2 = Len(y) /\ i3 = Len(w)
  OBVIOUS
<1>c. ax \in [1..i1 -> V] /\ ay \in [1..i2 -> V] /\ aw \in [1..i3 -> V]
  BY <1>2, <1>4, <1>b
<1>5. ax \in Seq(V) /\ Len(ax) = Len(x)
  BY <1>b, <1>c, FunctionIsSeq
<1>6. ay \in Seq(V) /\ Len(ay) = Len(y)
  BY <1>b, <1>c, FunctionIsSeq
<1>7. aw \in Seq(V) /\ Len(aw) = Len(w)
  BY <1>b, <1>c, FunctionIsSeq
<1>8. (ax = <<>> <=> x = <<>>) /\ (ay = <<>> <=> y = <<>>) /\ (aw = <<>> <=> w = <<>>)
  BY <1>5, <1>6, <1>7
<1>d. PICK v : v = ax \o ay
  OBVIOUS
<1>9. v \in Seq(V) /\ v = ax \o ay
  BY <1>5, <1>6, <1>d
<1>10. v = <<>> <=> ax = <<>> /\ ay = <<>>
  BY <1>5, <1>6, <1>9, ConcatEqualIffEmpty
<1>11. v \o aw = <<>> <=> v = <<>> /\ aw = <<>>
  BY <1>7, <1>9, ConcatEqualIffEmpty
<1>12. NoData(h, n) <=> x = <<>> /\ y = <<>> /\ w = <<>>
  BY <1>1 DEF NoData, Types
<1>13. Answers(h, n) = v \o aw
  BY <1>3, <1>9
<1> QED BY <1>8, <1>10, <1>11, <1>12, <1>13

(* The zone name computed line by line (extend_suffix) is the longest      *)
(* suffix all names with a record share, for every file.                   *)
THEOREM ZoneNameIsLongestSuffix == ZoneSpec => []ZoneNameIsCommonSuffix
<1>1. ZoneInv => ZoneNameIsCommonSuffix
  <2> DEFINE held == {n \in AllNames : lookup(z, n) # <<>>}
  <2> SUFFICES ASSUME ZoneInv, phase = "parsed"
               PROVE  /\ \A n \in held : name_in_suffix(n, zone_name(z))
                      /\ held # {} => \E n \in held : \A s \in Suffixes(n) :
                           (\A m \in held : name_in_suffix(m, s)) => Len(s) <= Len(zone_name(z))
    BY DEF ZoneNameIsCommonSuffix
  <2>1. Represents(z, fed) /\ fed \in Seq(GoodLines) /\ fed \in Seq(Lines)
    BY FedIsGood DEF ZoneInv
  <2>2. ASSUME NEW n \in Names PROVE lookup(z, n) # <<>> <=> ~NoData(fed, n)
    <3>1. lookup(z, n) = Answers(fed, n)
      BY <2>1, LookupAnswers
    <3>2. Answers(fed, n) = <<>> <=> NoData(fed, n)
      BY <2>1, AnswersEmpty
    <3> QED BY <3>1, <3>2
  <2>3. ASSUME NEW n \in Names, ~NoData(fed, n) PROVE n \in AllNames
    <3>1. PICK ty \in Types : Data(fed, n, ty) # <<>>
      BY <2>3 DEF NoData
    <3>2. PICK k \in 1..Len(fed) : Kept(fed[k], n, ty)
      BY <2>1, <3>1, DataNone
    <3>3. fed[k] \in Lines /\ canonical(fed[k].name) = n
      BY <2>1, <3>2 DEF Kept
    <3> QED BY <3>3 DEF AllNames
  <2>4. held = Held(fed)
    BY <2>2, <2>3, AllNamesCanonical DEF Held
  <2>5. SuffixOf(z.suffix, held)
    BY <2>1, <2>4 DEF Represents, Holds
  <2>6. held \subseteq Names
    BY <2>4 DEF Held
  <2> HIDE DEF held
  <2>7. CASE held = {}
    BY <2>7
  <2>8. CASE held # {}
    <3>1. PICK sfx \in Names : sfx = z.suffix /\ \A s \in Names : IsSuffix(s, sfx) <=> \A n \in held : IsSuffix(s, n)
      BY <2>5, <2>8 DEF SuffixOf
    <3>2. zone_name(z) = sfx
      BY <3>1, NilIsNoName DEF zone_name
    <3>3. IsSuffix(sfx, sfx)
      BY SuffixOrder
    <3>4. \A n \in held : IsSuffix(sfx, n)
      BY <3>1, <3>3
    <3>5. ASSUME NEW n \in held, NEW s \in Suffixes(n), \A m \in held : IsSuffix(s, m)
          PROVE  Len(s) <= Len(sfx)
      <4>1. s \in Names
        <5>1. n \in Seq(DOMAIN Lower)
          BY <2>6 DEF Names
        <5>2. s = <<>> \/ \E l \in 1..Len(n) : s = SubSeq(n, l, Len(n))
          BY DEF Suffixes
        <5>3. \A l \in 1..Len(n) : SubSeq(n, l, Len(n)) \in Seq(DOMAIN Lower)
          BY <5>1
        <5>4. <<>> \in Seq(DOMAIN Lower)
          OBVIOUS
        <5> QED BY <5>2, <5>3, <5>4, Zenon DEF Names
      <4>2. IsSuffix(s, sfx)
        BY <3>1, <3>5, <4>1
      <4> QED BY <4>1, <4>2, SuffixOrder
    <3> QED BY <2>8, <3>2, <3>4, <3>5 DEF name_in_suffix
  <2> QED BY <2>7, <2>8
<1> QED BY <1>1, ZoneInvHolds, PTL

(* A client that loads the dump (Zone::serialize read back by Zone::parse) *)
(* answers every lookup as the server's zone does, for the same zone name, *)
(* whatever the file and the order of the dump.                            *)
THEOREM LoadedDumpAnswersAlike == ZoneSpec => []DumpAnswersAlike
<1>1. ZoneInv => DumpAnswersAlike
  <2> SUFFICES ASSUME ZoneInv, phase = "loaded"
               PROVE  /\ zone_name(z) = zone_name(origin)
                      /\ \A n \in AllNames : lookup(z, n) = lookup(origin, n)
    BY DEF DumpAnswersAlike
  <2>1. PICK order, h : DumpRead(z, text, origin, fed, order, h)
    BY DEF ZoneInv
  <2>2. /\ Represents(origin, fed) /\ order \in SetToSeqs(DOMAIN origin.records)
        /\ h \in Seq(GoodLines) /\ h \o text = serialize(origin, order) /\ Represents(z, h)
    BY <2>1 DEF DumpRead
  <2>3. fed \in Seq(GoodLines) /\ text = <<>>
    BY FedIsGood DEF ZoneInv
  <2>4. h = serialize(origin, order)
    <3>1. h \o <<>> = h
      BY <2>2
    <3> QED BY <2>2, <2>3, <3>1
  <2>5. \A m, ty : ty \in Types => Data(h, m, ty) = Stored(origin, m, ty)
    BY <2>2, <2>3, <2>4, Serialized
  <2>6. Held(h) = Held(fed) /\ \A n \in Names : Answers(h, n) = Answers(fed, n)
    BY <2>2, <2>3, <2>5, DumpAnswers
  <2>7. ASSUME NEW n \in AllNames PROVE lookup(z, n) = lookup(origin, n)
    <3>1. n \in Names
      BY AllNamesCanonical
    <3>2. lookup(z, n) = Answers(h, n) /\ lookup(origin, n) = Answers(fed, n)
      BY <2>2, <2>3, <3>1, LookupAnswers
    <3> QED BY <2>6, <3>1, <3>2
  <2>8. z.suffix = origin.suffix
    <3>1. SuffixOf(z.suffix, Held(h)) /\ SuffixOf(origin.suffix, Held(h))
      BY <2>2, <2>6 DEF Represents, Holds
    <3> QED BY <3>1, SuffixUnique
  <2>9. zone_name(z) = zone_name(origin)
    BY <2>8 DEF zone_name
  <2> QED BY <2>7, <2>9
<1> QED BY <1>1, ZoneInvHolds, PTL

=============================================================================
