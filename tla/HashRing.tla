------------------------------ MODULE HashRing ------------------------------
(* pkg/charon/consistent_hash.go.  A ring is a record: the map from hash to  *)
(* shore and the sorted sequence of hashes.  The CRC32 of "<shore>#<i>" and  *)
(* of a key are given functions, so that collisions are a choice of the      *)
(* instance.                                                                 *)
EXTENDS Naturals, Sequences, FiniteSets, TLC

CONSTANTS
  Replicas,             \* virtual nodes per shore
  VirtualHash(_, _),    \* CRC32 of a shore ID and a replica number
  KeyHash(_)            \* CRC32 of a session key

EmptyRing == [nodes |-> <<>>, hashes |-> <<>>]

Sorted(hs) == SortSeq(hs, LAMBDA a, b : a < b)

ShoreHashes(s) == {VirtualHash(s, i) : i \in 1..Replicas}

(* Add appends every hash, a hash that is already there included. *)
RingAdd(ring, s) ==
  [nodes  |-> [h \in DOMAIN ring.nodes \cup ShoreHashes(s) |->
                 IF h \in ShoreHashes(s) THEN s ELSE ring.nodes[h]],
   hashes |-> Sorted(ring.hashes \o [i \in 1..Replicas |-> VirtualHash(s, i)])]

(* Remove deletes every hash of the shore and rebuilds the sorted hashes. *)
RingRemove(ring, s) ==
  LET kept == DOMAIN ring.nodes \ ShoreHashes(s)
      Ranked(i) == CHOOSE h \in kept : Cardinality({g \in kept : g < h}) = i - 1
  IN  [nodes |-> [h \in kept |-> ring.nodes[h]],
       hashes |-> [i \in 1..Cardinality(kept) |-> Ranked(i)]]

MutPosition(ring, key) ==
  LET after == {i \in 1..Len(ring.hashes) : ring.hashes[i] > KeyHash(key)}
  IN  IF after = {} THEN 1 ELSE CHOOSE i \in after : \A j \in after : i <= j

(* The first position whose hash is not below the key's, or the first.      *)
Position(ring, key) ==
  LET after == {i \in 1..Len(ring.hashes) : ring.hashes[i] >= KeyHash(key)}
  IN  IF after = {} THEN 1 ELSE CHOOSE i \in after : \A j \in after : i <= j

RingGet(ring, key) == ring.nodes[ring.hashes[Position(ring, key)]]

(* The shores met walking once round the ring from the key, each one once,  *)
(* and the first n of them.                                                  *)
RingGetN(ring, key, n) ==
  LET len == Len(ring.hashes)
      At(i) == ring.hashes[((Position(ring, key) - 1 + i) % len) + 1]
      walk == [i \in 1..len |-> ring.nodes[At(i - 1)]]
      met[i \in 0..len] ==
        IF i = 0 THEN <<>>
        ELSE IF \E j \in 1..(i - 1) : walk[j] = walk[i] THEN met[i - 1]
        ELSE Append(met[i - 1], walk[i])
  IN  IF len = 0 THEN <<>>
      ELSE SubSeq(met[len], 1, IF Len(met[len]) < n THEN Len(met[len]) ELSE n)
=============================================================================
