-------------------------------- MODULE Ring --------------------------------
(***************************************************************************)
(* The ring buffers of internal/store, as the code lays them out: an array *)
(* of Size points, the next index to write, and whether it has wrapped.    *)
(* Series are created by the first point pushed to them and merged when    *)
(* their miner is given another id (pushLocked, rekeyLocked).              *)
(***************************************************************************)
EXTENDS Recent

CONSTANTS
    Keys, Values,
    Zero,       \* the zero HistoryPoint an array is made of
    Size        \* length of every ring

ASSUME RingAssumption == Size \in Nat \ {0} /\ Zero \notin Values

VARIABLE rings      \* key |-> its ring; no entry when the key has no history

Ring == [buf : [0..(Size - 1) -> Values \cup {Zero}],
         head : 0..(Size - 1), full : BOOLEAN]

NewRing == [buf |-> [i \in 0..(Size - 1) |-> Zero], head |-> 0, full |-> FALSE]

(* Mutant: head does not wrap. *)
NoWrap(h) == h + 1

NextHead(h) == (h + 1) % Size

Push(r, p) ==
    [buf  |-> [r.buf EXCEPT ![r.head] = p],
     head |-> NextHead(r.head),
     full |-> r.full \/ NextHead(r.head) = 0]

(* Mutant: a full ring is returned from the start of its array. *)
SliceUnrotated(r) ==
    [i \in 1..(IF r.full THEN Size ELSE r.head) |-> r.buf[i - 1]]

(* slice: a ring that has wrapped is copied in two parts, from the oldest  *)
(* point (at head) to the end of the array, then from its start to head.   *)
Slice(r) ==
    IF ~r.full
    THEN [i \in 1..r.head |-> r.buf[i - 1]]
    ELSE [i \in 1..Size |->
            IF i <= Size - r.head THEN r.buf[r.head + i - 1]
                                  ELSE r.buf[i - 1 - (Size - r.head)]]

(* The loop of rekeyLocked: dst with the points of src pushed, in order.   *)
Merged(dst, src) ==
    LET s == Slice(src)
        d[n \in 0..Len(s)] == IF n = 0 THEN dst ELSE Push(d[n - 1], s[n])
    IN  d[Len(s)]

-----------------------------------------------------------------------------
RingInit == rings = [k \in {} |-> NewRing]

PushPoint(k, p) ==
    rings' = [i \in DOMAIN rings \cup {k} |->
                IF i # k THEN rings[i]
                ELSE Push(IF k \in DOMAIN rings THEN rings[k] ELSE NewRing, p)]

(* rekeyLocked on history: without a ring under the new id the old one is  *)
(* moved there, else its points are pushed onto the ring that is there.    *)
Rekey(src, dst) ==
    /\ src \in DOMAIN rings
    /\ rings' = [i \in (DOMAIN rings \ {src}) \cup {dst} |->
                   IF i # dst THEN rings[i]
                   ELSE IF dst \in DOMAIN rings
                        THEN Merged(rings[dst], rings[src]) ELSE rings[src]]

RingNext ==
    \/ \E k \in Keys, p \in Values : PushPoint(k, p)
    \/ \E src, dst \in Keys : src # dst /\ Rekey(src, dst)

RingSpec == RingInit /\ [][RingNext]_rings

-----------------------------------------------------------------------------
(* Every ring is well formed: it holds points up to head, and everywhere   *)
(* once it has wrapped.                                                    *)
Filled(r) ==
    \A i \in 0..(Size - 1) : (r.full \/ i < r.head) => r.buf[i] \in Values

RingTypeOK ==
    /\ DOMAIN rings \subseteq Keys
    /\ \A k \in DOMAIN rings : rings[k] \in Ring /\ Filled(rings[k])

(* The rings implement bounded logs (store.go newRing, push, slice): what  *)
(* slice returns is always the last Size points, oldest first, through     *)
(* wrap-around, moves and merges of rings that are full or not.            *)
Logs == INSTANCE HistoryLog WITH
            log <- [k \in Keys |-> IF k \in DOMAIN rings THEN Slice(rings[k])
                                                         ELSE << >>]

KeepsRecentPoints == Logs!LogSpec
=============================================================================
