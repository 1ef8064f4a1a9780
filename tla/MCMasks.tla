------------------------------ MODULE MCMasks ------------------------------
(* Three clients share a grid of four columns and two rows in unequal parts  *)
(* with halos, and leave a fifth column to none; one of them has another domain. *)
(* A field on each in the first step, one more on the grid in the second.     *)
EXTENDS Masks

Part(global, ibegin, ni, data_ibegin, data_ni) ==
    [ni_global |-> global, nj_global |-> 2, ibegin |-> ibegin, ni |-> ni, jbegin |-> 0, nj |-> 2,
     data_ibegin |-> data_ibegin, data_ni |-> data_ni, data_jbegin |-> 0, data_nj |-> 2]

MCDomains    == {"grid", "ice"}
MCMembers    == [d \in MCDomains |-> IF d = "grid" THEN {1, 2, 3} ELSE {3}]
MCDefinition ==
    [d \in MCDomains |->
        IF d = "grid" THEN <<Part(5, 0, 2, -1, 4), Part(5, 2, 1, -1, 2), Part(5, 3, 1, 0, 1)>>
                      ELSE [p \in {3} |-> Part(1, 0, 1, 0, 1)]]
MCLocal      == [d \in MCDomains |-> IF d = "grid" THEN <<4, 2, 2>> ELSE [p \in {3} |-> 2]]
MCPartial    == [d \in MCDomains |-> IF d = "grid" THEN 8 ELSE 2]
MCDomainOf   == [f \in {"t", "u", "s"} |-> IF f = "s" THEN "ice" ELSE "grid"]
MCStepOf     == [f \in {"t", "u", "s"} |-> IF f = "u" THEN 2 ELSE 1]

\* Masks that are all sea, runs of one, and many short runs next to a
\* long one, which are shorter as a bit mask
Patterns == {[n \in 0 .. 7 |-> TRUE], [n \in 0 .. 7 |-> n % 2 = 0],
             [n \in 0 .. 7 |-> n < 3 \/ n % 2 = 0]}

Opposite(m) == [n \in DOMAIN m |-> ~ m[n]]

Bits(m) ==
    [d \in MCDomains |-> [k \in 1 .. 2 |-> [p \in MCMembers[d] |->
        LET mine == [n \in Cells(MCDefinition[d][p]) |-> m[n]]
        IN  IF (k + p) % 2 = 0 THEN mine ELSE Opposite(mine)]]]

\* Dated masks of every pattern; one setup each for masks that are sent once, for
\* undated ones, and for a plan that does not apply the bit map
MCSetups ==
    {[masks |-> "dated", applyBitmap |-> TRUE, bits |-> Bits(m)] : m \in Patterns} \cup
    {[masks |-> masks, applyBitmap |-> masks # "dated", bits |-> Bits([n \in 0 .. 7 |-> n % 2 = 0])] :
        masks \in {"once", "undated", "dated"}}

\* MaskCompression on every mask of up to nine cells and on single long runs: what
\* is decoded is what was encoded, and the encoding chosen is the shorter one.
ASSUME RoundTrip ==
    /\ \A n \in 0 .. 8 : \A bits \in [0 .. n -> BOOLEAN] :
          /\ Decode(EncodeMask(bits)) = bits
          /\ EncodeMask(bits).size <= EncodeRunLength(bits).size
          /\ EncodeMask(bits).size <= EncodeBitMask(bits).size
    /\ \A n \in {255, 256, 257} : \A v \in BOOLEAN :
          LET bits == [i \in 0 .. n |-> IF i < n THEN v ELSE ~ v]
          IN  Decode(EncodeMask(bits)) = bits
=============================================================================
