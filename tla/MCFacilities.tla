---------------------------- MODULE MCFacilities ----------------------------
(***************************************************************************)
(* Small instances of FacilitiesSystem for TLC.                            *)
(***************************************************************************)
EXTENDS FacilitiesSystem, TLC

CONSTANTS k1, k2, bad, \* keys
          ascii, wide  \* a value of two letters, one of a letter of two bytes

MCChars == [v \in Values |-> IF v = wide THEN 1 ELSE 2]
MCBytes == [v \in Values |-> 2]

MCMessages == 1 .. MaxUp

Write(k, v) == <<SetCall(k, v)>>

(* Writes of each key, and reads.                                          *)
MCPackets ==
  {Write(k, v) : k \in Keys \ BadKeys, v \in Values}
    \cup {Write(k, ascii) : k \in BadKeys}
    \cup {<<GetCall(k)>> : k \in Keys}

KeySymmetry == Permutations(Keys \ BadKeys)
=============================================================================
