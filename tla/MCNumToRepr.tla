----------------------------- MODULE MCNumToRepr -----------------------------
EXTENDS NumToRepr

\* Every combination of limbs with zeros inside, full and next to a power of ten: the
\* two sides of all decades are among them.
Limbs == {0, 1, 9, 10, 99, 100, 999, 1000, 9999}
Sampled == {s \in UNION {[1..k -> Limbs] : k \in 2..5} :
              /\ s[Len(s)] # 0
              /\ Cardinality({s[i] : i \in 1..Len(s)}) <= 2}

\* All values of 8 and 16 bits, and those samples of the wider types.
Magnitudes(t) ==
    {<<v>> : v \in 0..9999} \cup
    IF t \in {"u16", "i16"} THEN {<<v % 10000, v \div 10000>> : v \in 10000..65535} ELSE Sampled

SomeValues(t) ==
    {[neg |-> FALSE, mag |-> m] :
        m \in {m \in Magnitudes(t) : Leq(m, MaxMag[t])} \cup {MaxMag[t]}}
    \cup IF t \in DOMAIN MinMag
         THEN {[neg |-> TRUE, mag |-> m] :
                 m \in {m \in Magnitudes(t) \ {<<0>>} : Leq(m, MinMag[t])} \cup {MinMag[t]}}
         ELSE {}
=============================================================================
