-------------------------- MODULE MCCreateWorkload --------------------------
EXTENDS CreateWorkload

CONSTANTS s1, k1, f1, f2

OneSlug == {s1}
OneKey == {k1}
TwoSites == {f1, f2}
MCCatalog == {[k \in OneKey |-> l] : l \in {"bootstrapped", "active"}}
MCSites == {{f1}, {f2}}
=============================================================================
