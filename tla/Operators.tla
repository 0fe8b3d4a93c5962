----------------------------- MODULE Operators -----------------------------
(***************************************************************************)
(* Operators.java: the names of network operators.  A string of five or    *)
(* six characters that is a number is looked up in the table of            *)
(* selective-spn-conf.xml; any other string is its own name.  The result   *)
(* of the last lookup is kept in two static fields, stored (the string)    *)
(* and storedOperators (its name); the method that keeps them and the one  *)
(* that does not are meant to answer alike.                                *)
(***************************************************************************)
CONSTANTS Numeric,  \* strings of five or six digits
          Word,     \* other strings of five or six characters
          Long,     \* strings of any other length
          Table     \* the names of some of the numbers

NoString == "null"

Text == Numeric \cup Word \cup Long

ASSUME OperatorsAssumption ==
    /\ NoString \notin Text
    /\ Numeric \cap (Word \cup Long) = {}
    /\ DOMAIN Table \subseteq Numeric
    /\ \A n \in DOMAIN Table : Table[n] # NoString

\* initList: without the file the list is empty and names nothing.
NameOf(s) == IF s \in DOMAIN Table THEN Table[s] ELSE s

\* unOptimizedOperatorReplace
Replaced(s) == IF s \in Numeric THEN NameOf(s) ELSE s

EmptyCache == [stored |-> NoString, storedOperators |-> NoString]

\* Mutant: a string that the table does not name keeps the name before it.
CacheAfterNamed(c, s) ==
    IF s \notin Numeric \cup Word \/ (c.stored = s /\ c.storedOperators # NoString)
    THEN c
    ELSE [stored |-> s,
          storedOperators |-> IF s \in DOMAIN Table THEN NameOf(s) ELSE c.storedOperators]

\* operatorReplace: what it leaves in the two fields, and what it answers.
CacheAfter(c, s) ==
    IF s \notin Numeric \cup Word \/ (c.stored = s /\ c.storedOperators # NoString)
    THEN c
    ELSE [stored |-> s, storedOperators |-> Replaced(s)]

OperatorReplace(c, s) ==
    IF s \in Numeric \cup Word THEN CacheAfter(c, s).storedOperators ELSE s

\* operatorCheck: the long name, then the short one; a null is left alone.
CacheAfterBoth(c, p) == CacheAfter(CacheAfter(c, p[1]), p[2])
CheckedNames(c, p) ==
    <<OperatorReplace(c, p[1]), OperatorReplace(CacheAfter(c, p[1]), p[2])>>

CacheAgrees(c) ==
    \/ c = EmptyCache
    \/ /\ c.stored \in Numeric \cup Word
       /\ c.storedOperators = Replaced(c.stored)
       /\ c = [stored |-> c.stored, storedOperators |-> c.storedOperators]
=============================================================================
