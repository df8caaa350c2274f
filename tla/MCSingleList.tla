---------------------------- MODULE MCSingleList ----------------------------
\* Model-checking instance of SingleList: four persons, of whom person 4 has
\* the same id as person 2.
EXTENDS SingleList

IdOf(p) == IF p = 4 THEN 2 ELSE p
=============================================================================
