---- MODULE MC_KeyRoll ----
EXTENDS KeyRoll
====
