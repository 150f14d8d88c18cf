------------------------------ MODULE NodeTable ------------------------------
(***************************************************************************)
(* What GlobalResolver promises of its table of live nodes: each report of *)
(* a node replaces its entry at once, only a node silent for more than the *)
(* TTL is taken for offline, and a heartbeat never changes what a node     *)
(* advertised.  An entry holds the age of last_seen, not the time, and an  *)
(* age past the TTL is not told from another: an age is at most Ttl + 1.   *)
(*                                                                         *)
(* GlobalResolver implements this table with threads, a clock and a lock;  *)
(* NodeAgent is composed with it.                                          *)
(***************************************************************************)
EXTENDS Naturals

CONSTANTS
  Nodes,    \* canonical ids
  Offers,   \* the capabilities an advertisement leaves a node with, declared included
  Reports,  \* healths that nodes report
  None,     \* the entry of a node the table does not hold
  Ttl       \* ttl_seconds of expire()

VARIABLE table

Age == 0 .. Ttl + 1
Older(age) == IF age > Ttl THEN age ELSE age + 1

Empty == [n \in Nodes |-> None]

\* The time is read some delay before the entry is stored.
Advertise(n, caps, health, delay) ==
  table' = [table EXCEPT
              ![n] = [age |-> delay, health |-> health, caps |-> caps]]

\* Mutant: a heartbeat does not renew last_seen.
HeartbeatKeepingAge(n, health) ==
  table' = [table EXCEPT
              ![n] = [age |-> IF @ = None THEN 0 ELSE @.age, health |-> health,
                      caps |-> IF @ = None THEN {} ELSE @.caps]]

Heartbeat(n, health) ==
  table' = [table EXCEPT
              ![n] = [age |-> 0, health |-> health,
                      caps |-> IF @ = None THEN {} ELSE @.caps]]

MayLapse(n) == table[n] # None /\ table[n].age > Ttl

Lapse(lapsed) ==
  /\ \A n \in lapsed : MayLapse(n)
  /\ table' = [n \in Nodes |-> IF n \in lapsed
                               THEN [table[n] EXCEPT !.health = "offline"]
                               ELSE table[n]]

Tick == table' = [n \in Nodes |-> IF table[n] = None THEN None
                                  ELSE [table[n] EXCEPT !.age = Older(@)]]

\* The table is kept in memory only.
Restart == table' = Empty

Next ==
  \/ \E lapsed \in SUBSET Nodes : Lapse(lapsed)
  \/ Tick
  \/ Restart
  \/ \E n \in Nodes, health \in Reports : Heartbeat(n, health)
  \/ \E n \in Nodes, caps \in Offers, health \in Reports,
        delay \in Age : Advertise(n, caps, health, delay)

Spec == table = Empty /\ [][Next]_table
=============================================================================
