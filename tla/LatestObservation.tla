------------------------- MODULE LatestObservation -------------------------
(***************************************************************************)
(* What a reader of an inventory is promised: of all the reads that have    *)
(* reported, the one that STARTED last decides, whatever order they         *)
(* reported in.  Only when that one succeeded is its inventory current.     *)
(***************************************************************************)
EXTENDS Naturals

CONSTANTS Kind,    \* the inventories, each read on its own
          MaxReads \* bound: reads a behaviour may start

Ticket == 1..MaxReads

VARIABLES newest,  \* per kind, the last-started read that reported; 0 if none
          failing  \* per kind, whether that read failed

TruthInit == /\ newest = [k \in Kind |-> 0]
             /\ failing = [k \in Kind |-> FALSE]

\* Read t of kind k reports; an older one than the newest changes nothing.
Report(k, t, ok) ==
  /\ t > newest[k]
  /\ newest' = [newest EXCEPT ![k] = t]
  /\ failing' = [failing EXCEPT ![k] = ~ok]

TruthNext == \E k \in Kind, t \in Ticket, ok \in BOOLEAN : Report(k, t, ok)

TruthSpec == TruthInit /\ [][TruthNext]_<<newest, failing>>
=============================================================================
